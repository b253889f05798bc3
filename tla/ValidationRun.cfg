SPECIFICATION FairSpec
CONSTANTS
  Episodes = {e1, e2}
  LastRun = 2
  Runs <- MCRuns
  Jobs <- MCJobs
  EmptyTrash = EmptyTrash
  NoRun = NoRun
  MaxAttempts = 2
  MaxSaves = 2
INVARIANTS Inv SubmittedIsValidated AbandonedIsOver
PROPERTIES FindingsGoForward RunEnds
