SPECIFICATION Spec
CONSTANTS
  f1 = f1
  f2 = f2
  a = a
  b = b
  c = c
  Flags <- MCFlags
  Values <- MCValues
  Said <- MCSaid
  Checks = {c1, c2}
  Runs = {r1}
  Jobs <- MCJobs
  Unset = Unset
  Deleted = Deleted
  NoFlag = NoFlag
  MaxAttempts = 1
SYMMETRY Symmetry
INVARIANTS Inv ConfidenceIsOfReference ResolvedWasJudged
