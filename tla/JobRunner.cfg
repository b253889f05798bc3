SPECIFICATION FairSpec
CONSTANTS
  Procs = {p1, p2}
  Jobs = {j1, j2, j3}
  MaxAttempts = 2
  NoProc = NoProc
  NoJob = NoJob
  Hanging = {j1}
INVARIANTS WorkIsOwned NothingStranded
PROPERTIES KeepsDelivery EveryJobLeaves
