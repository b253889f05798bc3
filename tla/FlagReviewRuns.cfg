SPECIFICATION FairSpec
CONSTANTS
  f1 = f1
  f2 = f2
  a = a
  b = b
  c = c
  Flags = {f1}
  Values = {a, c}
  Said <- OneSaid
  Checks = {c1}
  Runs = {r1, r2}
  Jobs <- MCJobs
  Unset = Unset
  Deleted = Deleted
  NoFlag = NoFlag
  MaxAttempts = 2
INVARIANTS DismissedIsRemembered
PROPERTIES OutdatedFromOutside RevalidationEnds
