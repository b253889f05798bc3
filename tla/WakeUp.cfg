\* The writers need not go on committing, nor the app be stopped; once the
\* runner has ended and every job is queued, nothing is left to happen.
SPECIFICATION WakeUpFairSpec
CONSTANTS
  Writers = {w1, w2}
  OwnJobs = {j1, j2}
  OtherJobs = {k1}
CHECK_DEADLOCK FALSE
INVARIANTS NoLostWakeUp StopIsHeard
PROPERTIES JobIsLookedFor
