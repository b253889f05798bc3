----------------------------- MODULE JobDelivery -----------------------------
(***************************************************************************)
(* What the job queue promises the code that uses it, whatever number of   *)
(* backend processes run on the database and wherever they are cut off:    *)
(* jobs are delivered oldest first, one at a time in the whole system, at  *)
(* least once and at most MaxAttempts times, and a job leaves the queue    *)
(* only after its handler returned or after MaxAttempts starts that never  *)
(* finished.                                                               *)
(*                                                                         *)
(* The docstrings of infra/queue_client.py state the promise; JobRunner    *)
(* (workers/runner.py over the jobs table) is shown to keep it.  The       *)
(* modules of the jobs' own rows (ValidationRun, ...) are composed with    *)
(* this module and not with the runner.                                    *)
(***************************************************************************)
EXTENDS Naturals

CONSTANTS
  Jobs,         \* identities of rows of the jobs table
  MaxAttempts   \* runner.MAX_ATTEMPTS

ASSUME MaxAttemptsAssumption == MaxAttempts \in Nat \ {0}

VARIABLES
  pending,    \* the jobs in the table, queued or running (job_pending)
  ahead,      \* ahead[j]: the jobs in the table with an earlier created_at
  tries,      \* Job.attempts
  handling,   \* the jobs whose handler is running now
  settled     \* the jobs whose handler returned, or given up on: to be acked

deliveryVars == <<pending, ahead, tries, handling, settled>>

DeliveryTypeOK ==
  /\ pending \in SUBSET Jobs
  /\ ahead \in [Jobs -> SUBSET Jobs]
  /\ tries \in [Jobs -> 0 .. MaxAttempts + 1]
  /\ handling \in SUBSET Jobs
  /\ settled \in SUBSET Jobs

DeliveryInit ==
  /\ pending = {}
  /\ ahead = [j \in Jobs |-> {}]
  /\ tries = [j \in Jobs |-> 0]
  /\ handling = {}
  /\ settled = {}

\* A start counted. Only compared with MaxAttempts, so not counted on past it
\* (an attempt cut off before its ack is counted again, without bound).
Counted(n) == IF n > MaxAttempts THEN n ELSE n + 1

(***************************************************************************)
(* Several jobs can be enqueued in one transaction; those are not ordered  *)
(* among themselves.                                                       *)
(***************************************************************************)
SubmitAll(new) ==
  /\ new \cap pending = {}
  /\ pending' = pending \cup new
  /\ ahead' = [j \in Jobs |-> IF j \in new THEN pending ELSE ahead[j]]
  /\ UNCHANGED <<tries, handling, settled>>

Submit(j) == SubmitAll({j})

\* Nothing is being worked on and j is the oldest job there is.
IsNext(j) ==
  /\ handling = {} /\ settled = {}
  /\ j \in pending /\ ahead[j] = {}

Start(j) ==
  /\ IsNext(j) /\ tries[j] < MaxAttempts
  /\ handling' = {j}
  /\ tries' = [tries EXCEPT ![j] = Counted(@)]
  /\ UNCHANGED <<pending, ahead, settled>>

GiveUp(j) ==
  /\ IsNext(j) /\ tries[j] >= MaxAttempts
  /\ settled' = {j}
  /\ tries' = [tries EXCEPT ![j] = Counted(@)]
  /\ UNCHANGED <<pending, ahead, handling>>

\* The handler returned or raised.
Finish(j) ==
  /\ j \in handling
  /\ handling' = {}
  /\ settled' = {j}
  /\ UNCHANGED <<pending, ahead, tries>>

Remove(j) ==
  /\ j \in settled
  /\ settled' = {}
  /\ pending' = pending \ {j}
  /\ ahead' = [i \in Jobs |-> IF i = j THEN {} ELSE ahead[i] \ {j}]
  /\ tries' = [tries EXCEPT ![j] = 0]
  /\ UNCHANGED handling

\* The process working on a job is gone, or stops without acking it: the job
\* stays pending and is delivered again.
Interrupt ==
  /\ handling \cup settled # {}
  /\ handling' = {}
  /\ settled' = {}
  /\ UNCHANGED <<pending, ahead, tries>>

DeliveryNext ==
  \/ \E new \in SUBSET Jobs : SubmitAll(new)
  \/ \E j \in Jobs : Start(j) \/ GiveUp(j) \/ Finish(j) \/ Remove(j)
  \/ Interrupt

DeliverySpec == DeliveryInit /\ [][DeliveryNext]_deliveryVars
===============================================================================
