------------------------------- MODULE WakeUp -------------------------------
(***************************************************************************)
(* How an idle runner learns of a job, inside one backend process:         *)
(* requests add jobs in their transactions and set an event after the      *)
(* commit (infra/queue_client.py: _job_committed, _wake_runner), the       *)
(* runner looks at the queue, and when it finds it empty waits on the      *)
(* event, clears it and looks again (run_once, wait_for_job); stop() sets  *)
(* its flag and wakes the runner.  A job another process committed sets no *)
(* event here: it is found at the next poll.                               *)
(*                                                                         *)
(* A transaction holds the database's write lock from its beginning, so a  *)
(* dequeue never runs while another transaction is open.  Which queued job *)
(* is taken is JobRunner's matter.                                         *)
(***************************************************************************)
EXTENDS Naturals, FiniteSets

CONSTANTS
  Writers,   \* threads serving requests in this process
  OwnJobs,   \* jobs enqueued by this process
  OtherJobs  \* jobs enqueued by another process on the same database

ASSUME WakeUpAssumption == OwnJobs \cap OtherJobs = {}

VARIABLES
  queued,    \* jobs table: the queued jobs, as committed
  adding,    \* adding[w]: jobs in w's open transaction; {} if it has none open
  flagged,   \* the writers whose session committed but has not yet run after_commit
  event,     \* _job_committed
  runner,    \* the runner's thread: "loop", "dequeue", "wait", "woken", "busy", "ended"
  stop,      \* JobRunner._stop
  stopper    \* stop(): "none", "waking" (flag set, wake() not called yet), "joining"

wakeUpVars == <<queued, adding, flagged, event, runner, stop, stopper>>

Open == {w \in Writers : adding[w] # {}}

WakeUpInit ==
  /\ queued = {}
  /\ adding = [w \in Writers |-> {}]
  /\ flagged = {}
  /\ event = FALSE
  /\ runner = "loop"
  /\ stop = FALSE
  /\ stopper = "none"

-----------------------------------------------------------------------------
(* Requests. *)

\* enqueue(): the session's transaction has the write lock.
Enqueue(w, new) ==
  /\ Open = {} /\ w \notin flagged
  /\ new # {} /\ new \cap queued = {}
  /\ adding' = [adding EXCEPT ![w] = new]
  /\ UNCHANGED <<queued, flagged, event, runner, stop, stopper>>

\* Variant: no after_commit listener.
CommitSilently(w) ==
  /\ adding[w] # {}
  /\ queued' = queued \cup adding[w]
  /\ adding' = [adding EXCEPT ![w] = {}]
  /\ UNCHANGED <<flagged, event, runner, stop, stopper>>

Commit(w) ==
  /\ adding[w] # {}
  /\ queued' = queued \cup adding[w]
  /\ adding' = [adding EXCEPT ![w] = {}]
  /\ flagged' = flagged \cup {w}
  /\ UNCHANGED <<event, runner, stop, stopper>>

\* after_rollback forgets what the session had enqueued.
Rollback(w) ==
  /\ adding[w] # {}
  /\ adding' = [adding EXCEPT ![w] = {}]
  /\ UNCHANGED <<queued, flagged, event, runner, stop, stopper>>

\* after_commit.
WakeRunner(w) ==
  /\ w \in flagged
  /\ flagged' = flagged \ {w}
  /\ event' = TRUE
  /\ UNCHANGED <<queued, adding, runner, stop, stopper>>

\* The other process commits a job.
OtherCommit(j) ==
  /\ Open = {} /\ j \notin queued
  /\ queued' = queued \cup {j}
  /\ UNCHANGED <<adding, flagged, event, runner, stop, stopper>>

-----------------------------------------------------------------------------
(* stop(), called as the app closes. *)

\* Variant: stop() does not call wake().
StopWithoutWake ==
  /\ stopper = "none"
  /\ stop' = TRUE
  /\ stopper' = "joining"
  /\ UNCHANGED <<queued, adding, flagged, event, runner>>

SetStop ==
  /\ stopper = "none"
  /\ stop' = TRUE
  /\ stopper' = "waking"
  /\ UNCHANGED <<queued, adding, flagged, event, runner>>

Wake ==
  /\ stopper = "waking"
  /\ event' = TRUE
  /\ stopper' = "joining"
  /\ UNCHANGED <<queued, adding, flagged, runner, stop>>

-----------------------------------------------------------------------------
(* The runner's thread. *)

LoopHead ==
  /\ runner = "loop"
  /\ runner' = IF stop THEN "ended" ELSE "dequeue"
  /\ UNCHANGED <<queued, adding, flagged, event, stop, stopper>>

Take(j) ==
  /\ runner = "dequeue" /\ Open = {}
  /\ j \in queued
  /\ queued' = queued \ {j}
  /\ runner' = "busy"
  /\ UNCHANGED <<adding, flagged, event, stop, stopper>>

FindNone ==
  /\ runner = "dequeue" /\ Open = {}
  /\ queued = {}
  /\ runner' = "wait"
  /\ UNCHANGED <<queued, adding, flagged, event, stop, stopper>>

\* run_once returned: the job was handled and acked.
Done ==
  /\ runner = "busy"
  /\ runner' = "loop"
  /\ UNCHANGED <<queued, adding, flagged, event, stop, stopper>>

Woken ==
  /\ runner = "wait" /\ event
  /\ runner' = "woken"
  /\ UNCHANGED <<queued, adding, flagged, event, stop, stopper>>

\* POLL_SECONDS passed.
Poll ==
  /\ runner = "wait"
  /\ runner' = "woken"
  /\ UNCHANGED <<queued, adding, flagged, event, stop, stopper>>

\* Variant: the runner waits again without another look at the queue.
ClearThenWait ==
  /\ runner = "woken"
  /\ event' = FALSE
  /\ runner' = IF stop THEN "loop" ELSE "wait"
  /\ UNCHANGED <<queued, adding, flagged, stop, stopper>>

Clear ==
  /\ runner = "woken"
  /\ event' = FALSE
  /\ runner' = "loop"
  /\ UNCHANGED <<queued, adding, flagged, stop, stopper>>

WakeUpNext ==
  \/ \E w \in Writers : \/ \E new \in SUBSET OwnJobs : Enqueue(w, new)
                        \/ Commit(w) \/ Rollback(w) \/ WakeRunner(w)
  \/ \E j \in OtherJobs : OtherCommit(j)
  \/ SetStop \/ Wake
  \/ LoopHead \/ \E j \in queued : Take(j)
  \/ FindNone \/ Done \/ Woken \/ Poll \/ Clear

WakeUpSpec == WakeUpInit /\ [][WakeUpNext]_wakeUpVars

\* A thread in the middle of a call goes on, and jobs return; the runner gets
\* the write lock in the end. No fairness for Poll: a
\* wait that never times out is enough for this process's own jobs.
WakeUpFairness ==
  /\ \A w \in Writers : WF_wakeUpVars(Commit(w) \/ Rollback(w)) /\ WF_wakeUpVars(WakeRunner(w))
  /\ WF_wakeUpVars(Wake)
  /\ WF_wakeUpVars(LoopHead \/ Done \/ Woken \/ Clear)
  /\ SF_wakeUpVars(FindNone \/ \E j \in queued : Take(j))

WakeUpFairSpec == WakeUpSpec /\ WakeUpFairness

-----------------------------------------------------------------------------
WakeUpTypeOK ==
  /\ queued \in SUBSET (OwnJobs \cup OtherJobs)
  /\ adding \in [Writers -> SUBSET OwnJobs]
  /\ flagged \in SUBSET Writers
  /\ event \in BOOLEAN
  /\ runner \in {"loop", "dequeue", "wait", "woken", "busy", "ended"}
  /\ stop \in BOOLEAN
  /\ stopper \in {"none", "waking", "joining"}

\* No wake-up is lost: a runner waiting while a job of this process is in the
\* queue has the event set, or about to be set by a writer that committed -
\* whatever commits between its look at the queue, its wait and the clear.
NoLostWakeUp ==
  runner = "wait" /\ queued \cap OwnJobs # {} => event \/ flagged # {}

\* Nor is a stop: it is not waited through.
StopIsHeard ==
  runner = "wait" /\ stop => event \/ stopper = "waking"

\* So a job committed here is looked for although the runner never polls; one
\* another process committed is looked for too, but for that it polls.
Polls == WF_wakeUpVars(Poll)
JobIsLookedFor ==
  /\ queued \cap OwnJobs # {} ~> runner = "dequeue" \/ stop
  /\ Polls => (queued # {} ~> runner = "dequeue" \/ stop)
===============================================================================
