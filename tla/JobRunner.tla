------------------------------ MODULE JobRunner ------------------------------
(***************************************************************************)
(* The job queue (infra/queue_client.py, a table of the app's database)    *)
(* and the job runner (workers/runner.py, a thread of each backend         *)
(* process), with processes starting, closing and dying at any point.      *)
(*                                                                         *)
(* Every transaction begins with BEGIN IMMEDIATE (models/db.py), so each   *)
(* is one action here.  A call that fails (database locked or unreadable)  *)
(* is retried and changes nothing: the action is then simply not taken.    *)
(* What a handler does to the row its job is for is the subject of the     *)
(* modules composed with JobDelivery; here it runs, and returns.           *)
(***************************************************************************)
EXTENDS Naturals, FiniteSets

CONSTANTS
  Procs,        \* backend processes that are started on the database
  Jobs,         \* identities of rows of the jobs table, reused once deleted
  MaxAttempts,  \* MAX_ATTEMPTS
  NoProc, NoJob

ASSUME RunnerAssumption ==
  /\ MaxAttempts \in Nat \ {0}
  /\ NoProc \notin Procs
  /\ NoJob \notin Jobs

VARIABLES
  status,    \* jobs table: "absent" (no such row), "queued" or "running"
  attempts,  \* jobs table: how many times it has been started
  ahead,     \* jobs table: the rows with an earlier created_at
  lock,      \* which process holds the lock on the runner lock file
  ready,     \* JobRunner._ready
  stop,      \* JobRunner._stop
  cur,       \* the job the runner's thread has taken
  pc         \* where the process and its runner thread are

table == <<status, attempts, ahead>>
runner == <<lock, ready, stop, cur, pc>>
vars == <<table, runner>>

\* "off": no process. "prepare"/"prepared": lifespan before serving, the lock
\* tried / held. "getReady", "recover": _get_ready, in the thread. "loop": the
\* loop's head. "dequeue", "wait", "handle", "ack": run_once. "stopped": the
\* thread returned, the process still there.
Points == {"off", "prepare", "prepared", "getReady", "recover", "loop",
           "dequeue", "wait", "handle", "ack", "stopped"}

InTable == {j \in Jobs : status[j] # "absent"}

\* Requests are served once prepare() is over, and until the process ends.
Serving == {p \in Procs : pc[p] \notin {"off", "prepare", "prepared"}}

Goto(p, there) == pc' = [pc EXCEPT ![p] = there]

Init ==
  /\ status = [j \in Jobs |-> "absent"]
  /\ attempts = [j \in Jobs |-> 0]
  /\ ahead = [j \in Jobs |-> {}]
  /\ lock = NoProc
  /\ ready = [p \in Procs |-> FALSE]
  /\ stop = [p \in Procs |-> FALSE]
  /\ cur = [p \in Procs |-> NoJob]
  /\ pc = [p \in Procs |-> "off"]

-----------------------------------------------------------------------------
(* The processes. *)

\* lifespan, up to JobRunner.prepare.
Launch(p) ==
  /\ pc[p] = "off"
  /\ Goto(p, "prepare")
  /\ UNCHANGED <<table, lock, ready, stop, cur>>

\* However the process ends, the OS releases its lock, its memory is gone and
\* the table stays as it was.
Die(p) ==
  /\ pc[p] # "off"
  /\ Goto(p, "off")
  /\ lock' = IF lock = p THEN NoProc ELSE lock
  /\ ready' = [ready EXCEPT ![p] = FALSE]
  /\ stop' = [stop EXCEPT ![p] = FALSE]
  /\ cur' = [cur EXCEPT ![p] = NoJob]
  /\ UNCHANGED table

\* stop(): what follows (join for 5 s, the process's end) is Die.
Stop(p) ==
  /\ p \in Serving
  /\ stop' = [stop EXCEPT ![p] = TRUE]
  /\ UNCHANGED <<table, lock, ready, cur, pc>>

-----------------------------------------------------------------------------
(* The queue's transactions and its lock. *)

\* Variant: the lock file is opened but not locked.
CanAlwaysHold(p) == TRUE

\* hold_runner_lock: True for the process that has it, or can take it.
CanHold(p) == lock \in {NoProc, p}

\* enqueue: by a request (or the hourly emptying of the trash) of any process
\* serving, several jobs in one transaction for a flag's siblings.
Enqueue(new) ==
  /\ Serving # {}
  /\ new # {} /\ new \cap InTable = {}
  /\ status' = [j \in Jobs |-> IF j \in new THEN "queued" ELSE status[j]]
  /\ ahead' = [j \in Jobs |-> IF j \in new THEN InTable ELSE ahead[j]]
  /\ UNCHANGED <<attempts, runner>>

\* recover: the jobs left running by an earlier start.
Requeued == [j \in Jobs |-> IF status[j] = "running" THEN "queued" ELSE status[j]]

\* Variant: dequeue without its ORDER BY.
AnyQueued(j) == status[j] = "queued"

Oldest(j) ==
  /\ status[j] = "queued"
  /\ \A i \in ahead[j] : status[i] # "queued"

-----------------------------------------------------------------------------
(* prepare(), before the API serves anything. *)

PrepareTakeLock(p) ==
  /\ pc[p] = "prepare" /\ CanHold(p)
  /\ lock' = p
  /\ Goto(p, "prepared")
  /\ UNCHANGED <<table, ready, stop, cur>>

\* Another process has it, or taking it raised.
PrepareWithoutLock(p) ==
  /\ pc[p] = "prepare"
  /\ Goto(p, "getReady")
  /\ UNCHANGED <<table, lock, ready, stop, cur>>

PrepareRecover(p) ==
  /\ pc[p] = "prepared"
  /\ status' = Requeued
  /\ ready' = [ready EXCEPT ![p] = TRUE]
  /\ Goto(p, "getReady")
  /\ UNCHANGED <<attempts, ahead, lock, stop, cur>>

\* recover() raised: the thread tries again, the lock is kept.
PrepareRecoverFails(p) ==
  /\ pc[p] = "prepared"
  /\ Goto(p, "getReady")
  /\ UNCHANGED <<table, lock, ready, stop, cur>>

-----------------------------------------------------------------------------
(* The thread: _run. *)

AlreadyReady(p) ==
  /\ pc[p] = "getReady" /\ ready[p]
  /\ Goto(p, "loop")
  /\ UNCHANGED <<table, lock, ready, stop, cur>>

TakeLock(p) ==
  /\ pc[p] = "getReady" /\ ~ready[p] /\ ~stop[p] /\ CanHold(p)
  /\ lock' = p
  /\ Goto(p, "recover")
  /\ UNCHANGED <<table, ready, stop, cur>>

Recover(p) ==
  /\ pc[p] = "recover" /\ ~stop[p]
  /\ status' = Requeued
  /\ ready' = [ready EXCEPT ![p] = TRUE]
  /\ Goto(p, "loop")
  /\ UNCHANGED <<attempts, ahead, lock, stop, cur>>

\* The loops of _take_lock, _recover and _run all end at a stop.
StopSeen(p) ==
  /\ stop[p]
  /\ \/ pc[p] = "getReady" /\ ~ready[p]
     \/ pc[p] \in {"recover", "loop"}
  /\ Goto(p, "stopped")
  /\ UNCHANGED <<table, lock, ready, stop, cur>>

\* _still_locked: a DatabaseQueueClient's lock is never lost while its process
\* lives, so the check answers True for the process that got this far.
StillLocked(p) ==
  /\ pc[p] = "loop" /\ ~stop[p] /\ lock = p
  /\ Goto(p, "dequeue")
  /\ UNCHANGED <<table, lock, ready, stop, cur>>

\* A start counted. Only compared with MAX_ATTEMPTS, so not counted on past it
\* (a start cut off before its ack is counted again, without bound).
Counted(n) == IF n > MaxAttempts THEN n ELSE n + 1

\* Variant: attempts are not looked at.
DequeueForever(p, j) ==
  /\ pc[p] = "dequeue" /\ Oldest(j)
  /\ status' = [status EXCEPT ![j] = "running"]
  /\ attempts' = [attempts EXCEPT ![j] = Counted(@)]
  /\ cur' = [cur EXCEPT ![p] = j]
  /\ Goto(p, "handle")
  /\ UNCHANGED <<ahead, lock, ready, stop>>

\* dequeue() gave the oldest queued job; run_once handles it or gives up on it.
Dequeue(p, j) ==
  /\ pc[p] = "dequeue" /\ Oldest(j)
  /\ status' = [status EXCEPT ![j] = "running"]
  /\ attempts' = [attempts EXCEPT ![j] = Counted(@)]
  /\ cur' = [cur EXCEPT ![p] = j]
  /\ Goto(p, IF attempts'[j] > MaxAttempts THEN "ack" ELSE "handle")
  /\ UNCHANGED <<ahead, lock, ready, stop>>

DequeueNone(p) ==
  /\ pc[p] = "dequeue"
  /\ \A j \in Jobs : status[j] # "queued"
  /\ Goto(p, "wait")
  /\ UNCHANGED <<table, lock, ready, stop, cur>>

\* dequeue() raised: a wait for the next try (or for stop), then the loop again.
DequeueFails(p) ==
  /\ pc[p] = "dequeue"
  /\ Goto(p, "loop")
  /\ UNCHANGED <<table, lock, ready, stop, cur>>

\* wait_for_job: a job was committed, or POLL_SECONDS passed (see WakeUp).
Waited(p) ==
  /\ pc[p] = "wait"
  /\ Goto(p, "loop")
  /\ UNCHANGED <<table, lock, ready, stop, cur>>

\* handle(job) returned or raised.
Handled(p) ==
  /\ pc[p] = "handle"
  /\ Goto(p, "ack")
  /\ UNCHANGED <<table, lock, ready, stop, cur>>

Ack(p) ==
  /\ pc[p] = "ack"
  /\ status' = [status EXCEPT ![cur[p]] = "absent"]
  /\ attempts' = [attempts EXCEPT ![cur[p]] = 0]
  /\ ahead' = [i \in Jobs |-> IF i = cur[p] THEN {} ELSE ahead[i] \ {cur[p]}]
  /\ cur' = [cur EXCEPT ![p] = NoJob]
  /\ Goto(p, "loop")
  /\ UNCHANGED <<lock, ready, stop>>

\* Variant: an ack that fails is not tried again.
AckOnce(p) ==
  /\ pc[p] = "ack"
  /\ cur' = [cur EXCEPT ![p] = NoJob]
  /\ Goto(p, "loop")
  /\ UNCHANGED <<table, lock, ready, stop>>

\* _ack failed and the runner is stopping: the job is left running.
LeaveRunning(p) ==
  /\ pc[p] = "ack" /\ stop[p]
  /\ cur' = [cur EXCEPT ![p] = NoJob]
  /\ Goto(p, "loop")
  /\ UNCHANGED <<table, lock, ready, stop>>

Thread(p) ==
  \/ AlreadyReady(p) \/ TakeLock(p) \/ Recover(p)
  \/ StopSeen(p) \/ StillLocked(p)
  \/ \E j \in Jobs : Dequeue(p, j)
  \/ DequeueNone(p) \/ DequeueFails(p) \/ Waited(p)
  \/ Handled(p) \/ Ack(p) \/ LeaveRunning(p)

Prepare(p) ==
  \/ PrepareTakeLock(p) \/ PrepareWithoutLock(p)
  \/ PrepareRecover(p) \/ PrepareRecoverFails(p)

Next ==
  \/ \E p \in Procs : Launch(p) \/ Die(p) \/ Stop(p) \/ Prepare(p) \/ Thread(p)
  \/ \E new \in SUBSET Jobs : Enqueue(new)

Spec == Init /\ [][Next]_vars

-----------------------------------------------------------------------------
(* Fairness: the operating system runs the threads, a database that failed   *)
(* answers again, a stopped process ends, an app that hangs is closed, and   *)
(* the app is opened again. The author may close it at any point.            *)

CONSTANT Hanging   \* jobs whose handler never returns
ASSUME HangingAssumption == Hanging \subseteq Jobs

HandlesHanging(p) == pc[p] = "handle" /\ cur[p] \in Hanging

Fairness == \A p \in Procs :
  /\ WF_vars(Launch(p))
  /\ WF_vars(Die(p) /\ (stop[p] \/ HandlesHanging(p)))
  /\ WF_vars(Prepare(p))
  /\ WF_vars(AlreadyReady(p) \/ TakeLock(p) \/ Recover(p) \/ StopSeen(p))
  /\ WF_vars(StillLocked(p) \/ DequeueNone(p) \/ Waited(p))
  /\ SF_vars(\E j \in Jobs : Dequeue(p, j))
  /\ WF_vars(Handled(p) /\ ~HandlesHanging(p))
  /\ WF_vars(Ack(p))

FairSpec == Spec /\ Fairness

-----------------------------------------------------------------------------
TypeOK ==
  /\ status \in [Jobs -> {"absent", "queued", "running"}]
  /\ attempts \in [Jobs -> 0 .. MaxAttempts + 1]
  /\ ahead \in [Jobs -> SUBSET Jobs]
  /\ lock \in Procs \cup {NoProc}
  /\ ready \in [Procs -> BOOLEAN]
  /\ stop \in [Procs -> BOOLEAN]
  /\ cur \in [Procs -> Jobs \cup {NoJob}]
  /\ pc \in [Procs -> Points]

Working(p) == pc[p] \in {"handle", "ack"}

\* One job at a time, in the whole system: of all the processes on the
\* database, only the one holding the lock works on a job, and that job is
\* running in the table and nobody else's - no recovery queued it again under
\* the handler, as a second runner or a late recovery would.
WorkIsOwned ==
  \A p \in Procs : Working(p) => lock = p /\ status[cur[p]] = "running"

\* While a runner is taking jobs, a job left running by an earlier start (or
\* by this one) is not stranded: each running job is the one it works on. A
\* stranded job would stay pending to the API and never run (_recover, _ack).
NothingStranded ==
  \A p \in Procs : ready[p] /\ ~stop[p] =>
    \A j \in Jobs : status[j] = "running" => cur[p] = j

\* The runner keeps the promise of the queue to its users: jobs oldest first,
\* one at a time, started MaxAttempts times at most, gone only once handled or
\* given up on, whatever processes die.
JobsAt(point) == {cur[p] : p \in {q \in Procs : pc[q] = point}}

Delivery == INSTANCE JobDelivery WITH
  pending <- InTable,
  tries <- attempts,
  handling <- JobsAt("handle"),
  settled <- JobsAt("ack")

KeepsDelivery == Delivery!DeliverySpec

\* No job stays in the queue for ever, even behind one that hangs every time:
\* that one is given up on after MaxAttempts starts, however the app was closed.
\* Excepted is an app closed again and again for ever, but for its dying with
\* the job that hangs in hand: closed so, it may never get anywhere.
KeepsBeingClosed ==
  []<><<\E p \in Procs : Stop(p) \/ (Die(p) /\ ~stop[p] /\ ~HandlesHanging(p))>>_vars

EveryJobLeaves ==
  \/ KeepsBeingClosed
  \/ \A j \in Jobs : j \in InTable ~> j \notin InTable
===============================================================================
