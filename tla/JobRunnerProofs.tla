--------------------------- MODULE JobRunnerProofs ---------------------------
(***************************************************************************)
(* Proofs about the job runner, for every set of processes and jobs and    *)
(* every MAX_ATTEMPTS: its types, that a job being worked on is the lock   *)
(* holder's alone and running in the table, that no running job is         *)
(* stranded, and that the runner implements JobDelivery.                   *)
(***************************************************************************)
EXTENDS JobRunner, TLAPS

USE RunnerAssumption

(* The runner's phases: holding the lock, and recovered since it was taken. *)
Holding == {"prepared", "recover", "loop", "dequeue", "wait", "handle", "ack"}
Recovered == {"loop", "dequeue", "wait", "handle", "ack"}
BeforeRecovery == {"off", "prepare", "prepared", "recover"}

LockInv == \A p \in Procs : pc[p] \in Holding \/ ready[p] => lock = p

ReadyInv == \A p \in Procs :
  /\ pc[p] \in Recovered => ready[p]
  /\ pc[p] \in BeforeRecovery => ~ready[p]

CurInv == \A p \in Procs :
  /\ Working(p) => cur[p] \in Jobs /\ status[cur[p]] = "running"
  /\ ~Working(p) => cur[p] = NoJob

\* NothingStranded, also once a stop was asked for but not yet seen.
InTurn == {"dequeue", "wait", "handle", "ack"}
StrandedInv == \A p \in Procs :
  ready[p] /\ (~stop[p] \/ pc[p] \in InTurn) =>
    \A j \in Jobs : status[j] = "running" => cur[p] = j

\* No row is older than one that isn't there any more.
AheadInv == \A j \in Jobs : ahead[j] \subseteq InTable

IInv ==
  /\ TypeOK
  /\ LockInv
  /\ ReadyInv
  /\ CurInv
  /\ StrandedInv
  /\ AheadInv

-----------------------------------------------------------------------------
(* Every field has its type: the table's columns, the runner's state. *)
LEMMA TypeInit == Init => TypeOK
  BY DEF Init, TypeOK, Points

LEMMA TypeStep == TypeOK /\ [Next]_vars => TypeOK'
<1> SUFFICES ASSUME TypeOK, [Next]_vars PROVE TypeOK'
  OBVIOUS
<1> USE DEF TypeOK, Points, Goto, table, runner
<1>1. ASSUME NEW p \in Procs, Launch(p) PROVE TypeOK'
  BY <1>1 DEF Launch
<1>2. ASSUME NEW p \in Procs, Die(p) PROVE TypeOK'
  BY <1>2 DEF Die
<1>3. ASSUME NEW p \in Procs, Stop(p) PROVE TypeOK'
  BY <1>3 DEF Stop
<1>4. ASSUME NEW p \in Procs, Prepare(p) PROVE TypeOK'
  <2>1. CASE PrepareTakeLock(p) \/ PrepareWithoutLock(p) \/ PrepareRecoverFails(p)
    BY <2>1 DEF PrepareTakeLock, PrepareWithoutLock, PrepareRecoverFails
  <2>2. CASE PrepareRecover(p)
    BY <2>2 DEF PrepareRecover, Requeued
  <2> QED BY <1>4, <2>1, <2>2 DEF Prepare
<1>5. ASSUME NEW p \in Procs, Thread(p) PROVE TypeOK'
  <2>1. ASSUME NEW j \in Jobs, Dequeue(p, j) PROVE TypeOK'
    <3>1. Counted(attempts[j]) \in 0 .. MaxAttempts + 1
      BY DEF Counted
    <3> QED BY <2>1, <3>1 DEF Dequeue
  <2>2. CASE Ack(p)
    <3>1. ahead' \in [Jobs -> SUBSET Jobs]
      BY <2>2 DEF Ack
    <3>2. attempts' \in [Jobs -> 0 .. MaxAttempts + 1]
      <4>1. 0 \in 0 .. MaxAttempts + 1
        OBVIOUS
      <4> QED BY <2>2, <4>1 DEF Ack
    <3>3. status' \in [Jobs -> {"absent", "queued", "running"}]
      BY <2>2 DEF Ack
    <3>4. /\ cur' \in [Procs -> Jobs \cup {NoJob}]
          /\ pc' \in [Procs -> Points]
      BY <2>2 DEF Ack
    <3>5. UNCHANGED <<lock, ready, stop>>
      BY <2>2 DEF Ack
    <3> QED BY <3>1, <3>2, <3>3, <3>4, <3>5
  <2>3. CASE Recover(p)
    BY <2>3 DEF Recover, Requeued
  <2>4. CASE AlreadyReady(p) \/ TakeLock(p) \/ StopSeen(p) \/ StillLocked(p)
    BY <2>4 DEF AlreadyReady, TakeLock, StopSeen, StillLocked
  <2>5. CASE DequeueNone(p) \/ DequeueFails(p) \/ Waited(p) \/ Handled(p) \/ LeaveRunning(p)
    BY <2>5 DEF DequeueNone, DequeueFails, Waited, Handled, LeaveRunning
  <2> QED BY <1>5, <2>1, <2>2, <2>3, <2>4, <2>5 DEF Thread
<1>6. ASSUME NEW new \in SUBSET Jobs, Enqueue(new) PROVE TypeOK'
  BY <1>6 DEF Enqueue, InTable
<1>7. CASE UNCHANGED vars
  BY <1>7 DEF vars
<1> QED BY <1>1, <1>2, <1>3, <1>4, <1>5, <1>6, <1>7 DEF Next

THEOREM TypeCorrect == Spec => []TypeOK
  BY TypeInit, TypeStep, PTL DEF Spec

-----------------------------------------------------------------------------
LEMMA InvInit == Init => IInv
  BY TypeInit DEF Init, IInv, LockInv, ReadyInv, CurInv, StrandedInv, AheadInv,
     Working, Holding, Recovered, BeforeRecovery

(* The strengthening is inductive. *)
LEMMA InvStep == IInv /\ [Next]_vars => IInv'
<1> SUFFICES ASSUME IInv, [Next]_vars PROVE IInv'
  OBVIOUS
<1>0. TypeOK'
  BY TypeStep DEF IInv
<1> USE <1>0 DEF IInv, TypeOK, LockInv, ReadyInv, CurInv, StrandedInv, AheadInv,
                 Working, Holding, Recovered, BeforeRecovery, InTurn, InTable,
                 Goto, table, runner
<1>1. ASSUME NEW p \in Procs, Launch(p) PROVE IInv'
  BY <1>1 DEF Launch
<1>2. ASSUME NEW p \in Procs, Die(p) PROVE IInv'
  BY <1>2 DEF Die
<1>3. ASSUME NEW p \in Procs, Stop(p) PROVE IInv'
  BY <1>3 DEF Stop, Serving
<1>4. ASSUME NEW p \in Procs, Prepare(p) PROVE IInv'
  <2>1. CASE PrepareTakeLock(p)
    BY <2>1 DEF PrepareTakeLock, CanHold
  <2>2. CASE PrepareWithoutLock(p)
    BY <2>2 DEF PrepareWithoutLock
  <2>3. CASE PrepareRecover(p)
    BY <2>3 DEF PrepareRecover, Requeued
  <2>4. CASE PrepareRecoverFails(p)
    BY <2>4 DEF PrepareRecoverFails
  <2> QED BY <1>4, <2>1, <2>2, <2>3, <2>4 DEF Prepare
<1>5. ASSUME NEW p \in Procs, Thread(p) PROVE IInv'
  <2>1. CASE AlreadyReady(p)
    BY <2>1 DEF AlreadyReady
  <2>2. CASE TakeLock(p)
    BY <2>2 DEF TakeLock, CanHold
  <2>3. CASE Recover(p)
    BY <2>3 DEF Recover, Requeued
  <2>4. CASE StopSeen(p)
    BY <2>4 DEF StopSeen
  <2>5. CASE StillLocked(p)
    BY <2>5 DEF StillLocked
  <2>6. ASSUME NEW j \in Jobs, Dequeue(p, j) PROVE IInv'
    BY <2>6 DEF Dequeue, Oldest
  <2>7. CASE DequeueNone(p) \/ DequeueFails(p) \/ Waited(p) \/ Handled(p)
    BY <2>7 DEF DequeueNone, DequeueFails, Waited, Handled
  <2>8. CASE Ack(p)
    BY <2>8 DEF Ack
  <2>9. CASE LeaveRunning(p)
    BY <2>9 DEF LeaveRunning
  <2> QED BY <1>5, <2>1, <2>2, <2>3, <2>4, <2>5, <2>6, <2>7, <2>8, <2>9 DEF Thread
<1>6. ASSUME NEW new \in SUBSET Jobs, Enqueue(new) PROVE IInv'
  BY <1>6 DEF Enqueue
<1>7. CASE UNCHANGED vars
  BY <1>7 DEF vars
<1> QED BY <1>1, <1>2, <1>3, <1>4, <1>5, <1>6, <1>7 DEF Next

LEMMA Inductive == Spec => []IInv
  BY InvInit, InvStep, PTL DEF Spec

(* A job being worked on is running in the table, and its worker is the one   *)
(* process holding the runner lock: recover() never queues it again under the *)
(* handler.                                                                   *)
THEOREM OneRunner == Spec => []WorkIsOwned
<1>1. IInv => WorkIsOwned
  BY DEF IInv, LockInv, CurInv, WorkIsOwned, Working, Holding
<1> QED BY <1>1, Inductive, PTL

(* While a runner takes jobs, none is left running in the table with nobody   *)
(* working on it: what _recover and _ack wait for.                            *)
THEOREM NoneStranded == Spec => []NothingStranded
<1>1. IInv => NothingStranded
  BY DEF IInv, StrandedInv, NothingStranded
<1> QED BY <1>1, Inductive, PTL

-----------------------------------------------------------------------------
(* The runner implements JobDelivery. *)

(* Whoever holds the lock is the only one that can be working on a job. *)
LEMMA HolderWorksAlone ==
  ASSUME IInv, NEW p \in Procs, lock = p
  PROVE  /\ pc[p] = "handle" => JobsAt("handle") = {cur[p]} /\ JobsAt("ack") = {}
         /\ pc[p] = "ack" => JobsAt("handle") = {} /\ JobsAt("ack") = {cur[p]}
         /\ ~Working(p) => JobsAt("handle") = {} /\ JobsAt("ack") = {}
<1>1. \A q \in Procs : Working(q) => q = p
  BY DEF IInv, LockInv, Working, Holding
<1> QED BY <1>1 DEF JobsAt, Working

LEMMA HolderWorksAloneNext ==
  ASSUME IInv', NEW p \in Procs, lock' = p
  PROVE  /\ pc'[p] = "handle" => JobsAt("handle")' = {cur'[p]} /\ JobsAt("ack")' = {}
         /\ pc'[p] = "ack" => JobsAt("handle")' = {} /\ JobsAt("ack")' = {cur'[p]}
         /\ ~Working(p)' => JobsAt("handle")' = {} /\ JobsAt("ack")' = {}
<1>1. \A q \in Procs : Working(q)' => q = p
  BY DEF IInv, LockInv, Working, Holding
<1> QED BY <1>1 DEF JobsAt, Working

(* Steps that neither begin nor end work on a job leave those sets alone. *)
LEMMA WorkUnchanged ==
  ASSUME TypeOK, cur' = cur, NEW p \in Procs,
         NEW there \in Points, Goto(p, there),
         ~Working(p), there \notin {"handle", "ack"}
  PROVE  JobsAt("handle")' = JobsAt("handle") /\ JobsAt("ack")' = JobsAt("ack")
<1>1. \A q \in Procs : /\ pc'[q] = "handle" <=> pc[q] = "handle"
                       /\ pc'[q] = "ack" <=> pc[q] = "ack"
  BY DEF TypeOK, Goto, Working
<1> QED BY <1>1 DEF JobsAt

LEMMA MapsStutter ==
  ASSUME UNCHANGED <<attempts, ahead>>, InTable' = InTable,
         JobsAt("handle")' = JobsAt("handle"), JobsAt("ack")' = JobsAt("ack")
  PROVE  UNCHANGED Delivery!deliveryVars
  BY DEF Delivery!deliveryVars

LEMMA RequeuedStaysInTable ==
  ASSUME TypeOK, status' = Requeued PROVE InTable' = InTable
  BY DEF TypeOK, Requeued, InTable

(* A step of a thread or of prepare() that is no start or end of work. *)
LEMMA QuietStep ==
  ASSUME IInv, NEW p \in Procs,
         \/ Launch(p) \/ Stop(p) \/ Prepare(p)
         \/ AlreadyReady(p) \/ TakeLock(p) \/ Recover(p) \/ StopSeen(p)
         \/ StillLocked(p) \/ DequeueNone(p) \/ DequeueFails(p) \/ Waited(p)
  PROVE  UNCHANGED Delivery!deliveryVars
<1> USE DEF Goto, table
<1>1. TypeOK
  BY DEF IInv
<1>2. InTable' = InTable
  <2>1. status' = status \/ status' = Requeued
    BY DEF Launch, Stop, Prepare, PrepareTakeLock, PrepareWithoutLock, PrepareRecover,
           PrepareRecoverFails, AlreadyReady, TakeLock, Recover, StopSeen, StillLocked,
           DequeueNone, DequeueFails, Waited
  <2> QED BY <1>1, <2>1, RequeuedStaysInTable DEF InTable
<1>3. UNCHANGED <<attempts, ahead>>
  BY DEF Launch, Stop, Prepare, PrepareTakeLock, PrepareWithoutLock, PrepareRecover,
         PrepareRecoverFails, AlreadyReady, TakeLock, Recover, StopSeen, StillLocked,
         DequeueNone, DequeueFails, Waited
<1>4. cur' = cur
  BY DEF Launch, Stop, Prepare, PrepareTakeLock, PrepareWithoutLock, PrepareRecover,
         PrepareRecoverFails, AlreadyReady, TakeLock, Recover, StopSeen, StillLocked,
         DequeueNone, DequeueFails, Waited
<1>5. JobsAt("handle")' = JobsAt("handle") /\ JobsAt("ack")' = JobsAt("ack")
  <2>1. CASE Stop(p)
    BY <2>1 DEF Stop, JobsAt
  <2>2. CASE ~Stop(p)
    <3>1. PICK there \in Points \ {"handle", "ack"} : Goto(p, there)
      BY <2>2 DEF Launch, Prepare, PrepareTakeLock, PrepareWithoutLock, PrepareRecover,
         PrepareRecoverFails, AlreadyReady, TakeLock, Recover, StopSeen, StillLocked,
         DequeueNone, DequeueFails, Waited, Points
    <3>2. ~Working(p)
      BY <2>2 DEF Launch, Prepare, PrepareTakeLock, PrepareWithoutLock, PrepareRecover,
         PrepareRecoverFails, AlreadyReady, TakeLock, Recover, StopSeen, StillLocked,
         DequeueNone, DequeueFails, Waited, Working
    <3> QED BY <1>1, <1>4, <3>1, <3>2, WorkUnchanged
  <2> QED BY <2>1, <2>2
<1> QED BY <1>2, <1>3, <1>5, MapsStutter

LEMMA MapsInit == Init => Delivery!DeliveryInit
<1> SUFFICES ASSUME Init PROVE Delivery!DeliveryInit
  OBVIOUS
<1>1. InTable = {} /\ JobsAt("handle") = {} /\ JobsAt("ack") = {}
  BY DEF Init, InTable, JobsAt
<1> QED BY <1>1 DEF Init, Delivery!DeliveryInit

LEMMA MapsStep == IInv /\ [Next]_vars => [Delivery!DeliveryNext]_Delivery!deliveryVars
<1> SUFFICES ASSUME IInv, [Next]_vars
             PROVE  Delivery!DeliveryNext \/ UNCHANGED Delivery!deliveryVars
  OBVIOUS
<1>0. TypeOK /\ TypeOK'
  BY TypeStep DEF IInv
<1>1. ASSUME NEW p \in Procs, Launch(p) \/ Stop(p) \/ Prepare(p)
      PROVE  UNCHANGED Delivery!deliveryVars
  BY <1>1, QuietStep
<1>2. ASSUME NEW p \in Procs, Die(p)
      PROVE  Delivery!DeliveryNext \/ UNCHANGED Delivery!deliveryVars
  <2>1. UNCHANGED <<attempts, ahead>> /\ InTable' = InTable
    BY <1>2 DEF Die, table, InTable
  <2>2. CASE Working(p)
    <3>1. lock = p
      BY <2>2 DEF IInv, LockInv, Working, Holding
    <3>2. \A q \in Procs : q # p => ~Working(q)
      BY <3>1 DEF IInv, LockInv, Working, Holding
    <3>3. \A q \in Procs : ~Working(q)'
      BY <1>0, <1>2, <3>2 DEF Die, Goto, Working, TypeOK
    <3>4. JobsAt("handle")' = {} /\ JobsAt("ack")' = {}
      BY <3>3 DEF JobsAt, Working
    <3>5. JobsAt("handle") \cup JobsAt("ack") # {}
      BY <2>2, <3>1, HolderWorksAlone DEF Working
    <3>6. Delivery!Interrupt
      BY <2>1, <3>4, <3>5 DEF Delivery!Interrupt
    <3> QED BY <3>6 DEF Delivery!DeliveryNext
  <2>3. CASE ~Working(p)
    <3>1. \A q \in Procs : /\ pc'[q] = "handle" <=> pc[q] = "handle"
                           /\ pc'[q] = "ack" <=> pc[q] = "ack"
      BY <1>0, <1>2, <2>3 DEF Die, Goto, Working, TypeOK
    <3>2. \A q \in Procs : pc[q] \in {"handle", "ack"} => cur'[q] = cur[q]
      BY <1>0, <1>2, <2>3 DEF Die, Working, TypeOK
    <3>3. JobsAt("handle")' = JobsAt("handle") /\ JobsAt("ack")' = JobsAt("ack")
      BY <3>1, <3>2 DEF JobsAt
    <3> QED BY <2>1, <3>3, MapsStutter
  <2> QED BY <2>2, <2>3
<1>3. ASSUME NEW p \in Procs, Thread(p)
      PROVE  Delivery!DeliveryNext \/ UNCHANGED Delivery!deliveryVars
  <2>1. ASSUME NEW j \in Jobs, Dequeue(p, j) PROVE Delivery!DeliveryNext
    <3>1. lock = p /\ ready[p] /\ ~Working(p)
      BY <2>1 DEF Dequeue, IInv, LockInv, ReadyInv, Holding, Recovered, Working
    <3>2. JobsAt("handle") = {} /\ JobsAt("ack") = {}
      BY <3>1, HolderWorksAlone
    <3>3. \A i \in Jobs : status[i] # "running"
      BY <2>1, <3>1 DEF Dequeue, IInv, StrandedInv, CurInv, InTurn, TypeOK
    <3>4. j \in InTable /\ ahead[j] = {}
      BY <1>0, <2>1, <3>3 DEF Dequeue, Oldest, IInv, AheadInv, InTable, TypeOK
    <3>5. Delivery!IsNext(j)
      BY <3>2, <3>4 DEF Delivery!IsNext
    <3>6. InTable' = InTable /\ ahead' = ahead
      BY <1>0, <2>1 DEF Dequeue, InTable, Oldest, TypeOK
    <3>7. lock' = p /\ cur'[p] = j
      BY <1>0, <2>1, <3>1 DEF Dequeue, TypeOK
    <3>8. IInv'
      BY InvStep
    <3>9. attempts' = [attempts EXCEPT ![j] = Delivery!Counted(@)]
      BY <2>1 DEF Dequeue, Counted, Delivery!Counted
    <3>10. attempts'[j] > MaxAttempts <=> attempts[j] >= MaxAttempts
      BY <1>0, <2>1 DEF Dequeue, Counted, TypeOK
    <3>11. CASE attempts[j] < MaxAttempts
      <4>1. pc'[p] = "handle"
        BY <1>0, <2>1, <3>10, <3>11 DEF Dequeue, Goto, TypeOK
      <4>2. JobsAt("handle")' = {j} /\ JobsAt("ack")' = {}
        BY <3>7, <3>8, <4>1, HolderWorksAloneNext
      <4>3. Delivery!Start(j)
        BY <3>2, <3>5, <3>6, <3>9, <3>11, <4>2 DEF Delivery!Start
      <4> QED BY <4>3 DEF Delivery!DeliveryNext
    <3>12. CASE attempts[j] >= MaxAttempts
      <4>1. pc'[p] = "ack"
        BY <1>0, <2>1, <3>10, <3>12 DEF Dequeue, Goto, TypeOK
      <4>2. JobsAt("handle")' = {} /\ JobsAt("ack")' = {j}
        BY <3>7, <3>8, <4>1, HolderWorksAloneNext
      <4>3. Delivery!GiveUp(j)
        BY <3>2, <3>5, <3>6, <3>9, <3>12, <4>2 DEF Delivery!GiveUp
      <4> QED BY <4>3 DEF Delivery!DeliveryNext
    <3> QED BY <1>0, <3>11, <3>12 DEF TypeOK
  <2>2. CASE Handled(p)
    <3>1. lock = p /\ lock' = p /\ cur'[p] = cur[p] /\ cur[p] \in Jobs
      BY <2>2 DEF Handled, IInv, LockInv, CurInv, Holding, Working
    <3>2. pc[p] = "handle" /\ pc'[p] = "ack"
      BY <1>0, <2>2 DEF Handled, Goto, TypeOK
    <3>3. IInv'
      BY InvStep
    <3>4. JobsAt("handle") = {cur[p]} /\ JobsAt("ack") = {}
      BY <3>1, <3>2, HolderWorksAlone
    <3>5. JobsAt("handle")' = {} /\ JobsAt("ack")' = {cur[p]}
      BY <3>1, <3>2, <3>3, HolderWorksAloneNext
    <3>6. Delivery!Finish(cur[p])
      BY <2>2, <3>4, <3>5 DEF Handled, table, InTable, Delivery!Finish
    <3> QED BY <3>1, <3>6 DEF Delivery!DeliveryNext
  <2>3. CASE Ack(p)
    <3>1. lock = p /\ lock' = p /\ cur[p] \in Jobs
      BY <2>3 DEF Ack, IInv, LockInv, CurInv, Holding, Working
    <3>2. pc[p] = "ack" /\ ~Working(p)'
      BY <1>0, <2>3 DEF Ack, Goto, TypeOK, Working
    <3>3. IInv'
      BY InvStep
    <3>4. JobsAt("handle") = {} /\ JobsAt("ack") = {cur[p]}
      BY <3>1, <3>2, HolderWorksAlone
    <3>5. JobsAt("handle")' = {} /\ JobsAt("ack")' = {}
      BY <3>1, <3>2, <3>3, HolderWorksAloneNext
    <3>6. InTable' = InTable \ {cur[p]}
      BY <1>0, <2>3, <3>1 DEF Ack, InTable, TypeOK
    <3>7. Delivery!Remove(cur[p])
      BY <2>3, <3>4, <3>5, <3>6 DEF Ack, Delivery!Remove
    <3> QED BY <3>1, <3>7 DEF Delivery!DeliveryNext
  <2>4. CASE LeaveRunning(p)
    <3>1. lock = p /\ lock' = p
      BY <2>4 DEF LeaveRunning, IInv, LockInv, Holding
    <3>2. pc[p] = "ack" /\ ~Working(p)'
      BY <1>0, <2>4 DEF LeaveRunning, Goto, TypeOK, Working
    <3>3. IInv'
      BY InvStep
    <3>4. JobsAt("handle") = {} /\ JobsAt("ack") = {cur[p]}
      BY <3>1, <3>2, HolderWorksAlone
    <3>5. JobsAt("handle")' = {} /\ JobsAt("ack")' = {}
      BY <3>1, <3>2, <3>3, HolderWorksAloneNext
    <3>6. Delivery!Interrupt
      BY <2>4, <3>4, <3>5 DEF LeaveRunning, table, InTable, Delivery!Interrupt
    <3> QED BY <3>6 DEF Delivery!DeliveryNext
  <2> QED BY <1>3, <2>1, <2>2, <2>3, <2>4, QuietStep DEF Thread
<1>4. ASSUME NEW new \in SUBSET Jobs, Enqueue(new) PROVE Delivery!DeliveryNext
  <2>1. InTable' = InTable \cup new
    BY <1>0, <1>4 DEF Enqueue, InTable, TypeOK
  <2>2. JobsAt("handle")' = JobsAt("handle") /\ JobsAt("ack")' = JobsAt("ack")
    BY <1>4 DEF Enqueue, runner, JobsAt
  <2>3. Delivery!SubmitAll(new)
    BY <1>4, <2>1, <2>2 DEF Enqueue, Delivery!SubmitAll
  <2> QED BY <2>3 DEF Delivery!DeliveryNext
<1>5. CASE UNCHANGED vars
  <2>1. UNCHANGED <<status, attempts, ahead, cur, pc>>
    BY <1>5 DEF vars, table, runner
  <2>2. InTable' = InTable /\ JobsAt("handle")' = JobsAt("handle") /\ JobsAt("ack")' = JobsAt("ack")
    BY <2>1 DEF InTable, JobsAt
  <2> QED BY <2>1, <2>2, MapsStutter
<1> QED BY <1>1, <1>2, <1>3, <1>4, <1>5 DEF Next

(* Whatever processes start, die, stop or fail to reach the database: jobs    *)
(* are delivered oldest first, one at a time, MaxAttempts times at most, and  *)
(* leave the queue only once handled or given up on.                          *)
THEOREM RunnerDelivers == Spec => KeepsDelivery
  BY MapsInit, MapsStep, Inductive, PTL DEF Spec, KeepsDelivery, Delivery!DeliverySpec
===============================================================================
