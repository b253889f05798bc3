----------------------------- MODULE BackendProofs -----------------------------
(***************************************************************************)
(* Proofs about a backend process, in three parts.  Startup: a database is *)
(* upgraded with a copy of all it held, under no process that runs its     *)
(* jobs, and served only with what the code needs, for every set of        *)
(* processes and codes.  WakeUp: neither a job committed in the process nor *)
(* a stop is missed by its waiting runner, for every set of writers and    *)
(* jobs.  StoryGraph: whatever requests come at once, no edge of the       *)
(* relationship graph or of the timeline is drawn twice and none loses its *)
(* ends, for every set of requests, characters, types and rows.            *)
(***************************************************************************)
EXTENDS Startup, WakeUp, StoryGraph, TLAPS

(***************************************************************************)
(* Startup.                                                                *)
(***************************************************************************)
USE StartupAssumption

(* A process that is up runs some code. *)
CodeInv == \A p \in Processes : ~At(p, "off") => proc[p].code \in Codes

(* One that found migrations to apply is in its transaction until it commits, *)
(* so the database stays at the revision it read.                             *)
WriterInv ==
  \A p \in Processes : proc[p].step \in {"lock", "copy", "migrate"} =>
    /\ writer = p
    /\ proc[p].read = applied
    /\ ~Current(proc[p].code)

(* From the copy until it has committed it holds the runner's lock. *)
LockInv ==
  \A p \in Processes : proc[p].step \in {"copy", "migrate", "unlock"} => runnerLock = p

(* It copies a database that has something in it, and migrates one only when  *)
(* the copy is of all there is.                                               *)
CopyInv ==
  \A p \in Processes :
    /\ At(p, "copy") => applied # <<>>
    /\ At(p, "migrate") => applied = <<>> \/ backup = [applied |-> applied, data |-> data]

IInv ==
  /\ TypeOK
  /\ CodeInv
  /\ WriterInv
  /\ LockInv
  /\ CopyInv
  /\ ServedHasItsSchema

-----------------------------------------------------------------------------
LEMMA InvInit == Init => IInv
  BY DEF Init, IInv, TypeOK, Schemas, Off, Steps, CodeInv, WriterInv, LockInv, CopyInv,
     ServedHasItsSchema, Served, At

(* What check_database lets through has all its code needs: at the head of   *)
(* its migrations it has been through them all.                              *)
LEMMA UsableIsEnough ==
  ASSUME TypeOK, NEW code \in Codes, Usable(code)
  PROVE  Needs(code) \subseteq Has(applied)
<1>1. CASE Current(code)
  <2>1. applied = Ships[code]
    BY <1>1 DEF Current, TypeOK, Schemas
  <2> QED BY <2>1 DEF Needs
<1>2. CASE ~Current(code)
  BY <1>2 DEF Usable
<1> QED BY <1>1, <1>2

LEMMA InvStep == IInv /\ [Next]_vars => IInv'
<1> SUFFICES ASSUME IInv, [Next]_vars PROVE IInv'
  OBVIOUS
<1> USE DEF IInv, At, Goes
<1>1. ASSUME NEW p \in Processes, NEW code \in Codes, Launch(p, code) PROVE IInv'
  BY <1>1 DEF Launch, TypeOK, Schemas, Steps, CodeInv, WriterInv, LockInv, CopyInv, Current,
     ServedHasItsSchema, Served
<1>2. ASSUME NEW p \in Processes, ReadRevision(p) PROVE IInv'
  <2>1. CodeInv' /\ TypeOK'
    BY <1>2 DEF ReadRevision, CodeInv, TypeOK, Steps
  <2>2. \A q \in Processes \ {p} : proc[q].step \notin {"lock", "copy", "migrate"}
    BY <1>2 DEF ReadRevision, WriterInv
  <2>3. WriterInv' /\ CopyInv'
    BY <1>2, <2>2 DEF ReadRevision, WriterInv, CopyInv, Current, TypeOK
  <2>4. LockInv' /\ ServedHasItsSchema'
    BY <1>2 DEF ReadRevision, LockInv, ServedHasItsSchema, Served, TypeOK
  <2> QED BY <2>1, <2>3, <2>4
<1>3. ASSUME NEW p \in Processes, LockRunner(p) PROVE IInv'
  <2>1. TypeOK'
    BY <1>3 DEF LockRunner, TypeOK, Steps
  <2>2. LockInv'
    BY <1>3 DEF LockRunner, LockInv, TypeOK
  <2>3. CodeInv' /\ WriterInv' /\ CopyInv' /\ ServedHasItsSchema'
    BY <1>3 DEF LockRunner, CodeInv, WriterInv, CopyInv, ServedHasItsSchema, Served, TypeOK, Current
  <2> QED BY <2>1, <2>2, <2>3
<1>4. ASSUME NEW p \in Processes, Copy(p) PROVE IInv'
  BY <1>4 DEF Copy, TypeOK, Schemas, Steps, CodeInv, WriterInv, LockInv, CopyInv, Current,
     ServedHasItsSchema, Served
<1>5. ASSUME NEW p \in Processes, Migrate(p) PROVE IInv'
  <2>1. \A q \in Processes \ {p} : proc[q].step \notin {"lock", "copy", "migrate"}
    BY <1>5 DEF Migrate, WriterInv
  <2>2. TypeOK' /\ CodeInv'
    BY <1>5 DEF Migrate, TypeOK, Steps, Schemas, CodeInv
  <2>3. WriterInv' /\ CopyInv' /\ LockInv'
    BY <1>5, <2>1 DEF Migrate, WriterInv, CopyInv, LockInv, TypeOK
  <2>4. ServedHasItsSchema'
    BY <1>5 DEF Migrate, ServedHasItsSchema, Served, TypeOK
  <2> QED BY <2>2, <2>3, <2>4
<1>6. ASSUME NEW p \in Processes, UnlockRunner(p) PROVE IInv'
  BY <1>6 DEF UnlockRunner, TypeOK, Steps, CodeInv, WriterInv, LockInv, CopyInv, Current,
     ServedHasItsSchema, Served
<1>7. ASSUME NEW p \in Processes, Check(p) PROVE IInv'
  <2>1. Needs(proc[p].code) \subseteq Has(applied)
    BY <1>7, UsableIsEnough DEF Check, CodeInv
  <2>2. ServedHasItsSchema'
    BY <1>7, <2>1 DEF Check, ServedHasItsSchema, Served, TypeOK
  <2> QED BY <1>7, <2>2 DEF Check, TypeOK, Steps, CodeInv, WriterInv, LockInv, CopyInv, Current
<1>8. ASSUME NEW p \in Processes, Prepare(p) PROVE IInv'
  BY <1>8 DEF Prepare, TypeOK, Steps, CodeInv, WriterInv, LockInv, CopyInv, Current,
     ServedHasItsSchema, Served
<1>9. ASSUME NEW p \in Processes, TakeOver(p) PROVE IInv'
  BY <1>9 DEF TakeOver, TypeOK, CodeInv, WriterInv, LockInv, CopyInv, Current,
     ServedHasItsSchema, Served
<1>10. ASSUME NEW p \in Processes, Write(p) PROVE IInv'
  <2>1. \A q \in Processes : proc[q].step \notin {"lock", "copy", "migrate"}
    BY <1>10 DEF Write, WriterInv
  <2> QED BY <1>10, <2>1 DEF Write, TypeOK, CodeInv, WriterInv, LockInv, CopyInv, Current,
             ServedHasItsSchema, Served
<1>11. ASSUME NEW p \in Processes, End(p) PROVE IInv'
  BY <1>11 DEF End, Off, TypeOK, Schemas, Steps, CodeInv, WriterInv, LockInv, CopyInv, Current,
     ServedHasItsSchema, Served
<1>12. CASE UNCHANGED vars
  BY <1>12 DEF vars, TypeOK, CodeInv, WriterInv, LockInv, CopyInv, Current,
     ServedHasItsSchema, Served
<1> QED
  BY <1>1, <1>2, <1>3, <1>4, <1>5, <1>6, <1>7, <1>8, <1>9, <1>10, <1>11, <1>12 DEF Next

LEMMA Inductive == Spec => []IInv
  BY InvInit, InvStep, PTL DEF Spec

(* No process upgrades the database while another one runs its jobs, and     *)
(* none takes its jobs while it is upgraded.                                 *)
THEOREM NeverUpgradedUnderJobs == Spec => []Inv
<1>1. IInv => Inv
  BY DEF IInv, LockInv, Inv, NoUpgradeUnderJobs
<1> QED BY <1>1, Inductive, PTL

(* A process serves on a schema that has all its code needs, unless another  *)
(* one has upgraded the database since it looked.                            *)
THEOREM ServedOnItsSchema == Spec => []ServedHasItsSchema
<1>1. IInv => ServedHasItsSchema
  BY DEF IInv
<1> QED BY <1>1, Inductive, PTL

(* An upgrade that commits has left a copy of all the database held before   *)
(* it, and no process copies what another one has upgraded.                  *)
THEOREM UpgradeHasItsCopy == Spec => UpgradeIsCopied
<1> DEFINE Copied ==
  /\ applied' # applied => applied = <<>> \/ backup = [applied |-> applied, data |-> data]
  /\ \A p \in Processes : At(p, "copy") /\ backup' # backup /\ proc'[p] # proc[p] =>
       Last(backup'.applied) # Last(Ships[proc[p].code])
<1>1. IInv /\ [Next]_vars => [Copied]_vars
  <2> SUFFICES ASSUME IInv, Next PROVE Copied
    OBVIOUS
  <2>1. applied' # applied => applied = <<>> \/ backup = [applied |-> applied, data |-> data]
    BY DEF IInv, CopyInv, Next, Launch, ReadRevision, LockRunner, Copy, Migrate, UnlockRunner,
       Check, Prepare, TakeOver, Write, End
  <2>2. ASSUME NEW p \in Processes, At(p, "copy"), backup' # backup, proc'[p] # proc[p]
        PROVE  Last(backup'.applied) # Last(Ships[proc[p].code])
    <3>1. PICK q \in Processes : Copy(q)
      BY <2>2 DEF Next, Launch, ReadRevision, LockRunner, Copy, Migrate, UnlockRunner,
         Check, Prepare, TakeOver, Write, End
    <3>2. backup'.applied = applied
      BY <3>1 DEF Copy
    <3>3. applied # <<>> /\ ~Current(proc[p].code)
      BY <2>2 DEF IInv, CopyInv, WriterInv, At
    <3> QED BY <3>2, <3>3 DEF Current
  <2> QED BY <2>1, <2>2
<1> QED BY <1>1, Inductive, PTL DEF Spec, UpgradeIsCopied

(***************************************************************************)
(* WakeUp.                                                                 *)
(***************************************************************************)
USE WakeUpAssumption

\* StopIsHeard, also for the look at the queue before the wait.
StopInv ==
  runner \in {"dequeue", "wait"} /\ stop => event \/ stopper = "waking"

WaitInv == NoLostWakeUp /\ StopInv

LEMMA WaitInit == WakeUpInit => WaitInv
  BY DEF WakeUpInit, WaitInv, NoLostWakeUp, StopInv

LEMMA WaitStep == WaitInv /\ [WakeUpNext]_wakeUpVars => WaitInv'
<1> SUFFICES ASSUME WaitInv, [WakeUpNext]_wakeUpVars PROVE WaitInv'
  OBVIOUS
<1> USE DEF WaitInv, NoLostWakeUp, StopInv
<1>1. ASSUME NEW w \in Writers, NEW new \in SUBSET OwnJobs, Enqueue(w, new) PROVE WaitInv'
  BY <1>1 DEF Enqueue
<1>2. ASSUME NEW w \in Writers, Commit(w) PROVE WaitInv'
  BY <1>2 DEF Commit
<1>3. ASSUME NEW w \in Writers, Rollback(w) PROVE WaitInv'
  BY <1>3 DEF Rollback
<1>4. ASSUME NEW w \in Writers, WakeRunner(w) PROVE WaitInv'
  BY <1>4 DEF WakeRunner
<1>5. ASSUME NEW j \in OtherJobs, OtherCommit(j) PROVE WaitInv'
  <2>1. queued' \cap OwnJobs = queued \cap OwnJobs
    BY <1>5, WakeUpAssumption DEF OtherCommit
  <2> QED BY <1>5, <2>1 DEF OtherCommit
<1>6. CASE SetStop
  BY <1>6 DEF SetStop
<1>7. CASE Wake
  BY <1>7 DEF Wake
<1>8. CASE LoopHead
  BY <1>8 DEF LoopHead
<1>9. ASSUME NEW j \in queued, Take(j) PROVE WaitInv'
  BY <1>9 DEF Take
<1>10. CASE FindNone
  BY <1>10 DEF FindNone
<1>11. CASE Done \/ Woken \/ Poll \/ Clear
  BY <1>11 DEF Done, Woken, Poll, Clear
<1>12. CASE UNCHANGED wakeUpVars
  BY <1>12 DEF wakeUpVars
<1> QED
  BY <1>1, <1>2, <1>3, <1>4, <1>5, <1>6, <1>7, <1>8, <1>9, <1>10, <1>11, <1>12 DEF WakeUpNext

LEMMA WaitInductive == WakeUpSpec => []WaitInv
  BY WaitInit, WaitStep, PTL DEF WakeUpSpec

(* A runner waiting while a job committed in this process is queued has been  *)
(* woken or is about to be: the event is cleared after the wait, before the   *)
(* next look at the queue, so no commit in between is missed.                 *)
THEOREM WakeUpNotLost == WakeUpSpec => []NoLostWakeUp
<1>1. WaitInv => NoLostWakeUp
  BY DEF WaitInv
<1> QED BY <1>1, WaitInductive, PTL

(* stop() sets its flag before it wakes the runner, so a runner that waits    *)
(* has heard of it or is about to.                                            *)
THEOREM StopHeard == WakeUpSpec => []StopIsHeard
<1>1. WaitInv => StopIsHeard
  BY DEF WaitInv, StopInv, StopIsHeard
<1> QED BY <1>1, WaitInductive, PTL

(***************************************************************************)
(* StoryGraph.                                                             *)
(***************************************************************************)
USE GraphAssumption

(* A request past its Begin holds the lock, *)
HolderInv == \A q \in Requests : request[q].step # "none" => holder = q

(* asks for something, *)
AskedInv == \A q \in Requests : request[q].step # "none" => request[q].ask \in Requested

(* and what it was accepted for still is acceptable when it writes. *)
CheckedInv == \A q \in Requests : request[q].step = "write" => Accepted(request[q].ask)

GraphInv ==
  /\ GraphTypeOK
  /\ HolderInv
  /\ AskedInv
  /\ CheckedInv
  /\ NothingDangling
  /\ RelationsDiffer
  /\ LinksDiffer

-----------------------------------------------------------------------------
(* What a request of each kind carries. *)
LEMMA AskTypes ==
  ASSUME NEW ask \in Requested
  PROVE  /\ ask.what \in {"create_relation", "update_relation"} => ask.body \in Relation
         /\ ask.what \in {"create_event", "update_event"} => ask.body \in Event
         /\ ask.what \in {"create_link", "update_link"} => ask.body \in Pairs(EventIds)
         /\ ask.what \in {"create_relation", "create_event", "create_link"} => ask.id = NoRow
         /\ ask.what \in {"update_relation", "delete_relation"} => ask.id \in RelationIds
         /\ ask.what \in {"update_event", "delete_event"} => ask.id \in EventIds
         /\ ask.what \in {"update_link", "delete_link"} => ask.id \in LinkIds
         /\ ask.what = "delete_character" => ask.id \in Characters
  BY DEF Requested, Ask

(* Two relations that mean the same are the same to _same, which compares    *)
(* the ends of a mutual relation both ways round.                            *)
LEMMA SameMeaning ==
  ASSUME NEW a \in Relation, NEW b \in Relation, Meaning(a) = Meaning(b)
  PROVE  Same(a, b)
<1>1. a.type = b.type /\ {a.from, a.to} = {b.from, b.to}
  BY DEF Meaning
<1>2. (IF a.directed THEN {a.from} ELSE {}) = (IF b.directed THEN {b.from} ELSE {})
  BY DEF Meaning
<1>3. a.directed \in BOOLEAN /\ b.directed \in BOOLEAN
  BY DEF Relation, RelationInput
<1>4. a.directed = b.directed
  BY <1>2, <1>3
<1> QED BY <1>1, <1>2, <1>3, <1>4 DEF Same

-----------------------------------------------------------------------------
LEMMA GraphStart == GraphInit => GraphInv
  BY DEF GraphInit, GraphInv, GraphTypeOK, HolderInv, AskedInv, CheckedInv, NothingDangling,
     RelationsDiffer, LinksDiffer, Rows, Idle, Ask

(* The step of q itself: while q holds the lock the others are idle. *)
LEMMA OthersIdle ==
  ASSUME GraphInv, NEW q \in Requests, request[q].step # "none"
  PROVE  \A p \in Requests \ {q} : request[p].step = "none"
  BY DEF GraphInv, HolderInv

(* A request that commits, having written what it was accepted for, leaves   *)
(* everyone idle.                                                            *)
LEMMA AfterCommit ==
  ASSUME GraphInv, NEW q \in Requests, NEW what, Commits(q, what)
  PROVE  /\ request[q].ask \in Requested /\ request[q].ask.what \in what
         /\ Accepted(request[q].ask)
         /\ holder' \in Requests \cup {NoRequest}
         /\ request' \in [Requests -> [step : {"none", "check", "write"},
                                       ask : Requested \cup {Idle.ask}]]
         /\ HolderInv' /\ AskedInv' /\ CheckedInv'
<1>1. request[q].step = "write" /\ request[q].ask.what \in what
  BY DEF Commits
<1>2. request[q].ask \in Requested /\ Accepted(request[q].ask)
  BY <1>1 DEF GraphInv, AskedInv, CheckedInv
<1>3. Idle \in [step : {"none", "check", "write"}, ask : Requested \cup {Idle.ask}]
  BY DEF Idle
<1>4. request' \in [Requests -> [step : {"none", "check", "write"}, ask : Requested \cup {Idle.ask}]]
  BY <1>3 DEF Commits, GraphInv, GraphTypeOK
<1>5. holder' \in Requests \cup {NoRequest}
  BY DEF Commits, Released, GraphInv, GraphTypeOK
<1>6. \A p \in Requests : request'[p].step = "none"
  BY <1>1, OthersIdle DEF Commits, GraphInv, GraphTypeOK, Idle
<1> QED BY <1>1, <1>2, <1>4, <1>5, <1>6 DEF HolderInv, AskedInv, CheckedInv

(* The row a request writes is a row of its table: the one it names, or none  *)
(* that is there.                                                             *)
LEMMA RowWritten ==
  ASSUME NEW ask, NEW table, NEW id \in RowOf(ask, table)
  PROVE  IF ask.id = NoRow THEN id \in DOMAIN table /\ id \notin Rows(table) ELSE id = ask.id
  BY DEF RowOf

-----------------------------------------------------------------------------
LEMMA BeginStep ==
  ASSUME GraphInv, NEW q \in Requests, NEW ask \in Requested, Begin(q, ask)
  PROVE  GraphInv'
<1> USE DEF GraphInv
<1>1. \A p \in Requests : request[p].step = "none"
  BY DEF Begin, HolderInv
<1>2. GraphTypeOK'
  BY DEF Begin, GraphTypeOK, graphVars
<1>3. HolderInv' /\ AskedInv' /\ CheckedInv'
  BY <1>1 DEF Begin, HolderInv, AskedInv, CheckedInv, GraphTypeOK
<1>4. NothingDangling' /\ RelationsDiffer' /\ LinksDiffer'
  BY DEF Begin, graphVars, NothingDangling, RelationsDiffer, LinksDiffer, Rows
<1> QED BY <1>2, <1>3, <1>4

LEMMA CheckRequestStep ==
  ASSUME GraphInv, NEW q \in Requests, CheckRequest(q)
  PROVE  GraphInv'
<1> USE DEF GraphInv
<1>1. Idle \in [step : {"none", "check", "write"}, ask : Requested \cup {Idle.ask}]
  BY DEF Idle
<1>2. GraphTypeOK'
  BY <1>1 DEF CheckRequest, GraphTypeOK, graphVars, Released
<1>3. \A p \in Requests : p # q => request[p].step = "none" /\ request'[p] = request[p]
  BY OthersIdle DEF CheckRequest, GraphTypeOK
<1>4. \A x : Accepted(x)' <=> Accepted(x)
  <2>1. UNCHANGED <<alive, relations, events, links>>
    BY DEF CheckRequest, graphVars
  <2> QED
    BY <2>1 DEF Accepted, RelationFits, MembersFit, LinkFits, Rows
<1>5. CASE /\ Accepted(request[q].ask)
           /\ request' = [request EXCEPT ![q].step = "write"]
           /\ holder' = holder
  <2>1. request'[q].step = "write" /\ request'[q].ask = request[q].ask
    BY <1>5 DEF GraphTypeOK
  <2>2. request[q].ask \in Requested /\ holder' = q
    BY <1>5 DEF CheckRequest, AskedInv, HolderInv
  <2> QED BY <1>2, <1>3, <1>4, <1>5, <2>1, <2>2
           DEF CheckRequest, graphVars, HolderInv, AskedInv, CheckedInv, NothingDangling,
               RelationsDiffer, LinksDiffer, Rows
<1>6. CASE request' = [request EXCEPT ![q] = Idle] /\ holder' = Released(q)
  <2>1. \A p \in Requests : request'[p].step = "none"
    BY <1>3, <1>6 DEF Idle, GraphTypeOK
  <2>2. HolderInv' /\ AskedInv' /\ CheckedInv'
    BY <2>1 DEF HolderInv, AskedInv, CheckedInv
  <2>3. NothingDangling' /\ RelationsDiffer' /\ LinksDiffer'
    BY DEF CheckRequest, graphVars, NothingDangling, RelationsDiffer, LinksDiffer, Rows
  <2> QED BY <1>2, <2>2, <2>3
<1> QED BY <1>5, <1>6 DEF CheckRequest

LEMMA WriteRelationStep ==
  ASSUME GraphInv, NEW q \in Requests, WriteRelation(q)
  PROVE  GraphInv'
<1> DEFINE ask == request[q].ask
           what == {"create_relation", "update_relation"}
<1> USE DEF GraphInv
<1>1. /\ ask \in Requested /\ ask.what \in what /\ Accepted(ask)
      /\ holder' \in Requests \cup {NoRequest}
      /\ request' \in [Requests -> [step : {"none", "check", "write"}, ask : Requested \cup {Idle.ask}]]
      /\ HolderInv' /\ AskedInv' /\ CheckedInv'
  BY AfterCommit DEF WriteRelation
<1>2. PICK id \in RowOf(ask, relations) : relations' = [relations EXCEPT ![id] = ask.body]
  BY DEF WriteRelation
<1>3. id \in RelationIds
  BY <1>1, RowWritten, AskTypes DEF GraphTypeOK
<1>4. ask.body \in Relation
  BY <1>1, AskTypes
<1>5. RelationFits(ask.body, {id})
  <2>1. CASE ask.what = "create_relation"
    <3>1. RelationFits(ask.body, {})
      BY <1>1, <2>1 DEF Accepted
    <3> QED
      BY <3>1 DEF RelationFits
  <2>2. CASE ask.what = "update_relation"
    <3>1. ask.id \in RelationIds /\ RelationFits(ask.body, {ask.id})
      BY <1>1, <2>2, AskTypes DEF Accepted
    <3>2. id = ask.id
      BY <3>1, RowWritten
    <3> QED
      BY <3>1, <3>2
  <2> QED
    BY <1>1, <2>1, <2>2
<1>6. GraphTypeOK'
  BY <1>1, <1>2, <1>3, <1>4 DEF GraphTypeOK, WriteRelation
<1>7. \A i \in Rows(relations') : i \in RelationIds /\ (i # id => i \in Rows(relations) /\ relations'[i] = relations[i])
                                 /\ (i = id => relations'[i] = ask.body)
  BY <1>2, <1>3 DEF Rows, GraphTypeOK
<1>8. NothingDangling'
  BY <1>5, <1>7 DEF NothingDangling, WriteRelation, RelationFits, Rows
<1>9. \A i \in Rows(relations) \ {id} : Meaning(ask.body) # Meaning(relations[i])
  BY <1>4, <1>5, SameMeaning DEF RelationFits, Rows, GraphTypeOK
<1>10. RelationsDiffer'
  BY <1>7, <1>9 DEF RelationsDiffer
<1>11. LinksDiffer'
  BY DEF LinksDiffer, WriteRelation, Rows
<1> QED BY <1>1, <1>6, <1>8, <1>10, <1>11

LEMMA DeleteRelationStep ==
  ASSUME GraphInv, NEW q \in Requests, DeleteRelation(q)
  PROVE  GraphInv'
<1> DEFINE gone == request[q].ask.id
<1> USE DEF GraphInv
<1>1. /\ holder' \in Requests \cup {NoRequest}
      /\ request' \in [Requests -> [step : {"none", "check", "write"}, ask : Requested \cup {Idle.ask}]]
      /\ HolderInv' /\ AskedInv' /\ CheckedInv'
  BY AfterCommit DEF DeleteRelation
<1>2. GraphTypeOK'
  BY <1>1 DEF GraphTypeOK, DeleteRelation
<1>3. \A i \in Rows(relations') : i \in Rows(relations) /\ relations'[i] = relations[i]
  BY DEF Rows, GraphTypeOK, DeleteRelation
<1>4. NothingDangling' /\ RelationsDiffer' /\ LinksDiffer'
  BY <1>3 DEF NothingDangling, RelationsDiffer, LinksDiffer, DeleteRelation, Rows
<1> QED BY <1>1, <1>2, <1>4

LEMMA WriteEventStep ==
  ASSUME GraphInv, NEW q \in Requests, WriteEvent(q)
  PROVE  GraphInv'
<1> DEFINE ask == request[q].ask
           what == {"create_event", "update_event"}
<1> USE DEF GraphInv
<1>1. /\ ask \in Requested /\ ask.what \in what /\ Accepted(ask)
      /\ holder' \in Requests \cup {NoRequest}
      /\ request' \in [Requests -> [step : {"none", "check", "write"}, ask : Requested \cup {Idle.ask}]]
      /\ HolderInv' /\ AskedInv' /\ CheckedInv'
  BY AfterCommit DEF WriteEvent
<1>2. PICK id \in RowOf(ask, events) : events' = [events EXCEPT ![id] = ask.body]
  BY DEF WriteEvent
<1>3. id \in EventIds
  BY <1>1, RowWritten, AskTypes DEF GraphTypeOK
<1>4. ask.body \in Event /\ ask.body # NoRow
  BY <1>1, AskTypes DEF Event
<1>5. ask.body \cap Characters \subseteq alive
  BY <1>1 DEF Accepted, MembersFit
<1>6. GraphTypeOK'
  BY <1>1, <1>2, <1>3, <1>4 DEF GraphTypeOK, WriteEvent
<1>7. Rows(events') = Rows(events) \cup {id}
  BY <1>2, <1>3, <1>4 DEF Rows, GraphTypeOK
<1>8. \A i \in Rows(events') : events'[i] = IF i = id THEN ask.body ELSE events[i]
  BY <1>2, <1>3 DEF Rows, GraphTypeOK
<1>9. NothingDangling'
  BY <1>5, <1>7, <1>8 DEF NothingDangling, WriteEvent, Rows
<1>10. RelationsDiffer' /\ LinksDiffer'
  BY DEF RelationsDiffer, LinksDiffer, WriteEvent, Rows
<1> QED BY <1>1, <1>6, <1>9, <1>10

LEMMA DeleteEventStep ==
  ASSUME GraphInv, NEW q \in Requests, DeleteEvent(q)
  PROVE  GraphInv'
<1> DEFINE gone == request[q].ask.id
<1> USE DEF GraphInv
<1>1. /\ holder' \in Requests \cup {NoRequest}
      /\ request' \in [Requests -> [step : {"none", "check", "write"}, ask : Requested \cup {Idle.ask}]]
      /\ HolderInv' /\ AskedInv' /\ CheckedInv'
  BY AfterCommit DEF DeleteEvent
<1>2. GraphTypeOK'
  BY <1>1 DEF GraphTypeOK, DeleteEvent
<1>3. /\ Rows(events') = Rows(events) \ {gone}
      /\ \A i \in Rows(events') : events'[i] = events[i]
  BY DEF Rows, GraphTypeOK, DeleteEvent
<1>4. \A i \in Rows(links') :
        i \in Rows(links) /\ links'[i] = links[i] /\ gone \notin {links[i][1], links[i][2]}
  BY DEF Rows, GraphTypeOK, DeleteEvent
<1>5. NothingDangling'
  BY <1>3, <1>4 DEF NothingDangling, DeleteEvent, Rows
<1>6. RelationsDiffer' /\ LinksDiffer'
  BY <1>4 DEF RelationsDiffer, LinksDiffer, DeleteEvent, Rows
<1> QED BY <1>1, <1>2, <1>5, <1>6

LEMMA WriteLinkStep ==
  ASSUME GraphInv, NEW q \in Requests, WriteLink(q)
  PROVE  GraphInv'
<1> DEFINE ask == request[q].ask
           what == {"create_link", "update_link"}
<1> USE DEF GraphInv
<1>1. /\ ask \in Requested /\ ask.what \in what /\ Accepted(ask)
      /\ holder' \in Requests \cup {NoRequest}
      /\ request' \in [Requests -> [step : {"none", "check", "write"}, ask : Requested \cup {Idle.ask}]]
      /\ HolderInv' /\ AskedInv' /\ CheckedInv'
  BY AfterCommit DEF WriteLink
<1>2. PICK id \in RowOf(ask, links) : links' = [links EXCEPT ![id] = ask.body]
  BY DEF WriteLink
<1>3. id \in LinkIds
  BY <1>1, RowWritten, AskTypes DEF GraphTypeOK
<1>4. ask.body \in Pairs(EventIds)
  BY <1>1, AskTypes
<1>5. LinkFits(ask.body, {id})
  <2>1. CASE ask.what = "create_link"
    <3>1. LinkFits(ask.body, {})
      BY <1>1, <2>1 DEF Accepted
    <3> QED
      BY <3>1 DEF LinkFits
  <2>2. CASE ask.what = "update_link"
    <3>1. ask.id \in LinkIds /\ LinkFits(ask.body, {ask.id})
      BY <1>1, <2>2, AskTypes DEF Accepted
    <3>2. id = ask.id
      BY <3>1, RowWritten
    <3> QED
      BY <3>1, <3>2
  <2> QED
    BY <1>1, <2>1, <2>2
<1>6. GraphTypeOK'
  BY <1>1, <1>2, <1>3, <1>4 DEF GraphTypeOK, WriteLink
<1>7. \A i \in Rows(links') : /\ i # id => i \in Rows(links) /\ links'[i] = links[i]
                              /\ i = id => links'[i] = ask.body
  BY <1>2, <1>3 DEF Rows, GraphTypeOK
<1>8. NothingDangling'
  BY <1>5, <1>7 DEF NothingDangling, WriteLink, LinkFits, Rows
<1>9. LinksDiffer'
  BY <1>5, <1>7 DEF LinksDiffer, LinkFits
<1>10. RelationsDiffer'
  BY DEF RelationsDiffer, WriteLink, Rows
<1> QED BY <1>1, <1>6, <1>8, <1>9, <1>10

LEMMA DeleteLinkStep ==
  ASSUME GraphInv, NEW q \in Requests, DeleteLink(q)
  PROVE  GraphInv'
<1> USE DEF GraphInv
<1>1. /\ holder' \in Requests \cup {NoRequest}
      /\ request' \in [Requests -> [step : {"none", "check", "write"}, ask : Requested \cup {Idle.ask}]]
      /\ HolderInv' /\ AskedInv' /\ CheckedInv'
  BY AfterCommit DEF DeleteLink
<1>2. GraphTypeOK'
  BY <1>1 DEF GraphTypeOK, DeleteLink
<1>3. \A i \in Rows(links') : i \in Rows(links) /\ links'[i] = links[i]
  BY DEF Rows, GraphTypeOK, DeleteLink
<1>4. NothingDangling' /\ RelationsDiffer' /\ LinksDiffer'
  BY <1>3 DEF NothingDangling, RelationsDiffer, LinksDiffer, DeleteLink, Rows
<1> QED BY <1>1, <1>2, <1>4

LEMMA DeleteCharacterStep ==
  ASSUME GraphInv, NEW q \in Requests, DeleteCharacter(q)
  PROVE  GraphInv'
<1> DEFINE gone == request[q].ask.id
<1> USE DEF GraphInv
<1>1. /\ holder' \in Requests \cup {NoRequest}
      /\ request' \in [Requests -> [step : {"none", "check", "write"}, ask : Requested \cup {Idle.ask}]]
      /\ HolderInv' /\ AskedInv' /\ CheckedInv'
  BY AfterCommit DEF DeleteCharacter
<1>2. \A i \in EventIds : events[i] # NoRow => events[i] \ {gone} \in Event /\ events[i] \ {gone} # NoRow
  BY DEF GraphTypeOK, Event
<1>3. events' \in [EventIds -> Event \cup {NoRow}]
  BY <1>2 DEF DeleteCharacter
<1>4. GraphTypeOK'
  BY <1>1, <1>3 DEF GraphTypeOK, DeleteCharacter
<1>5. /\ Rows(events') = Rows(events)
      /\ \A i \in Rows(events') : events'[i] = events[i] \ {gone}
  BY <1>2 DEF Rows, GraphTypeOK, DeleteCharacter
<1>6. \A i \in Rows(relations') : /\ i \in Rows(relations) /\ relations'[i] = relations[i]
                                  /\ gone \notin {relations[i].from, relations[i].to}
  BY DEF Rows, GraphTypeOK, DeleteCharacter
<1>7. alive' = alive \ {gone} /\ links' = links /\ Rows(links') = Rows(links)
  BY DEF DeleteCharacter, Rows
<1>8. NothingDangling'
  <2>1. \A i \in Rows(relations') : {relations'[i].from, relations'[i].to} \subseteq alive'
    <3> SUFFICES ASSUME NEW i \in Rows(relations')
                 PROVE  {relations'[i].from, relations'[i].to} \subseteq alive'
      OBVIOUS
    <3>1. {relations[i].from, relations[i].to} \subseteq alive
      BY <1>6 DEF NothingDangling
    <3> QED BY <3>1, <1>6, <1>7
  <2>2. \A i \in Rows(events') : events'[i] \cap Characters \subseteq alive'
    <3> SUFFICES ASSUME NEW i \in Rows(events') PROVE events'[i] \cap Characters \subseteq alive'
      OBVIOUS
    <3>1. events[i] \cap Characters \subseteq alive
      BY <1>5 DEF NothingDangling
    <3> QED BY <3>1, <1>5, <1>7
  <2>3. \A i \in Rows(links') : {links'[i][1], links'[i][2]} \subseteq Rows(events')
    BY <1>5, <1>7 DEF NothingDangling
  <2> QED BY <2>1, <2>2, <2>3 DEF NothingDangling
<1>9. RelationsDiffer' /\ LinksDiffer'
  BY <1>6 DEF RelationsDiffer, LinksDiffer, DeleteCharacter, Rows
<1> QED BY <1>1, <1>4, <1>8, <1>9

LEMMA GraphStep == GraphInv /\ [GraphNext]_graphRequestVars => GraphInv'
<1> SUFFICES ASSUME GraphInv, [GraphNext]_graphRequestVars PROVE GraphInv'
  OBVIOUS
<1>1. CASE UNCHANGED graphRequestVars
  <2>1. UNCHANGED <<alive, relations, events, links, request, holder>>
    BY <1>1 DEF graphRequestVars, graphVars
  <2>2. \A x : Accepted(x)' <=> Accepted(x)
    BY <2>1 DEF Accepted, RelationFits, MembersFit, LinkFits, Rows
  <2>3. HolderInv' /\ AskedInv' /\ CheckedInv'
    BY <2>1, <2>2 DEF GraphInv, HolderInv, AskedInv, CheckedInv
  <2>4. GraphTypeOK' /\ NothingDangling' /\ RelationsDiffer' /\ LinksDiffer'
    BY <2>1 DEF GraphInv, GraphTypeOK, NothingDangling, RelationsDiffer, LinksDiffer, Rows
  <2> QED BY <2>3, <2>4 DEF GraphInv
<1>2. CASE GraphNext
  BY <1>2, BeginStep, CheckRequestStep, WriteRelationStep, DeleteRelationStep, WriteEventStep,
     DeleteEventStep, WriteLinkStep, DeleteLinkStep, DeleteCharacterStep DEF GraphNext
<1> QED BY <1>1, <1>2

LEMMA GraphInductive == GraphSpec => []GraphInv
  BY GraphStart, GraphStep, PTL DEF GraphSpec

(* Whatever requests come at once, every relation has both its characters,   *)
(* every event those it happens to and every link its events, even while a   *)
(* character or an event is being deleted.                                   *)
THEOREM GraphHolds == GraphSpec => []GraphIsWhole
<1>1. GraphInv => GraphIsWhole
  BY DEF GraphInv, GraphIsWhole
<1> QED BY <1>1, GraphInductive, PTL

(* Two requests that check before they write never both write: no relation   *)
(* is said twice, whichever way its ends were given, and no link drawn twice. *)
THEOREM EdgesNeverTwice == GraphSpec => []EdgesDiffer
<1>1. GraphInv => EdgesDiffer
  BY DEF GraphInv, EdgesDiffer
<1> QED BY <1>1, GraphInductive, PTL
===============================================================================
