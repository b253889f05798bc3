------------------------- MODULE ValidationRunProofs -------------------------
(***************************************************************************)
(* Proofs that what an episode shows as submitted, found or given up on is *)
(* what its runs did, for every set of episodes and runs, however often    *)
(* their jobs are delivered.                                               *)
(***************************************************************************)
EXTENDS ValidationRun, TLAPS

USE RunAssumption, MaxAttemptsAssumption

(* The queue's promise that jobs are handled one at a time: the one at work, *)
(* or to be acked, is in the queue.                                          *)
OneAtATime ==
  /\ \A i, j \in handling \cup settled : i = j
  /\ handling \cap settled = {}
  /\ handling \cup settled \subseteq pending

(* Only a job at work is anywhere in its code. *)
StepInv ==
  /\ handling = {} => step = "none"
  /\ EmptyTrash \in handling => step \in {"list", "purge", "return"}
  /\ handling \cap Runs # {} => step \notin {"list", "purge"}

(* A run's row names its episode, and an error only when it failed. *)
RowInv ==
  \A r \in Runs :
    /\ run[r] # Unused => run[r].status # "none" /\ run[r].episode \in Episodes
    /\ run[r].error # "none" => run[r].status = "failed"

(* Runs are created in the order of their ids. *)
OrderInv == \A q, r \in Runs : run[q] # Unused /\ run[r] = Unused => q < r

(* A run past its claim is running: nobody gives up on it while its job is   *)
(* there.                                                                    *)
ClaimedInv ==
  \A r \in handling \cap Runs : step \in {"input", "infer", "store", "fail"} =>
    run[r].status = "running"

(* What a job read was saved, and not blank; findings there are already are  *)
(* of no later content.                                                      *)
ReadInv ==
  \A r \in handling \cap Runs : step \in {"infer", "store"} =>
    LET e == run[r].episode IN
    /\ read <= saved[e]
    /\ read = saved[e] => ~blank[e]
    /\ stored[e].at <= read

(* What is stored of an episode is of one of its runs, which succeeded. *)
StoredInv ==
  \A e \in Episodes :
    /\ stored[e].at <= saved[e]
    /\ stored[e].by # NoRun =>
         run[stored[e].by].status = "succeeded" /\ run[stored[e].by].episode = e

SubmittedInv ==
  \A e \in submitted : stored[e].by # NoRun /\ stored[e].at = saved[e] /\ ~blank[e]

AbandonedInv == \A r \in Runs : run[r].error = "abandoned" => r \notin pending

IInv ==
  /\ TypeOK
  /\ OneAtATime /\ StepInv
  /\ RowInv /\ OrderInv
  /\ ClaimedInv /\ ReadInv
  /\ StoredInv /\ SubmittedInv
  /\ AbandonedInv
  /\ OneActiveRun

-----------------------------------------------------------------------------
LEMMA InvInit == Init => IInv
  BY DEF Init, DeliveryInit, DeliveryTypeOK, IInv, TypeOK, OneAtATime, StepInv, RowInv, OrderInv,
     ClaimedInv, ReadInv, StoredInv, SubmittedInv, AbandonedInv, OneActiveRun, RunsOf,
     Active, Unused, NothingStored, RunRow

(* A look at an episode's latest run gives up on lost ones and no others: of *)
(* those active whose job is not there, it changes the status and the error. *)
LEMMA LookedAtRows ==
  ASSUME TypeOK, NEW e \in Episodes
  PROVE  /\ LookedAt(e) \in [Runs -> RunRow]
         /\ \A r \in Runs :
              /\ LookedAt(e)[r].episode = run[r].episode
              /\ LookedAt(e)[r] = Unused <=> run[r] = Unused
              /\ \/ LookedAt(e)[r] = run[r]
                 \/ /\ Active(r) /\ r \notin pending
                    /\ LookedAt(e)[r].status = "failed" /\ LookedAt(e)[r].error = "abandoned"
<1>1. ASSUME NEW r \in Runs, Active(r)
      PROVE  /\ Abandoned(run[r]) \in RunRow
             /\ Abandoned(run[r]).episode = run[r].episode
             /\ Abandoned(run[r]).status = "failed" /\ Abandoned(run[r]).error = "abandoned"
  BY DEF Abandoned, TypeOK, RunRow
<1>2. \A r \in Runs : Active(r) => run[r] # Unused /\ Abandoned(run[r]) # Unused
  BY <1>1 DEF Unused, Active
<1> QED BY <1>1, <1>2 DEF LookedAt, Lost, TypeOK

(* What is stored is a run's. *)
LEMMA StoredByRun ==
  ASSUME TypeOK, NEW e \in Episodes, stored[e].by # NoRun
  PROVE  stored[e].by \in Runs
  BY DEF TypeOK

(* A start counted stays within its bound. *)
LEMMA CountedInRange ==
  ASSUME NEW n \in 0 .. MaxAttempts + 1
  PROVE  Counted(n) \in 0 .. MaxAttempts + 1
  BY DEF Counted

-----------------------------------------------------------------------------
LEMMA RequestStep == IInv /\ Requests => IInv'
<1> SUFFICES ASSUME IInv, Requests PROVE IInv'
  OBVIOUS
<1> USE DEF IInv
<1>1. ASSUME NEW e \in Episodes, NEW nowBlank \in BOOLEAN, Save(e, nowBlank) PROVE IInv'
  <2>1. TypeOK'
    BY <1>1 DEF Save, TypeOK, DeliveryTypeOK, deliveryVars, jobVars
  <2>2. ReadInv' /\ StoredInv' /\ SubmittedInv'
    BY <1>1 DEF Save, ReadInv, StoredInv, SubmittedInv, TypeOK, deliveryVars, jobVars, RunRow
  <2> QED BY <1>1, <2>1, <2>2 DEF Save, deliveryVars, jobVars, OneAtATime, StepInv, RowInv,
             OrderInv, ClaimedInv, AbandonedInv, OneActiveRun, RunsOf, IsLatest, Active
<1>2. ASSUME NEW e \in Episodes, Poll(e) PROVE IInv'
  <2>1. /\ run' \in [Runs -> RunRow]
        /\ \A r \in Runs : /\ run'[r].episode = run[r].episode
                           /\ run'[r] = Unused <=> run[r] = Unused
                           /\ \/ run'[r] = run[r]
                              \/ /\ Active(r) /\ r \notin pending
                                 /\ run'[r].status = "failed" /\ run'[r].error = "abandoned"
    BY <1>2, LookedAtRows DEF Poll
  <2>2. UNCHANGED <<pending, ahead, tries, handling, settled, novel, saved, blank, submitted,
                    stored, step, read, failure>>
    BY <1>2 DEF Poll, deliveryVars, jobVars
  <2>3. TypeOK'
    BY <2>1, <2>2 DEF TypeOK, DeliveryTypeOK
  <2>4. OneAtATime' /\ StepInv' /\ SubmittedInv'
    BY <2>2 DEF OneAtATime, StepInv, SubmittedInv
  <2>5. RowInv'
    BY <2>1 DEF RowInv, Active
  <2>6. OrderInv' /\ AbandonedInv'
    BY <2>1, <2>2 DEF OrderInv, AbandonedInv
  <2>7. \A r \in Runs : r \in pending => run'[r] = run[r]
    BY <2>1
  <2>8. ClaimedInv' /\ ReadInv'
    BY <2>2, <2>7 DEF ClaimedInv, ReadInv, OneAtATime
  <2>9. \A r \in Runs : run[r].status = "succeeded" => run'[r] = run[r]
    BY <2>1 DEF Active
  <2>10. StoredInv'
    BY <2>2, <2>9, StoredByRun DEF StoredInv
  <2>11. \A r \in Runs : /\ Active(r)' => Active(r)
                         /\ run'[r].status # "none" <=> run[r].status # "none"
    BY <2>1 DEF Active
  <2>12. ASSUME NEW f \in Episodes PROVE RunsOf(f)' = RunsOf(f)
    BY <2>1, <2>11 DEF RunsOf
  <2>13. OneActiveRun'
    BY <2>11, <2>12 DEF OneActiveRun, IsLatest, RunsOf
  <2> QED BY <2>3, <2>4, <2>5, <2>6, <2>8, <2>10, <2>13
<1>3. ASSUME NEW e \in Episodes, RequestValidation(e) PROVE IInv'
  <2>1. PICK r \in Runs :
          /\ run[r] = Unused /\ \A q \in Runs : run[q] = Unused => r <= q
          /\ run' = [LookedAt(e) EXCEPT ![r] = [Unused EXCEPT !.status = "queued", !.episode = e]]
          /\ Submit(r)
    BY <1>3 DEF RequestValidation
  <2>2. /\ pending' = pending \cup {r} /\ r \notin pending
        /\ ahead' = [j \in Jobs |-> IF j \in {r} THEN pending ELSE ahead[j]]
        /\ UNCHANGED <<tries, handling, settled, novel, saved, blank, submitted, stored,
                       step, read, failure>>
    BY <1>3, <2>1 DEF RequestValidation, Submit, SubmitAll, jobVars
  <2>3. run'[r] = [status |-> "queued", error |-> "none", episode |-> e, at |-> 0]
    BY <2>1, LookedAtRows DEF Unused
  <2>4. run' \in [Runs -> RunRow]
    BY <2>1, <2>3, LookedAtRows DEF RunRow
  <2>5. \A q \in Runs \ {r} :
          /\ run'[q].episode = run[q].episode
          /\ run'[q] = Unused <=> run[q] = Unused
          /\ \/ run'[q] = run[q]
             \/ /\ Active(q) /\ q \notin pending
                /\ run'[q].status = "failed" /\ run'[q].error = "abandoned"
    BY <2>1, LookedAtRows
  <2>6. TypeOK'
    BY <2>2, <2>4 DEF TypeOK, DeliveryTypeOK
  <2>7. OneAtATime' /\ StepInv' /\ SubmittedInv'
    BY <2>2 DEF OneAtATime, StepInv, SubmittedInv
  <2>8. RowInv' /\ AbandonedInv'
    BY <2>2, <2>3, <2>5 DEF RowInv, AbandonedInv, Active
  <2>9. run'[r] # Unused
    BY <2>3 DEF Unused
  <2>10. OrderInv'
    <3> SUFFICES ASSUME NEW q \in Runs, NEW p \in Runs, run'[q] # Unused, run'[p] = Unused
                 PROVE  q < p
      BY DEF OrderInv
    <3>1. p # r /\ run[p] = Unused /\ r <= p
      BY <2>1, <2>5, <2>9
    <3>2. CASE q = r
      BY <3>1, <3>2
    <3>3. CASE q # r
      BY <3>1, <3>3, <2>5 DEF OrderInv
    <3> QED BY <3>2, <3>3
  <2>11. \A q \in Runs : q \in pending => run'[q] = run[q]
    BY <2>2, <2>5
  <2>12. ClaimedInv' /\ ReadInv'
    BY <2>2, <2>11 DEF ClaimedInv, ReadInv, OneAtATime
  <2>13. \A q \in Runs : run[q].status = "succeeded" => run'[q] = run[q]
    BY <2>1, <2>5 DEF Active, Unused
  <2>14. StoredInv'
    BY <2>2, <2>13, StoredByRun DEF StoredInv
  <2>15. \A q \in Runs \ {r} : /\ Active(q)' => Active(q)
                               /\ run'[q].status # "none" <=> run[q].status # "none"
    BY <2>5 DEF Active
  <2>16. \A q \in RunsOf(e) : q < r /\ ~Active(q)'
    <3> SUFFICES ASSUME NEW q \in RunsOf(e) PROVE q < r /\ ~Active(q)'
      OBVIOUS
    <3>1. q \in Runs /\ run[q] # Unused /\ q < r
      BY <2>1 DEF RunsOf, Unused, OrderInv
    <3>2. IsLatest(q, e) => ~Active(q)'
      BY <1>3, <2>1, <3>1 DEF RequestValidation, Active
    <3>3. Active(q) => IsLatest(q, e)
      BY DEF OneActiveRun
    <3> QED BY <3>1, <3>2, <3>3, <2>15
  <2>17. \A f \in Episodes : RunsOf(f)' = IF f = e THEN RunsOf(f) \cup {r} ELSE RunsOf(f)
    BY <2>1, <2>3, <2>5, <2>15 DEF RunsOf, Unused
  <2>18. OneActiveRun'
    <3> SUFFICES ASSUME NEW f \in Episodes, NEW q \in RunsOf(f)', Active(q)', NEW p \in RunsOf(f)'
                 PROVE  p <= q
      BY DEF OneActiveRun, IsLatest
    <3>1. CASE f = e
      <4>1. q \in RunsOf(e) \cup {r} /\ p \in RunsOf(e) \cup {r}
        BY <3>1, <2>17
      <4>2. q = r
        BY <4>1, <2>16
      <4> QED BY <4>1, <4>2, <2>16
    <3>2. CASE f # e
      BY <3>2, <2>1, <2>15, <2>17 DEF OneActiveRun, IsLatest, RunsOf, Unused
    <3> QED BY <3>1, <3>2
  <2> QED BY <2>6, <2>7, <2>8, <2>10, <2>12, <2>14, <2>18
<1>4. CASE DeleteNovel \/ RestoreNovel \/ Expire
  <2>1. /\ novel' \in {"there", "trashed", "expired"}
        /\ UNCHANGED <<pending, ahead, tries, handling, settled, saved, blank, submitted, run,
                       stored, step, read, failure>>
    BY <1>4 DEF DeleteNovel, RestoreNovel, Expire, deliveryVars, jobVars
  <2>2. TypeOK'
    BY <2>1 DEF TypeOK, DeliveryTypeOK
  <2> QED BY <2>1, <2>2 DEF OneAtATime, StepInv, RowInv, OrderInv, ClaimedInv, ReadInv, StoredInv,
             SubmittedInv, AbandonedInv, OneActiveRun, RunsOf, IsLatest, Active
<1>5. CASE RequestEmptyTrash
  <2>1. /\ pending' = pending \cup {EmptyTrash}
        /\ ahead' = [j \in Jobs |-> IF j \in {EmptyTrash} THEN pending ELSE ahead[j]]
        /\ UNCHANGED <<tries, handling, settled, novel, saved, blank, submitted, run, stored,
                       step, read, failure>>
    BY <1>5 DEF RequestEmptyTrash, Submit, SubmitAll, jobVars, runVars
  <2>2. TypeOK'
    BY <2>1 DEF TypeOK, DeliveryTypeOK
  <2> QED BY <2>1, <2>2 DEF OneAtATime, StepInv, RowInv, OrderInv, ClaimedInv, ReadInv, StoredInv,
             SubmittedInv, AbandonedInv, OneActiveRun, RunsOf, IsLatest, Active
<1> QED BY <1>1, <1>2, <1>3, <1>4, <1>5 DEF Requests

-----------------------------------------------------------------------------
(* The job at work is the only one, and in the queue. *)
LEMMA AtWork ==
  ASSUME IInv, NEW r \in handling \cap Runs
  PROVE  handling = {r} /\ settled = {} /\ r \in pending
  BY DEF IInv, OneAtATime

(* A step of a job that changes only where it is, or what it holds. *)
LEMMA JobVarsStep ==
  ASSUME IInv, UNCHANGED <<deliveryVars, runVars>>, StepInv', ClaimedInv', ReadInv',
         step' \in {"none", "claim", "input", "infer", "store", "fail", "list", "purge", "return"},
         read' \in 0 .. MaxSaves,
         failure' \in {"none", "empty_manuscript", "inference_failed", "internal"}
  PROVE  IInv'
<1>1. UNCHANGED <<pending, ahead, tries, handling, settled, novel, saved, blank, submitted, run, stored>>
  BY DEF deliveryVars, runVars
<1>2. TypeOK'
  BY <1>1 DEF IInv, TypeOK, DeliveryTypeOK
<1> QED BY <1>1, <1>2 DEF IInv, OneAtATime, RowInv, OrderInv, StoredInv, SubmittedInv, AbandonedInv,
           OneActiveRun, RunsOf, IsLatest, Active

(* A step of the job of run r that changes r's status and nothing else of the *)
(* rows, from active to what an active run may become.                        *)
LEMMA RunRowStep ==
  ASSUME IInv, NEW r \in handling \cap Runs, Active(r),
         UNCHANGED <<deliveryVars, novel, saved, blank>>,
         run' \in [Runs -> RunRow],
         \A q \in Runs \ {r} : run'[q] = run[q],
         run'[r].episode = run[r].episode,
         run'[r].status \in {"running", "succeeded", "failed"},
         run'[r].error # "abandoned",
         run'[r].error # "none" => run'[r].status = "failed"
  PROVE  /\ DeliveryTypeOK' /\ OneAtATime' /\ RowInv' /\ OrderInv' /\ AbandonedInv' /\ OneActiveRun'
         /\ \A q \in Runs : run[q].status = "succeeded" =>
              run'[q].status = "succeeded" /\ run'[q].episode = run[q].episode
<1> USE DEF IInv
<1>1. UNCHANGED <<pending, ahead, tries, handling, settled, novel, saved, blank>>
  BY DEF deliveryVars
<1>2. DeliveryTypeOK' /\ OneAtATime'
  BY <1>1 DEF TypeOK, DeliveryTypeOK, OneAtATime
<1>3. run[r] # Unused /\ run'[r] # Unused
  BY DEF Active, Unused
<1>4. RowInv' /\ AbandonedInv'
  BY <1>1, <1>3 DEF RowInv, AbandonedInv, Unused
<1>5. OrderInv'
  BY <1>3 DEF OrderInv
<1>6. \A e \in Episodes : RunsOf(e)' = RunsOf(e)
  BY DEF RunsOf, Active
<1>7. OneActiveRun'
  BY <1>6 DEF OneActiveRun, IsLatest, RunsOf, Active
<1> QED BY <1>2, <1>4, <1>5, <1>7 DEF Active

LEMMA HandlerStep == ASSUME IInv, NEW r \in Runs, Handler(r) PROVE IInv'
<1>1. r \in handling \cap Runs /\ handling = {r} /\ r \in pending /\ r # EmptyTrash
  BY AtWork DEF Handler, ClaimRun, ReadInput, Infer, Store, Unexpected, FinishFailed, LeaveRow
<1>2. CASE ClaimRun(r)
  <2>1. CASE Active(r) /\ run' = [run EXCEPT ![r].status = "running"] /\ step' = "input"
    <3>1. UNCHANGED <<pending, ahead, tries, handling, settled, novel, saved, blank, submitted,
                      stored, read, failure>>
      BY <1>2 DEF ClaimRun, deliveryVars
    <3>2. run' \in [Runs -> RunRow] /\ run'[r].status = "running" /\ run'[r].episode = run[r].episode
          /\ run'[r].error = run[r].error /\ \A q \in Runs \ {r} : run'[q] = run[q]
      BY <2>1 DEF IInv, TypeOK, RunRow
    <3>3. run[r].error = "none"
      BY <2>1 DEF IInv, RowInv, Active
    <3>4. /\ DeliveryTypeOK' /\ OneAtATime' /\ RowInv' /\ OrderInv' /\ AbandonedInv' /\ OneActiveRun'
          /\ \A q \in Runs : run[q].status = "succeeded" =>
               run'[q].status = "succeeded" /\ run'[q].episode = run[q].episode
      BY <1>1, <1>2, <2>1, <3>2, <3>3, RunRowStep DEF ClaimRun
    <3>5. TypeOK'
      BY <2>1, <3>1, <3>2, <3>4 DEF IInv, TypeOK
    <3>6. StoredInv' /\ SubmittedInv'
      BY <3>1, <3>4, StoredByRun DEF IInv, StoredInv, SubmittedInv
    <3>7. StepInv' /\ ClaimedInv' /\ ReadInv'
      BY <1>1, <2>1, <3>1, <3>2 DEF StepInv, ClaimedInv, ReadInv
    <3> QED BY <3>4, <3>5, <3>6, <3>7 DEF IInv
  <2>2. CASE ~Active(r) /\ step' = "return" /\ run' = run
    BY <1>1, <1>2, <2>2, JobVarsStep DEF ClaimRun, deliveryVars, runVars, IInv, TypeOK, StepInv,
       ClaimedInv, ReadInv
  <2> QED BY <1>2, <2>1, <2>2 DEF ClaimRun
<1>3. CASE ReadInput(r)
  <2>1. run[r].status = "running" /\ run[r].episode \in Episodes
    <3>1. step = "input"
      BY <1>3 DEF ReadInput
    <3>2. run[r].status = "running"
      BY <1>1, <3>1 DEF IInv, ClaimedInv
    <3> QED BY <3>2 DEF IInv, RowInv, Unused
  <2>2. /\ UNCHANGED <<pending, ahead, tries, handling, settled, novel, saved, blank, submitted,
                       run, stored>>
        /\ step' \in {"return", "fail", "infer"}
        /\ failure' \in {"none", "empty_manuscript", "inference_failed", "internal"}
        /\ read' \in 0 .. MaxSaves
        /\ step' = "infer" => read' = saved[run[r].episode] /\ ~blank[run[r].episode]
    BY <1>3, <2>1 DEF ReadInput, FailWith, IInv, TypeOK, deliveryVars, runVars
  <2>3. saved[run[r].episode] \in Nat /\ stored[run[r].episode].at <= saved[run[r].episode]
    BY <2>1 DEF IInv, TypeOK, StoredInv
  <2>4. StepInv' /\ ClaimedInv' /\ ReadInv'
    BY <1>1, <2>1, <2>2, <2>3 DEF StepInv, ClaimedInv, ReadInv
  <2> QED BY <2>2, <2>4, JobVarsStep, <1>3 DEF ReadInput
<1>4. CASE Infer(r) \/ Unexpected(r) \/ LeaveRow(r)
  <2>1. /\ UNCHANGED <<pending, ahead, tries, handling, settled, novel, saved, blank, submitted,
                       run, stored, read>>
        /\ step' \in {"store", "fail", "return"}
        /\ step' = "store" => step = "infer"
        /\ step' = "fail" => step \in {"input", "infer", "store"}
        /\ failure' \in {"none", "empty_manuscript", "inference_failed", "internal"}
    BY <1>4 DEF Infer, Unexpected, LeaveRow, FailWith, IInv, TypeOK, deliveryVars, runVars
  <2>2. StepInv' /\ ClaimedInv' /\ ReadInv'
    BY <1>1, <2>1 DEF IInv, StepInv, ClaimedInv, ReadInv
  <2>3. read' \in 0 .. MaxSaves
    BY <2>1 DEF IInv, TypeOK
  <2>4. UNCHANGED <<deliveryVars, runVars>>
    BY <2>1 DEF deliveryVars, runVars
  <2> QED BY <2>1, <2>2, <2>3, <2>4, JobVarsStep
<1>5. CASE Store(r)
  <2> DEFINE e == run[r].episode
  <2>1. run[r].status = "running" /\ e \in Episodes /\ run[r].error = "none"
    BY <1>1, <1>5 DEF Store, IInv, ClaimedInv, RowInv, Unused
  <2>2. CASE /\ stored' = [stored EXCEPT ![e] = [by |-> r, at |-> read]]
             /\ run' = [run EXCEPT ![r].status = "succeeded", ![r].at = read]
             /\ submitted' = IF saved[e] = read THEN submitted \cup {e} ELSE submitted
    <3>1. UNCHANGED <<pending, ahead, tries, handling, settled, novel, saved, blank, read, failure>>
          /\ step' = "return"
      BY <1>5 DEF Store, deliveryVars
    <3>2. read \in 0 .. MaxSaves /\ read <= saved[e] /\ (read = saved[e] => ~blank[e])
          /\ stored[e].at <= read /\ stored[e].at \in Nat /\ saved[e] \in Nat
      BY <1>1, <1>5, <2>1 DEF Store, IInv, ReadInv, TypeOK
    <3>3. run' \in [Runs -> RunRow] /\ run'[r].status = "succeeded" /\ run'[r].episode = e
          /\ run'[r].error = "none" /\ \A q \in Runs \ {r} : run'[q] = run[q]
      BY <2>1, <2>2, <3>2 DEF IInv, TypeOK, RunRow
    <3>4. /\ DeliveryTypeOK' /\ OneAtATime' /\ RowInv' /\ OrderInv' /\ AbandonedInv' /\ OneActiveRun'
          /\ \A q \in Runs : run[q].status = "succeeded" =>
               run'[q].status = "succeeded" /\ run'[q].episode = run[q].episode
      BY <1>1, <1>5, <2>1, <3>3, RunRowStep DEF Store, Active
    <3>5. stored' \in [Episodes -> [by : Runs \cup {NoRun}, at : 0 .. MaxSaves]]
      BY <2>2, <3>2 DEF IInv, TypeOK
    <3>6. stored'[e].by = r /\ stored'[e].at = read /\ \A f \in Episodes \ {e} : stored'[f] = stored[f]
      BY <2>1, <2>2 DEF IInv, TypeOK
    <3>7. TypeOK'
      BY <2>1, <2>2, <3>1, <3>3, <3>4, <3>5 DEF IInv, TypeOK
    <3>8. StoredInv'
      <4>1. stored'[e].at <= saved'[e] /\ run'[stored'[e].by].status = "succeeded"
            /\ run'[stored'[e].by].episode = e
        BY <3>1, <3>2, <3>3, <3>6
      <4>2. ASSUME NEW f \in Episodes \ {e}
            PROVE  /\ stored'[f].at <= saved'[f]
                   /\ stored'[f].by # NoRun => run'[stored'[f].by].status = "succeeded"
                                              /\ run'[stored'[f].by].episode = f
        BY <3>1, <3>4, <3>6, StoredByRun DEF IInv, StoredInv
      <4> QED BY <4>1, <4>2 DEF StoredInv
    <3>9. e \in submitted => read = saved[e]
      BY <3>2 DEF IInv, SubmittedInv
    <3>10. SubmittedInv'
      BY <2>1, <2>2, <3>1, <3>2, <3>6, <3>9, r # NoRun DEF IInv, SubmittedInv, TypeOK
    <3>11. StepInv' /\ ClaimedInv' /\ ReadInv'
      BY <1>1, <3>1 DEF StepInv, ClaimedInv, ReadInv
    <3> QED BY <3>4, <3>7, <3>8, <3>10, <3>11 DEF IInv
  <2>3. CASE UNCHANGED <<stored, run, submitted>>
    BY <1>1, <1>5, <2>3, JobVarsStep DEF Store, deliveryVars, runVars, IInv, TypeOK, StepInv,
       ClaimedInv, ReadInv
  <2> QED BY <1>5, <2>2, <2>3 DEF Store
<1>6. CASE FinishFailed(r)
  <2>1. run[r].status = "running" /\ run[r].episode \in Episodes
    BY <1>1, <1>6 DEF FinishFailed, IInv, ClaimedInv, RowInv, Unused
  <2>2. UNCHANGED <<pending, ahead, tries, handling, settled, novel, saved, blank, submitted,
                    stored, read, failure>>
        /\ step' = "return" /\ run' = [run EXCEPT ![r].status = "failed", ![r].error = failure]
    BY <1>6, <2>1 DEF FinishFailed, deliveryVars
  <2>3. run' \in [Runs -> RunRow] /\ run'[r].status = "failed" /\ run'[r].episode = run[r].episode
        /\ run'[r].error # "abandoned" /\ \A q \in Runs \ {r} : run'[q] = run[q]
    BY <2>2 DEF IInv, TypeOK, RunRow
  <2>4. /\ DeliveryTypeOK' /\ OneAtATime' /\ RowInv' /\ OrderInv' /\ AbandonedInv' /\ OneActiveRun'
        /\ \A q \in Runs : run[q].status = "succeeded" =>
             run'[q].status = "succeeded" /\ run'[q].episode = run[q].episode
    BY <1>1, <1>6, <2>1, <2>3, RunRowStep DEF FinishFailed, Active
  <2>5. TypeOK'
    BY <2>2, <2>3, <2>4 DEF IInv, TypeOK
  <2>6. StoredInv' /\ SubmittedInv'
    BY <2>2, <2>4, StoredByRun DEF IInv, StoredInv, SubmittedInv
  <2>7. StepInv' /\ ClaimedInv' /\ ReadInv'
    BY <1>1, <2>2 DEF StepInv, ClaimedInv, ReadInv
  <2> QED BY <2>4, <2>5, <2>6, <2>7 DEF IInv
<1> QED BY <1>2, <1>3, <1>4, <1>5, <1>6 DEF Handler

-----------------------------------------------------------------------------
LEMMA TrashStep == IInv /\ (ListTrash \/ Purge) => IInv'
<1> SUFFICES ASSUME IInv, ListTrash \/ Purge PROVE IInv'
  OBVIOUS
<1>1. handling = {EmptyTrash} /\ handling \cap Runs = {}
  BY DEF ListTrash, Purge, IInv, OneAtATime
<1>2. CASE UNCHANGED runVars
  <2>1. /\ UNCHANGED <<deliveryVars, runVars, read, failure>>
        /\ handling' = handling /\ step' \in {"purge", "return"}
    BY <1>2 DEF ListTrash, Purge, deliveryVars
  <2> QED BY <1>1, <2>1, JobVarsStep DEF IInv, TypeOK, StepInv, ClaimedInv, ReadInv
<1>3. CASE ~UNCHANGED runVars
  <2>1. /\ UNCHANGED <<pending, ahead, tries, handling, settled, read, failure>>
        /\ novel' = "gone" /\ step' = "return" /\ submitted' = {}
        /\ saved' = [e \in Episodes |-> 0]
        /\ blank' = [e \in Episodes |-> TRUE]
        /\ run' = [r \in Runs |-> Unused]
        /\ stored' = [e \in Episodes |-> NothingStored]
    BY <1>3 DEF ListTrash, Purge, deliveryVars
  <2>2. TypeOK'
    BY <2>1 DEF IInv, TypeOK, DeliveryTypeOK, RunRow, Unused, NothingStored
  <2>3. OneAtATime' /\ StepInv' /\ ClaimedInv' /\ ReadInv'
    BY <1>1, <2>1 DEF IInv, OneAtATime, StepInv, ClaimedInv, ReadInv
  <2>4. RowInv' /\ OrderInv' /\ AbandonedInv' /\ OneActiveRun' /\ StoredInv' /\ SubmittedInv'
    BY <2>1 DEF RowInv, OrderInv, AbandonedInv, OneActiveRun, RunsOf, Active, StoredInv,
       SubmittedInv, Unused, NothingStored
  <2> QED BY <2>2, <2>3, <2>4 DEF IInv
<1> QED BY <1>2, <1>3

(* A step of the queue: the rows stay as they are, and no job comes or is    *)
(* started in the middle of its code.                                        *)
LEMMA DeliveryStep ==
  ASSUME IInv, UNCHANGED runVars, DeliveryTypeOK', OneAtATime', StepInv',
         pending' \subseteq pending,
         step' \in {"none", "claim", "list"} \/ (step' = step /\ handling' = handling),
         read' \in {0, read}, failure' \in {"none", failure},
         step' \in {"infer", "store"} => read' = read
  PROVE  IInv'
<1>1. UNCHANGED <<novel, saved, blank, submitted, run, stored>>
  BY DEF runVars
<1>2. TypeOK'
  BY <1>1 DEF IInv, TypeOK
<1>3. ClaimedInv' /\ ReadInv'
  BY <1>1 DEF IInv, ClaimedInv, ReadInv
<1> QED BY <1>1, <1>2, <1>3 DEF IInv, RowInv, OrderInv, StoredInv, SubmittedInv, AbandonedInv,
           OneActiveRun, RunsOf, IsLatest, Active

LEMMA QueueStep ==
  IInv /\ ((\E j \in Jobs : StartJob(j) \/ ReturnJob(j) \/ GiveUpJob(j) \/ AckJob(j)) \/ CutOff)
    => IInv'
<1>1. ASSUME IInv, NEW j \in Jobs, StartJob(j) PROVE IInv'
  <2>1. DeliveryTypeOK'
    BY <1>1, CountedInRange DEF StartJob, Start, IInv, TypeOK, DeliveryTypeOK
  <2>2. OneAtATime' /\ StepInv' /\ pending' = pending /\ step' \in {"claim", "list"}
    BY <1>1 DEF StartJob, Start, IsNext, IInv, OneAtATime, StepInv
  <2> QED BY <1>1, <2>1, <2>2, DeliveryStep DEF StartJob
<1>2. ASSUME IInv, NEW j \in Jobs, ReturnJob(j) PROVE IInv'
  <2>1. DeliveryTypeOK' /\ OneAtATime' /\ StepInv'
    BY <1>2 DEF ReturnJob, Finish, IInv, TypeOK, DeliveryTypeOK, OneAtATime, StepInv
  <2> QED BY <1>2, <2>1, DeliveryStep DEF ReturnJob, Finish
<1>3. ASSUME IInv, NEW j \in Jobs, GiveUpJob(j) PROVE IInv'
  <2>1. DeliveryTypeOK' /\ OneAtATime' /\ StepInv'
    BY <1>3, CountedInRange DEF GiveUpJob, GiveUp, IsNext, jobVars, IInv, TypeOK, DeliveryTypeOK,
       OneAtATime, StepInv
  <2> QED BY <1>3, <2>1, DeliveryStep DEF GiveUpJob, GiveUp, jobVars
<1>4. ASSUME IInv, NEW j \in Jobs, AckJob(j) PROVE IInv'
  <2>1. DeliveryTypeOK'
    BY <1>4 DEF AckJob, Remove, IInv, TypeOK, DeliveryTypeOK
  <2>2. OneAtATime' /\ StepInv'
    BY <1>4 DEF AckJob, Remove, jobVars, IInv, OneAtATime, StepInv
  <2> QED BY <1>4, <2>1, <2>2, DeliveryStep DEF AckJob, Remove, jobVars
<1>5. ASSUME IInv, CutOff PROVE IInv'
  <2>1. DeliveryTypeOK' /\ OneAtATime' /\ StepInv'
    BY <1>5 DEF CutOff, Interrupt, IInv, TypeOK, DeliveryTypeOK, OneAtATime, StepInv
  <2> QED BY <1>5, <2>1, DeliveryStep DEF CutOff, Interrupt
<1> QED BY <1>1, <1>2, <1>3, <1>4, <1>5

-----------------------------------------------------------------------------
LEMMA InvStep == IInv /\ [Next]_vars => IInv'
<1> SUFFICES ASSUME IInv, [Next]_vars PROVE IInv'
  OBVIOUS
<1>1. CASE Next
  BY <1>1, RequestStep, HandlerStep, TrashStep, QueueStep DEF Next
<1>2. CASE UNCHANGED vars
  <2>1. UNCHANGED <<deliveryVars, runVars, step, read, failure, handling>>
    BY <1>2 DEF vars, jobVars, deliveryVars
  <2>2. StepInv' /\ ClaimedInv' /\ ReadInv'
    BY <2>1 DEF runVars, IInv, StepInv, ClaimedInv, ReadInv
  <2> QED BY <2>1, <2>2, JobVarsStep DEF IInv, TypeOK
<1> QED BY <1>1, <1>2

LEMMA Inductive == Spec => []IInv
  BY InvInit, InvStep, PTL DEF Spec

(* An episode has one active run at most, its latest, whatever is requested, *)
(* polled, lost or delivered again.                                          *)
THEOREM OneRunAtATime == Spec => []Inv
<1>1. IInv => Inv
  BY DEF IInv, Inv
<1> QED BY <1>1, Inductive, PTL

(* A submitted episode's findings are those of a run that succeeded on the   *)
(* content that is saved: what was saved while it ran keeps it a draft.      *)
THEOREM SubmittedWasValidated == Spec => []SubmittedIsValidated
<1>1. IInv => SubmittedIsValidated
  BY StoredByRun DEF IInv, SubmittedInv, StoredInv, SubmittedIsValidated, TypeOK
<1> QED BY <1>1, Inductive, PTL

(* A run given up on for the author has no job left, and none of its         *)
(* findings is stored: its job is not there to succeed.                      *)
THEOREM AbandonedStaysOver == Spec => []AbandonedIsOver
<1>1. IInv => AbandonedIsOver
  <2> SUFFICES ASSUME IInv, NEW r \in Runs, run[r].error = "abandoned"
               PROVE  r \notin pending /\ \A e \in Episodes : stored[e].by # r
    BY DEF AbandonedIsOver
  <2>1. r \notin pending /\ run[r].status = "failed"
    BY DEF IInv, AbandonedInv, RowInv
  <2>2. \A e \in Episodes : stored[e].by # r
    BY <2>1 DEF IInv, StoredInv
  <2> QED BY <2>1, <2>2
<1> QED BY <1>1, Inductive, PTL

(* Findings are replaced only by a later run's, of the same content or a     *)
(* later one: the run that stores is its episode's latest, and the content   *)
(* it read was saved no earlier than what is stored was read.                *)
THEOREM FindingsOnlyGoForward == Spec => FindingsGoForward
<1> DEFINE Forward ==
  novel' # "gone" => \A e \in Episodes : stored'[e] # stored[e] =>
    /\ stored[e].by # NoRun => stored[e].by < stored'[e].by
    /\ stored[e].at <= stored'[e].at
<1>1. IInv /\ [Next]_vars => [Forward]_vars
  <2> SUFFICES ASSUME IInv, Next, novel' # "gone",
                      NEW e \in Episodes, stored'[e] # stored[e]
               PROVE  /\ stored[e].by # NoRun => stored[e].by < stored'[e].by
                      /\ stored[e].at <= stored'[e].at
    OBVIOUS
  <2>1. PICK r \in Runs : Store(r)
    BY DEF Next, Requests, Save, Poll, RequestValidation, DeleteNovel, RestoreNovel, Expire,
       RequestEmptyTrash, Handler, ClaimRun, ReadInput, Infer, Unexpected, FinishFailed, LeaveRow,
       ListTrash, Purge, StartJob, ReturnJob, GiveUpJob, AckJob, CutOff, runVars, jobVars
  <2>2. /\ r \in handling \cap Runs /\ step = "store" /\ run[r].status = "running"
        /\ stored' = [stored EXCEPT ![run[r].episode] = [by |-> r, at |-> read]]
    BY <2>1 DEF Store
  <2>3. e = run[r].episode /\ stored'[e].by = r /\ stored'[e].at = read
    BY <2>2 DEF IInv, TypeOK
  <2>4. stored[e].at <= read
    BY <2>2, <2>3 DEF IInv, ReadInv
  <2>5. ASSUME stored[e].by # NoRun PROVE stored[e].by < r
    <3>1. /\ stored[e].by \in Runs /\ run[stored[e].by].status = "succeeded"
          /\ run[stored[e].by].episode = e
      BY <2>5, StoredByRun DEF IInv, StoredInv
    <3>2. stored[e].by \in RunsOf(e) /\ r \in RunsOf(e) /\ Active(r) /\ stored[e].by # r
      BY <2>2, <2>3, <3>1 DEF RunsOf, Active
    <3>3. IsLatest(r, e)
      BY <3>2 DEF IInv, OneActiveRun
    <3>4. stored[e].by <= r
      BY <3>2, <3>3 DEF IsLatest
    <3>5. stored[e].by \in Nat /\ r \in Nat
      BY <3>1
    <3> QED BY <3>2, <3>4, <3>5
  <2> QED BY <2>3, <2>4, <2>5
<1> QED BY <1>1, Inductive, PTL DEF Spec, FindingsGoForward
===============================================================================
