---------------------------- MODULE ValidationRun ----------------------------
(***************************************************************************)
(* The life of a validation run: the author's requests on a novel's        *)
(* episodes (api/episodes.py), the validate_episode job's transactions     *)
(* (pipeline/validate_episode.py), the trash (api/novels.py) and the job   *)
(* emptying it (pipeline/empty_trash.py), composed with the job queue      *)
(* (JobDelivery).  Jobs may be cut off anywhere and delivered again.       *)
(*                                                                         *)
(* One transaction is one action (models/db.py); between two transactions  *)
(* of a job anything else may happen.  A job is named by the run it is     *)
(* for.  An episode's content is the number of its saves, which also       *)
(* stands for its updated_at; what a run finds (claims, flags) is          *)
(* represented by the run and the content it was found in.                 *)
(***************************************************************************)
EXTENDS JobDelivery, FiniteSets

CONSTANTS
  Episodes,
  Runs,       \* rows of validation_runs, in the order they are created
  EmptyTrash, \* the empty_trash job: queued or running at most once
  MaxSaves,   \* bound: how often an episode's content changes
  NoRun

ASSUME RunAssumption ==
  /\ Runs \subseteq Nat /\ EmptyTrash \notin Runs /\ NoRun \notin Runs
  /\ Jobs = Runs \cup {EmptyTrash}
  /\ MaxSaves \in Nat

VARIABLES
  novel,      \* "there", "trashed", "expired" (in it past TRASH_KEPT), "gone"
  saved,      \* Episode.content, .updated_at: how often its content changed
  blank,      \* is the content nothing but white space?
  submitted,  \* the episodes with status "submitted"; the others are drafts
  run,        \* validation_runs: [status, error, episode, at]; at: content_updated_at
  stored,     \* stored[e]: [by, at] whose claims and flags e has, of which content
  step,       \* where the job being handled is
  read,       \* the content_updated_at that job read
  failure     \* the error code it is about to record

runVars == <<novel, saved, blank, submitted, run, stored>>
jobVars == <<step, read, failure>>
vars == <<deliveryVars, runVars, jobVars>>

Unused == [status |-> "none", error |-> "none", episode |-> NoRun, at |-> 0]
NothingStored == [by |-> NoRun, at |-> 0]

Active(r) == run[r].status \in {"queued", "running"}

\* _latest_run.
RunsOf(e) == {r \in Runs : run[r].status # "none" /\ run[r].episode = e}
IsLatest(r, e) == r \in RunsOf(e) /\ \A q \in RunsOf(e) : q <= r

Init ==
  /\ DeliveryInit
  /\ novel = "there"
  /\ saved = [e \in Episodes |-> 0]
  /\ blank = [e \in Episodes |-> TRUE]
  /\ submitted = {}
  /\ run = [r \in Runs |-> Unused]
  /\ stored = [e \in Episodes |-> NothingStored]
  /\ step = "none" /\ read = 0 /\ failure = "none"

-----------------------------------------------------------------------------
(* The author's requests. All but restore answer 404 on a novel not there. *)

\* save_episode, with changed content; unchanged content touches nothing.
Save(e, nowBlank) ==
  /\ novel = "there"
  /\ saved[e] < MaxSaves
  /\ saved' = [saved EXCEPT ![e] = @ + 1]
  /\ blank' = [blank EXCEPT ![e] = nowBlank]
  /\ submitted' = submitted \ {e}
  /\ UNCHANGED <<deliveryVars, novel, run, stored, jobVars>>

\* Variant: a run active is taken for lost while its job is there.
ActiveIsLost(r) == Active(r)

\* _abandon_if_lost, on row r as given.
Lost(r) == Active(r) /\ r \notin pending
Abandoned(row) == [row EXCEPT !.status = "failed", !.error = "abandoned"]

\* Variant: lost runs are not looked for.
NotLookedAt(e) == run

\* The runs once e's latest one is looked at, by a request or a poll.
LookedAt(e) ==
  [r \in Runs |-> IF IsLatest(r, e) /\ Lost(r) THEN Abandoned(run[r]) ELSE run[r]]

\* Variant: a run already active is not looked for.
RequestAnother(e) ==
  /\ novel = "there" /\ ~blank[e]
  /\ \E r \in Runs :
       /\ run[r] = Unused /\ \A q \in Runs : run[q] = Unused => r <= q
       /\ run' = [LookedAt(e) EXCEPT ![r] =
                    [Unused EXCEPT !.status = "queued", !.episode = e]]
       /\ Submit(r)
  /\ UNCHANGED <<novel, saved, blank, submitted, stored, jobVars>>

\* request_validation. Run ids are taken in order, as created_at grows.
RequestValidation(e) ==
  /\ novel = "there" /\ ~blank[e]
  /\ \A r \in Runs : IsLatest(r, e) => LookedAt(e)[r].status \notin {"queued", "running"}
  /\ \E r \in Runs :
       /\ run[r] = Unused /\ \A q \in Runs : run[q] = Unused => r <= q
       /\ run' = [LookedAt(e) EXCEPT ![r] =
                    [Unused EXCEPT !.status = "queued", !.episode = e]]
       /\ Submit(r)
  /\ UNCHANGED <<novel, saved, blank, submitted, stored, jobVars>>

\* get_latest_validation; also request_validation finding a run still active.
Poll(e) ==
  /\ novel = "there"
  /\ run' = LookedAt(e)
  /\ UNCHANGED <<deliveryVars, novel, saved, blank, submitted, stored, jobVars>>

DeleteNovel ==
  /\ novel = "there"
  /\ novel' = "trashed"
  /\ UNCHANGED <<deliveryVars, saved, blank, submitted, run, stored, jobVars>>

RestoreNovel ==
  /\ novel \in {"trashed", "expired"}
  /\ novel' = "there"
  /\ UNCHANGED <<deliveryVars, saved, blank, submitted, run, stored, jobVars>>

\* TRASH_KEPT passes.
Expire ==
  /\ novel = "trashed"
  /\ novel' = "expired"
  /\ UNCHANGED <<deliveryVars, saved, blank, submitted, run, stored, jobVars>>

\* request_empty_trash, at startup and hourly.
RequestEmptyTrash ==
  /\ EmptyTrash \notin pending
  /\ Submit(EmptyTrash)
  /\ UNCHANGED <<runVars, jobVars>>

-----------------------------------------------------------------------------
(* validate_episode, in the runner's thread. *)

StartJob(j) ==
  /\ Start(j)
  /\ step' = IF j \in Runs THEN "claim" ELSE "list"
  /\ UNCHANGED <<runVars, read, failure>>

\* Variant: the UPDATE claiming the run is unconditional.
ClaimAnyRun(r) ==
  /\ r \in handling /\ step = "claim"
  /\ run' = [run EXCEPT ![r].status = "running"]
  /\ step' = "input"
  /\ UNCHANGED <<deliveryVars, novel, saved, blank, submitted, stored, read, failure>>

\* _claim_run: a run that isn't queued or running (any more) is skipped.
ClaimRun(r) ==
  /\ r \in handling /\ step = "claim"
  /\ \/ /\ Active(r)
        /\ run' = [run EXCEPT ![r].status = "running"]
        /\ step' = "input"
     \/ ~Active(r) /\ step' = "return" /\ UNCHANGED run
  /\ UNCHANGED <<deliveryVars, novel, saved, blank, submitted, stored, read, failure>>

FailWith(code) == step' = "fail" /\ failure' = code

\* _read_input.
ReadInput(r) ==
  /\ r \in handling /\ step = "input"
  /\ \/ novel # "there" /\ step' = "return" /\ UNCHANGED <<read, failure>>
     \/ /\ novel = "there" /\ blank[run[r].episode]
        /\ FailWith("empty_manuscript") /\ UNCHANGED read
     \/ /\ novel = "there" /\ ~blank[run[r].episode]
        /\ read' = saved[run[r].episode]
        /\ step' = "infer" /\ UNCHANGED failure
  /\ UNCHANGED <<deliveryVars, runVars>>

\* extract_claims and _judge: the models run, with no transaction open.
Infer(r) ==
  /\ r \in handling /\ step = "infer"
  /\ \/ step' = "store" /\ UNCHANGED failure
     \/ FailWith("inference_failed")
  /\ UNCHANGED <<deliveryVars, runVars, read>>

\* Variant: the episode is submitted whatever was saved during the run.
StoreSubmits(r) ==
  LET e == run[r].episode IN
  /\ r \in handling /\ step = "store"
  /\ \/ /\ novel = "there" /\ run[r].status = "running"
        /\ stored' = [stored EXCEPT ![e] = [by |-> r, at |-> read]]
        /\ run' = [run EXCEPT ![r].status = "succeeded", ![r].at = read]
        /\ submitted' = submitted \cup {e}
     \/ /\ novel # "there" \/ run[r].status # "running"
        /\ UNCHANGED <<stored, run, submitted>>
  /\ step' = "return"
  /\ UNCHANGED <<deliveryVars, novel, saved, blank, read, failure>>

\* _store.
Store(r) ==
  LET e == run[r].episode IN
  /\ r \in handling /\ step = "store"
  /\ \/ /\ novel = "there" /\ run[r].status = "running"
        /\ stored' = [stored EXCEPT ![e] = [by |-> r, at |-> read]]
        /\ run' = [run EXCEPT ![r].status = "succeeded", ![r].at = read]
        /\ submitted' = IF saved[e] = read THEN submitted \cup {e} ELSE submitted
     \/ /\ novel # "there" \/ run[r].status # "running"
        /\ UNCHANGED <<stored, run, submitted>>
  /\ step' = "return"
  /\ UNCHANGED <<deliveryVars, novel, saved, blank, read, failure>>

\* Any step of the job but the first may raise what the job did not expect.
Unexpected(r) ==
  /\ r \in handling /\ step \in {"input", "infer", "store"}
  /\ FailWith("internal")
  /\ UNCHANGED <<deliveryVars, runVars, read>>

\* _finish_failed: conditional, so a run given up on meanwhile stays as it is.
FinishFailed(r) ==
  /\ r \in handling /\ step = "fail"
  /\ run' = IF run[r].status = "running"
              THEN [run EXCEPT ![r].status = "failed", ![r].error = failure]
              ELSE run
  /\ step' = "return"
  /\ UNCHANGED <<deliveryVars, novel, saved, blank, submitted, stored, read, failure>>

\* _claim_run or _finish_failed raised (the database is gone): the runner's
\* run_once catches it, and the row is left waiting.
LeaveRow(r) ==
  /\ r \in handling /\ step \in {"claim", "fail"}
  /\ step' = "return"
  /\ UNCHANGED <<deliveryVars, runVars, read, failure>>

-----------------------------------------------------------------------------
(* empty_trash: the novels past TRASH_KEPT listed, then each one purged. *)

ListTrash ==
  /\ EmptyTrash \in handling /\ step = "list"
  /\ step' = IF novel = "expired" THEN "purge" ELSE "return"
  /\ UNCHANGED <<deliveryVars, runVars, read, failure>>

\* _purge: checked again in its own transaction, everything under it cascades.
Purge ==
  /\ EmptyTrash \in handling /\ step = "purge"
  /\ \/ /\ novel = "expired"
        /\ novel' = "gone"
        /\ saved' = [e \in Episodes |-> 0]
        /\ blank' = [e \in Episodes |-> TRUE]
        /\ submitted' = {}
        /\ run' = [r \in Runs |-> Unused]
        /\ stored' = [e \in Episodes |-> NothingStored]
     \/ novel # "expired" /\ UNCHANGED runVars
  /\ step' = "return"
  /\ UNCHANGED <<deliveryVars, read, failure>>

-----------------------------------------------------------------------------
(* The queue's side of the runner. *)

ReturnJob(j) ==
  /\ step = "return" /\ Finish(j)
  /\ step' = "none" /\ read' = 0 /\ failure' = "none"
  /\ UNCHANGED runVars

GiveUpJob(j) == GiveUp(j) /\ UNCHANGED <<runVars, jobVars>>
AckJob(j) == Remove(j) /\ UNCHANGED <<runVars, jobVars>>

\* The app is closed or dies in the middle of a job: what the job had read is gone.
CutOff ==
  /\ Interrupt
  /\ step' = "none" /\ read' = 0 /\ failure' = "none"
  /\ UNCHANGED runVars

Handler(r) ==
  \/ ClaimRun(r) \/ ReadInput(r) \/ Infer(r) \/ Store(r)
  \/ Unexpected(r) \/ FinishFailed(r) \/ LeaveRow(r)

Requests ==
  \/ \E e \in Episodes : \/ \E nowBlank \in BOOLEAN : Save(e, nowBlank)
                         \/ RequestValidation(e) \/ Poll(e)
  \/ DeleteNovel \/ RestoreNovel \/ Expire \/ RequestEmptyTrash

Next ==
  \/ Requests
  \/ \E r \in Runs : Handler(r)
  \/ ListTrash \/ Purge
  \/ \E j \in Jobs : StartJob(j) \/ ReturnJob(j) \/ GiveUpJob(j) \/ AckJob(j)
  \/ CutOff

Spec == Init /\ [][Next]_vars

\* The runner goes on (JobRunner: each job leaves the queue unless the app is
\* closed again and again), and the editor of a novel not in the trash polls.
Fairness ==
  /\ \A r \in Runs : WF_vars(Handler(r))
  /\ WF_vars(ListTrash \/ Purge)
  /\ \A j \in Jobs : /\ WF_vars(StartJob(j) \/ ReturnJob(j) \/ GiveUpJob(j))
                     /\ SF_vars(AckJob(j))
  /\ \A e \in Episodes : SF_vars(Poll(e))

FairSpec == Spec /\ Fairness

-----------------------------------------------------------------------------
RunRow == [status : {"none", "queued", "running", "succeeded", "failed"},
           error : {"none", "abandoned", "empty_manuscript", "inference_failed", "internal"},
           episode : Episodes \cup {NoRun},
           at : 0 .. MaxSaves]

TypeOK ==
  /\ DeliveryTypeOK
  /\ novel \in {"there", "trashed", "expired", "gone"}
  /\ saved \in [Episodes -> 0 .. MaxSaves]
  /\ blank \in [Episodes -> BOOLEAN]
  /\ submitted \in SUBSET Episodes
  /\ run \in [Runs -> RunRow]
  /\ stored \in [Episodes -> [by : Runs \cup {NoRun}, at : 0 .. MaxSaves]]
  /\ step \in {"none", "claim", "input", "infer", "store", "fail", "list", "purge", "return"}
  /\ read \in 0 .. MaxSaves
  /\ failure \in {"none", "empty_manuscript", "inference_failed", "internal"}

\* An episode has one active run at most, its latest: a double click, a second
\* tab or a request after a lost job doesn't validate it twice at once.
OneActiveRun ==
  \A e \in Episodes : \A r \in RunsOf(e) : Active(r) => IsLatest(r, e)

\* What every state has, whoever acts: the types, and one run at a time.
Inv == TypeOK /\ OneActiveRun

\* "Submitted" means validated: the episode's claims and flags are those of a
\* run that succeeded on exactly the content that is saved - not of an earlier
\* content, saved over while the run was at work, nor of a run given up on.
SubmittedIsValidated ==
  \A e \in submitted :
    /\ stored[e].by # NoRun /\ stored[e].at = saved[e] /\ ~blank[e]
    /\ run[stored[e].by].status = "succeeded"

\* A run is told lost to the author only once nothing can finish it any more:
\* no job for it is in the queue, and none of its findings is ever stored.
AbandonedIsOver ==
  \A r \in Runs : run[r].error = "abandoned" =>
    /\ r \notin pending
    /\ \A e \in Episodes : stored[e].by # r

\* An episode's findings are replaced only by those of a later run, on the same
\* content or a later one: no late job overwrites what a newer one found.
FindingsGoForward ==
  [][novel' # "gone" => \A e \in Episodes : stored'[e] # stored[e] =>
       /\ stored[e].by # NoRun => stored[e].by < stored'[e].by
       /\ stored[e].at <= stored'[e].at]_vars

\* No run stays active for ever: its job finishes it, or gives up on it, or
\* leaves it for the editor's poll to find lost - whatever jobs are cut off,
\* trashed novels restored, failures not recorded.
RunEnds ==
  \A r \in Runs : Active(r) ~> ~Active(r) \/ novel # "there"
===============================================================================
