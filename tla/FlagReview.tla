------------------------------ MODULE FlagReview ------------------------------
(***************************************************************************)
(* What becomes of the flags a validation run raises: the author accepts,  *)
(* dismisses and reopens them, has them judged again - against the card as *)
(* it is, or with a setting supplemented - (api/episodes.py), and jobs     *)
(* judge them (pipeline/revalidate_flag.py), while the card is edited on   *)
(* the settings screen, the manuscript is saved and validated again        *)
(* (pipeline/validate_episode.py), jobs are cut off and the novel goes to  *)
(* the trash and back.  Composed with the job queue (JobDelivery).         *)
(*                                                                         *)
(* One attribute of one character card, and one episode whose sentences    *)
(* may contradict it; a flag is named by its sentence, which with the      *)
(* card's value is what a dismissal is kept under (pipeline/dismissals.py).*)
(* Values are compared as the code compares them, normalized, and a value  *)
(* repeats another only if it is the same.  What validation does between   *)
(* a run's transactions is ValidationRun's; a manuscript is never blank.   *)
(***************************************************************************)
EXTENDS JobDelivery, FiniteSets

CONSTANTS
  Flags,    \* sentences of the episode that say something for the attribute
  Values,   \* values of the attribute
  Said,     \* Said[f]: the value the sentence gives (_flag_value)
  Checks,   \* rows of flag_revalidations
  Runs,     \* rows of validation_runs, all of the episode
  Unset,    \* the card has no value for the attribute
  Deleted,  \* there is no card (any more)
  NoFlag

ASSUME ReviewAssumption ==
  /\ Said \in [Flags -> Values]
  /\ Jobs = Checks \cup Runs /\ Checks \cap Runs = {}
  /\ {Unset, Deleted} \cap Values = {} /\ Unset # Deleted
  /\ NoFlag \notin Flags

VARIABLES
  there,      \* the novel isn't in the trash
  card,       \* the card's value for the attribute
  source,     \* attr_sources: whose value it is, "author", "here" (a run of the
              \* episode filled it in) or "other" (another episode's)
  submitted,  \* Episode.status = "submitted"
  flag,       \* contradiction_flags: [status, ref, about]; about: what confidence is of
  dismissals, \* flag_dismissals: pairs <<sentence, reference>>
  check,      \* flag_revalidations: [status, flag, setting, outcome]
  run,        \* validation_runs: status
  step,       \* where the job being handled is
  judged,     \* what it judged: [setting, about, resolved] and, for a run, found
  fresh,      \* the manuscript is as the run being handled read it
  edited      \* history: the card was changed outside the result screen since the
              \* run being handled judged

cardVars == <<card, source>>
reviewVars == <<flag, dismissals, check>>
jobVars == <<step, judged>>
notes == <<fresh, edited>>
vars == <<deliveryVars, there, cardVars, submitted, reviewVars, run, jobVars, notes>>

NotFound == [status |-> "none", ref |-> Unset, about |-> Unset]
NoCheck == [status |-> "none", flag |-> NoFlag, setting |-> Unset, outcome |-> "none"]
NotJudged == [setting |-> Unset, about |-> Unset, resolved |-> FALSE, found |-> {}]

Init ==
  /\ DeliveryInit
  /\ there = TRUE
  /\ card \in Values \cup {Unset} /\ source = "author"
  /\ submitted = FALSE
  /\ flag = [f \in Flags |-> NotFound]
  /\ dismissals = {}
  /\ check = [c \in Checks |-> NoCheck]
  /\ run = [r \in Runs |-> "none"]
  /\ step = "none" /\ judged = NotJudged /\ fresh = FALSE /\ edited = FALSE

Active(status) == status \in {"queued", "running"}
InStatus(s) == {f \in Flags : flag[f].status = s}

-----------------------------------------------------------------------------
(* What the requests share. *)

\* _abandon_if_lost; at most one run is active (ValidationRun), the latest.
RunsSeen == [r \in Runs |-> IF Active(run[r]) /\ r \notin pending THEN "failed" ELSE run[r]]

\* _raise_if_run_active lets the request go on, its abandoning kept.
NoRunActive ==
  /\ \A r \in Runs : ~Active(RunsSeen[r])
  /\ run' = RunsSeen

\* Variant: lost revalidations are not looked for.
ChecksNotSeen(fs) == check

\* _latest_revalidations of the flags fs.
ChecksSeen(fs) ==
  [c \in Checks |-> IF check[c].flag \in fs /\ Active(check[c].status) /\ c \notin pending
                      THEN [check[c] EXCEPT !.status = "failed"] ELSE check[c]]

Key(f) == <<f, flag[f].ref>>

\* The requests of the result screen: 404 while the novel is in the trash.
OnOpen(f) == there /\ flag[f].status = "open"

-----------------------------------------------------------------------------
(* act_on_flag. *)

Dismiss(f) ==
  /\ OnOpen(f)
  /\ flag' = [flag EXCEPT ![f].status = "dismissed"]
  /\ dismissals' = IF card = Deleted THEN dismissals ELSE dismissals \cup {Key(f)}
  /\ check' = ChecksSeen({f})
  /\ UNCHANGED <<deliveryVars, there, cardVars, submitted, run, jobVars, notes>>

Reopen(f) ==
  /\ there /\ flag[f].status = "dismissed"
  /\ flag' = [flag EXCEPT ![f].status = "open"]
  /\ dismissals' = IF card = Deleted THEN dismissals ELSE dismissals \ {Key(f)}
  /\ check' = ChecksSeen({f})
  /\ UNCHANGED <<deliveryVars, there, cardVars, submitted, run, jobVars, notes>>

\* _accept's siblings, after the card took the value v.
HeldAgainst(v) == [status |-> "open", ref |-> v, about |-> Unset]

\* Variant: a sibling keeps its confidence.
AfterAcceptStillSure(g, v) ==
  IF flag[g].status \notin {"open", "dismissed"} THEN flag[g]
  ELSE IF Said[g] = v THEN [flag[g] EXCEPT !.status = "resolved"]
  ELSE [flag[g] EXCEPT !.status = "open", !.ref = v]

AfterAccept(g, v) ==
  IF flag[g].status \notin {"open", "dismissed"} THEN flag[g]
  ELSE IF Said[g] = v THEN [flag[g] EXCEPT !.status = "resolved"]
  ELSE HeldAgainst(v)

\* Variant: not refused while a run is active.
AcceptDuringRun(f) ==
  /\ OnOpen(f) /\ submitted
  /\ card = flag[f].ref
  /\ card' = Said[f] /\ source' = "author"
  /\ flag' = [g \in Flags |-> IF g = f THEN [flag[f] EXCEPT !.status = "accepted"]
                                       ELSE AfterAccept(g, Said[f])]
  /\ dismissals' = dismissals \ {Key(g) : g \in InStatus("dismissed")}
  /\ check' = ChecksSeen({f})
  /\ UNCHANGED <<deliveryVars, there, submitted, run, jobVars, notes>>

Accept(f) ==
  /\ OnOpen(f) /\ NoRunActive /\ submitted
  /\ card = flag[f].ref
  /\ card' = Said[f] /\ source' = "author"
  /\ flag' = [g \in Flags |-> IF g = f THEN [flag[f] EXCEPT !.status = "accepted"]
                                       ELSE AfterAccept(g, Said[f])]
  /\ dismissals' = dismissals \ {Key(g) : g \in InStatus("dismissed")}
  /\ check' = ChecksSeen({f})
  /\ UNCHANGED <<deliveryVars, there, submitted, jobVars, notes>>

-----------------------------------------------------------------------------
(* revalidate_flag (the request), with a setting and without one. *)

\* Rows that can be created: ids are never used again.
Unused == {c \in Checks : check[c] = NoCheck /\ c \notin pending}

\* Variant: those in progress are not superseded.
StartMoreChecks(before, fs) ==
  \E new \in SUBSET Unused : \E rowOf \in [fs -> new] :
    /\ {rowOf[f] : f \in fs} = new /\ Cardinality(new) = Cardinality(fs)
    /\ check' = [c \in Checks |->
         IF c \in new
           THEN [NoCheck EXCEPT !.status = "queued", !.flag = CHOOSE f \in fs : rowOf[f] = c]
         ELSE before[c]]
    /\ SubmitAll(new)

\* Revalidations created for the flags fs replace those in progress on them.
StartChecks(before, fs) ==
  \E new \in SUBSET Unused : \E rowOf \in [fs -> new] :
    /\ {rowOf[f] : f \in fs} = new /\ Cardinality(new) = Cardinality(fs)
    /\ check' = [c \in Checks |->
         IF c \in new
           THEN [NoCheck EXCEPT !.status = "queued", !.flag = CHOOSE f \in fs : rowOf[f] = c]
         ELSE IF before[c].flag \in fs /\ Active(before[c].status)
           THEN [before[c] EXCEPT !.status = "failed"]
         ELSE before[c]]
    /\ SubmitAll(new)

Revalidate(f) ==
  LET seen == ChecksSeen({f})
      active == \E c \in Checks : seen[c].flag = f /\ Active(seen[c].status) IN
  /\ OnOpen(f) /\ NoRunActive /\ card # Deleted
  /\ \/ active /\ check' = seen /\ UNCHANGED deliveryVars
     \/ ~active /\ StartChecks(seen, {f})
  /\ UNCHANGED <<there, cardVars, submitted, flag, dismissals, jobVars, notes>>

Supplement(f, v) ==
  /\ OnOpen(f) /\ NoRunActive
  /\ card = flag[f].ref
  /\ \/ /\ v = card
        /\ StartChecks(check, {f})
        /\ UNCHANGED <<cardVars, flag>>
     \/ /\ v # card
        /\ card' = v /\ source' = "author"
        /\ flag' = [g \in Flags |-> IF flag[g].status = "open" THEN HeldAgainst(v) ELSE flag[g]]
        /\ StartChecks(check, InStatus("open"))
  /\ UNCHANGED <<there, submitted, dismissals, jobVars, notes>>

\* list_flags.
ListFlags ==
  /\ there
  /\ check' = ChecksSeen(Flags \ InStatus("none"))
  /\ UNCHANGED <<deliveryVars, there, cardVars, submitted, flag, dismissals, run, jobVars, notes>>

-----------------------------------------------------------------------------
(* The editor, the settings screen, the novel list, other episodes. *)

\* save_episode.
Save ==
  /\ there /\ (submitted \/ fresh)
  /\ submitted' = FALSE /\ fresh' = FALSE
  /\ UNCHANGED <<deliveryVars, there, cardVars, reviewVars, run, jobVars, edited>>

\* request_validation.
RequestRun(r) ==
  /\ there /\ \A q \in Runs : ~Active(RunsSeen[q])
  /\ run[r] = "none"
  /\ run' = [RunsSeen EXCEPT ![r] = "queued"]
  /\ Submit(r)
  /\ UNCHANGED <<there, cardVars, submitted, reviewVars, jobVars, notes>>

NoteEdit == edited' = (edited \/ \E r \in Runs : r \in handling /\ step = "store")

\* update_character (_apply), or an accept or a supplement in another episode.
EditCard(v) ==
  /\ there /\ card # Deleted /\ v # card
  /\ card' = v /\ source' = "author"
  /\ NoteEdit
  /\ UNCHANGED <<deliveryVars, there, submitted, reviewVars, run, jobVars, fresh>>

\* delete_character: its dismissals go, its claims and flags are no longer linked.
DeleteCard ==
  /\ there /\ card # Deleted
  /\ card' = Deleted /\ source' = "author"
  /\ dismissals' = {}
  /\ NoteEdit
  /\ UNCHANGED <<deliveryVars, there, submitted, flag, check, run, jobVars, fresh>>

\* apply_new_information, in a run of another episode.
OtherEpisodeFills(v) ==
  /\ there /\ v # card
  /\ card = Unset \/ (card \in Values /\ source = "other")
  /\ card' = v /\ source' = "other"
  /\ NoteEdit
  /\ UNCHANGED <<deliveryVars, there, submitted, reviewVars, run, jobVars, fresh>>

\* delete_novel and restore_novel.
Trash ==
  /\ there' = ~there
  /\ UNCHANGED <<deliveryVars, cardVars, submitted, reviewVars, run, jobVars, notes>>

-----------------------------------------------------------------------------
(* The revalidate_flag job. *)

StartJob(j) ==
  /\ Start(j)
  /\ step' = "claim"
  /\ UNCHANGED <<there, cardVars, submitted, reviewVars, run, judged, notes>>

At(j, point) == j \in handling /\ step = point

ClaimCheck(c) ==
  /\ At(c, "claim")
  /\ \/ /\ Active(check[c].status)
        /\ check' = [check EXCEPT ![c].status = "running"]
        /\ step' = "judge"
     \/ ~Active(check[c].status) /\ step' = "return" /\ UNCHANGED check
  /\ UNCHANGED <<deliveryVars, there, cardVars, submitted, flag, dismissals, run, judged, notes>>

\* _read_flag and _read_card find what the job was asked to judge.
Judgeable(c) ==
  /\ check[c].status # "none"
  /\ flag[check[c].flag].status = "open"
  /\ card # Deleted

\* _to_judge: is the model asked, or does the setting contradict nothing?
Asked(f) == card \in Values /\ source # "here" /\ Said[f] # card

\* _judge: what is read here is judged with no transaction open. The model may
\* fail, or anything else.
JudgeCheck(c) ==
  /\ At(c, "judge")
  /\ \/ /\ Judgeable(c)
        /\ LET asked == Asked(check[c].flag) IN
           \E resolved \in BOOLEAN :
             /\ asked \/ resolved
             /\ judged' = [NotJudged EXCEPT !.setting = card, !.resolved = resolved,
                                            !.about = IF asked THEN card ELSE Unset]
        /\ step' = "store"
     \/ step' = "fail" /\ UNCHANGED judged
  /\ UNCHANGED <<deliveryVars, there, cardVars, submitted, reviewVars, run, notes>>

\* Variant: the flag keeps the reference it had.
StoreCheckAsWas(c) ==
  LET f == check[c].flag IN
  /\ At(c, "store") /\ there /\ check[c].status = "running"
  /\ Judgeable(c) /\ card = judged.setting
  /\ flag' = [flag EXCEPT ![f].about = judged.about,
                ![f].status = IF judged.resolved THEN "resolved_by_revalidation" ELSE @]
  /\ check' = [check EXCEPT ![c].status = "succeeded", ![c].setting = judged.setting,
                 ![c].outcome = IF judged.resolved THEN "resolved" ELSE "contradicts"]
  /\ step' = "return"
  /\ UNCHANGED <<deliveryVars, there, cardVars, submitted, dismissals, run, judged, notes>>

\* The row is still there and running, the flag open, the card as it was judged.
StoreCheck(c) ==
  LET f == check[c].flag IN
  /\ At(c, "store")
  /\ \/ /\ ~there \/ check[c].status # "running"
        /\ step' = "return" /\ UNCHANGED <<flag, check>>
     \/ /\ there /\ check[c].status = "running"
        /\ ~Judgeable(c) \/ card # judged.setting
        /\ step' = "fail" /\ UNCHANGED <<flag, check>>
     \/ /\ there /\ check[c].status = "running"
        /\ Judgeable(c) /\ card = judged.setting
        /\ flag' = [flag EXCEPT ![f] =
             [status |-> IF judged.resolved THEN "resolved_by_revalidation" ELSE @.status,
              ref |-> IF judged.setting = Unset THEN @.ref ELSE judged.setting,
              about |-> judged.about]]
        /\ check' = [check EXCEPT ![c].status = "succeeded", ![c].setting = judged.setting,
                       ![c].outcome = IF judged.resolved THEN "resolved" ELSE "contradicts"]
        /\ step' = "return"
  /\ UNCHANGED <<deliveryVars, there, cardVars, submitted, dismissals, run, judged, notes>>

\* _finish_failed; or it raised too, and the row is left running.
FinishCheckFailed(c) ==
  /\ At(c, "fail")
  /\ check' \in {check, [check EXCEPT ![c].status = IF @ = "running" THEN "failed" ELSE @]}
  /\ step' = "return"
  /\ UNCHANGED <<deliveryVars, there, cardVars, submitted, flag, dismissals, run, judged, notes>>

-----------------------------------------------------------------------------
(* The validate_episode job. *)

ClaimRun(r) ==
  /\ At(r, "claim")
  /\ \/ Active(run[r]) /\ run' = [run EXCEPT ![r] = "running"] /\ step' = "read"
     \/ ~Active(run[r]) /\ step' = "return" /\ UNCHANGED run
  /\ UNCHANGED <<deliveryVars, there, cardVars, submitted, reviewVars, judged, notes>>

ReadInput(r) ==
  /\ At(r, "read")
  /\ \/ ~there /\ step' = "return" /\ UNCHANGED fresh
     \/ there /\ step' = "judge" /\ fresh' = TRUE
  /\ UNCHANGED <<deliveryVars, there, cardVars, submitted, reviewVars, run, judged, edited>>

\* _judge: the card is read in a later transaction than the manuscript. The
\* sentences found contradicting it are any of those the model is asked about.
JudgeRun(r) ==
  /\ At(r, "judge")
  /\ \/ /\ \E found \in SUBSET {f \in Flags : Asked(f)} :
             judged' = [NotJudged EXCEPT !.setting = card, !.found = found]
        /\ step' = "store"
     \/ step' = "fail" /\ UNCHANGED judged
  /\ UNCHANGED <<deliveryVars, there, cardVars, submitted, reviewVars, run, notes>>

\* Variant: the dismissal's reference is not compared.
RaisedAsBefore(f) ==
  [status |-> IF \E v \in Values : <<f, v>> \in dismissals THEN "dismissed" ELSE "open",
   ref |-> judged.setting, about |-> judged.setting]

\* A flag the run found, dismissed if the author dismissed it against the same
\* setting of the same card.
Raised(f) == [status |-> IF <<f, judged.setting>> \in dismissals THEN "dismissed" ELSE "open",
              ref |-> judged.setting, about |-> judged.setting]

\* match_and_register and apply_new_information: a card deleted is made anew if
\* a claim is about it; a value that's empty, or was filled in from this
\* episode, becomes what a sentence not flagged says, or goes with the sentence
\* it came from.
FillIn ==
  LET unflagged == {Said[f] : f \in Flags \ judged.found}
      theirs == card \in Values /\ source # "here" IN
  \/ UNCHANGED cardVars /\ (card = Deleted => judged.found = {})
  \/ card = Deleted /\ card' = Unset /\ source' = "author"
  \/ ~theirs /\ card' \in unflagged /\ source' = "here"
  \/ card \in Values /\ ~theirs /\ card' = Unset /\ source' = "author"

\* _store: what the episode had before goes, revalidations of its flags too.
StoreRun(r) ==
  /\ At(r, "store")
  /\ \/ /\ there /\ run[r] = "running"
        /\ flag' = [f \in Flags |-> IF f \in judged.found THEN Raised(f) ELSE NotFound]
        /\ check' = [c \in Checks |-> NoCheck]
        /\ FillIn
        /\ run' = [run EXCEPT ![r] = "succeeded"]
        /\ submitted' = (submitted \/ fresh)
     \/ /\ ~there \/ run[r] # "running"
        /\ UNCHANGED <<flag, check, cardVars, run, submitted>>
  /\ step' = "return"
  /\ UNCHANGED <<deliveryVars, there, dismissals, judged, notes>>

FinishRunFailed(r) ==
  /\ At(r, "fail")
  /\ run' \in {run, [run EXCEPT ![r] = IF @ = "running" THEN "failed" ELSE @]}
  /\ step' = "return"
  /\ UNCHANGED <<deliveryVars, there, cardVars, submitted, reviewVars, judged, notes>>

\* A step raised what the job did not expect; the first one's is the runner's.
Unexpected(j) ==
  /\ j \in handling /\ step \in {"claim", "read", "store"}
  /\ step' = IF step = "claim" THEN "return" ELSE "fail"
  /\ UNCHANGED <<deliveryVars, there, cardVars, submitted, reviewVars, run, judged, notes>>

-----------------------------------------------------------------------------
(* The queue's side of the runner. *)

Idle == step' = "none" /\ judged' = NotJudged /\ fresh' = FALSE /\ edited' = FALSE

ReturnJob(j) ==
  /\ step = "return" /\ Finish(j) /\ Idle
  /\ UNCHANGED <<there, cardVars, submitted, reviewVars, run>>

QueueOnly(A) == A /\ UNCHANGED <<there, cardVars, submitted, reviewVars, run, jobVars, notes>>
GiveUpJob(j) == QueueOnly(GiveUp(j))
AckJob(j) == QueueOnly(Remove(j))

CutOff ==
  /\ Interrupt /\ Idle
  /\ UNCHANGED <<there, cardVars, submitted, reviewVars, run>>

Handler(j) ==
  \/ j \in Checks /\ (ClaimCheck(j) \/ JudgeCheck(j) \/ StoreCheck(j) \/ FinishCheckFailed(j))
  \/ j \in Runs /\ (ClaimRun(j) \/ ReadInput(j) \/ JudgeRun(j) \/ StoreRun(j) \/ FinishRunFailed(j))
  \/ Unexpected(j)

Requests ==
  \/ \E f \in Flags : \/ Dismiss(f) \/ Reopen(f) \/ Accept(f) \/ Revalidate(f)
                      \/ \E v \in Values : Supplement(f, v)
  \/ ListFlags \/ Save \/ \E r \in Runs : RequestRun(r)

Outside ==
  \/ \E v \in Values \cup {Unset} : EditCard(v)
  \/ DeleteCard \/ \E v \in Values : OtherEpisodeFills(v)

Next ==
  \/ Requests \/ Outside \/ Trash
  \/ \E j \in Jobs : Handler(j) \/ StartJob(j) \/ ReturnJob(j) \/ GiveUpJob(j) \/ AckJob(j)
  \/ CutOff

Spec == Init /\ [][Next]_vars

\* The runner goes on, and the result screen of a novel not in the trash asks
\* for its flags again while a revalidation is in progress.
Fairness ==
  /\ \A j \in Jobs : /\ WF_vars(Handler(j))
                     /\ WF_vars(StartJob(j) \/ ReturnJob(j) \/ GiveUpJob(j))
                     /\ SF_vars(AckJob(j))
  /\ SF_vars(ListFlags)

FairSpec == Spec /\ Fairness

-----------------------------------------------------------------------------
FlagStatus == {"none", "open", "accepted", "dismissed", "resolved", "resolved_by_revalidation"}

TypeOK ==
  /\ DeliveryTypeOK
  /\ {there, submitted, fresh, edited} \subseteq BOOLEAN
  /\ card \in Values \cup {Unset, Deleted}
  /\ source \in {"author", "here", "other"}
  /\ flag \in [Flags -> [status : FlagStatus, ref : Values \cup {Unset}, about : Values \cup {Unset}]]
  /\ dismissals \in SUBSET (Flags \X Values)
  /\ check \in [Checks -> [status : {"none", "queued", "running", "succeeded", "failed"},
                           flag : Flags \cup {NoFlag}, setting : Values \cup {Unset},
                           outcome : {"none", "resolved", "contradicts"}]]
  /\ run \in [Runs -> {"none", "queued", "running", "succeeded", "failed"}]
  /\ step \in {"none", "claim", "read", "judge", "store", "fail", "return"}
  /\ judged \in [setting : Values \cup {Unset, Deleted}, about : Values \cup {Unset},
                 resolved : BOOLEAN, found : SUBSET Flags]

\* The confidence the author sees is of the setting the author sees, and of no
\* value the manuscript repeats: one judged against a value since replaced
\* (accepted elsewhere in the list, supplemented) is not shown with the new one.
ConfidenceIsOfReference ==
  \A f \in InStatus("open") : flag[f].about # Unset =>
    flag[f].about = flag[f].ref /\ flag[f].ref # Said[f]

\* One revalidation of a flag is in progress at most, and only of a flag that
\* some job may still resolve or leave open: none of a flag a new run replaced.
OneCheckActive ==
  \A f \in Flags :
    LET active == {c \in Checks : check[c].flag = f /\ Active(check[c].status)} IN
    /\ Cardinality(active) <= 1
    /\ active # {} => flag[f].status # "none"

\* What every state has, whoever acts: the types, and one check at a time.
Inv == TypeOK /\ OneCheckActive

\* A flag resolved by revalidation was judged so: a revalidation of it that
\* succeeded says so, against the reference shown or a card with no value left.
ResolvedWasJudged ==
  \A f \in InStatus("resolved_by_revalidation") : \E c \in Checks :
    /\ check[c].flag = f /\ check[c].status = "succeeded" /\ check[c].outcome = "resolved"
    /\ check[c].setting \in {flag[f].ref, Unset}

\* A dismissed flag is one whose dismissal is kept, so the next run finding the
\* same sentence against the same setting shows it dismissed again.
DismissedIsRemembered ==
  card # Deleted => \A f \in InStatus("dismissed") : Key(f) \in dismissals

\* A flag comes to show a setting that is not the card's only by an edit made
\* outside this result screen, by reopening one dismissed before the edit, or
\* by a run that judged before such an edit: the runs at work and the result
\* screen's own writes to the card keep clear of each other.
Outdated == {f \in InStatus("open") : flag[f].ref # card}
OutdatedFromOutside ==
  [][~(Outdated' \subseteq Outdated) =>
       (Outside \/ (\E f \in Flags : Reopen(f)) \/ (edited /\ \E r \in Runs : StoreRun(r)))]_vars

\* No revalidation stays in progress for ever, whatever is cut off or fails.
RevalidationEnds ==
  \A c \in Checks : Active(check[c].status) ~> ~Active(check[c].status) \/ ~there
===============================================================================
