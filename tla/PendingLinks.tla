----------------------------- MODULE PendingLinks -----------------------------
(***************************************************************************)
(* The claims a run could not tie to one card: they wait for the author to *)
(* pick one among the cards they could be (api/episodes.py), the pick is   *)
(* kept for later runs (pipeline/claim_links.py) and a job judges the      *)
(* claim against the card picked (pipeline/judge_linked_claim.py), while   *)
(* cards are deleted, the episode is validated again, jobs are cut off and *)
(* the novel goes to the trash and back.  Composed with JobDelivery.       *)
(*                                                                         *)
(* One episode.  A sentence stands for the key a pick is kept under        *)
(* (link_key); claims that share one are not modelled.  A claim is a row,  *)
(* new with every run; a job is named apart from its claim, which can have *)
(* two.  Flags are represented by how many times they were added.  Cards   *)
(* have no names here: that one was renamed under a run is among what may  *)
(* come of looking it up by its name (Cast has the names).                 *)
(***************************************************************************)
EXTENDS JobDelivery, FiniteSets

CONSTANTS
  Claims,     \* rows of claims
  Sentences,  \* what a run may find ambiguous
  Cards,      \* the characters they could be about
  Fits,       \* the sets of them a run may find a sentence to fit
  Picks,      \* judge_linked_claim jobs
  Runs,       \* rows of validation_runs, all of the episode, and their jobs
  NoClaim, NoCard, NoSentence,
  NotChosen   \* claim_link_choices has no row for the sentence

ASSUME LinksAssumption ==
  /\ Jobs = Picks \cup Runs /\ Picks \cap Runs = {}
  /\ Fits \subseteq SUBSET Cards /\ {} \notin Fits
  /\ NoClaim \notin Claims /\ NoSentence \notin Sentences
  /\ {NoCard, NotChosen} \cap Cards = {} /\ NoCard # NotChosen

VARIABLES
  there,    \* the novel isn't in the trash
  alive,    \* the cards there are
  claim,    \* claims: [status, sentence, fits, card, byName, judged]; "linked" is a
            \* null link_status, fits are the candidates, byName is whether a run
            \* tied it to its card by a name, and not because it was picked
  choices,  \* claim_link_choices: the card picked, NoCard for "not any of them"
  target,   \* Job.target_id
  run,      \* validation_runs: status
  step,     \* where the job being handled is
  held      \* what it read: the card judged, or what a run makes of the sentences

linkVars == <<alive, claim, choices>>
jobVars == <<step, held>>
vars == <<deliveryVars, there, linkVars, target, run, jobVars>>

NoRow == [status |-> "none", sentence |-> NoSentence, fits |-> {}, card |-> NoCard,
          byName |-> FALSE, judged |-> 0]

Init ==
  /\ DeliveryInit
  /\ there = TRUE
  /\ alive = Cards
  /\ claim = [c \in Claims |-> NoRow]
  /\ choices = [s \in Sentences |-> NotChosen]
  /\ target = [j \in Picks |-> NoClaim]
  /\ run = [r \in Runs |-> "none"]
  /\ step = "none" /\ held = NoCard

Active(status) == status \in {"queued", "running"}
BeingJudged(row) == row.status \in {"queued", "judging"}

\* job_pending(Claim.id).
HasJob(c) == \E j \in pending \cap Picks : target[j] = c

\* Row ids are never used again.
Unused == {c \in Claims : claim[c] = NoRow /\ ~HasJob(c)}

-----------------------------------------------------------------------------
(* Requests: 404 while the novel is in the trash. *)

\* _put_back_lost_picks.
PutBack(row) == [row EXCEPT !.status = "pending", !.card = NoCard]

\* Variant: lost picks are not looked for.
ClaimsNotSeen == claim

ClaimsSeen ==
  [c \in Claims |-> IF BeingJudged(claim[c]) /\ ~HasJob(c) THEN PutBack(claim[c]) ELSE claim[c]]

\* _abandon_if_lost; at most one run is active (ValidationRun), the latest.
RunsSeen == [r \in Runs |-> IF Active(run[r]) /\ r \notin pending THEN "failed" ELSE run[r]]
NoRunActive == \A r \in Runs : ~Active(RunsSeen[r])

\* list_pending_links.
ListLinks ==
  /\ there
  /\ claim' = ClaimsSeen
  /\ UNCHANGED <<deliveryVars, there, alive, choices, target, run, jobVars>>

\* Variants: the first pick for a sentence is the one kept; a pick is not
\* refused while a run is active.
PickKeepsFirst(c, k) ==
  /\ there /\ ClaimsSeen[c].status = "pending" /\ NoRunActive
  /\ k \in claim[c].fits \cap alive
  /\ choices' = [choices EXCEPT ![claim[c].sentence] = IF @ = NotChosen THEN k ELSE @]
  /\ claim' = [ClaimsSeen EXCEPT ![c].status = "queued", ![c].card = k]
  /\ run' = RunsSeen
  /\ \E j \in Picks \ pending :
       /\ target' = [target EXCEPT ![j] = c]
       /\ Submit(j)
  /\ UNCHANGED <<there, alive, jobVars>>

PickDuringRun(c, k) ==
  /\ there /\ ClaimsSeen[c].status = "pending"
  /\ k \in claim[c].fits \cap alive
  /\ choices' = [choices EXCEPT ![claim[c].sentence] = k]
  /\ claim' = [ClaimsSeen EXCEPT ![c].status = "queued", ![c].card = k]
  /\ \E j \in Picks \ pending :
       /\ target' = [target EXCEPT ![j] = c]
       /\ Submit(j)
  /\ UNCHANGED <<there, alive, run, jobVars>>

\* pick_pending_link. The pick is kept, whatever becomes of the job.
Pick(c, k) ==
  /\ there /\ ClaimsSeen[c].status = "pending" /\ NoRunActive
  /\ k \in claim[c].fits \cap alive
  /\ choices' = [choices EXCEPT ![claim[c].sentence] = k]
  /\ claim' = [ClaimsSeen EXCEPT ![c].status = "queued", ![c].card = k]
  /\ run' = RunsSeen
  /\ \E j \in Picks \ pending :
       /\ target' = [target EXCEPT ![j] = c]
       /\ Submit(j)
  /\ UNCHANGED <<there, alive, jobVars>>

\* "Not any of them": the claim is dropped.
PickNone(c) ==
  /\ there /\ ClaimsSeen[c].status = "pending" /\ NoRunActive
  /\ choices' = [choices EXCEPT ![claim[c].sentence] = NoCard]
  /\ claim' = [ClaimsSeen EXCEPT ![c] = NoRow]
  /\ run' = RunsSeen
  /\ UNCHANGED <<deliveryVars, there, alive, target, jobVars>>

\* request_validation.
RequestRun(r) ==
  /\ there /\ NoRunActive /\ run[r] = "none"
  /\ run' = [RunsSeen EXCEPT ![r] = "queued"]
  /\ Submit(r)
  /\ UNCHANGED <<there, linkVars, target, jobVars>>

\* delete_character: the choices naming it go, its claims are no longer linked.
DeleteCard(k) ==
  /\ there /\ k \in alive
  /\ alive' = alive \ {k}
  /\ claim' = [c \in Claims |-> IF claim[c].card = k THEN [claim[c] EXCEPT !.card = NoCard]
                                                      ELSE claim[c]]
  /\ choices' = [s \in Sentences |-> IF choices[s] = k THEN NotChosen ELSE choices[s]]
  /\ UNCHANGED <<deliveryVars, there, target, run, jobVars>>

\* delete_novel and restore_novel.
Trash ==
  /\ there' = ~there
  /\ UNCHANGED <<deliveryVars, linkVars, target, run, jobVars>>

-----------------------------------------------------------------------------
(* The judge_linked_claim job. *)

StartJob(j) ==
  /\ Start(j)
  /\ step' = IF j \in Picks THEN "take" ELSE "claim"
  /\ UNCHANGED <<there, linkVars, target, run, held>>

At(j, point) == j \in handling /\ step = point

\* Variant: the UPDATE taking the claim is unconditional.
TakeAny(j) ==
  /\ At(j, "take")
  /\ claim' = [claim EXCEPT ![target[j]].status = "judging"]
  /\ step' = "judge"
  /\ UNCHANGED <<deliveryVars, there, alive, choices, target, run, held>>

\* _take: one conditional UPDATE.
Take(j) ==
  LET c == target[j] IN
  /\ At(j, "take")
  /\ \/ /\ BeingJudged(claim[c])
        /\ claim' = [claim EXCEPT ![c].status = "judging"]
        /\ step' = "judge"
     \/ ~BeingJudged(claim[c]) /\ step' = "return" /\ UNCHANGED claim
  /\ UNCHANGED <<deliveryVars, there, alive, choices, target, run, held>>

\* _judge: the claim and its card are read, then judged with no transaction
\* open. A card deleted, a claim replaced, the model or anything else fails it.
Judge(j) ==
  /\ At(j, "judge")
  /\ \/ /\ claim[target[j]].card # NoCard
        /\ held' = claim[target[j]].card
        /\ step' = "store"
     \/ step' = "fail" /\ UNCHANGED held
  /\ UNCHANGED <<deliveryVars, there, linkVars, target, run>>

\* _store: its flags are added and the claim is one like any other. Deleting
\* the card unlinks its claims, so the card judged, if still the claim's, exists.
Store(j) ==
  LET c == target[j] IN
  /\ At(j, "store")
  /\ \/ /\ there /\ claim[c].status = "judging" /\ claim[c].card = held
        /\ claim' = [claim EXCEPT ![c].status = "linked", ![c].fits = {}, ![c].judged = @ + 1]
     \/ /\ ~there \/ claim[c].status # "judging" \/ claim[c].card # held
        /\ UNCHANGED claim
  /\ step' = "return"
  /\ UNCHANGED <<deliveryVars, there, alive, choices, target, run, held>>

\* _put_back; or it raised too, and the claim is left being judged.
PutBackFailed(j) ==
  LET c == target[j] IN
  /\ At(j, "fail")
  /\ claim' \in {claim, IF claim[c].status = "judging" THEN [claim EXCEPT ![c] = PutBack(@)]
                                                       ELSE claim}
  /\ step' = "return"
  /\ UNCHANGED <<deliveryVars, there, alive, choices, target, run, held>>

-----------------------------------------------------------------------------
(* The validate_episode job (see ValidationRun), as far as claims go. *)

ClaimRun(r) ==
  /\ At(r, "claim")
  /\ \/ Active(run[r]) /\ run' = [run EXCEPT ![r] = "running"] /\ step' = "read"
     \/ ~Active(run[r]) /\ step' = "return" /\ UNCHANGED run
  /\ UNCHANGED <<deliveryVars, there, linkVars, target, held>>

\* What a run makes of a sentence: the cards it fits, none if the text has no
\* such sentence, then the card it is tied to, NoCard if none has the name, and
\* NotChosen while the author is to be asked.
Reading == [fits : SUBSET Cards, card : Cards \cup {NoCard, NotChosen}, byName : BOOLEAN]

\* _read_input and the extraction: a sentence fits several of the cards there.
ReadRun(r) ==
  /\ At(r, "read")
  /\ \/ /\ there /\ step' = "judge"
        /\ held' \in [Sentences -> [fits : {{}} \cup {f \in Fits : f \subseteq alive},
                                  card : {NotChosen}, byName : {FALSE}]]
     \/ ~there /\ step' = "return" /\ UNCHANGED held
     \/ step' = "fail" /\ UNCHANGED held
  /\ UNCHANGED <<deliveryVars, there, linkVars, target, run>>

\* apply_choices, then resolve_subjects: a pick among the candidates ties the
\* claim to its card, by the card's name as it was read - not the picked one's
\* any more if it was renamed since; "not any of them" drops it; any other stays
\* pending, unless the name it has is told apart by now, or is nobody's.
Applied(s, new) ==
  LET read == held[s]
      picked == choices[s]
  IN \/ read.fits = {} /\ new = read
     \/ read.fits # {} /\ picked = NoCard /\ new = [read EXCEPT !.fits = {}]
     \/ /\ picked \in read.fits
        /\ \/ new = [fits |-> {}, card |-> picked, byName |-> FALSE]
           \/ \E k \in (alive \ {picked}) \cup {NoCard} :
                new = [fits |-> {}, card |-> k, byName |-> TRUE]
     \/ /\ read.fits # {} /\ picked \notin read.fits \cup {NoCard}
        /\ \/ new = read
           \/ \E k \in alive \cup {NoCard} : new = [read EXCEPT !.card = k, !.byName = TRUE]

\* _judge: load_choices first.
JudgeRun(r) ==
  /\ At(r, "judge")
  /\ \/ /\ step' = "store"
        /\ held' \in [Sentences -> Reading]
        /\ \A s \in Sentences : Applied(s, held'[s])
     \/ step' = "fail" /\ UNCHANGED held
  /\ UNCHANGED <<deliveryVars, there, linkVars, target, run>>

\* The rows _store may make of a sentence: pending, or about the card it was
\* tied to. If that was deleted since, or nobody had the name, match_and_register
\* looks by name again: another card, a new one (NoCard), or several, of which the
\* author can pick if the claim still has candidates.
RowsFor(s) ==
  LET read == held[s]
      row(status, fits, k, byName) ==
        [status |-> status, sentence |-> s, fits |-> fits, card |-> k, byName |-> byName,
         judged |-> IF status = "linked" THEN 1 ELSE 0]
      toAsk == {row("pending", fits, NoCard, FALSE) : fits \in {read.fits} \ {{}}}
  IN IF read.card = NotChosen THEN toAsk
     ELSE IF read.card \in alive THEN {row("linked", {}, read.card, read.byName)}
     ELSE toAsk \cup {row("linked", {}, k, TRUE) : k \in alive \cup {NoCard}}

\* _store: the claims the episode had before go.
StoreRun(r) ==
  /\ At(r, "store")
  /\ \/ /\ there /\ run[r] = "running"
        /\ LET found == {s \in Sentences : RowsFor(s) # {}} IN
           \E rowOf \in [found -> Unused] :
             /\ \A s, t \in found : rowOf[s] = rowOf[t] => s = t
             /\ \E new \in [found -> UNION {RowsFor(s) : s \in found}] :
                  /\ \A s \in found : new[s] \in RowsFor(s)
                  /\ claim' = [c \in Claims |->
                       IF \E s \in found : rowOf[s] = c
                         THEN new[CHOOSE s \in found : rowOf[s] = c] ELSE NoRow]
        /\ run' = [run EXCEPT ![r] = "succeeded"]
     \/ /\ ~there \/ run[r] # "running"
        /\ UNCHANGED <<claim, run>>
  /\ step' = "return"
  /\ UNCHANGED <<deliveryVars, there, alive, choices, target, held>>

FinishRunFailed(r) ==
  /\ At(r, "fail")
  /\ run' \in {run, [run EXCEPT ![r] = IF @ = "running" THEN "failed" ELSE @]}
  /\ step' = "return"
  /\ UNCHANGED <<deliveryVars, there, linkVars, target, held>>

\* A step raised what the job did not expect; the first one's is the runner's.
Unexpected(j) ==
  /\ j \in handling /\ step \in {"take", "claim", "store"}
  /\ step' = IF step = "store" THEN "fail" ELSE "return"
  /\ UNCHANGED <<deliveryVars, there, linkVars, target, run, held>>

-----------------------------------------------------------------------------
(* The queue's side of the runner. *)

Idle == step' = "none" /\ held' = NoCard

ReturnJob(j) ==
  /\ step = "return" /\ Finish(j) /\ Idle
  /\ UNCHANGED <<there, linkVars, target, run>>

GiveUpJob(j) == GiveUp(j) /\ UNCHANGED <<there, linkVars, target, run, jobVars>>

AckJob(j) ==
  /\ Remove(j)
  /\ target' = [p \in Picks |-> IF p = j THEN NoClaim ELSE target[p]]
  /\ UNCHANGED <<there, linkVars, run, jobVars>>

CutOff ==
  /\ Interrupt /\ Idle
  /\ UNCHANGED <<there, linkVars, target, run>>

Handler(j) ==
  \/ j \in Picks /\ (Take(j) \/ Judge(j) \/ Store(j) \/ PutBackFailed(j))
  \/ j \in Runs /\ (ClaimRun(j) \/ ReadRun(j) \/ JudgeRun(j) \/ StoreRun(j) \/ FinishRunFailed(j))
  \/ Unexpected(j)

Requests ==
  \/ ListLinks
  \/ \E c \in Claims : PickNone(c) \/ \E k \in Cards : Pick(c, k)
  \/ \E r \in Runs : RequestRun(r)

Next ==
  \/ Requests
  \/ \E k \in Cards : DeleteCard(k)
  \/ Trash
  \/ \E j \in Jobs : Handler(j) \/ StartJob(j) \/ ReturnJob(j) \/ GiveUpJob(j) \/ AckJob(j)
  \/ CutOff

Spec == Init /\ [][Next]_vars

\* The runner goes on, and the result screen of a novel not in the trash asks
\* for the pending links again while one is being judged.
Fairness ==
  /\ \A j \in Jobs : /\ WF_vars(Handler(j))
                     /\ WF_vars(StartJob(j) \/ ReturnJob(j) \/ GiveUpJob(j))
                     /\ SF_vars(AckJob(j))
  /\ SF_vars(ListLinks)

FairSpec == Spec /\ Fairness

-----------------------------------------------------------------------------
Choice == Cards \cup {NoCard, NotChosen}

TypeOK ==
  /\ DeliveryTypeOK
  /\ there \in BOOLEAN
  /\ alive \in SUBSET Cards
  /\ claim \in [Claims -> [status : {"none", "pending", "queued", "judging", "linked"},
                           sentence : Sentences \cup {NoSentence}, fits : SUBSET Cards,
                           card : Cards \cup {NoCard}, byName : BOOLEAN, judged : Nat]]
  /\ choices \in [Sentences -> Choice]
  /\ target \in [Picks -> Claims \cup {NoClaim}]
  /\ run \in [Runs -> {"none", "queued", "running", "succeeded", "failed"}]
  /\ step \in {"none", "take", "claim", "read", "judge", "store", "fail", "return"}
  /\ held \in Cards \cup {NoCard} \cup [Sentences -> Reading]

\* A claim's flags are added once, however often its jobs are delivered, and
\* also when a pick is made again while the first one's job is still queued.
JudgedOnce == \A c \in Claims : claim[c].judged <= 1

\* A claim is about the card the author picked for it: not about an earlier
\* pick, whose job was put back or cut off, and by no run that had not seen it -
\* unless a run tied it by name, the picked card having been renamed or deleted
\* under it, or the name having come to tell who is meant.
LinkedAsPicked ==
  \A c \in Claims : claim[c].status = "linked" /\ claim[c].card # NoCard /\ ~claim[c].byName =>
    choices[claim[c].sentence] = claim[c].card

\* The job about to store finds its claim with the card it judged, or with none
\* (the card was deleted): a pick is never made again under a job at work.
NoPickUnderJob ==
  \A j \in Picks : j \in handling /\ step = "store" =>
    LET row == claim[target[j]] IN
    BeingJudged(row) => row.status = "judging" /\ row.card \in {held, NoCard}

\* What every state has, whoever acts: the types, one judgment of a claim, and
\* no pick under the job that makes it.
Inv == TypeOK /\ JudgedOnce /\ NoPickUnderJob

\* A run asks again about a sentence the author has answered for only if the
\* card picked is none of those the sentence fits any more: what the author said,
\* until the run stores, of the cards it is asked about now is kept to, and so is
\* that it is none of them.
AnswerIsKept ==
  [][\A c \in Claims : claim[c].status = "none" /\ claim'[c].status = "pending" =>
       choices[claim'[c].sentence] \notin claim'[c].fits \cup {NoCard}]_vars

\* No pick is left being judged for ever, whatever is cut off or fails - unless
\* the author picks again and again for a claim whose job was lost, each time
\* before a screen has shown it put back (a pick puts it back itself).
PickedAgain(c) == []<><<\E k \in Cards : Pick(c, k)>>_vars
PickEnds ==
  \A c \in Claims : \/ PickedAgain(c)
                    \/ BeingJudged(claim[c]) ~> ~BeingJudged(claim[c]) \/ ~there
===============================================================================
