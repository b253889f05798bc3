-------------------------- MODULE PendingLinksProofs --------------------------
(***************************************************************************)
(* Proofs that the author's picks are what claims are judged against, once *)
(* each, for every set of claims, sentences, cards, runs and jobs.         *)
(***************************************************************************)
EXTENDS PendingLinks, TLAPS

USE LinksAssumption, MaxAttemptsAssumption

(* The queue's promise that jobs are handled one at a time: the one at work, *)
(* or to be acked, is in the queue.                                          *)
OneAtATime ==
  /\ \A i, j \in handling \cup settled : i = j
  /\ handling \cap settled = {}
  /\ handling \cup settled \subseteq pending

StepInv ==
  /\ handling = {} => step = "none"
  /\ handling \cap Picks # {} => step # "claim"
  /\ handling \cap Runs # {} => step # "take"

(* A job in the queue is for a claim. *)
TargetInv == \A j \in pending \cap Picks : target[j] \in Claims

(* A claim's row is whole, and of a sentence no other claim has; it has been *)
(* judged when it is linked, and only then; and the card it is about is the  *)
(* author's choice, unless a run tied it by a name.                          *)
ClaimRow ==
  [status : {"none", "pending", "queued", "judging", "linked"},
   sentence : Sentences \cup {NoSentence}, fits : SUBSET Cards, card : Cards \cup {NoCard},
   byName : BOOLEAN, judged : Nat]
RowHolds(row, kept) ==
  /\ row.status = "none" => row = NoRow
  /\ row.status # "none" => row.sentence \in Sentences
  /\ row.judged = IF row.status = "linked" THEN 1 ELSE 0
  /\ row.byName => row.status = "linked"
  /\ row.card # NoCard =>
       row.status # "pending" /\ (row.byName \/ kept[row.sentence] = row.card)
RowsHold(rows, kept) ==
  /\ rows \in [Claims -> ClaimRow]
  /\ \A c \in Claims : RowHolds(rows[c], kept)
  /\ \A c, d \in Claims : c # d /\ rows[c].status # "none" /\ rows[d].status # "none" =>
       rows[c].sentence # rows[d].sentence

(* The cards chosen are there. *)
ChoicesInv == \A s \in Sentences : choices[s] \in alive \cup {NoCard, NotChosen}

(* A claim a job has taken stays its, with the card it judges it against, or *)
(* with none once that is deleted.                                           *)
TakenInv ==
  \A j \in handling \cap Picks :
    /\ step \in {"judge", "store", "fail"} => claim[target[j]].status = "judging"
    /\ step = "store" => held \in Cards /\ claim[target[j]].card \in {held, NoCard}

(* A run past its claim is running, which no pick is made under: what it made *)
(* of the sentences has the author's answers, but for those of cards deleted  *)
(* since, and is to ask only where none of the cards asked about was picked.  *)
Answered(read, s) ==
  /\ read.card \in Cards =>
       read.byName \/ choices[s] = read.card \/ (choices[s] = NotChosen /\ read.card \notin alive)
  /\ read.fits # {} => choices[s] \notin read.fits \cup {NoCard}
ClaimedInv ==
  \A r \in handling \cap Runs :
    /\ step \in {"read", "judge", "store", "fail"} => run[r] = "running"
    /\ step \in {"judge", "store"} => held \in [Sentences -> Reading]
    /\ step = "judge" => \A s \in Sentences : held[s].card = NotChosen
    /\ step = "store" => \A s \in Sentences : Answered(held[s], s)

IInv ==
  /\ TypeOK
  /\ OneAtATime /\ StepInv /\ TargetInv
  /\ RowsHold(claim, choices) /\ ChoicesInv
  /\ TakenInv /\ ClaimedInv

-----------------------------------------------------------------------------
LEMMA InvInit == Init => IInv
<1>1. Init => TypeOK
  BY DEF Init, DeliveryInit, TypeOK, DeliveryTypeOK, NoRow, Choice
<1>2. Init => RowsHold(claim, choices) /\ ChoicesInv
  BY DEF Init, RowsHold, RowHolds, ClaimRow, NoRow, ChoicesInv
<1> QED BY <1>1, <1>2 DEF Init, DeliveryInit, IInv, OneAtATime, StepInv, TargetInv, TakenInv, ClaimedInv

(* A start counted stays within its bound. *)
LEMMA CountedInRange ==
  ASSUME NEW n \in 0 .. MaxAttempts + 1
  PROVE  Counted(n) \in 0 .. MaxAttempts + 1
  BY DEF Counted

(* The job at work is the only one, and in the queue. *)
LEMMA AtWork ==
  ASSUME IInv, NEW j \in handling
  PROVE  /\ handling = {j} /\ settled = {} /\ j \in pending
         /\ j \in Picks => handling \cap Runs = {} /\ target[j] \in Claims /\ HasJob(target[j])
         /\ j \in Runs => handling \cap Picks = {}
  BY DEF IInv, OneAtATime, TargetInv, HasJob

(* Looking for lost picks puts them back, and leaves alone every claim that  *)
(* has a job.                                                                *)
LEMMA SeenRows ==
  ASSUME IInv
  PROVE  /\ RowsHold(ClaimsSeen, choices)
         /\ \A c \in Claims : HasJob(c) => ClaimsSeen[c] = claim[c]
         /\ \A c \in Claims : ClaimsSeen[c].sentence = claim[c].sentence
         /\ \A c \in Claims : claim[c].status = "none" => ClaimsSeen[c] = claim[c]
<1>1. RowsHold(claim, choices)
  BY DEF IInv
<1>2. ASSUME NEW c \in Claims, BeingJudged(claim[c])
      PROVE  /\ PutBack(claim[c]) \in ClaimRow
             /\ PutBack(claim[c]).status = "pending" /\ PutBack(claim[c]).card = NoCard
             /\ PutBack(claim[c]).sentence = claim[c].sentence
             /\ RowHolds(PutBack(claim[c]), choices)
  <2>1. claim[c] \in ClaimRow /\ RowHolds(claim[c], choices)
    BY <1>1 DEF RowsHold
  <2>2. ~claim[c].byName
    BY <1>2, <2>1 DEF RowHolds, BeingJudged
  <2>3. /\ PutBack(claim[c]) \in ClaimRow
        /\ PutBack(claim[c]).status = "pending" /\ PutBack(claim[c]).card = NoCard
        /\ PutBack(claim[c]).sentence = claim[c].sentence
        /\ PutBack(claim[c]).judged = claim[c].judged
        /\ PutBack(claim[c]).byName = claim[c].byName
    BY <2>1 DEF ClaimRow, PutBack
  <2> QED BY <1>2, <2>1, <2>2, <2>3 DEF RowHolds, BeingJudged
<1>3. \A c \in Claims : /\ ClaimsSeen[c] \in ClaimRow /\ RowHolds(ClaimsSeen[c], choices)
                        /\ ClaimsSeen[c].sentence = claim[c].sentence
                        /\ ClaimsSeen[c].status # "none" => claim[c].status # "none"
                        /\ HasJob(c) \/ claim[c].status = "none" => ClaimsSeen[c] = claim[c]
  BY <1>1, <1>2 DEF ClaimsSeen, RowsHold, BeingJudged
<1>4. ClaimsSeen \in [Claims -> ClaimRow]
  BY <1>3 DEF ClaimsSeen
<1> QED BY <1>1, <1>3, <1>4 DEF RowsHold

(* A request lets no run be at work on the choices when it finds none active. *)
LEMMA NoRunAtWork ==
  ASSUME IInv, NoRunActive
  PROVE  /\ RunsSeen \in [Runs -> {"none", "queued", "running", "succeeded", "failed"}]
         /\ \A r \in handling \cap Runs : step \notin {"read", "judge", "store", "fail"}
<1>1. \A r \in handling \cap Runs : RunsSeen[r] = run[r]
  BY AtWork DEF RunsSeen
<1>2. \A r \in handling \cap Runs : run[r] # "running"
  BY <1>1 DEF NoRunActive, Active
<1> QED BY <1>2 DEF IInv, ClaimedInv, RunsSeen, TypeOK

-----------------------------------------------------------------------------
LEMMA ListStep == ASSUME IInv, ListLinks PROVE IInv'
<1>1. UNCHANGED <<pending, ahead, tries, handling, settled, there, alive, choices, target, run, step, held>>
      /\ claim' = ClaimsSeen
  BY DEF ListLinks, deliveryVars, jobVars
<1>2. RowsHold(claim, choices)'
  BY <1>1, SeenRows
<1>3. TypeOK'
  BY <1>1, <1>2 DEF IInv, TypeOK, DeliveryTypeOK, RowsHold, ClaimRow
<1>4. TakenInv'
  BY <1>1, SeenRows, AtWork DEF IInv, TakenInv
<1>5. ClaimedInv'
  BY <1>1 DEF IInv, ClaimedInv, Answered
<1>6. OneAtATime' /\ StepInv' /\ TargetInv' /\ ChoicesInv'
  BY <1>1 DEF IInv, OneAtATime, StepInv, TargetInv, ChoicesInv
<1> QED BY <1>2, <1>3, <1>4, <1>5, <1>6 DEF IInv

LEMMA PickStep == ASSUME IInv, NEW c \in Claims, NEW k \in Cards, Pick(c, k) PROVE IInv'
<1> DEFINE s == claim[c].sentence
<1>1. /\ ClaimsSeen[c].status = "pending" /\ NoRunActive /\ k \in alive
      /\ choices' = [choices EXCEPT ![s] = k]
      /\ claim' = [ClaimsSeen EXCEPT ![c].status = "queued", ![c].card = k]
      /\ run' = RunsSeen
      /\ UNCHANGED <<there, alive, step, held>>
  BY DEF Pick, jobVars
<1>2. PICK j \in Picks \ pending : target' = [target EXCEPT ![j] = c] /\ Submit(j)
  BY DEF Pick
<1>3. /\ pending' = pending \cup {j}
      /\ ahead' = [i \in Jobs |-> IF i \in {j} THEN pending ELSE ahead[i]]
      /\ UNCHANGED <<tries, handling, settled>>
  BY <1>2 DEF Submit, SubmitAll
<1>4. s \in Sentences /\ ClaimsSeen[c].sentence = s
  BY <1>1, SeenRows DEF RowsHold, RowHolds
<1>5. choices' \in [Sentences -> Choice] /\ choices'[s] = k
      /\ \A t \in Sentences \ {s} : choices'[t] = choices[t]
  BY <1>1, <1>4 DEF IInv, TypeOK, Choice
<1>6. /\ claim'[c] \in ClaimRow /\ claim'[c].status = "queued" /\ claim'[c].card = k
      /\ claim'[c].sentence = s /\ claim'[c].judged = ClaimsSeen[c].judged
      /\ claim'[c].byName = ClaimsSeen[c].byName
      /\ \A d \in Claims \ {c} : claim'[d] = ClaimsSeen[d]
      /\ claim' \in [Claims -> ClaimRow]
  <2>1. ClaimsSeen \in [Claims -> ClaimRow]
    BY SeenRows DEF RowsHold
  <2> DEFINE asked == ClaimsSeen[c]
             row == [asked EXCEPT !.status = "queued", !.card = k]
  <2>2. claim' = [ClaimsSeen EXCEPT ![c] = row]
    BY <1>1, <2>1
  <2>3. asked \in ClaimRow
    BY <2>1
  <2> HIDE DEF asked
  <2>4. /\ row \in ClaimRow /\ row.status = "queued" /\ row.card = k
        /\ row.sentence = asked.sentence /\ row.judged = asked.judged /\ row.byName = asked.byName
    BY <2>3 DEF ClaimRow
  <2> HIDE DEF row
  <2> QED BY <1>4, <2>1, <2>2, <2>4 DEF asked
<1>7. RowHolds(claim'[c], choices')
  BY <1>1, <1>4, <1>5, <1>6, SeenRows DEF RowsHold, RowHolds
<1>8. ASSUME NEW d \in Claims \ {c} PROVE RowHolds(claim'[d], choices')
  <2>1. ClaimsSeen[d].status # "none" => ClaimsSeen[d].sentence \in Sentences \ {s}
    BY <1>1, <1>4, SeenRows DEF RowsHold, RowHolds
  <2>2. RowHolds(ClaimsSeen[d], choices) /\ (ClaimsSeen[d].status = "none" => ClaimsSeen[d].card = NoCard)
    BY SeenRows DEF RowsHold, RowHolds, NoRow
  <2> QED BY <1>5, <1>6, <2>1, <2>2 DEF RowHolds
<1>9. RowsHold(claim, choices)'
  <2>1. \A d, e \in Claims : d # e /\ claim'[d].status # "none" /\ claim'[e].status # "none" =>
          claim'[d].sentence # claim'[e].sentence
    BY <1>1, <1>4, <1>6, SeenRows DEF RowsHold
  <2> QED BY <1>6, <1>7, <1>8, <2>1 DEF RowsHold
<1>10. ChoicesInv'
  BY <1>1, <1>5 DEF IInv, ChoicesInv
<1>11. TypeOK'
  BY <1>1, <1>2, <1>3, <1>5, <1>9, NoRunAtWork DEF IInv, TypeOK, DeliveryTypeOK, RowsHold, ClaimRow
<1>12. OneAtATime' /\ StepInv' /\ TargetInv'
  BY <1>1, <1>2, <1>3 DEF IInv, OneAtATime, StepInv, TargetInv, TypeOK
<1>13. TakenInv'
  <2> SUFFICES ASSUME NEW p \in handling \cap Picks, step \in {"judge", "store", "fail"}
               PROVE  claim'[target'[p]] = claim[target[p]]
    BY <1>1, <1>3 DEF IInv, TakenInv
  <2>1. p # j /\ target'[p] = target[p] /\ target[p] \in Claims /\ HasJob(target[p])
    BY <1>2, AtWork DEF IInv, TypeOK
  <2>2. claim[target[p]].status = "judging"
    BY DEF IInv, TakenInv
  <2>3. target[p] # c
    BY <1>1, <2>1, <2>2, SeenRows
  <2> QED BY <1>6, <2>1, <2>3, SeenRows
<1>14. ClaimedInv'
  BY <1>1, <1>3, NoRunAtWork DEF ClaimedInv
<1> QED BY <1>9, <1>10, <1>11, <1>12, <1>13, <1>14 DEF IInv

LEMMA PickNoneStep == ASSUME IInv, NEW c \in Claims, PickNone(c) PROVE IInv'
<1> DEFINE s == claim[c].sentence
<1>1. /\ ClaimsSeen[c].status = "pending" /\ NoRunActive
      /\ choices' = [choices EXCEPT ![s] = NoCard]
      /\ claim' = [ClaimsSeen EXCEPT ![c] = NoRow]
      /\ run' = RunsSeen
      /\ UNCHANGED <<pending, ahead, tries, handling, settled, there, alive, target, step, held>>
  BY DEF PickNone, jobVars, deliveryVars
<1>2. s \in Sentences /\ ClaimsSeen[c].sentence = s
  BY <1>1, SeenRows DEF RowsHold, RowHolds
<1>3. choices' \in [Sentences -> Choice] /\ choices'[s] = NoCard
      /\ \A t \in Sentences \ {s} : choices'[t] = choices[t]
  BY <1>1, <1>2 DEF IInv, TypeOK, Choice
<1>4. /\ claim' \in [Claims -> ClaimRow] /\ claim'[c] = NoRow
      /\ \A d \in Claims \ {c} : claim'[d] = ClaimsSeen[d]
  BY <1>1, SeenRows DEF RowsHold, ClaimRow, NoRow
<1>5. RowHolds(claim'[c], choices')
  BY <1>4 DEF RowHolds, NoRow
<1>6. ASSUME NEW d \in Claims \ {c} PROVE RowHolds(claim'[d], choices')
  <2>1. ClaimsSeen[d].status # "none" => ClaimsSeen[d].sentence \in Sentences \ {s}
    BY <1>1, <1>2, SeenRows DEF RowsHold, RowHolds
  <2>2. RowHolds(ClaimsSeen[d], choices) /\ (ClaimsSeen[d].status = "none" => ClaimsSeen[d].card = NoCard)
    BY SeenRows DEF RowsHold, RowHolds, NoRow
  <2> QED BY <1>3, <1>4, <2>1, <2>2 DEF RowHolds
<1>7. RowsHold(claim, choices)'
  <2>1. claim'[c].status = "none"
    BY <1>4 DEF NoRow
  <2>2. \A d, e \in Claims : d # e /\ claim'[d].status # "none" /\ claim'[e].status # "none" =>
          claim'[d].sentence # claim'[e].sentence
    BY <1>4, <2>1, SeenRows DEF RowsHold
  <2> QED BY <1>4, <1>5, <1>6, <2>2 DEF RowsHold
<1>8. ChoicesInv'
  BY <1>1, <1>3 DEF IInv, ChoicesInv
<1>9. TypeOK'
  BY <1>1, <1>3, <1>7, NoRunAtWork DEF IInv, TypeOK, DeliveryTypeOK, RowsHold, ClaimRow
<1>10. OneAtATime' /\ StepInv' /\ TargetInv'
  BY <1>1 DEF IInv, OneAtATime, StepInv, TargetInv
<1>11. TakenInv'
  <2> SUFFICES ASSUME NEW p \in handling \cap Picks, step \in {"judge", "store", "fail"}
               PROVE  claim'[target[p]] = claim[target[p]]
    BY <1>1 DEF IInv, TakenInv
  <2>1. target[p] \in Claims /\ HasJob(target[p]) /\ claim[target[p]].status = "judging"
    BY AtWork DEF IInv, TakenInv
  <2>2. target[p] # c
    BY <1>1, <2>1, SeenRows
  <2> QED BY <1>4, <2>1, <2>2, SeenRows
<1>12. ClaimedInv'
  BY <1>1, NoRunAtWork DEF ClaimedInv
<1> QED BY <1>7, <1>8, <1>9, <1>10, <1>11, <1>12 DEF IInv

LEMMA RequestRunStep == ASSUME IInv, NEW r \in Runs, RequestRun(r) PROVE IInv'
<1>1. /\ NoRunActive /\ run' = [RunsSeen EXCEPT ![r] = "queued"]
      /\ pending' = pending \cup {r}
      /\ ahead' = [i \in Jobs |-> IF i \in {r} THEN pending ELSE ahead[i]]
      /\ UNCHANGED <<tries, handling, settled, there, alive, claim, choices, target, step, held>>
  BY DEF RequestRun, Submit, SubmitAll, linkVars, jobVars
<1>2. run' \in [Runs -> {"none", "queued", "running", "succeeded", "failed"}]
  BY <1>1, NoRunAtWork
<1>3. TypeOK'
  BY <1>1, <1>2 DEF IInv, TypeOK, DeliveryTypeOK
<1>4. OneAtATime' /\ StepInv' /\ TargetInv' /\ ChoicesInv' /\ TakenInv' /\ RowsHold(claim, choices)'
  BY <1>1 DEF IInv, OneAtATime, StepInv, TargetInv, ChoicesInv, TakenInv
<1>5. ClaimedInv'
  BY <1>1, NoRunAtWork DEF ClaimedInv
<1> QED BY <1>3, <1>4, <1>5 DEF IInv

LEMMA DeleteCardStep == ASSUME IInv, NEW k \in Cards, DeleteCard(k) PROVE IInv'
<1>1. /\ alive' = alive \ {k}
      /\ claim' = [c \in Claims |-> IF claim[c].card = k THEN [claim[c] EXCEPT !.card = NoCard]
                                                          ELSE claim[c]]
      /\ choices' = [s \in Sentences |-> IF choices[s] = k THEN NotChosen ELSE choices[s]]
      /\ UNCHANGED <<pending, ahead, tries, handling, settled, there, target, run, step, held>>
  BY DEF DeleteCard, deliveryVars, jobVars
<1>2. ASSUME NEW c \in Claims
      PROVE  /\ claim'[c] \in ClaimRow
             /\ claim'[c].status = claim[c].status /\ claim'[c].sentence = claim[c].sentence
             /\ claim'[c].judged = claim[c].judged
             /\ claim'[c].card = IF claim[c].card = k THEN NoCard ELSE claim[c].card
             /\ claim[c].card # k => claim'[c] = claim[c]
  BY <1>1 DEF IInv, RowsHold, ClaimRow
<1>3. ASSUME NEW c \in Claims PROVE RowHolds(claim'[c], choices')
  <2>1. RowHolds(claim[c], choices)
    BY DEF IInv, RowsHold
  <2>2. claim[c].status = "none" => claim[c].card # k
    BY <2>1 DEF RowHolds, NoRow
  <2>3. claim[c].card # NoCard => claim[c].sentence \in Sentences
    BY <2>1 DEF RowHolds, NoRow
  <2> QED BY <1>1, <1>2, <2>1, <2>2, <2>3 DEF RowHolds
<1>4. RowsHold(claim, choices)'
  <2>1. claim' \in [Claims -> ClaimRow]
    BY <1>1, <1>2
  <2>2. \A d, e \in Claims : d # e /\ claim'[d].status # "none" /\ claim'[e].status # "none" =>
          claim'[d].sentence # claim'[e].sentence
    BY <1>2 DEF IInv, RowsHold
  <2> QED BY <1>3, <2>1, <2>2 DEF RowsHold
<1>5. ChoicesInv'
  BY <1>1 DEF IInv, ChoicesInv
<1>6. TypeOK'
  BY <1>1, <1>4 DEF IInv, TypeOK, DeliveryTypeOK, RowsHold, ClaimRow, Choice
<1>7. OneAtATime' /\ StepInv' /\ TargetInv'
  BY <1>1 DEF IInv, OneAtATime, StepInv, TargetInv
<1>8. TakenInv'
  BY <1>1, <1>2, AtWork DEF IInv, TakenInv
<1>9. ClaimedInv'
  BY <1>1 DEF IInv, ClaimedInv, ChoicesInv, Answered, TypeOK, Reading
<1> QED BY <1>4, <1>5, <1>6, <1>7, <1>8, <1>9 DEF IInv

-----------------------------------------------------------------------------
(* A step of a job that changes no claim and no choice. *)
LEMMA JobVarsStep ==
  ASSUME IInv, UNCHANGED <<deliveryVars, linkVars, target>>, there' \in BOOLEAN,
         run' \in [Runs -> {"none", "queued", "running", "succeeded", "failed"}],
         step' \in {"none", "take", "claim", "read", "judge", "store", "fail", "return"},
         held' \in Cards \cup {NoCard} \cup [Sentences -> Reading],
         StepInv', TakenInv', ClaimedInv'
  PROVE  IInv'
<1>1. UNCHANGED <<pending, ahead, tries, handling, settled, alive, claim, choices, target>>
  BY DEF deliveryVars, linkVars
<1>2. TypeOK'
  BY <1>1 DEF IInv, TypeOK, DeliveryTypeOK
<1> QED BY <1>1, <1>2 DEF IInv, OneAtATime, TargetInv, ChoicesInv

(* A step of a job that changes none either, and is its last. *)
LEMMA ReturnStep ==
  ASSUME IInv, NEW j \in handling, UNCHANGED <<deliveryVars, linkVars, target, there, held>>,
         run' \in [Runs -> {"none", "queued", "running", "succeeded", "failed"}],
         step' = "return"
  PROVE  IInv'
<1>1. handling' = handling /\ held' \in Cards \cup {NoCard} \cup [Sentences -> Reading]
      /\ there' \in BOOLEAN
  BY DEF deliveryVars, IInv, TypeOK
<1>2. StepInv' /\ TakenInv' /\ ClaimedInv'
  BY <1>1 DEF StepInv, TakenInv, ClaimedInv
<1> QED BY <1>1, <1>2, JobVarsStep

(* A step of the job at work on claim c that changes c's row and is then not *)
(* about to store.                                                           *)
LEMMA ClaimStep ==
  ASSUME IInv, NEW j \in handling \cap Picks, NEW row \in ClaimRow,
         UNCHANGED <<deliveryVars, there, alive, choices, target, run, held>>,
         claim[target[j]].status # "none",
         claim' = [claim EXCEPT ![target[j]] = row],
         row.sentence = claim[target[j]].sentence, RowHolds(row, choices),
         step' \in {"judge", "return"}, step' = "judge" => row.status = "judging"
  PROVE  IInv'
<1> DEFINE c == target[j]
<1>1. /\ handling = {j} /\ c \in Claims /\ handling \cap Runs = {}
      /\ UNCHANGED <<pending, ahead, tries, handling, settled>>
  BY AtWork DEF deliveryVars
<1>2. /\ claim' \in [Claims -> ClaimRow] /\ claim'[c] = row
      /\ \A d \in Claims \ {c} : claim'[d] = claim[d]
  BY <1>1 DEF IInv, RowsHold
<1>3. RowsHold(claim, choices)'
  <2>1. \A d \in Claims : RowHolds(claim'[d], choices')
    BY <1>1, <1>2 DEF IInv, RowsHold
  <2>2. \A d, e \in Claims : d # e /\ claim'[d].status # "none" /\ claim'[e].status # "none" =>
          claim'[d].sentence # claim'[e].sentence
    BY <1>1, <1>2 DEF IInv, RowsHold
  <2> QED BY <1>2, <2>1, <2>2 DEF RowsHold
<1>4. TypeOK'
  BY <1>1, <1>3 DEF IInv, TypeOK, DeliveryTypeOK, RowsHold, ClaimRow
<1>5. OneAtATime' /\ StepInv' /\ TargetInv' /\ ChoicesInv'
  BY <1>1 DEF IInv, OneAtATime, StepInv, TargetInv, ChoicesInv
<1>6. TakenInv' /\ ClaimedInv'
  BY <1>1, <1>2 DEF TakenInv, ClaimedInv
<1> QED BY <1>3, <1>4, <1>5, <1>6 DEF IInv

LEMMA PickJobStep ==
  ASSUME IInv, NEW j \in Picks, Take(j) \/ Judge(j) \/ Store(j) \/ PutBackFailed(j)
  PROVE  IInv'
<1> DEFINE c == target[j]
<1>1. /\ j \in handling \cap Picks /\ handling = {j} /\ handling \cap Runs = {} /\ c \in Claims
      /\ claim[c] \in ClaimRow /\ RowHolds(claim[c], choices)
  BY AtWork DEF Take, Judge, Store, PutBackFailed, At, IInv, RowsHold
<1>2. CASE Take(j)
  <2>1. CASE BeingJudged(claim[c]) /\ claim' = [claim EXCEPT ![c].status = "judging"] /\ step' = "judge"
    <3> DEFINE row == [claim[c] EXCEPT !.status = "judging"]
    <3>1. row \in ClaimRow /\ row.sentence = claim[c].sentence /\ row.status = "judging"
      BY <1>1 DEF ClaimRow
    <3>2. RowHolds(row, choices) /\ claim[c].status # "none"
      BY <1>1, <2>1 DEF RowHolds, ClaimRow, BeingJudged
    <3>3. claim' = [claim EXCEPT ![c] = row]
      BY <1>1, <2>1 DEF IInv, RowsHold
    <3> HIDE DEF row
    <3> QED BY <1>1, <1>2, <2>1, <3>1, <3>2, <3>3, ClaimStep DEF Take
  <2>2. CASE step' = "return" /\ claim' = claim
    BY <1>1, <1>2, <2>2, ReturnStep DEF Take, linkVars, IInv, TypeOK
  <2> QED BY <1>2, <2>1, <2>2 DEF Take
<1>3. CASE Judge(j)
  <2>1. /\ UNCHANGED <<handling, claim, target, run, there>>
        /\ UNCHANGED <<deliveryVars, linkVars, target>>
        /\ step = "judge" /\ step' \in {"store", "fail"}
        /\ held' \in {held, claim[c].card}
        /\ step' = "store" => held' = claim[c].card /\ claim[c].card # NoCard
    BY <1>3 DEF Judge, At, deliveryVars, linkVars
  <2>2. claim[c].status = "judging" /\ claim[c].card \in Cards \cup {NoCard}
    BY <1>1, <2>1 DEF IInv, TakenInv, ClaimRow
  <2>3. held' \in Cards \cup {NoCard} \cup [Sentences -> Reading]
    BY <2>1, <2>2 DEF IInv, TypeOK
  <2>4. StepInv' /\ TakenInv' /\ ClaimedInv'
    BY <1>1, <2>1, <2>2 DEF StepInv, TakenInv, ClaimedInv
  <2> QED BY <2>1, <2>3, <2>4, JobVarsStep DEF IInv, TypeOK
<1>4. CASE Store(j)
  <2>1. CASE /\ claim[c].status = "judging"
             /\ claim' = [claim EXCEPT ![c].status = "linked", ![c].fits = {}, ![c].judged = @ + 1]
    <3> DEFINE row == [claim[c] EXCEPT !.status = "linked", !.fits = {}, !.judged = @ + 1]
    <3>1. /\ row \in ClaimRow /\ row.sentence = claim[c].sentence /\ row.status = "linked"
          /\ row.judged = claim[c].judged + 1 /\ row.card = claim[c].card
          /\ row.byName = claim[c].byName
      <4>1. claim[c].judged + 1 \in Nat
        BY <1>1 DEF ClaimRow
      <4> QED BY <1>1, <4>1 DEF ClaimRow
    <3>2. RowHolds(row, choices)
      BY <1>1, <2>1, <3>1 DEF RowHolds
    <3>3. claim' = [claim EXCEPT ![c] = row]
      BY <1>1, <2>1 DEF IInv, RowsHold
    <3> HIDE DEF row
    <3> QED BY <1>1, <1>4, <2>1, <3>1, <3>2, <3>3, ClaimStep DEF Store
  <2>2. CASE claim' = claim
    BY <1>1, <1>4, <2>2, ReturnStep DEF Store, linkVars, IInv, TypeOK
  <2> QED BY <1>4, <2>1, <2>2 DEF Store
<1>5. CASE PutBackFailed(j)
  <2>1. CASE claim' = [claim EXCEPT ![c] = PutBack(@)] /\ claim[c].status = "judging"
    <3> DEFINE row == PutBack(claim[c])
    <3>1. /\ row \in ClaimRow /\ row.sentence = claim[c].sentence /\ row.status = "pending"
          /\ row.judged = claim[c].judged /\ row.card = NoCard
          /\ row.byName = claim[c].byName
      BY <1>1 DEF ClaimRow, PutBack
    <3>2. RowHolds(row, choices)
      BY <1>1, <2>1, <3>1 DEF RowHolds
    <3>3. claim' = [claim EXCEPT ![c] = row]
      BY <1>1, <2>1 DEF IInv, RowsHold
    <3> HIDE DEF row
    <3> QED BY <1>1, <1>5, <2>1, <3>1, <3>2, <3>3, ClaimStep DEF PutBackFailed
  <2>2. CASE claim' = claim
    BY <1>1, <1>5, <2>2, ReturnStep DEF PutBackFailed, linkVars, IInv, TypeOK
  <2> QED BY <1>5, <2>1, <2>2 DEF PutBackFailed
<1> QED BY <1>2, <1>3, <1>4, <1>5

-----------------------------------------------------------------------------
(* Every row a run stores of a sentence holds: about the card the author      *)
(* chose, or one of a name, or asked about with no answer among its cards.    *)
LEMMA RowsForHold ==
  ASSUME IInv, NEW r \in handling \cap Runs, step = "store",
         NEW s \in Sentences, NEW row \in RowsFor(s)
  PROVE  /\ row \in ClaimRow /\ row.sentence = s /\ row.status \in {"pending", "linked"}
         /\ RowHolds(row, choices)
         /\ row.status = "pending" => choices[s] \notin row.fits \cup {NoCard}
<1> DEFINE read == held[s]
           made(status, fits, k, byName) ==
             [status |-> status, sentence |-> s, fits |-> fits, card |-> k, byName |-> byName,
              judged |-> IF status = "linked" THEN 1 ELSE 0]
<1>1. read \in Reading /\ Answered(read, s) /\ alive \subseteq Cards
  BY DEF IInv, ClaimedInv, TypeOK
<1>2. CASE read.fits # {} /\ row = made("pending", read.fits, NoCard, FALSE)
  BY <1>1, <1>2 DEF ClaimRow, RowHolds, Answered, Reading
<1>3. CASE read.card \in alive /\ row = made("linked", {}, read.card, read.byName)
  <2>1. read.byName \/ choices[s] = read.card
    BY <1>1, <1>3 DEF Answered
  <2> QED BY <1>1, <1>3, <2>1 DEF ClaimRow, RowHolds, Reading
<1>4. CASE \E k \in alive \cup {NoCard} : row = made("linked", {}, k, TRUE)
  BY <1>1, <1>4 DEF ClaimRow, RowHolds
<1>5. \/ read.fits # {} /\ row = made("pending", read.fits, NoCard, FALSE)
      \/ read.card \in alive /\ row = made("linked", {}, read.card, read.byName)
      \/ \E k \in alive \cup {NoCard} : row = made("linked", {}, k, TRUE)
  BY DEF RowsFor
<1> QED BY <1>2, <1>3, <1>4, <1>5

(* What the claims are once a run has stored its own. *)
LEMMA StoredRows ==
  ASSUME IInv, NEW r \in Runs, StoreRun(r), claim' # claim
  PROVE  /\ claim' \in [Claims -> ClaimRow]
         /\ \A c \in Claims :
              \/ claim'[c] = NoRow
              \/ /\ claim'[c].sentence \in Sentences
                 /\ claim'[c].status = "pending" =>
                      choices[claim'[c].sentence] \notin claim'[c].fits \cup {NoCard}
                 /\ RowHolds(claim'[c], choices)
         /\ \A c, d \in Claims : c # d /\ claim'[c].status # "none" /\ claim'[d].status # "none" =>
              claim'[c].sentence # claim'[d].sentence
<1>1. r \in handling \cap Runs /\ step = "store"
  BY DEF StoreRun, At
<1> DEFINE found == {s \in Sentences : RowsFor(s) # {}}
<1>2. \E rowOf \in [found -> Unused] :
        /\ \A s, t \in found : rowOf[s] = rowOf[t] => s = t
        /\ \E new \in [found -> UNION {RowsFor(s) : s \in found}] :
             /\ \A s \in found : new[s] \in RowsFor(s)
             /\ claim' = [c \in Claims |->
                  IF \E s \in found : rowOf[s] = c
                    THEN new[CHOOSE s \in found : rowOf[s] = c] ELSE NoRow]
  BY DEF StoreRun
<1>3. PICK rowOf \in [found -> Unused] :
        /\ \A s, t \in found : rowOf[s] = rowOf[t] => s = t
        /\ \E new \in [found -> UNION {RowsFor(s) : s \in found}] :
             /\ \A s \in found : new[s] \in RowsFor(s)
             /\ claim' = [c \in Claims |->
                  IF \E s \in found : rowOf[s] = c
                    THEN new[CHOOSE s \in found : rowOf[s] = c] ELSE NoRow]
  BY <1>2
<1>4. PICK new \in [found -> UNION {RowsFor(s) : s \in found}] :
        /\ \A s \in found : new[s] \in RowsFor(s)
        /\ claim' = [c \in Claims |->
             IF \E s \in found : rowOf[s] = c
               THEN new[CHOOSE s \in found : rowOf[s] = c] ELSE NoRow]
  BY <1>3
<1>5. ASSUME NEW c \in Claims
      PROVE  claim'[c] = NoRow \/ \E s \in found : rowOf[s] = c /\ claim'[c] = new[s]
  <2>1. CASE \E s \in found : rowOf[s] = c
    <3> DEFINE t == CHOOSE s \in found : rowOf[s] = c
    <3>1. t \in found /\ rowOf[t] = c
      BY <2>1
    <3>2. claim'[c] = new[t]
      BY <1>4, <2>1
    <3> QED BY <3>1, <3>2
  <2>2. CASE ~\E s \in found : rowOf[s] = c
    BY <1>4, <2>2
  <2> QED BY <2>1, <2>2
<1>6. \A s \in found : /\ s \in Sentences
                       /\ new[s] \in ClaimRow /\ new[s].sentence = s
                       /\ RowHolds(new[s], choices)
                       /\ new[s].status = "pending" => choices[s] \notin new[s].fits \cup {NoCard}
  BY <1>1, <1>4, RowsForHold
<1>7. NoRow \in ClaimRow /\ NoRow.status = "none"
  BY DEF ClaimRow, NoRow
<1> HIDE DEF found
<1>8. claim' \in [Claims -> ClaimRow]
  <2>1. \A c \in Claims : claim'[c] \in ClaimRow
    BY <1>5, <1>6, <1>7
  <2> QED BY <1>4, <2>1
<1>9. ASSUME NEW c \in Claims, NEW d \in Claims, c # d,
             claim'[c].status # "none", claim'[d].status # "none"
      PROVE  claim'[c].sentence # claim'[d].sentence
  <2>1. PICK s \in found : rowOf[s] = c /\ claim'[c] = new[s]
    BY <1>5, <1>7, <1>9
  <2>2. PICK t \in found : rowOf[t] = d /\ claim'[d] = new[t]
    BY <1>5, <1>7, <1>9
  <2> QED BY <1>6, <1>9, <2>1, <2>2
<1> QED BY <1>5, <1>6, <1>8, <1>9

(* What a run makes of a sentence has the author's answers as they are.      *)
LEMMA AppliedAnswers ==
  ASSUME NEW s \in Sentences, held[s] \in Reading, held[s].card = NotChosen,
         NEW new \in Reading, Applied(s, new)
  PROVE  Answered(new, s)
<1> DEFINE read == held[s]
           picked == choices[s]
<1>1. CASE read.fits = {} /\ new = read
  BY <1>1 DEF Answered
<1>2. CASE read.fits # {} /\ picked = NoCard /\ new = [read EXCEPT !.fits = {}]
  <2>1. new.fits = {} /\ new.card = NotChosen
    BY <1>2 DEF Reading
  <2> QED BY <2>1 DEF Answered
<1>3. CASE new = [fits |-> {}, card |-> picked, byName |-> FALSE]
  BY <1>3 DEF Answered
<1>4. CASE \E k \in (alive \ {picked}) \cup {NoCard} :
             new = [fits |-> {}, card |-> k, byName |-> TRUE]
  BY <1>4 DEF Answered
<1>5. CASE picked \notin read.fits \cup {NoCard} /\ new = read
  BY <1>5 DEF Answered
<1>6. CASE /\ picked \notin read.fits \cup {NoCard}
           /\ \E k \in alive \cup {NoCard} : new = [read EXCEPT !.card = k, !.byName = TRUE]
  <2>1. new.fits = read.fits /\ new.byName
    BY <1>6 DEF Reading
  <2> QED BY <1>6, <2>1 DEF Answered
<1> QED BY <1>1, <1>2, <1>3, <1>4, <1>5, <1>6 DEF Applied

LEMMA RunJobStep ==
  ASSUME IInv, NEW r \in Runs, ClaimRun(r) \/ ReadRun(r) \/ JudgeRun(r) \/ StoreRun(r) \/ FinishRunFailed(r)
  PROVE  IInv'
<1>1. r \in handling \cap Runs /\ handling = {r} /\ handling \cap Picks = {}
  BY AtWork DEF ClaimRun, ReadRun, JudgeRun, StoreRun, FinishRunFailed, At
<1>2. CASE ClaimRun(r)
  <2>1. CASE run' = [run EXCEPT ![r] = "running"] /\ step' = "read"
    <3>1. run' \in [Runs -> {"none", "queued", "running", "succeeded", "failed"}]
          /\ run'[r] = "running"
      BY <2>1 DEF IInv, TypeOK
    <3>2. StepInv' /\ TakenInv' /\ ClaimedInv'
      BY <1>1, <1>2, <2>1, <3>1 DEF ClaimRun, StepInv, TakenInv, ClaimedInv, deliveryVars
    <3> QED BY <1>2, <2>1, <3>1, <3>2, JobVarsStep DEF ClaimRun, linkVars, IInv, TypeOK
  <2>2. CASE step' = "return" /\ run' = run
    BY <1>1, <1>2, <2>2, ReturnStep DEF ClaimRun, linkVars, IInv, TypeOK
  <2> QED BY <1>2, <2>1, <2>2 DEF ClaimRun
<1>3. CASE JudgeRun(r)
  <2>1. /\ UNCHANGED <<handling, alive, choices, run, there>>
        /\ UNCHANGED <<deliveryVars, linkVars, target>>
        /\ step = "judge" /\ step' \in {"store", "fail"}
        /\ held' = held \/ held' \in [Sentences -> Reading]
        /\ step' = "store" => /\ held' \in [Sentences -> Reading]
                              /\ \A s \in Sentences : Applied(s, held'[s])
    BY <1>3 DEF JudgeRun, At, deliveryVars, linkVars
  <2>2. run[r] = "running" /\ held \in [Sentences -> Reading]
        /\ \A s \in Sentences : held[s].card = NotChosen
    BY <1>1, <2>1 DEF IInv, ClaimedInv
  <2>3. ASSUME NEW s \in Sentences, step' = "store" PROVE Answered(held'[s], s)
    <3>1. held'[s] \in Reading /\ Applied(s, held'[s])
      BY <2>1, <2>3
    <3>2. held[s] \in Reading /\ held[s].card = NotChosen
      BY <2>2
    <3> QED BY <3>1, <3>2, AppliedAnswers
  <2>4. ClaimedInv'
    BY <1>1, <2>1, <2>2, <2>3 DEF ClaimedInv, Answered
  <2>5. StepInv' /\ TakenInv'
    BY <1>1, <2>1 DEF IInv, StepInv, TakenInv
  <2> QED BY <2>1, <2>2, <2>4, <2>5, JobVarsStep DEF IInv, TypeOK
<1>4. CASE StoreRun(r)
  <2>1. /\ UNCHANGED <<pending, ahead, tries, handling, settled, there, alive, choices, target, held>>
        /\ run' \in {run, [run EXCEPT ![r] = "succeeded"]} /\ step' = "return"
    BY <1>4 DEF StoreRun, deliveryVars
  <2>2. run' \in [Runs -> {"none", "queued", "running", "succeeded", "failed"}]
    BY <2>1 DEF IInv, TypeOK
  <2>3. CASE claim' = claim
    BY <1>1, <2>1, <2>2, <2>3, ReturnStep DEF deliveryVars, linkVars
  <2>4. CASE claim' # claim
    <3>1. \A c \in Claims : RowHolds(claim'[c], choices')
      <4>1. RowHolds(NoRow, choices)
        BY DEF RowHolds, NoRow
      <4> QED BY <1>4, <2>1, <2>4, <4>1, StoredRows
    <3>2. RowsHold(claim, choices)'
      BY <1>4, <2>1, <2>4, <3>1, StoredRows DEF RowsHold
    <3>3. TypeOK'
      BY <2>1, <2>2, <3>2 DEF IInv, TypeOK, DeliveryTypeOK, RowsHold, ClaimRow
    <3>4. OneAtATime' /\ StepInv' /\ TargetInv' /\ ChoicesInv' /\ TakenInv' /\ ClaimedInv'
      BY <1>1, <2>1 DEF IInv, OneAtATime, StepInv, TargetInv, ChoicesInv, TakenInv, ClaimedInv
    <3> QED BY <3>2, <3>3, <3>4 DEF IInv
  <2> QED BY <2>3, <2>4
<1>5. CASE FinishRunFailed(r)
  <2>1. run' \in [Runs -> {"none", "queued", "running", "succeeded", "failed"}]
    BY <1>5 DEF FinishRunFailed, IInv, TypeOK
  <2> QED BY <1>1, <1>5, <2>1, ReturnStep DEF FinishRunFailed
<1>6. CASE ReadRun(r)
  <2>1. /\ UNCHANGED <<handling, alive, choices, run, there>>
        /\ UNCHANGED <<deliveryVars, linkVars, target>>
        /\ step = "read"
        /\ \/ /\ step' = "judge"
              /\ held' \in [Sentences -> [fits : {{}} \cup {f \in Fits : f \subseteq alive},
                                        card : {NotChosen}, byName : {FALSE}]]
           \/ step' \in {"return", "fail"} /\ held' = held
    BY <1>6 DEF ReadRun, At, deliveryVars, linkVars
  <2>2. run[r] = "running"
    BY <1>1, <2>1 DEF IInv, ClaimedInv
  <2>3. [fits : {{}} \cup {f \in Fits : f \subseteq alive}, card : {NotChosen}, byName : {FALSE}]
          \subseteq Reading
    BY DEF Reading
  <2>4. step' = "judge" => /\ held' \in [Sentences -> Reading]
                           /\ \A s \in Sentences : held'[s].card = NotChosen
    <3> SUFFICES ASSUME step' = "judge"
                 PROVE  /\ held' \in [Sentences -> Reading]
                        /\ \A s \in Sentences : held'[s].card = NotChosen
      OBVIOUS
    <3>1. held' \in [Sentences -> [fits : {{}} \cup {f \in Fits : f \subseteq alive},
                                  card : {NotChosen}, byName : {FALSE}]]
      BY <2>1
    <3> QED BY <2>3, <3>1
  <2>5. ClaimedInv' /\ StepInv' /\ TakenInv'
    BY <1>1, <2>1, <2>2, <2>4 DEF IInv, ClaimedInv, StepInv, TakenInv
  <2> QED BY <2>1, <2>4, <2>5, JobVarsStep DEF IInv, TypeOK
<1> QED BY <1>2, <1>3, <1>4, <1>5, <1>6

LEMMA UnexpectedStep == ASSUME IInv, NEW j \in Jobs, Unexpected(j) PROVE IInv'
<1>1. j \in handling /\ UNCHANGED <<deliveryVars, linkVars, target, there, held, run>>
  BY DEF Unexpected
<1>2. CASE step' = "return"
  BY <1>1, <1>2, ReturnStep DEF IInv, TypeOK
<1>3. CASE step = "store" /\ step' = "fail"
  <2>1. UNCHANGED <<handling, claim, target, run>>
    BY <1>1 DEF deliveryVars, linkVars
  <2>2. StepInv' /\ TakenInv' /\ ClaimedInv'
    BY <1>1, <1>3, <2>1 DEF IInv, StepInv, TakenInv, ClaimedInv
  <2> QED BY <1>1, <1>3, <2>2, JobVarsStep DEF IInv, TypeOK
<1> QED BY <1>2, <1>3 DEF Unexpected

-----------------------------------------------------------------------------
(* A step of the queue: the rows stay as they are, and no job comes or is    *)
(* started in the middle of its code.                                        *)
LEMMA DeliveryStep ==
  ASSUME IInv, UNCHANGED <<there, linkVars, run>>, DeliveryTypeOK', OneAtATime', StepInv', TargetInv',
         target' \in [Picks -> Claims \cup {NoClaim}],
         \/ step' \in {"none", "take", "claim"} /\ held' \in {held, NoCard}
         \/ UNCHANGED <<step, held, handling, target>>,
         handling' \in {{}, handling} \/ step' \in {"none", "take", "claim"}
  PROVE  IInv'
<1>1. UNCHANGED <<there, alive, claim, choices, run>>
  BY DEF linkVars
<1>2. TypeOK'
  BY <1>1 DEF IInv, TypeOK
<1>3. TakenInv' /\ ClaimedInv'
  BY <1>1 DEF IInv, TakenInv, ClaimedInv, Answered
<1> QED BY <1>1, <1>2, <1>3 DEF IInv, ChoicesInv

LEMMA QueueStep ==
  IInv /\ ((\E j \in Jobs : StartJob(j) \/ ReturnJob(j) \/ GiveUpJob(j) \/ AckJob(j)) \/ CutOff)
    => IInv'
<1>1. ASSUME IInv, NEW j \in Jobs, StartJob(j) PROVE IInv'
  <2>1. DeliveryTypeOK'
    BY <1>1, CountedInRange DEF StartJob, Start, IInv, TypeOK, DeliveryTypeOK
  <2>2. /\ j \in pending /\ handling = {} /\ settled = {} /\ handling' = {j}
        /\ UNCHANGED <<pending, settled, held, target>>
        /\ step' = IF j \in Picks THEN "take" ELSE "claim"
    BY <1>1 DEF StartJob, Start, IsNext
  <2>3. OneAtATime' /\ StepInv' /\ TargetInv'
    <3>1. OneAtATime'
      BY <2>2 DEF OneAtATime
    <3>2. StepInv'
      <4>1. CASE j \in Picks
        <5>1. handling' \cap Runs = {} /\ step' = "take"
          BY <2>2, <4>1
        <5> QED BY <2>2, <5>1 DEF StepInv
      <4>2. CASE j \notin Picks
        <5>1. handling' \cap Picks = {} /\ step' = "claim"
          BY <2>2, <4>2
        <5> QED BY <2>2, <5>1 DEF StepInv
      <4> QED BY <4>1, <4>2
    <3>3. TargetInv'
      <4>1. TargetInv /\ pending' = pending /\ target' = target
        BY <1>1, <2>2 DEF IInv
      <4> QED BY <4>1 DEF TargetInv
    <3> QED BY <3>1, <3>2, <3>3
  <2>4. UNCHANGED <<there, linkVars, run>> /\ target' \in [Picks -> Claims \cup {NoClaim}]
    BY <1>1 DEF StartJob, IInv, TypeOK
  <2> QED BY <1>1, <2>1, <2>2, <2>3, <2>4, DeliveryStep
<1>2. ASSUME IInv, NEW j \in Jobs, ReturnJob(j) PROVE IInv'
  <2>1. DeliveryTypeOK' /\ OneAtATime' /\ StepInv' /\ pending' = pending
    BY <1>2 DEF ReturnJob, Finish, Idle, IInv, TypeOK, DeliveryTypeOK, OneAtATime, StepInv
  <2>2. TargetInv'
    BY <1>2, <2>1 DEF ReturnJob, IInv, TargetInv
  <2> QED BY <1>2, <2>1, <2>2, DeliveryStep DEF ReturnJob, Idle, IInv, TypeOK
<1>3. ASSUME IInv, NEW j \in Jobs, GiveUpJob(j) PROVE IInv'
  <2>1. DeliveryTypeOK' /\ OneAtATime' /\ StepInv' /\ pending' = pending /\ handling' = handling
    BY <1>3, CountedInRange DEF GiveUpJob, GiveUp, IsNext, jobVars, IInv, TypeOK, DeliveryTypeOK,
       OneAtATime, StepInv
  <2>2. TargetInv'
    BY <1>3, <2>1 DEF GiveUpJob, IInv, TargetInv
  <2> QED BY <1>3, <2>1, <2>2, DeliveryStep DEF GiveUpJob, jobVars, IInv, TypeOK
<1>4. ASSUME IInv, NEW j \in Jobs, AckJob(j) PROVE IInv'
  <2>1. DeliveryTypeOK' /\ handling = {} /\ handling' = {} /\ pending' = pending \ {j}
    BY <1>4 DEF AckJob, Remove, IInv, TypeOK, DeliveryTypeOK, OneAtATime
  <2>2. OneAtATime' /\ StepInv' /\ step = "none" /\ step' = "none"
    BY <1>4 DEF AckJob, Remove, jobVars, IInv, OneAtATime, StepInv
  <2>3. target' \in [Picks -> Claims \cup {NoClaim}] /\ TargetInv'
    BY <1>4, <2>1 DEF AckJob, IInv, TypeOK, TargetInv
  <2> QED BY <1>4, <2>1, <2>2, <2>3, DeliveryStep DEF AckJob, jobVars
<1>5. ASSUME IInv, CutOff PROVE IInv'
  <2>1. DeliveryTypeOK' /\ OneAtATime' /\ StepInv' /\ pending' = pending
    BY <1>5 DEF CutOff, Interrupt, Idle, IInv, TypeOK, DeliveryTypeOK, OneAtATime, StepInv
  <2>2. TargetInv'
    BY <1>5, <2>1 DEF CutOff, IInv, TargetInv
  <2> QED BY <1>5, <2>1, <2>2, DeliveryStep DEF CutOff, Idle, IInv, TypeOK
<1> QED BY <1>1, <1>2, <1>3, <1>4, <1>5

LEMMA InvStep == IInv /\ [Next]_vars => IInv'
<1> SUFFICES ASSUME IInv, [Next]_vars PROVE IInv'
  OBVIOUS
<1>1. CASE Requests
  BY <1>1, ListStep, PickStep, PickNoneStep, RequestRunStep DEF Requests
<1>2. ASSUME NEW k \in Cards, DeleteCard(k) PROVE IInv'
  BY <1>2, DeleteCardStep
<1>3. CASE Trash
  <2>1. UNCHANGED <<deliveryVars, linkVars, target, run, step, held, handling, claim, alive, choices>>
        /\ there' \in BOOLEAN
    BY <1>3 DEF Trash, deliveryVars, linkVars, jobVars
  <2>2. StepInv' /\ TakenInv' /\ ClaimedInv'
    BY <2>1 DEF IInv, StepInv, TakenInv, ClaimedInv, Answered
  <2> QED BY <2>1, <2>2, JobVarsStep DEF IInv, TypeOK
<1>4. ASSUME NEW j \in Jobs, Handler(j) PROVE IInv'
  BY <1>4, PickJobStep, RunJobStep, UnexpectedStep DEF Handler
<1>5. CASE (\E j \in Jobs : StartJob(j) \/ ReturnJob(j) \/ GiveUpJob(j) \/ AckJob(j)) \/ CutOff
  BY <1>5, QueueStep
<1>6. CASE UNCHANGED vars
  <2>1. UNCHANGED <<deliveryVars, linkVars, target, there, run, step, held, handling, claim, alive, choices>>
    BY <1>6 DEF vars, deliveryVars, linkVars, jobVars
  <2>2. StepInv' /\ TakenInv' /\ ClaimedInv'
    BY <2>1 DEF IInv, StepInv, TakenInv, ClaimedInv, Answered
  <2> QED BY <2>1, <2>2, JobVarsStep DEF IInv, TypeOK
<1> QED BY <1>1, <1>2, <1>3, <1>4, <1>5, <1>6 DEF Next

LEMMA Inductive == Spec => []IInv
  BY InvInit, InvStep, PTL DEF Spec

(* A claim is judged once, however often its jobs are delivered, and never   *)
(* picked again under the job that is about to store its judgment.           *)
THEOREM PicksJudgedOnce == Spec => []Inv
<1>1. IInv => Inv
  <2> SUFFICES ASSUME IInv PROVE JudgedOnce /\ NoPickUnderJob
    BY DEF IInv, Inv
  <2>1. JudgedOnce
    BY DEF IInv, RowsHold, RowHolds, JudgedOnce
  <2>2. NoPickUnderJob
    BY DEF IInv, TakenInv, NoPickUnderJob
  <2> QED BY <2>1, <2>2
<1> QED BY <1>1, Inductive, PTL

(* A linked claim a run has not tied by a name is about the card the author  *)
(* picked for it: no job or run stores what an earlier pick said.            *)
THEOREM PicksAreFollowed == Spec => []LinkedAsPicked
<1>1. IInv => LinkedAsPicked
  BY DEF IInv, RowsHold, RowHolds, LinkedAsPicked
<1> QED BY <1>1, Inductive, PTL

(* A run asks about a sentence the author has answered for only where the    *)
(* card picked is none of those it asks about: no pick was made between its  *)
(* reading of the choices and its store.                                     *)
THEOREM AnswersAreKept == Spec => AnswerIsKept
<1> DEFINE Kept == \A c \in Claims : claim[c].status = "none" /\ claim'[c].status = "pending" =>
                     choices[claim'[c].sentence] \notin claim'[c].fits \cup {NoCard}
<1>1. IInv /\ [Next]_vars => [Kept]_vars
  <2> SUFFICES ASSUME IInv, Next, NEW c \in Claims,
                      claim[c].status = "none", claim'[c].status = "pending"
               PROVE  choices[claim'[c].sentence] \notin claim'[c].fits \cup {NoCard}
    OBVIOUS
  <2>1. claim' # claim /\ claim[c] \in ClaimRow /\ claim[c].card = NoCard
    BY DEF IInv, RowsHold, RowHolds, NoRow
  <2>2. ClaimsSeen[c].status = "none" /\ ~BeingJudged(claim[c])
    BY SeenRows DEF BeingJudged
  <2>3. ~ListLinks /\ \A d \in Claims : ~PickNone(d) /\ \A k \in Cards : ~Pick(d, k)
    <3>1. ~ListLinks
      BY <2>2 DEF ListLinks
    <3>2. ASSUME NEW d \in Claims, NEW k \in Cards, Pick(d, k) PROVE FALSE
      <4>1. d # c /\ claim' = [ClaimsSeen EXCEPT ![d].status = "queued", ![d].card = k]
        BY <2>2, <3>2 DEF Pick
      <4> QED BY <2>2, <4>1, SeenRows DEF RowsHold
    <3>3. ASSUME NEW d \in Claims, PickNone(d) PROVE FALSE
      <4>1. d # c /\ claim' = [ClaimsSeen EXCEPT ![d] = NoRow]
        BY <2>2, <3>3 DEF PickNone
      <4> QED BY <2>2, <4>1, SeenRows DEF RowsHold
    <3> QED BY <3>1, <3>2, <3>3
  <2>4. ASSUME NEW k \in Cards, DeleteCard(k) PROVE FALSE
    BY <2>1, <2>4 DEF DeleteCard
  <2>5. ASSUME NEW j \in Picks, Take(j) \/ Store(j) \/ PutBackFailed(j) PROVE FALSE
    <3>1. target[j] \in Claims /\ claim \in [Claims -> ClaimRow] /\ claim[target[j]] \in ClaimRow
      BY <2>5, AtWork DEF Take, Store, PutBackFailed, At, IInv, RowsHold
    <3>2. claim[target[j]].status # "none"
      BY <2>1, <2>5 DEF Take, Store, PutBackFailed, BeingJudged
    <3>3. c # target[j]
      BY <3>2
    <3>4. CASE Take(j)
      BY <3>1, <3>3, <3>4 DEF Take
    <3>5. CASE Store(j)
      BY <3>1, <3>3, <3>5 DEF Store
    <3>6. CASE PutBackFailed(j)
      BY <3>1, <3>3, <3>6 DEF PutBackFailed
    <3> QED BY <2>5, <3>4, <3>5, <3>6
  <2>6. PICK r \in Runs : StoreRun(r)
    <3>1. ASSUME NEW j \in Jobs, Handler(j) PROVE \E r \in Runs : StoreRun(r)
      BY <2>1, <2>5, <3>1 DEF Handler, Judge, ClaimRun, ReadRun, JudgeRun, FinishRunFailed, Unexpected,
         linkVars
    <3>2. ASSUME NEW j \in Jobs, StartJob(j) \/ ReturnJob(j) \/ GiveUpJob(j) \/ AckJob(j)
          PROVE  FALSE
      BY <2>1, <3>2 DEF StartJob, ReturnJob, GiveUpJob, AckJob, linkVars
    <3>3. ~Trash /\ ~CutOff /\ \A r \in Runs : ~RequestRun(r)
      BY <2>1 DEF Trash, CutOff, RequestRun, linkVars
    <3>4. ~Requests
      BY <2>3, <3>3 DEF Requests
    <3> QED BY <2>4, <3>1, <3>2, <3>3, <3>4 DEF Next
  <2> QED BY <2>1, <2>6, StoredRows DEF NoRow
<1> QED BY <1>1, Inductive, PTL DEF Spec, AnswerIsKept
===============================================================================
