--------------------------- MODULE FlagReviewProofs ---------------------------
(***************************************************************************)
(* Proofs that the flags shown are what was judged and decided of them,    *)
(* for every set of flags, values, revalidations and runs.                 *)
(***************************************************************************)
EXTENDS FlagReview, FiniteSetTheorems, TLAPS

USE ReviewAssumption, MaxAttemptsAssumption

(* The queue's promise that jobs are handled one at a time: the one at work, *)
(* or to be acked, is in the queue.                                          *)
OneAtATime ==
  /\ \A i, j \in handling \cup settled : i = j
  /\ handling \cap settled = {}
  /\ handling \cup settled \subseteq pending

StepInv == handling = {} => step = "none"

(* A flag is held against a value, and its confidence, while the author may  *)
(* still decide, is of that value.                                           *)
FlagRow == [status : FlagStatus, ref : Values \cup {Unset}, about : Values \cup {Unset}]
FlagHolds(f, row) ==
  /\ row.status # "none" => row.ref \in Values
  /\ row.status \in {"open", "dismissed"} /\ row.about # Unset =>
       row.about = row.ref /\ row.ref # Said[f]
FlagsHold(flags) ==
  /\ flags \in [Flags -> FlagRow]
  /\ \A f \in Flags : FlagHolds(f, flags[f])

(* A revalidation is of a flag there is, and one of a flag at most is in     *)
(* progress.                                                                 *)
CheckRow == [status : {"none", "queued", "running", "succeeded", "failed"},
             flag : Flags \cup {NoFlag}, setting : Values \cup {Unset},
             outcome : {"none", "resolved", "contradicts"}]
ChecksHold(rows, flags) ==
  /\ rows \in [Checks -> CheckRow]
  /\ \A c \in Checks :
       IF rows[c].status = "none" THEN rows[c] = NoCheck
       ELSE rows[c].flag \in Flags /\ flags[rows[c].flag].status # "none"
  /\ \A c, d \in Checks :
       Active(rows[c].status) /\ Active(rows[d].status) /\ rows[c].flag = rows[d].flag => c = d

(* A revalidation about to store was asked of the model unless it resolves   *)
(* the flag, of a value its sentence does not say.                           *)
CheckJudgedInv ==
  \A c \in handling \cap Checks : step = "store" =>
    IF judged.about = Unset THEN judged.resolved
    ELSE judged.about = judged.setting /\ Said[check[c].flag] # judged.setting

(* A run past its claim is running, which no request changes the card under; *)
(* what it found contradicts the value it read, and the card still has that, *)
(* unless it was edited elsewhere.                                           *)
ClaimedInv ==
  \A r \in handling \cap Runs : step \in {"read", "judge", "store", "fail"} => run[r] = "running"
FoundInv ==
  \A r \in handling \cap Runs : step = "store" =>
    /\ \A f \in judged.found : judged.setting \in Values /\ Said[f] # judged.setting
    /\ judged.found # {} /\ ~edited => card = judged.setting /\ source # "here"

IInv ==
  /\ TypeOK
  /\ OneAtATime /\ StepInv
  /\ FlagsHold(flag) /\ ChecksHold(check, flag)
  /\ CheckJudgedInv /\ ClaimedInv /\ FoundInv
  /\ ResolvedWasJudged
  /\ DismissedIsRemembered

-----------------------------------------------------------------------------
LEMMA InvInit == Init => IInv
<1> SUFFICES ASSUME Init PROVE IInv
  OBVIOUS
<1>1. TypeOK
  <2>1. DeliveryTypeOK /\ card \in Values \cup {Unset, Deleted} /\ source = "author"
    BY DEF Init, DeliveryInit, DeliveryTypeOK
  <2>6. there \in BOOLEAN /\ submitted \in BOOLEAN /\ fresh \in BOOLEAN /\ edited \in BOOLEAN
    BY DEF Init
  <2>2. NotFound \in FlagRow /\ NoCheck \in CheckRow
    BY DEF NotFound, FlagRow, FlagStatus, NoCheck, CheckRow
  <2>3. flag \in [Flags -> FlagRow] /\ check \in [Checks -> CheckRow]
    BY <2>2 DEF Init
  <2>4. dismissals \in SUBSET (Flags \X Values) /\ step = "none"
        /\ run \in [Runs -> {"none", "queued", "running", "succeeded", "failed"}]
    BY DEF Init
  <2>5. judged \in [setting : Values \cup {Unset, Deleted}, about : Values \cup {Unset},
                   resolved : BOOLEAN, found : SUBSET Flags]
    BY DEF Init, NotJudged
  <2> QED BY <2>1, <2>3, <2>4, <2>5, <2>6 DEF TypeOK, FlagRow, CheckRow
<1>2. FlagsHold(flag) /\ ChecksHold(check, flag)
  BY DEF Init, FlagsHold, FlagHolds, FlagRow, FlagStatus, NotFound, ChecksHold, CheckRow, NoCheck,
     Active
<1>3. OneAtATime /\ StepInv /\ CheckJudgedInv /\ ClaimedInv /\ FoundInv
  BY DEF Init, DeliveryInit, OneAtATime, StepInv, CheckJudgedInv, ClaimedInv, FoundInv
<1>4. ResolvedWasJudged /\ DismissedIsRemembered
  BY DEF Init, ResolvedWasJudged, DismissedIsRemembered, InStatus, NotFound
<1> QED BY <1>1, <1>2, <1>3, <1>4 DEF IInv

(* A start counted stays within its bound. *)
LEMMA CountedInRange ==
  ASSUME NEW n \in 0 .. MaxAttempts + 1
  PROVE  Counted(n) \in 0 .. MaxAttempts + 1
  BY DEF Counted

(* The job at work is the only one, and in the queue. *)
LEMMA AtWork ==
  ASSUME IInv, NEW j \in handling
  PROVE  /\ handling = {j} /\ settled = {} /\ j \in pending
         /\ j \in Checks => handling \cap Runs = {}
         /\ j \in Runs => handling \cap Checks = {}
  BY DEF IInv, OneAtATime

(* A request lets no run be at work on the card when it finds none active. *)
LEMMA NoRunAtWork ==
  ASSUME IInv, NoRunActive
  PROVE  /\ run' \in [Runs -> {"none", "queued", "running", "succeeded", "failed"}]
         /\ \A r \in handling \cap Runs : step \notin {"read", "judge", "store", "fail"}
<1>1. \A r \in handling \cap Runs : RunsSeen[r] = run[r]
  BY AtWork DEF RunsSeen
<1>2. \A r \in handling \cap Runs : run[r] # "running"
  BY <1>1 DEF NoRunActive, Active
<1>3. run' = RunsSeen
  BY DEF NoRunActive
<1> QED BY <1>2, <1>3 DEF IInv, ClaimedInv, RunsSeen, TypeOK

(* Looking for lost revalidations changes the status of those in progress,   *)
(* and nothing of the others.                                                *)
LEMMA SeenChecks ==
  ASSUME IInv, NEW fs
  PROVE  /\ ChecksHold(ChecksSeen(fs), flag)
         /\ \A c \in Checks : /\ ChecksSeen(fs)[c].flag = check[c].flag
                              /\ check[c].status = "succeeded" \/ check[c] = NoCheck =>
                                   ChecksSeen(fs)[c] = check[c]
                              /\ ChecksSeen(fs)[c] = NoCheck => check[c] = NoCheck
<1>1. ChecksHold(check, flag)
  BY DEF IInv
<1>2. ASSUME NEW c \in Checks, Active(check[c].status)
      PROVE  /\ [check[c] EXCEPT !.status = "failed"] \in CheckRow
             /\ [check[c] EXCEPT !.status = "failed"].flag = check[c].flag
             /\ [check[c] EXCEPT !.status = "failed"].status = "failed"
  BY <1>1 DEF ChecksHold, CheckRow
<1>3. \A c \in Checks : /\ ChecksSeen(fs)[c] \in CheckRow
                        /\ ChecksSeen(fs)[c].flag = check[c].flag
                        /\ \/ ChecksSeen(fs)[c] = check[c]
                           \/ Active(check[c].status) /\ ChecksSeen(fs)[c].status = "failed"
  BY <1>1, <1>2 DEF ChecksSeen, ChecksHold
<1>4. ChecksSeen(fs) \in [Checks -> CheckRow]
  BY <1>3 DEF ChecksSeen
<1>5. \A c \in Checks : Active(ChecksSeen(fs)[c].status) => Active(check[c].status)
  BY <1>3 DEF Active
<1>6. ChecksHold(ChecksSeen(fs), flag)
  BY <1>1, <1>3, <1>4, <1>5 DEF ChecksHold, Active
<1> QED BY <1>3, <1>6 DEF Active, NoCheck

(* A revalidation created replaces those in progress on its flag.            *)
LEMMA StartedChecks ==
  ASSUME IInv, NEW before, NEW fs \in SUBSET Flags,
         ChecksHold(before, flag),
         \A c \in Checks : /\ before[c].flag = check[c].flag
                           /\ before[c] = NoCheck <=> check[c] = NoCheck
                           /\ check[c].status = "succeeded" => before[c] = check[c],
         \A f \in fs : flag[f].status # "none",
         StartChecks(before, fs)
  PROVE  /\ ChecksHold(check', flag)
         /\ \A c \in Checks \cap pending : check'[c].flag = check[c].flag
         /\ \A c \in Checks : check[c].status = "succeeded" => check'[c] = check[c]
         /\ DeliveryTypeOK' /\ OneAtATime' /\ handling' = handling
<1>1. PICK new \in SUBSET Unused :
        \E rowOf \in [fs -> new] :
          /\ {rowOf[f] : f \in fs} = new /\ Cardinality(new) = Cardinality(fs)
          /\ check' = [c \in Checks |->
               IF c \in new
                 THEN [NoCheck EXCEPT !.status = "queued", !.flag = CHOOSE f \in fs : rowOf[f] = c]
               ELSE IF before[c].flag \in fs /\ Active(before[c].status)
                 THEN [before[c] EXCEPT !.status = "failed"]
               ELSE before[c]]
          /\ SubmitAll(new)
  BY DEF StartChecks
<1>2. PICK rowOf \in [fs -> new] :
        /\ {rowOf[f] : f \in fs} = new
        /\ check' = [c \in Checks |->
             IF c \in new
               THEN [NoCheck EXCEPT !.status = "queued", !.flag = CHOOSE f \in fs : rowOf[f] = c]
             ELSE IF before[c].flag \in fs /\ Active(before[c].status)
               THEN [before[c] EXCEPT !.status = "failed"]
             ELSE before[c]]
        /\ SubmitAll(new)
  BY <1>1
<1>3. new \subseteq Checks /\ \A c \in new : c \notin pending /\ check[c] = NoCheck
  BY DEF Unused
<1>4. ASSUME NEW c \in new
      PROVE  /\ check'[c] \in CheckRow /\ check'[c].status = "queued"
             /\ check'[c].flag \in fs /\ rowOf[check'[c].flag] = c
  <2> DEFINE f == CHOOSE f \in fs : rowOf[f] = c
  <2>1. \E g \in fs : rowOf[g] = c
    BY <1>2
  <2>2. f \in fs /\ rowOf[f] = c
    BY <2>1
  <2>3. check'[c] = [NoCheck EXCEPT !.status = "queued", !.flag = f]
    BY <1>2, <1>3
  <2>4. check'[c] = [status |-> "queued", flag |-> f, setting |-> Unset, outcome |-> "none"]
    BY <2>3 DEF NoCheck
  <2> HIDE DEF f
  <2> QED BY <2>2, <2>4 DEF CheckRow
<1>5. ASSUME NEW c \in Checks \ new, before[c].flag \in fs, Active(before[c].status)
      PROVE  /\ check'[c] \in CheckRow /\ check'[c].status = "failed"
             /\ check'[c].flag = before[c].flag
  <2>1. check'[c] = [before[c] EXCEPT !.status = "failed"]
    BY <1>2, <1>5
  <2>2. before[c] \in CheckRow
    BY DEF ChecksHold
  <2> QED BY <2>1, <2>2 DEF CheckRow
<1>6. ASSUME NEW c \in Checks \ new, ~(before[c].flag \in fs /\ Active(before[c].status))
      PROVE  check'[c] = before[c]
  BY <1>2, <1>6
<1>7. \A c \in Checks : check'[c] \in CheckRow
  BY <1>4, <1>5, <1>6 DEF ChecksHold
<1>8. ChecksHold(check', flag)
  <2>1. check' \in [Checks -> CheckRow]
    BY <1>2, <1>7
  <2>2. ASSUME NEW c \in Checks
        PROVE  IF check'[c].status = "none" THEN check'[c] = NoCheck
               ELSE check'[c].flag \in Flags /\ flag[check'[c].flag].status # "none"
    <3>1. CASE c \in new
      BY <1>4, <3>1
    <3>2. CASE c \notin new
      BY <1>5, <1>6, <3>2 DEF ChecksHold, Active
    <3> QED BY <3>1, <3>2
  <2>3. ASSUME NEW c \in Checks, NEW d \in Checks,
               Active(check'[c].status), Active(check'[d].status), check'[c].flag = check'[d].flag
        PROVE  c = d
    <3>1. \A e \in Checks \ new : Active(check'[e].status) =>
            check'[e] = before[e] /\ before[e].flag \notin fs
      BY <1>5, <1>6 DEF Active
    <3>2. CASE c \in new
      BY <1>4, <2>3, <3>1, <3>2
    <3>3. CASE c \notin new
      BY <1>4, <2>3, <3>1, <3>3 DEF ChecksHold
    <3> QED BY <3>2, <3>3
  <2> QED BY <2>1, <2>2, <2>3 DEF ChecksHold
<1>9. \A c \in Checks \cap pending : check'[c].flag = check[c].flag
  BY <1>3, <1>5, <1>6
<1>10. \A c \in Checks : check[c].status = "succeeded" => check'[c] = check[c]
  BY <1>3, <1>6 DEF NoCheck, Active
<1>11. DeliveryTypeOK' /\ OneAtATime' /\ handling' = handling
  <2>1. /\ pending' = pending \cup new
        /\ ahead' = [j \in Jobs |-> IF j \in new THEN pending ELSE ahead[j]]
        /\ UNCHANGED <<tries, handling, settled>>
    BY <1>2 DEF SubmitAll
  <2> QED BY <1>3, <2>1 DEF IInv, TypeOK, DeliveryTypeOK, OneAtATime
<1> QED BY <1>8, <1>9, <1>10, <1>11

(* A flag still named by every revalidation of it keeps them whole. *)
LEMMA ChecksOfFlags ==
  ASSUME NEW rows, NEW flags, NEW after, ChecksHold(rows, flags),
         \A f \in Flags : flags[f].status # "none" => after[f].status # "none"
  PROVE  ChecksHold(rows, after)
  BY DEF ChecksHold

(* A revalidation that succeeded is never touched again, so that what it     *)
(* resolved stays judged.                                                    *)
LEMMA StillJudged ==
  ASSUME IInv, \A c \in Checks : check[c].status = "succeeded" => check'[c] = check[c],
         \A f \in Flags : flag'[f].status = "resolved_by_revalidation" => flag'[f] = flag[f]
  PROVE  ResolvedWasJudged'
  BY DEF IInv, ResolvedWasJudged, InStatus

(* A dismissed flag that stays so, with its dismissal, is remembered. *)
LEMMA StillRemembered ==
  ASSUME IInv, dismissals \subseteq dismissals', card' # Deleted => card # Deleted,
         \A f \in Flags : flag'[f].status = "dismissed" => flag'[f] = flag[f]
  PROVE  DismissedIsRemembered'
  BY DEF IInv, DismissedIsRemembered, InStatus, Key

(* A step of a request, or of what goes on outside: the job at work stays    *)
(* where it is, with the flag it judges, and a run about to store is not     *)
(* overtaken unnoticed.                                                      *)
LEMMA RequestStep ==
  ASSUME IInv, DeliveryTypeOK', OneAtATime', UNCHANGED <<handling, step, judged>>,
         there' \in BOOLEAN, submitted' \in BOOLEAN, fresh' \in BOOLEAN, edited' \in BOOLEAN,
         card' \in Values \cup {Unset, Deleted}, source' \in {"author", "here", "other"},
         run' \in [Runs -> {"none", "queued", "running", "succeeded", "failed"}],
         dismissals' \in SUBSET (Flags \X Values),
         FlagsHold(flag'), ChecksHold(check', flag'),
         \A c \in handling \cap Checks : check'[c].flag = check[c].flag,
         \A r \in handling \cap Runs :
           /\ step \in {"read", "judge", "store", "fail"} => run'[r] = run[r]
           /\ step = "store" => edited' \/ UNCHANGED <<card, source, edited>>,
         ResolvedWasJudged', DismissedIsRemembered'
  PROVE  IInv'
<1>1. judged' \in [setting : Values \cup {Unset, Deleted}, about : Values \cup {Unset},
                   resolved : BOOLEAN, found : SUBSET Flags]
      /\ step' \in {"none", "claim", "read", "judge", "store", "fail", "return"}
  BY DEF IInv, TypeOK
<1>2. flag' \in [Flags -> FlagRow] /\ check' \in [Checks -> CheckRow]
  BY DEF FlagsHold, ChecksHold
<1>3. TypeOK'
  BY <1>1, <1>2 DEF TypeOK, FlagRow, CheckRow
<1>4. StepInv' /\ CheckJudgedInv' /\ ClaimedInv'
  BY DEF IInv, StepInv, CheckJudgedInv, ClaimedInv
<1>5. FoundInv'
  BY DEF IInv, FoundInv
<1> QED BY <1>3, <1>4, <1>5 DEF IInv

-----------------------------------------------------------------------------
LEMMA DismissStep == ASSUME IInv, NEW f \in Flags, Dismiss(f) \/ Reopen(f) PROVE IInv'
<1>1. /\ UNCHANGED <<pending, ahead, tries, handling, settled, there, card, source, submitted, run,
                     step, judged, fresh, edited>>
      /\ check' = ChecksSeen({f})
  BY DEF Dismiss, Reopen, deliveryVars, cardVars, jobVars, notes
<1>2. PICK s \in {"open", "dismissed"} : flag' = [flag EXCEPT ![f].status = s]
  BY DEF Dismiss, Reopen
<1>3. flag[f].status \in {"open", "dismissed"}
  BY DEF Dismiss, Reopen, OnOpen
<1>4. flag[f] \in FlagRow /\ FlagHolds(f, flag[f]) /\ flag[f].ref \in Values
  BY <1>3 DEF IInv, FlagsHold, FlagHolds
<1>5. /\ flag'[f] \in FlagRow /\ flag'[f].status = s
      /\ flag'[f].ref = flag[f].ref /\ flag'[f].about = flag[f].about
      /\ \A g \in Flags \ {f} : flag'[g] = flag[g]
      /\ flag' \in [Flags -> FlagRow]
  <2>1. [flag[f] EXCEPT !.status = s] \in FlagRow
    BY <1>4 DEF FlagRow, FlagStatus
  <2> QED BY <1>2, <1>4, <2>1 DEF IInv, FlagsHold, FlagRow
<1>6. FlagsHold(flag')
  <2>1. FlagHolds(f, flag'[f])
    BY <1>3, <1>4, <1>5 DEF FlagHolds
  <2> QED BY <1>5, <2>1 DEF IInv, FlagsHold
<1>7. ChecksHold(check', flag')
  BY <1>1, <1>5, SeenChecks, ChecksOfFlags
<1>8. ResolvedWasJudged'
  BY <1>1, <1>5, SeenChecks, StillJudged
<1>9. dismissals' \in SUBSET (Flags \X Values)
  BY <1>4 DEF Dismiss, Reopen, Key, IInv, TypeOK
<1>10. DismissedIsRemembered'
  <2> SUFFICES ASSUME card # Deleted, NEW g \in Flags, flag'[g].status = "dismissed"
               PROVE  <<g, flag'[g].ref>> \in dismissals'
    BY <1>1 DEF DismissedIsRemembered, InStatus, Key
  <2>1. CASE Dismiss(f)
    <3>1. dismissals' = dismissals \cup {<<f, flag[f].ref>>}
      BY <2>1 DEF Dismiss, Key
    <3>2. CASE g # f
      BY <1>5, <3>1, <3>2 DEF IInv, DismissedIsRemembered, InStatus, Key
    <3> QED BY <1>5, <3>1, <3>2
  <2>2. CASE Reopen(f)
    <3>1. dismissals' = dismissals \ {<<f, flag[f].ref>>} /\ s = "open"
      BY <1>2, <1>5, <2>2 DEF Reopen, Key, IInv, FlagsHold, FlagRow
    <3>2. g # f
      BY <1>5, <3>1
    <3> QED BY <1>5, <3>1, <3>2 DEF IInv, DismissedIsRemembered, InStatus, Key
  <2> QED BY <2>1, <2>2
<1> QED BY <1>1, <1>6, <1>7, <1>8, <1>9, <1>10, SeenChecks, RequestStep
        DEF IInv, TypeOK, DeliveryTypeOK, OneAtATime

LEMMA AcceptStep == ASSUME IInv, NEW f \in Flags, Accept(f) PROVE IInv'
<1>1. /\ UNCHANGED <<pending, ahead, tries, handling, settled, there, submitted,
                     step, judged, fresh, edited>>
      /\ NoRunActive /\ check' = ChecksSeen({f})
      /\ card' = Said[f] /\ source' = "author" /\ dismissals' \subseteq dismissals
      /\ flag' = [g \in Flags |-> IF g = f THEN [flag[f] EXCEPT !.status = "accepted"]
                                           ELSE AfterAccept(g, Said[f])]
  BY DEF Accept, deliveryVars, jobVars, notes
<1>2. /\ flag[f].status = "open" /\ Said[f] \in Values
      /\ \A g \in Flags : flag[g] \in FlagRow /\ FlagHolds(g, flag[g])
  BY DEF Accept, OnOpen, IInv, FlagsHold
<1>3. ASSUME NEW g \in Flags
      PROVE  /\ flag'[g] \in FlagRow /\ FlagHolds(g, flag'[g])
             /\ flag[g].status # "none" => flag'[g].status # "none"
             /\ flag'[g].status # "dismissed"
             /\ flag'[g].status = "resolved_by_revalidation" => flag'[g] = flag[g]
  <2>1. CASE g = f
    <3>1. flag'[g] = [flag[f] EXCEPT !.status = "accepted"]
      BY <1>1, <2>1
    <3> QED BY <1>2, <2>1, <3>1 DEF FlagRow, FlagStatus, FlagHolds
  <2>2. CASE g # f /\ flag[g].status \notin {"open", "dismissed"}
    <3>1. flag'[g] = flag[g]
      BY <1>1, <2>2 DEF AfterAccept
    <3> QED BY <1>2, <2>2, <3>1
  <2>3. CASE g # f /\ flag[g].status \in {"open", "dismissed"} /\ Said[g] = Said[f]
    <3>1. flag'[g] = [flag[g] EXCEPT !.status = "resolved"]
      BY <1>1, <2>3 DEF AfterAccept
    <3> QED BY <1>2, <2>3, <3>1 DEF FlagRow, FlagStatus, FlagHolds
  <2>4. CASE g # f /\ flag[g].status \in {"open", "dismissed"} /\ Said[g] # Said[f]
    <3>1. flag'[g] = HeldAgainst(Said[f])
      BY <1>1, <2>4 DEF AfterAccept
    <3> QED BY <1>2, <2>4, <3>1 DEF HeldAgainst, FlagRow, FlagStatus, FlagHolds
  <2> QED BY <2>1, <2>2, <2>3, <2>4
<1>4. FlagsHold(flag')
  BY <1>1, <1>3 DEF FlagsHold
<1>5. ChecksHold(check', flag')
  <2>1. check' = ChecksSeen({f}) /\ ChecksHold(ChecksSeen({f}), flag)
    BY <1>1, SeenChecks
  <2> QED BY <1>3, <2>1, ChecksOfFlags
<1>6. ResolvedWasJudged' /\ DismissedIsRemembered'
  <2>1. ResolvedWasJudged'
    BY <1>1, <1>3, SeenChecks, StillJudged
  <2>2. DismissedIsRemembered'
    BY <1>3 DEF DismissedIsRemembered, InStatus
  <2> QED BY <2>1, <2>2
<1>7. DeliveryTypeOK' /\ OneAtATime' /\ handling' = handling
  BY <1>1 DEF IInv, TypeOK, DeliveryTypeOK, OneAtATime
<1>8. \A c \in handling \cap Checks : check'[c].flag = check[c].flag
  BY <1>1, SeenChecks DEF IInv, TypeOK, DeliveryTypeOK
<1>9. /\ card' \in Values \cup {Unset, Deleted} /\ source' \in {"author", "here", "other"}
      /\ dismissals' \in SUBSET (Flags \X Values)
      /\ there' \in BOOLEAN /\ submitted' \in BOOLEAN /\ fresh' \in BOOLEAN /\ edited' \in BOOLEAN
  BY <1>1, <1>2 DEF IInv, TypeOK
<1>10. /\ run' \in [Runs -> {"none", "queued", "running", "succeeded", "failed"}]
       /\ \A r \in handling \cap Runs : step \notin {"read", "judge", "store", "fail"}
  BY <1>1, NoRunAtWork
<1> QED BY <1>1, <1>4, <1>5, <1>6, <1>7, <1>8, <1>9, <1>10, RequestStep

LEMMA RevalidateStep == ASSUME IInv, NEW f \in Flags, Revalidate(f) PROVE IInv'
<1>1. /\ UNCHANGED <<there, card, source, submitted, flag, dismissals, step, judged, fresh, edited>>
      /\ flag[f].status = "open" /\ NoRunActive
      /\ \/ check' = ChecksSeen({f}) /\ UNCHANGED <<pending, ahead, tries, handling, settled>>
         \/ StartChecks(ChecksSeen({f}), {f})
  BY DEF Revalidate, OnOpen, cardVars, jobVars, notes, deliveryVars
<1>2. /\ ChecksHold(check', flag)
      /\ \A c \in Checks \cap pending : check'[c].flag = check[c].flag
      /\ \A c \in Checks : check[c].status = "succeeded" => check'[c] = check[c]
      /\ DeliveryTypeOK' /\ OneAtATime' /\ handling' = handling
  <2>1. CASE check' = ChecksSeen({f}) /\ UNCHANGED <<pending, ahead, tries, handling, settled>>
    <3>1. DeliveryTypeOK' /\ OneAtATime' /\ handling' = handling
      BY <2>1 DEF IInv, TypeOK, DeliveryTypeOK, OneAtATime
    <3> QED BY <2>1, <3>1, SeenChecks
  <2>2. CASE StartChecks(ChecksSeen({f}), {f})
    <3>1. \A c \in Checks : ChecksSeen({f})[c] = NoCheck <=> check[c] = NoCheck
      BY SeenChecks
    <3>2. \A g \in {f} : flag[g].status # "none"
      BY <1>1
    <3>3. /\ ChecksHold(ChecksSeen({f}), flag)
          /\ \A c \in Checks : /\ ChecksSeen({f})[c].flag = check[c].flag
                               /\ check[c].status = "succeeded" => ChecksSeen({f})[c] = check[c]
      BY SeenChecks
    <3>4. {f} \in SUBSET Flags
      OBVIOUS
    <3> QED BY <2>2, <3>1, <3>2, <3>3, <3>4, StartedChecks
  <2> QED BY <1>1, <2>1, <2>2
<1>3. \A c \in handling \cap Checks : check'[c].flag = check[c].flag
  BY <1>2, AtWork
<1>4. FlagsHold(flag') /\ ChecksHold(check', flag') /\ ResolvedWasJudged' /\ DismissedIsRemembered'
  BY <1>1, <1>2, StillJudged, StillRemembered DEF IInv
<1> QED BY <1>1, <1>2, <1>3, <1>4, NoRunAtWork, RequestStep DEF IInv, TypeOK

LEMMA SupplementStep ==
  ASSUME IInv, NEW f \in Flags, NEW v \in Values, Supplement(f, v) PROVE IInv'
<1>1. /\ UNCHANGED <<there, submitted, dismissals, step, judged, fresh, edited>>
      /\ flag[f].status = "open" /\ NoRunActive /\ card = flag[f].ref
      /\ \/ StartChecks(check, {f}) /\ UNCHANGED <<card, source, flag>>
         \/ /\ card' = v /\ source' = "author"
            /\ flag' = [g \in Flags |-> IF flag[g].status = "open" THEN HeldAgainst(v) ELSE flag[g]]
            /\ StartChecks(check, InStatus("open"))
  BY DEF Supplement, OnOpen, cardVars, jobVars, notes
<1>2. /\ ChecksHold(check', flag)
      /\ \A c \in Checks \cap pending : check'[c].flag = check[c].flag
      /\ \A c \in Checks : check[c].status = "succeeded" => check'[c] = check[c]
      /\ DeliveryTypeOK' /\ OneAtATime' /\ handling' = handling
  <2>1. PICK fs \in SUBSET Flags : /\ StartChecks(check, fs)
                                   /\ \A g \in fs : flag[g].status = "open"
    BY <1>1 DEF InStatus
  <2>2. ChecksHold(check, flag)
    BY DEF IInv
  <2> QED BY <2>1, <2>2, StartedChecks
<1>3. \A c \in handling \cap Checks : check'[c].flag = check[c].flag
  BY <1>2, AtWork
<1>4. ASSUME NEW g \in Flags
      PROVE  /\ flag'[g] \in FlagRow /\ FlagHolds(g, flag'[g])
             /\ flag[g].status # "none" => flag'[g].status # "none"
             /\ flag'[g].status # "open" => flag'[g] = flag[g]
  <2>1. flag[g] \in FlagRow /\ FlagHolds(g, flag[g])
    BY DEF IInv, FlagsHold
  <2>2. flag'[g] = flag[g] \/ flag'[g] = HeldAgainst(v)
    BY <1>1
  <2>3. HeldAgainst(v) \in FlagRow /\ FlagHolds(g, HeldAgainst(v)) /\ HeldAgainst(v).status = "open"
    BY DEF HeldAgainst, FlagRow, FlagStatus, FlagHolds
  <2> QED BY <2>1, <2>2, <2>3
<1>5. FlagsHold(flag')
  <2>1. flag' \in [Flags -> FlagRow]
    BY <1>1, <1>4 DEF IInv, FlagsHold
  <2> QED BY <1>4, <2>1 DEF FlagsHold
<1>6. ChecksHold(check', flag')
  BY <1>2, <1>4, ChecksOfFlags
<1>7. ResolvedWasJudged'
  BY <1>2, <1>4, StillJudged
<1>8. card # Deleted
  BY <1>1 DEF IInv, FlagsHold, FlagHolds
<1>9. DismissedIsRemembered'
  BY <1>1, <1>4, <1>8, StillRemembered
<1>10. card' \in Values \cup {Unset, Deleted} /\ source' \in {"author", "here", "other"}
  BY <1>1 DEF IInv, TypeOK
<1> QED BY <1>1, <1>2, <1>3, <1>5, <1>6, <1>7, <1>9, <1>10, NoRunAtWork, RequestStep DEF IInv, TypeOK

(* Requests and edits that leave the flags, their revalidations and the      *)
(* queue's order of things alone.                                            *)
LEMMA CardStep ==
  ASSUME IInv, UNCHANGED <<deliveryVars, flag, check, run, jobVars>>,
         there' \in BOOLEAN, submitted' \in BOOLEAN, fresh' \in BOOLEAN, edited' \in BOOLEAN,
         card' \in Values \cup {Unset, Deleted}, source' \in {"author", "here", "other"},
         dismissals' \in SUBSET (Flags \X Values), DismissedIsRemembered',
         UNCHANGED <<card, source, edited>>
           \/ edited' = (edited \/ \E r \in Runs : r \in handling /\ step = "store")
  PROVE  IInv'
<1>1. UNCHANGED <<pending, ahead, tries, handling, settled, step, judged>>
  BY DEF deliveryVars, jobVars
<1>2. DeliveryTypeOK' /\ OneAtATime' /\ ResolvedWasJudged'
  BY <1>1 DEF IInv, TypeOK, DeliveryTypeOK, OneAtATime, ResolvedWasJudged, InStatus
<1>3. FlagsHold(flag') /\ ChecksHold(check', flag')
      /\ run' \in [Runs -> {"none", "queued", "running", "succeeded", "failed"}]
  BY DEF IInv, TypeOK
<1>4. \A r \in handling \cap Runs : step = "store" => edited' \/ UNCHANGED <<card, source, edited>>
  OBVIOUS
<1> QED BY <1>1, <1>2, <1>3, <1>4, RequestStep

LEMMA ListSaveRequestStep ==
  IInv /\ (ListFlags \/ Save \/ \E r \in Runs : RequestRun(r)) => IInv'
<1>1. ASSUME IInv, ListFlags PROVE IInv'
  <2> DEFINE fs == Flags \ InStatus("none")
  <2>1. /\ UNCHANGED <<pending, ahead, tries, handling, settled, there, card, source, submitted,
                       flag, dismissals, run, step, judged, fresh, edited>>
        /\ check' = ChecksSeen(fs)
    BY <1>1 DEF ListFlags, deliveryVars, cardVars, jobVars, notes
  <2> HIDE DEF fs
  <2>2. ChecksHold(check', flag') /\ (\A c \in Checks : check'[c].flag = check[c].flag)
        /\ \A c \in Checks : check[c].status = "succeeded" => check'[c] = check[c]
    BY <1>1, <2>1, SeenChecks
  <2>3. ResolvedWasJudged' /\ DismissedIsRemembered'
    BY <1>1, <2>1, <2>2, StillJudged, StillRemembered
  <2>4. DeliveryTypeOK' /\ OneAtATime' /\ FlagsHold(flag')
    BY <1>1, <2>1 DEF IInv, TypeOK, DeliveryTypeOK, OneAtATime
  <2>5. \A c \in handling \cap Checks : check'[c].flag = check[c].flag
    BY <2>2
  <2> QED BY <1>1, <2>1, <2>2, <2>3, <2>4, <2>5, RequestStep DEF IInv, TypeOK
<1>2. ASSUME IInv, Save PROVE IInv'
  <2>1. DismissedIsRemembered'
    BY <1>2, StillRemembered DEF Save, reviewVars, cardVars
  <2> QED BY <1>2, <2>1, CardStep DEF Save, reviewVars, cardVars, jobVars, IInv, TypeOK
<1>3. ASSUME IInv, NEW r \in Runs, RequestRun(r) PROVE IInv'
  <2>1. /\ run' = [RunsSeen EXCEPT ![r] = "queued"]
        /\ r \notin pending /\ pending' = pending \cup {r}
        /\ ahead' = [i \in Jobs |-> IF i \in {r} THEN pending ELSE ahead[i]]
        /\ UNCHANGED <<tries, handling, settled, there, card, source, submitted, flag, dismissals,
                       check, step, judged, fresh, edited>>
    BY <1>3 DEF RequestRun, Submit, SubmitAll, cardVars, reviewVars, jobVars, notes
  <2>2. DeliveryTypeOK' /\ OneAtATime'
    BY <1>3, <2>1 DEF IInv, TypeOK, DeliveryTypeOK, OneAtATime
  <2>3. /\ run' \in [Runs -> {"none", "queued", "running", "succeeded", "failed"}]
        /\ \A q \in handling \cap Runs : run'[q] = run[q]
    <3>1. r \notin handling /\ \A q \in handling \cap Runs : RunsSeen[q] = run[q]
      BY <1>3, <2>1, AtWork DEF RunsSeen
    <3>2. RunsSeen \in [Runs -> {"none", "queued", "running", "succeeded", "failed"}]
      BY <1>3 DEF IInv, TypeOK, RunsSeen
    <3> QED BY <2>1, <3>1, <3>2
  <2>4. FlagsHold(flag') /\ ChecksHold(check', flag') /\ ResolvedWasJudged' /\ DismissedIsRemembered'
    BY <1>3, <2>1, StillJudged, StillRemembered DEF IInv
  <2> QED BY <1>3, <2>1, <2>2, <2>3, <2>4, RequestStep DEF IInv, TypeOK
<1> QED BY <1>1, <1>2, <1>3

LEMMA OutsideStep == IInv /\ (Outside \/ Trash) => IInv'
<1>1. ASSUME IInv, NEW v \in Values \cup {Unset}, EditCard(v) PROVE IInv'
  <2>1. /\ card # Deleted /\ card' = v /\ source' = "author"
        /\ UNCHANGED <<flag, check, dismissals, run, there, submitted, fresh>>
        /\ UNCHANGED <<deliveryVars, flag, check, run, jobVars>>
        /\ edited' = (edited \/ \E r \in Runs : r \in handling /\ step = "store")
    BY <1>1 DEF EditCard, NoteEdit, reviewVars
  <2>2. DismissedIsRemembered'
    BY <1>1, <2>1, StillRemembered
  <2> QED BY <1>1, <2>1, <2>2, CardStep DEF IInv, TypeOK
<1>2. ASSUME IInv, DeleteCard PROVE IInv'
  <2>1. /\ card' = Deleted /\ source' = "author" /\ dismissals' = {}
        /\ UNCHANGED <<flag, check, run, there, submitted, fresh>>
        /\ UNCHANGED <<deliveryVars, flag, check, run, jobVars>>
        /\ edited' = (edited \/ \E r \in Runs : r \in handling /\ step = "store")
    BY <1>2 DEF DeleteCard, NoteEdit
  <2>2. DismissedIsRemembered'
    BY <2>1 DEF DismissedIsRemembered
  <2> QED BY <1>2, <2>1, <2>2, CardStep DEF IInv, TypeOK
<1>3. ASSUME IInv, NEW v \in Values, OtherEpisodeFills(v) PROVE IInv'
  <2>1. /\ card # Deleted /\ card' = v /\ source' = "other"
        /\ UNCHANGED <<flag, check, dismissals, run, there, submitted, fresh>>
        /\ UNCHANGED <<deliveryVars, flag, check, run, jobVars>>
        /\ edited' = (edited \/ \E r \in Runs : r \in handling /\ step = "store")
    BY <1>3 DEF OtherEpisodeFills, NoteEdit, reviewVars
  <2>2. DismissedIsRemembered'
    BY <1>3, <2>1, StillRemembered
  <2> QED BY <1>3, <2>1, <2>2, CardStep DEF IInv, TypeOK
<1>4. ASSUME IInv, Trash PROVE IInv'
  <2>1. DismissedIsRemembered'
    BY <1>4, StillRemembered DEF Trash, reviewVars, cardVars
  <2> QED BY <1>4, <2>1, CardStep DEF Trash, reviewVars, cardVars, notes, IInv, TypeOK
<1> QED BY <1>1, <1>2, <1>3, <1>4 DEF Outside

-----------------------------------------------------------------------------
(* A step of a job: the queue and the novel stay as they are, and what is    *)
(* shown of the flags is still whole.                                        *)
LEMMA JobStep ==
  ASSUME IInv, NEW j \in handling, UNCHANGED <<deliveryVars, there, edited, dismissals>>,
         submitted' \in BOOLEAN, fresh' \in BOOLEAN,
         card' \in Values \cup {Unset, Deleted}, source' \in {"author", "here", "other"},
         run' \in [Runs -> {"none", "queued", "running", "succeeded", "failed"}],
         step' \in {"none", "claim", "read", "judge", "store", "fail", "return"},
         judged' \in [setting : Values \cup {Unset, Deleted}, about : Values \cup {Unset},
                      resolved : BOOLEAN, found : SUBSET Flags],
         FlagsHold(flag'), ChecksHold(check', flag'), ResolvedWasJudged', DismissedIsRemembered',
         CheckJudgedInv', ClaimedInv', FoundInv'
  PROVE  IInv'
<1>1. UNCHANGED <<pending, ahead, tries, handling, settled>>
  BY DEF deliveryVars
<1>2. DeliveryTypeOK' /\ OneAtATime' /\ StepInv'
  BY <1>1 DEF IInv, TypeOK, DeliveryTypeOK, OneAtATime, StepInv
<1>3. flag' \in [Flags -> FlagRow] /\ check' \in [Checks -> CheckRow]
  BY DEF FlagsHold, ChecksHold
<1>4. {there', submitted', fresh', edited'} \subseteq BOOLEAN
  BY DEF IInv, TypeOK
<1>5. dismissals' \in SUBSET (Flags \X Values)
  BY DEF IInv, TypeOK
<1>6. TypeOK'
  BY <1>2, <1>3, <1>4, <1>5 DEF TypeOK, FlagRow, CheckRow
<1> QED BY <1>2, <1>6 DEF IInv

(* One that leaves the flags and revalidations alone. *)
LEMMA JobOnlyStep ==
  ASSUME IInv, NEW j \in handling, UNCHANGED <<deliveryVars, there, submitted, edited, cardVars, reviewVars>>,
         fresh' \in BOOLEAN,
         run' \in [Runs -> {"none", "queued", "running", "succeeded", "failed"}],
         step' \in {"none", "claim", "read", "judge", "store", "fail", "return"},
         judged' \in [setting : Values \cup {Unset, Deleted}, about : Values \cup {Unset},
                      resolved : BOOLEAN, found : SUBSET Flags],
         CheckJudgedInv', ClaimedInv', FoundInv'
  PROVE  IInv'
<1>1. UNCHANGED <<card, source, flag, dismissals, check>>
  BY DEF cardVars, reviewVars
<1>2. FlagsHold(flag') /\ ChecksHold(check', flag')
  BY <1>1 DEF IInv
<1>3. ResolvedWasJudged' /\ DismissedIsRemembered'
  BY <1>1, StillJudged, StillRemembered
<1>4. /\ card' \in Values \cup {Unset, Deleted} /\ source' \in {"author", "here", "other"}
      /\ submitted' \in BOOLEAN
  BY <1>1 DEF IInv, TypeOK
<1> QED BY <1>1, <1>2, <1>3, <1>4, JobStep

(* A job's last step has nothing left to store. *)
LEMMA LastStep ==
  ASSUME step' = "return"
  PROVE  CheckJudgedInv' /\ ClaimedInv' /\ FoundInv'
  BY DEF CheckJudgedInv, ClaimedInv, FoundInv

(* A revalidation's job that changes nothing of its row but a status in      *)
(* progress.                                                                 *)
LEMMA StatusStep ==
  ASSUME IInv, NEW j \in handling \cap Checks, NEW s \in {"running", "failed"},
         Active(check[j].status), check' = [check EXCEPT ![j].status = s],
         UNCHANGED <<deliveryVars, there, cardVars, submitted, flag, dismissals, run, judged, notes>>,
         step' \in {"judge", "return"}
  PROVE  IInv'
<1>1. /\ ChecksHold(check, flag) /\ check[j] \in CheckRow
      /\ UNCHANGED <<handling, card, source, fresh, edited>>
      /\ handling \cap Runs = {}
  BY AtWork DEF IInv, ChecksHold, deliveryVars, cardVars, notes
<1>2. [check[j] EXCEPT !.status = s] \in CheckRow
  BY <1>1 DEF CheckRow
<1>3. /\ check'[j].status = s /\ check'[j].flag = check[j].flag
      /\ \A c \in Checks \ {j} : check'[c] = check[c]
      /\ check' \in [Checks -> CheckRow]
  BY <1>1, <1>2 DEF ChecksHold, CheckRow
<1>4. ChecksHold(check', flag')
  BY <1>1, <1>3 DEF ChecksHold, Active
<1>5. ResolvedWasJudged' /\ DismissedIsRemembered'
  BY <1>1, <1>3, StillJudged, StillRemembered DEF Active
<1>6. CheckJudgedInv' /\ ClaimedInv' /\ FoundInv'
  BY <1>1 DEF CheckJudgedInv, ClaimedInv, FoundInv
<1>7. FlagsHold(flag') /\ submitted' \in BOOLEAN /\ fresh' \in BOOLEAN
      /\ card' \in Values \cup {Unset, Deleted} /\ source' \in {"author", "here", "other"}
      /\ run' \in [Runs -> {"none", "queued", "running", "succeeded", "failed"}]
      /\ judged' \in [setting : Values \cup {Unset, Deleted}, about : Values \cup {Unset},
                      resolved : BOOLEAN, found : SUBSET Flags]
  BY <1>1 DEF IInv, TypeOK
<1> QED BY <1>1, <1>4, <1>5, <1>6, <1>7, JobStep

LEMMA ClaimCheckStep ==
  ASSUME IInv, NEW c \in Checks, ClaimCheck(c) \/ FinishCheckFailed(c) PROVE IInv'
<1>1. /\ c \in handling /\ step' \in {"judge", "return"}
      /\ UNCHANGED <<deliveryVars, there, cardVars, submitted, flag, dismissals, run, judged, notes>>
      /\ \/ check' = check /\ step' = "return"
         \/ \E s \in {"running", "failed"} :
              Active(check[c].status) /\ check' = [check EXCEPT ![c].status = s]
  <2>1. CASE ClaimCheck(c)
    BY <2>1 DEF ClaimCheck, At
  <2>2. CASE FinishCheckFailed(c)
    <3>1. CASE check[c].status = "running"
      BY <2>2, <3>1 DEF FinishCheckFailed, At, Active
    <3>2. CASE check[c].status # "running"
      <4>1. check \in [Checks -> CheckRow]
        BY DEF IInv, ChecksHold
      <4>2. check' \in {check, [check EXCEPT ![c].status = @]}
        BY <2>2, <3>2 DEF FinishCheckFailed
      <4>3. [check EXCEPT ![c].status = @] = check
        <5>1. check[c] = [check[c] EXCEPT !.status = @]
          BY <4>1 DEF CheckRow
        <5> QED BY <4>1, <5>1
      <4> QED BY <2>2, <4>2, <4>3 DEF FinishCheckFailed, At
    <3> QED BY <3>1, <3>2
  <2> QED BY <2>1, <2>2
<1>2. CASE check' = check /\ step' = "return"
  <2>1. /\ run' \in [Runs -> {"none", "queued", "running", "succeeded", "failed"}]
        /\ fresh' \in BOOLEAN /\ edited' = edited
        /\ judged' \in [setting : Values \cup {Unset, Deleted}, about : Values \cup {Unset},
                        resolved : BOOLEAN, found : SUBSET Flags]
    BY <1>1 DEF IInv, TypeOK, notes
  <2> QED BY <1>1, <1>2, <2>1, LastStep, JobOnlyStep DEF reviewVars
<1> QED BY <1>1, <1>2, StatusStep

LEMMA JudgeCheckStep == ASSUME IInv, NEW c \in Checks, JudgeCheck(c) PROVE IInv'
<1>1. /\ c \in handling /\ handling' = handling /\ handling = {c} /\ handling \cap Runs = {}
      /\ UNCHANGED <<deliveryVars, there, submitted, edited, cardVars, reviewVars>>
      /\ UNCHANGED <<check, run, fresh>> /\ step' \in {"store", "fail"}
  BY AtWork DEF JudgeCheck, At, deliveryVars, reviewVars, notes
<1>2. CASE step' = "fail" /\ judged' = judged
  <2>1. CheckJudgedInv' /\ ClaimedInv' /\ FoundInv'
    BY <1>1, <1>2 DEF CheckJudgedInv, ClaimedInv, FoundInv
  <2> QED BY <1>1, <1>2, <2>1, JobOnlyStep DEF IInv, TypeOK
<1>3. CASE /\ Judgeable(c)
           /\ \E resolved \in BOOLEAN :
                /\ Asked(check[c].flag) \/ resolved
                /\ judged' = [NotJudged EXCEPT !.setting = card, !.resolved = resolved,
                                !.about = IF Asked(check[c].flag) THEN card ELSE Unset]
  <2> DEFINE f == check[c].flag
  <2>1. PICK resolved \in BOOLEAN :
          /\ Asked(f) \/ resolved
          /\ judged' = [setting |-> card, about |-> IF Asked(f) THEN card ELSE Unset,
                        resolved |-> resolved, found |-> {}]
    BY <1>3 DEF NotJudged
  <2>2. Asked(f) => card \in Values /\ Said[f] # card
    BY DEF Asked
  <2> HIDE DEF f
  <2>3. judged' \in [setting : Values \cup {Unset, Deleted}, about : Values \cup {Unset},
                     resolved : BOOLEAN, found : SUBSET Flags]
    BY <2>1, <2>2 DEF IInv, TypeOK
  <2>4. IF judged'.about = Unset THEN judged'.resolved
        ELSE judged'.about = judged'.setting /\ Said[f] # judged'.setting
    BY <2>1, <2>2
  <2>5. CheckJudgedInv' /\ ClaimedInv' /\ FoundInv'
    BY <1>1, <2>4 DEF f, CheckJudgedInv, ClaimedInv, FoundInv
  <2> QED BY <1>1, <2>3, <2>5, JobOnlyStep DEF IInv, TypeOK
<1> QED BY <1>2, <1>3 DEF JudgeCheck

(* A revalidation stored: the flag shows the setting it was judged against,  *)
(* and is resolved only if that was the judgment.                            *)
LEMMA StoreCheckStep == ASSUME IInv, NEW c \in Checks, StoreCheck(c) PROVE IInv'
<1> DEFINE f == check[c].flag
           outcome == IF judged.resolved THEN "resolved" ELSE "contradicts"
           status == IF judged.resolved THEN "resolved_by_revalidation" ELSE flag[f].status
           ref == IF judged.setting = Unset THEN flag[f].ref ELSE judged.setting
<1>1. /\ c \in handling /\ step = "store" /\ step' \in {"return", "fail"}
      /\ UNCHANGED <<deliveryVars, there, card, source, cardVars, submitted, dismissals, run,
                     judged, fresh, edited>>
      /\ handling' = handling /\ handling = {c} /\ handling \cap Runs = {}
  BY AtWork DEF StoreCheck, At, deliveryVars, cardVars, notes
<1>2. CASE UNCHANGED <<flag, check>>
  <2>1. CheckJudgedInv' /\ ClaimedInv' /\ FoundInv'
    BY <1>1, <1>2 DEF CheckJudgedInv, ClaimedInv, FoundInv
  <2>2. /\ run' \in [Runs -> {"none", "queued", "running", "succeeded", "failed"}]
        /\ judged' \in [setting : Values \cup {Unset, Deleted}, about : Values \cup {Unset},
                        resolved : BOOLEAN, found : SUBSET Flags]
        /\ fresh' \in BOOLEAN
    BY <1>1 DEF IInv, TypeOK
  <2> QED BY <1>1, <1>2, <2>1, <2>2, JobOnlyStep DEF reviewVars
<1>3. CASE /\ check[c].status = "running" /\ Judgeable(c) /\ card = judged.setting
           /\ flag' = [flag EXCEPT ![f] =
                [status |-> IF judged.resolved THEN "resolved_by_revalidation" ELSE @.status,
                 ref |-> IF judged.setting = Unset THEN @.ref ELSE judged.setting,
                 about |-> judged.about]]
           /\ check' = [check EXCEPT ![c].status = "succeeded", ![c].setting = judged.setting,
                ![c].outcome = IF judged.resolved THEN "resolved" ELSE "contradicts"]
           /\ step' = "return"
  <2>1. /\ check \in [Checks -> CheckRow] /\ flag \in [Flags -> FlagRow] /\ f \in Flags
        /\ flag[f].status = "open" /\ FlagHolds(f, flag[f])
    <3>1. ChecksHold(check, flag) /\ FlagsHold(flag)
      BY DEF IInv
    <3> QED BY <1>3, <3>1 DEF Judgeable, ChecksHold, FlagsHold
  <2>2. /\ judged.setting \in Values \cup {Unset} /\ judged.about \in Values \cup {Unset}
        /\ judged.resolved \in BOOLEAN
    BY <1>3 DEF Judgeable, IInv, TypeOK
  <2>3. /\ judged.about = Unset => judged.resolved
        /\ judged.about # Unset => judged.about = judged.setting /\ Said[f] # judged.setting
    BY <1>1 DEF IInv, CheckJudgedInv
  <2>4. /\ flag'[f] = [status |-> status, ref |-> ref, about |-> judged.about]
        /\ \A g \in Flags \ {f} : flag'[g] = flag[g]
    BY <1>3, <2>1
  <2>5. /\ check'[c] = [status |-> "succeeded", flag |-> f, setting |-> judged.setting,
                        outcome |-> outcome]
        /\ \A d \in Checks \ {c} : check'[d] = check[d]
    <3>1. check[c] \in CheckRow
      BY <2>1
    <3>2. check'[c] = [check[c] EXCEPT !.status = "succeeded", !.setting = judged.setting,
                                       !.outcome = outcome]
      BY <1>3, <2>1
    <3>3. check'[c] = [status |-> "succeeded", flag |-> f, setting |-> judged.setting,
                       outcome |-> outcome]
      BY <3>1, <3>2 DEF CheckRow
    <3> QED BY <1>3, <2>1, <3>3
  <2>6. FlagsHold(flag')
    <3>1. flag'[f] \in FlagRow
      BY <2>1, <2>2, <2>4 DEF FlagRow, FlagStatus, FlagHolds
    <3>2. FlagHolds(f, flag'[f])
      BY <2>1, <2>2, <2>3, <2>4 DEF FlagHolds
    <3>3. flag' \in [Flags -> FlagRow]
      BY <1>3, <2>1, <2>4, <3>1
    <3> QED BY <2>4, <3>2, <3>3 DEF IInv, FlagsHold
  <2>7. ChecksHold(check', flag')
    <3>1. check'[c] \in CheckRow
      BY <2>1, <2>2, <2>5 DEF CheckRow
    <3>2. check' \in [Checks -> CheckRow]
      BY <1>3, <2>1, <2>5, <3>1
    <3>3. ChecksHold(check', flag)
      <4>1. ChecksHold(check, flag)
        BY DEF IInv
      <4> HIDE DEF f, outcome
      <4> QED BY <2>1, <2>5, <3>2, <4>1 DEF ChecksHold, Active
    <3>4. \A g \in Flags : flag[g].status # "none" => flag'[g].status # "none"
      BY <2>1, <2>4
    <3> QED BY <3>3, <3>4, ChecksOfFlags
  <2>8. ResolvedWasJudged'
    <3> SUFFICES ASSUME NEW g \in Flags, flag'[g].status = "resolved_by_revalidation"
                 PROVE  \E d \in Checks :
                          /\ check'[d].flag = g /\ check'[d].status = "succeeded"
                          /\ check'[d].outcome = "resolved"
                          /\ check'[d].setting \in {flag'[g].ref, Unset}
      BY DEF ResolvedWasJudged, InStatus
    <3>1. CASE g = f
      <4>1. judged.resolved
        BY <2>1, <2>4, <3>1
      <4> QED BY <2>4, <2>5, <3>1, <4>1
    <3>2. CASE g # f
      <4>1. flag'[g] = flag[g]
        BY <2>4, <3>2
      <4>2. PICK d \in Checks : /\ check[d].flag = g /\ check[d].status = "succeeded"
                                /\ check[d].outcome = "resolved"
                                /\ check[d].setting \in {flag[g].ref, Unset}
        BY <4>1 DEF IInv, ResolvedWasJudged, InStatus
      <4>3. d # c
        BY <3>2, <4>2
      <4> QED BY <2>5, <4>1, <4>2, <4>3
    <3> QED BY <3>1, <3>2
  <2>9. DismissedIsRemembered'
    <3>1. \A g \in Flags : flag'[g].status = "dismissed" => flag'[g] = flag[g]
      BY <2>1, <2>4
    <3> QED BY <1>1, <3>1, StillRemembered
  <2>10. CheckJudgedInv' /\ ClaimedInv' /\ FoundInv'
    BY <1>3, LastStep
  <2>11. /\ card' \in Values \cup {Unset, Deleted} /\ source' \in {"author", "here", "other"}
         /\ submitted' \in BOOLEAN /\ fresh' \in BOOLEAN
         /\ run' \in [Runs -> {"none", "queued", "running", "succeeded", "failed"}]
         /\ judged' \in [setting : Values \cup {Unset, Deleted}, about : Values \cup {Unset},
                         resolved : BOOLEAN, found : SUBSET Flags]
    BY <1>1 DEF IInv, TypeOK
  <2> QED BY <1>1, <2>6, <2>7, <2>8, <2>9, <2>10, <2>11, JobStep
<1> QED BY <1>2, <1>3 DEF StoreCheck

-----------------------------------------------------------------------------
LEMMA RunJobStep ==
  ASSUME IInv, NEW r \in Runs, ClaimRun(r) \/ ReadInput(r) \/ JudgeRun(r) \/ FinishRunFailed(r)
  PROVE  IInv'
<1>1. /\ r \in handling /\ handling' = handling /\ handling = {r} /\ handling \cap Checks = {}
      /\ UNCHANGED <<deliveryVars, there, submitted, edited, cardVars, reviewVars>>
      /\ UNCHANGED <<card, source>>
  BY AtWork DEF ClaimRun, ReadInput, JudgeRun, FinishRunFailed, At, deliveryVars, cardVars, notes
<1>2. /\ run \in [Runs -> {"none", "queued", "running", "succeeded", "failed"}]
      /\ fresh \in BOOLEAN /\ card \in Values \cup {Unset, Deleted}
      /\ judged \in [setting : Values \cup {Unset, Deleted}, about : Values \cup {Unset},
                     resolved : BOOLEAN, found : SUBSET Flags]
  BY DEF IInv, TypeOK
<1>3. CASE ClaimRun(r)
  <2>1. CASE run' = [run EXCEPT ![r] = "running"] /\ step' = "read"
    <3>1. CheckJudgedInv' /\ ClaimedInv' /\ FoundInv'
      BY <1>1, <1>2, <2>1 DEF CheckJudgedInv, ClaimedInv, FoundInv
    <3> QED BY <1>1, <1>2, <1>3, <2>1, <3>1, JobOnlyStep DEF ClaimRun, notes
  <2>2. CASE run' = run /\ step' = "return"
    BY <1>1, <1>2, <1>3, <2>2, LastStep, JobOnlyStep DEF ClaimRun, notes
  <2> QED BY <1>3, <2>1, <2>2 DEF ClaimRun
<1>4. CASE ReadInput(r)
  <2>1. /\ step = "read" /\ step' \in {"return", "judge"} /\ fresh' \in BOOLEAN
        /\ UNCHANGED <<run, judged>>
    BY <1>2, <1>4 DEF ReadInput, At
  <2>2. CheckJudgedInv' /\ ClaimedInv' /\ FoundInv'
    BY <1>1, <2>1 DEF IInv, CheckJudgedInv, ClaimedInv, FoundInv
  <2> QED BY <1>1, <1>2, <2>1, <2>2, JobOnlyStep
<1>5. CASE JudgeRun(r)
  <2>1. /\ step = "judge" /\ step' \in {"store", "fail"} /\ UNCHANGED <<run, fresh>>
        /\ \/ step' = "fail" /\ judged' = judged
           \/ \E found \in SUBSET {f \in Flags : Asked(f)} :
                judged' = [NotJudged EXCEPT !.setting = card, !.found = found]
    BY <1>5 DEF JudgeRun, At, notes
  <2>2. ClaimedInv' /\ CheckJudgedInv'
    BY <1>1, <2>1 DEF IInv, ClaimedInv, CheckJudgedInv
  <2>3. CASE step' = "fail" /\ judged' = judged
    <3>1. FoundInv'
      BY <2>3 DEF FoundInv
    <3> QED BY <1>1, <1>2, <2>1, <2>2, <2>3, <3>1, JobOnlyStep
  <2>4. CASE \E found \in SUBSET {f \in Flags : Asked(f)} :
               judged' = [NotJudged EXCEPT !.setting = card, !.found = found]
    <3>1. PICK found \in SUBSET {f \in Flags : Asked(f)} :
            judged' = [setting |-> card, about |-> Unset, resolved |-> FALSE, found |-> found]
      BY <2>4 DEF NotJudged
    <3>2. \A f \in found : f \in Flags /\ card \in Values /\ source # "here" /\ Said[f] # card
      BY DEF Asked
    <3>3. judged' \in [setting : Values \cup {Unset, Deleted}, about : Values \cup {Unset},
                       resolved : BOOLEAN, found : SUBSET Flags]
      BY <1>2, <3>1, <3>2
    <3>4. FoundInv'
      BY <1>1, <3>1, <3>2 DEF FoundInv
    <3> QED BY <1>1, <1>2, <2>1, <2>2, <3>3, <3>4, JobOnlyStep
  <2> QED BY <2>1, <2>3, <2>4
<1>6. CASE FinishRunFailed(r)
  <2>1. /\ run' \in [Runs -> {"none", "queued", "running", "succeeded", "failed"}]
        /\ step' = "return" /\ UNCHANGED <<judged, fresh>>
    BY <1>2, <1>6 DEF FinishRunFailed, notes
  <2> QED BY <1>1, <1>2, <2>1, LastStep, JobOnlyStep
<1> QED BY <1>3, <1>4, <1>5, <1>6

(* What a run stores are flags it found, dismissed only where the author has *)
(* dismissed them against the setting they are raised against.               *)
LEMMA StoreRunStep == ASSUME IInv, NEW r \in Runs, StoreRun(r) PROVE IInv'
<1>1. /\ r \in handling /\ step = "store" /\ step' = "return"
      /\ UNCHANGED <<deliveryVars, there, dismissals, judged, fresh, edited>>
  BY DEF StoreRun, At, notes
<1>2. /\ run \in [Runs -> {"none", "queued", "running", "succeeded", "failed"}]
      /\ fresh \in BOOLEAN /\ submitted \in BOOLEAN
      /\ card \in Values \cup {Unset, Deleted} /\ source \in {"author", "here", "other"}
      /\ judged \in [setting : Values \cup {Unset, Deleted}, about : Values \cup {Unset},
                     resolved : BOOLEAN, found : SUBSET Flags]
  BY DEF IInv, TypeOK
<1>3. CASE UNCHANGED <<flag, check, cardVars, run, submitted>>
  BY <1>1, <1>2, <1>3, LastStep, JobOnlyStep DEF reviewVars
<1>4. CASE /\ flag' = [f \in Flags |-> IF f \in judged.found THEN Raised(f) ELSE NotFound]
           /\ check' = [c \in Checks |-> NoCheck]
           /\ FillIn
           /\ run' = [run EXCEPT ![r] = "succeeded"]
           /\ submitted' = (submitted \/ fresh)
  <2>1. \A f \in judged.found : judged.setting \in Values /\ Said[f] # judged.setting
    BY <1>1 DEF IInv, FoundInv
  <2>2. \A f \in judged.found :
          /\ Raised(f) \in FlagRow /\ FlagHolds(f, Raised(f))
          /\ Raised(f).status \in {"open", "dismissed"} /\ Raised(f).ref = judged.setting
          /\ Raised(f).status = "dismissed" => <<f, judged.setting>> \in dismissals
    BY <2>1 DEF Raised, FlagRow, FlagStatus, FlagHolds
  <2>3. \A f \in Flags : NotFound \in FlagRow /\ FlagHolds(f, NotFound) /\ NotFound.status = "none"
    BY DEF NotFound, FlagRow, FlagStatus, FlagHolds
  <2>4. \A f \in Flags : (flag'[f] = Raised(f) /\ f \in judged.found) \/ flag'[f] = NotFound
    BY <1>4
  <2>5. FlagsHold(flag')
    <3>1. \A f \in Flags : flag'[f] \in FlagRow /\ FlagHolds(f, flag'[f])
      BY <2>2, <2>3, <2>4
    <3> QED BY <1>4, <3>1 DEF FlagsHold
  <2>6. ChecksHold(check', flag')
    <3>1. NoCheck \in CheckRow /\ NoCheck.status = "none"
      BY DEF NoCheck, CheckRow
    <3> QED BY <1>4, <3>1 DEF ChecksHold, Active
  <2>7. ResolvedWasJudged'
    BY <2>2, <2>3, <2>4 DEF ResolvedWasJudged, InStatus
  <2>8. DismissedIsRemembered'
    BY <1>1, <2>2, <2>3, <2>4 DEF DismissedIsRemembered, InStatus, Key
  <2>9. card' \in Values \cup {Unset, Deleted} /\ source' \in {"author", "here", "other"}
    BY <1>2, <1>4 DEF FillIn, cardVars
  <2>10. /\ run' \in [Runs -> {"none", "queued", "running", "succeeded", "failed"}]
         /\ submitted' \in BOOLEAN
    BY <1>2, <1>4
  <2> QED BY <1>1, <1>2, <2>5, <2>6, <2>7, <2>8, <2>9, <2>10, LastStep, JobStep
<1> QED BY <1>3, <1>4 DEF StoreRun

LEMMA UnexpectedStep == ASSUME IInv, NEW j \in Jobs, Unexpected(j) PROVE IInv'
<1>1. /\ j \in handling /\ UNCHANGED <<handling, check, run, judged, fresh>>
      /\ UNCHANGED <<deliveryVars, there, submitted, edited, cardVars, reviewVars>>
      /\ step' = "return" \/ (step \in {"read", "store"} /\ step' = "fail")
  BY DEF Unexpected, deliveryVars, reviewVars, notes
<1>2. /\ run' \in [Runs -> {"none", "queued", "running", "succeeded", "failed"}]
      /\ judged' \in [setting : Values \cup {Unset, Deleted}, about : Values \cup {Unset},
                      resolved : BOOLEAN, found : SUBSET Flags]
      /\ fresh' \in BOOLEAN
  BY <1>1 DEF IInv, TypeOK
<1>3. CheckJudgedInv' /\ ClaimedInv' /\ FoundInv'
  BY <1>1 DEF IInv, CheckJudgedInv, ClaimedInv, FoundInv
<1> QED BY <1>1, <1>2, <1>3, JobOnlyStep

-----------------------------------------------------------------------------
(* A step of the queue: the rows stay as they are, and no job is in the      *)
(* middle of its code after it that was not before.                          *)
LEMMA DeliveryStep ==
  ASSUME IInv, UNCHANGED <<there, cardVars, submitted, reviewVars, run>>,
         DeliveryTypeOK', OneAtATime', StepInv',
         \/ step' = "claim" /\ UNCHANGED <<judged, fresh, edited>>
         \/ Idle
         \/ UNCHANGED <<handling, step, judged, fresh, edited>>
  PROVE  IInv'
<1>1. UNCHANGED <<card, source, flag, dismissals, check, run, there, submitted>>
  BY DEF cardVars, reviewVars
<1>2. /\ step' \in {"none", "claim", "read", "judge", "store", "fail", "return"}
      /\ judged' \in [setting : Values \cup {Unset, Deleted}, about : Values \cup {Unset},
                      resolved : BOOLEAN, found : SUBSET Flags]
      /\ fresh' \in BOOLEAN /\ edited' \in BOOLEAN
  <2>1. NotJudged \in [setting : Values \cup {Unset, Deleted}, about : Values \cup {Unset},
                      resolved : BOOLEAN, found : SUBSET Flags]
    BY DEF NotJudged
  <2> QED BY <2>1 DEF IInv, TypeOK, Idle
<1>3. TypeOK'
  BY <1>1, <1>2 DEF IInv, TypeOK
<1>4. CheckJudgedInv' /\ ClaimedInv' /\ FoundInv'
  BY <1>1 DEF IInv, CheckJudgedInv, ClaimedInv, FoundInv, Idle
<1>5. ResolvedWasJudged' /\ DismissedIsRemembered'
  BY <1>1, StillJudged, StillRemembered
<1>6. FlagsHold(flag') /\ ChecksHold(check', flag')
  BY <1>1 DEF IInv
<1> QED BY <1>3, <1>4, <1>5, <1>6 DEF IInv

LEMMA QueueStep ==
  IInv /\ ((\E j \in Jobs : StartJob(j) \/ ReturnJob(j) \/ GiveUpJob(j) \/ AckJob(j)) \/ CutOff)
    => IInv'
<1>1. ASSUME IInv, NEW j \in Jobs, StartJob(j) PROVE IInv'
  <2>1. DeliveryTypeOK'
    BY <1>1, CountedInRange DEF StartJob, Start, IInv, TypeOK, DeliveryTypeOK
  <2>2. OneAtATime' /\ StepInv'
    BY <1>1 DEF StartJob, Start, IsNext, OneAtATime, StepInv
  <2> QED BY <1>1, <2>1, <2>2, DeliveryStep DEF StartJob, notes
<1>2. ASSUME IInv, NEW j \in Jobs, ReturnJob(j) PROVE IInv'
  <2>1. DeliveryTypeOK' /\ OneAtATime' /\ StepInv'
    BY <1>2 DEF ReturnJob, Finish, Idle, IInv, TypeOK, DeliveryTypeOK, OneAtATime, StepInv
  <2> QED BY <1>2, <2>1, DeliveryStep DEF ReturnJob
<1>3. ASSUME IInv, NEW j \in Jobs, GiveUpJob(j) PROVE IInv'
  <2>1. DeliveryTypeOK'
    BY <1>3, CountedInRange DEF GiveUpJob, QueueOnly, GiveUp, IInv, TypeOK, DeliveryTypeOK
  <2>2. OneAtATime' /\ StepInv' /\ handling' = handling
    BY <1>3 DEF GiveUpJob, QueueOnly, GiveUp, IsNext, jobVars, IInv, OneAtATime, StepInv
  <2> QED BY <1>3, <2>1, <2>2, DeliveryStep DEF GiveUpJob, QueueOnly, jobVars, notes
<1>4. ASSUME IInv, NEW j \in Jobs, AckJob(j) PROVE IInv'
  <2>1. DeliveryTypeOK'
    BY <1>4 DEF AckJob, QueueOnly, Remove, IInv, TypeOK, DeliveryTypeOK
  <2>2. OneAtATime' /\ StepInv' /\ handling' = handling
    BY <1>4 DEF AckJob, QueueOnly, Remove, jobVars, IInv, OneAtATime, StepInv
  <2> QED BY <1>4, <2>1, <2>2, DeliveryStep DEF AckJob, QueueOnly, jobVars, notes
<1>5. ASSUME IInv, CutOff PROVE IInv'
  <2>1. DeliveryTypeOK' /\ OneAtATime' /\ StepInv'
    BY <1>5 DEF CutOff, Interrupt, Idle, IInv, TypeOK, DeliveryTypeOK, OneAtATime, StepInv
  <2> QED BY <1>5, <2>1, DeliveryStep DEF CutOff
<1> QED BY <1>1, <1>2, <1>3, <1>4, <1>5

LEMMA InvStep == IInv /\ [Next]_vars => IInv'
<1> SUFFICES ASSUME IInv, [Next]_vars PROVE IInv'
  OBVIOUS
<1>1. CASE Requests
  BY <1>1, DismissStep, AcceptStep, RevalidateStep, SupplementStep, ListSaveRequestStep DEF Requests
<1>2. CASE Outside \/ Trash
  BY <1>2, OutsideStep
<1>3. ASSUME NEW j \in Jobs, Handler(j) PROVE IInv'
  <2>1. ASSUME j \in Checks PROVE \/ ~(ClaimCheck(j) \/ FinishCheckFailed(j) \/ JudgeCheck(j) \/ StoreCheck(j))
                                  \/ IInv'
    BY <2>1, ClaimCheckStep, JudgeCheckStep, StoreCheckStep
  <2>2. ASSUME j \in Runs PROVE \/ ~(\/ ClaimRun(j) \/ ReadInput(j) \/ JudgeRun(j) \/ StoreRun(j)
                                     \/ FinishRunFailed(j))
                                \/ IInv'
    BY <2>2, RunJobStep, StoreRunStep
  <2> QED BY <1>3, <2>1, <2>2, UnexpectedStep DEF Handler
<1>4. CASE (\E j \in Jobs : StartJob(j) \/ ReturnJob(j) \/ GiveUpJob(j) \/ AckJob(j)) \/ CutOff
  BY <1>4, QueueStep
<1>5. CASE UNCHANGED vars
  <2>1. /\ UNCHANGED <<there, cardVars, submitted, reviewVars, run>>
        /\ UNCHANGED <<pending, ahead, tries, handling, settled, step, judged, fresh, edited>>
    BY <1>5 DEF vars, deliveryVars, jobVars, notes
  <2>2. DeliveryTypeOK' /\ OneAtATime' /\ StepInv'
    BY <2>1 DEF IInv, TypeOK, DeliveryTypeOK, OneAtATime, StepInv
  <2> QED BY <2>1, <2>2, DeliveryStep
<1> QED BY <1>1, <1>2, <1>3, <1>4, <1>5 DEF Next

LEMMA Inductive == Spec => []IInv
  BY InvInit, InvStep, PTL DEF Spec

-----------------------------------------------------------------------------
(* One revalidation of a flag at most is in progress, and only of a flag     *)
(* there is: requests at once, runs that replace the flags, jobs cut off and *)
(* delivered again never leave two, nor one of a flag that is gone.          *)
THEOREM ChecksOneAtATime == Spec => []Inv
<1>1. ASSUME IInv PROVE Inv
  <2>1. TypeOK /\ ChecksHold(check, flag)
    BY <1>1 DEF IInv
  <2>2. ASSUME NEW f \in Flags
        PROVE  LET active == {c \in Checks : check[c].flag = f /\ Active(check[c].status)} IN
               /\ Cardinality(active) <= 1
               /\ active # {} => flag[f].status # "none"
    <3> DEFINE active == {c \in Checks : check[c].flag = f /\ Active(check[c].status)}
    <3>1. \A c, d \in active : c = d
      BY <2>1 DEF ChecksHold
    <3>2. \A c \in active : flag[f].status # "none"
      BY <2>1 DEF ChecksHold, Active
    <3>3. Cardinality(active) <= 1
      <4>1. CASE active = {}
        <5>1. Cardinality({}) = 0
          BY FS_EmptySet
        <5>2. Cardinality(active) = 0
          BY <4>1, <5>1
        <5> HIDE DEF active
        <5> QED BY <5>2
      <4>2. CASE active # {}
        <5>1. PICK c \in active : active = {c}
          BY <3>1, <4>2
        <5>2. Cardinality({c}) = 1
          BY FS_Singleton
        <5>3. Cardinality(active) = 1
          BY <5>1, <5>2
        <5> HIDE DEF active
        <5> QED BY <5>3
      <4> QED BY <4>1, <4>2
    <3> QED BY <3>2, <3>3
  <2> QED BY <2>1, <2>2 DEF Inv, OneCheckActive
<1> QED BY <1>1, Inductive, PTL

(* The confidence shown with a flag the author may still decide is of the    *)
(* setting shown with it, through every accept, supplement and revalidation. *)
THEOREM ConfidenceFits == Spec => []ConfidenceIsOfReference
<1>1. IInv => ConfidenceIsOfReference
  BY DEF IInv, FlagsHold, FlagHolds, ConfidenceIsOfReference, InStatus
<1> QED BY <1>1, Inductive, PTL

(* No flag is resolved by a revalidation that did not judge it so, against   *)
(* the setting shown: one superseded, cut off or overtaken resolves nothing. *)
THEOREM ResolvedByJudgment == Spec => []ResolvedWasJudged
<1>1. IInv => ResolvedWasJudged
  BY DEF IInv
<1> QED BY <1>1, Inductive, PTL

(* A flag shown dismissed is one the next run would show dismissed again:    *)
(* accepts, supplements and runs never lose a dismissal still shown.         *)
THEOREM DismissalsKept == Spec => []DismissedIsRemembered
<1>1. IInv => DismissedIsRemembered
  BY DEF IInv
<1> QED BY <1>1, Inductive, PTL

(* A revalidation that stores leaves no flag outdated that was not: the card *)
(* is the one it judged.                                                     *)
LEMMA StoreCheckOutdates ==
  ASSUME IInv, NEW c \in Checks, StoreCheck(c) PROVE Outdated' \subseteq Outdated
<1> DEFINE f == check[c].flag
<1>1. CASE UNCHANGED <<flag, card>>
  BY <1>1 DEF Outdated, InStatus
<1>2. CASE /\ Judgeable(c) /\ card = judged.setting /\ check[c].status = "running"
           /\ flag' = [flag EXCEPT ![f] =
                [status |-> IF judged.resolved THEN "resolved_by_revalidation" ELSE @.status,
                 ref |-> IF judged.setting = Unset THEN @.ref ELSE judged.setting,
                 about |-> judged.about]]
           /\ card' = card
  <2>1. flag \in [Flags -> FlagRow] /\ f \in Flags /\ flag[f].status = "open"
    <3>1. ChecksHold(check, flag) /\ FlagsHold(flag)
      BY DEF IInv
    <3> QED BY <1>2, <3>1 DEF Judgeable, ChecksHold, FlagsHold
  <2>2. /\ flag'[f].ref = IF judged.setting = Unset THEN flag[f].ref ELSE card
        /\ \A g \in Flags \ {f} : flag'[g] = flag[g]
    BY <1>2, <2>1
  <2> QED BY <1>2, <2>1, <2>2 DEF Outdated, InStatus
<1> QED BY <1>1, <1>2 DEF StoreCheck, cardVars

(* Nor does a run, unless the card was edited since it judged: what it found *)
(* is then of the card's own value, which it does not fill in.               *)
LEMMA StoreRunOutdates ==
  ASSUME IInv, NEW r \in Runs, StoreRun(r), ~edited PROVE Outdated' \subseteq Outdated
<1>1. CASE UNCHANGED <<flag, card>>
  BY <1>1 DEF Outdated, InStatus
<1>2. CASE /\ flag' = [f \in Flags |-> IF f \in judged.found THEN Raised(f) ELSE NotFound]
           /\ FillIn
  <2>1. r \in handling /\ step = "store"
    BY DEF StoreRun, At
  <2>2. ASSUME NEW f \in Outdated' PROVE FALSE
    <3>1. f \in Flags /\ flag'[f].status = "open" /\ flag'[f].ref # card'
      BY <2>2 DEF Outdated, InStatus
    <3>2. f \in judged.found
      BY <1>2, <3>1 DEF NotFound
    <3>3. flag'[f].ref = judged.setting
      BY <1>2, <3>1, <3>2 DEF Raised
    <3>4. judged.setting \in Values /\ card = judged.setting /\ source # "here"
      BY <2>1, <3>2 DEF IInv, FoundInv
    <3>5. card' = card
      BY <1>2, <3>4 DEF FillIn, cardVars
    <3> QED BY <3>1, <3>3, <3>4, <3>5
  <2> QED BY <2>2
<1> QED BY <1>1, <1>2 DEF StoreRun, cardVars

(* What the result screen asks for leaves none outdated but by a reopening:  *)
(* an accept and a supplement bring every open flag to the setting they put. *)
LEMMA RequestOutdates ==
  ASSUME IInv, Requests, \A f \in Flags : ~Reopen(f) PROVE Outdated' \subseteq Outdated
<1>1. ASSUME NEW f \in Flags, Dismiss(f) PROVE Outdated' \subseteq Outdated
  <2>1. flag' = [flag EXCEPT ![f].status = "dismissed"] /\ card' = card
    BY <1>1 DEF Dismiss, cardVars
  <2>2. flag \in [Flags -> FlagRow]
    BY DEF IInv, FlagsHold
  <2>3. flag'[f].status = "dismissed" /\ \A g \in Flags \ {f} : flag'[g] = flag[g]
    BY <2>1, <2>2 DEF FlagRow
  <2> QED BY <2>1, <2>3 DEF Outdated, InStatus
<1>2. ASSUME NEW f \in Flags, Accept(f) PROVE Outdated' \subseteq Outdated
  <2>1. /\ card' = Said[f]
        /\ flag' = [g \in Flags |-> IF g = f THEN [flag[f] EXCEPT !.status = "accepted"]
                                             ELSE AfterAccept(g, Said[f])]
    BY <1>2 DEF Accept
  <2>2. \A g \in Flags : flag[g] \in FlagRow
    BY DEF IInv, FlagsHold
  <2>3. ASSUME NEW g \in Flags, flag'[g].status = "open" PROVE flag'[g].ref = card'
    <3>1. g # f
      BY <2>1, <2>2, <2>3 DEF FlagRow
    <3>2. flag'[g] = AfterAccept(g, Said[f])
      BY <2>1, <3>1
    <3>3. [flag[g] EXCEPT !.status = "resolved"].status = "resolved"
      BY <2>2 DEF FlagRow
    <3> QED BY <2>1, <2>3, <3>2, <3>3 DEF AfterAccept, HeldAgainst
  <2> QED BY <2>3 DEF Outdated, InStatus
<1>3. ASSUME NEW f \in Flags, NEW v \in Values, Supplement(f, v) PROVE Outdated' \subseteq Outdated
  BY <1>3 DEF Supplement, HeldAgainst, Outdated, InStatus, cardVars
<1>4. ASSUME UNCHANGED <<flag, card>> PROVE Outdated' \subseteq Outdated
  BY <1>4 DEF Outdated, InStatus
<1>5. ASSUME NEW f \in Flags, Revalidate(f) PROVE UNCHANGED <<flag, card>>
  BY <1>5 DEF Revalidate, cardVars
<1>6. ASSUME ListFlags \/ Save \/ \E r \in Runs : RequestRun(r) PROVE UNCHANGED <<flag, card>>
  BY <1>6 DEF ListFlags, Save, RequestRun, cardVars, reviewVars
<1> QED BY <1>1, <1>2, <1>3, <1>4, <1>5, <1>6 DEF Requests

(* A flag comes to show a setting that is not the card's only by an edit     *)
(* made outside the result screen, by a reopening, or by a run such an edit  *)
(* overtook.                                                                 *)
THEOREM OutdatedOnlyFromOutside == Spec => OutdatedFromOutside
<1> DEFINE FromOutside == ~(Outdated' \subseteq Outdated) =>
      (Outside \/ (\E f \in Flags : Reopen(f)) \/ (edited /\ \E r \in Runs : StoreRun(r)))
<1>1. IInv /\ [Next]_vars => [FromOutside]_vars
  <2> SUFFICES ASSUME IInv, Next, ~Outside, \A f \in Flags : ~Reopen(f),
                      ~edited \/ \A r \in Runs : ~StoreRun(r)
               PROVE  Outdated' \subseteq Outdated
    OBVIOUS
  <2>1. CASE Requests
    BY <2>1, RequestOutdates
  <2>2. ASSUME UNCHANGED <<flag, card>> PROVE Outdated' \subseteq Outdated
    BY <2>2 DEF Outdated, InStatus
  <2>3. CASE Trash \/ CutOff
    BY <2>2, <2>3 DEF Trash, CutOff, cardVars, reviewVars
  <2>4. ASSUME NEW j \in Jobs, Handler(j) PROVE Outdated' \subseteq Outdated
    <3>1. ASSUME ClaimCheck(j) \/ JudgeCheck(j) \/ FinishCheckFailed(j)
          PROVE  UNCHANGED <<flag, card>>
      BY <3>1 DEF ClaimCheck, JudgeCheck, FinishCheckFailed, cardVars, reviewVars
    <3>2. ASSUME ClaimRun(j) \/ ReadInput(j) \/ JudgeRun(j) \/ FinishRunFailed(j) \/ Unexpected(j)
          PROVE  UNCHANGED <<flag, card>>
      BY <3>2 DEF ClaimRun, ReadInput, JudgeRun, FinishRunFailed, Unexpected, cardVars, reviewVars
    <3> QED BY <2>2, <2>4, <3>1, <3>2, StoreCheckOutdates, StoreRunOutdates DEF Handler
  <2>5. ASSUME NEW j \in Jobs, StartJob(j) \/ ReturnJob(j) \/ GiveUpJob(j) \/ AckJob(j)
        PROVE  UNCHANGED <<flag, card>>
    BY <2>5 DEF StartJob, ReturnJob, GiveUpJob, AckJob, QueueOnly, cardVars, reviewVars
  <2> QED BY <2>1, <2>2, <2>3, <2>4, <2>5 DEF Next
<1> QED BY <1>1, Inductive, PTL DEF Spec, OutdatedFromOutside
===============================================================================
