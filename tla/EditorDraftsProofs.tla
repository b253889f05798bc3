-------------------------- MODULE EditorDraftsProofs --------------------------
(***************************************************************************)
(* Proofs that what a page takes its draft to be is so, whatever its saves *)
(* and loads and other tabs do meanwhile, and that no draft goes without a *)
(* reason, for every number of tabs, texts and slots.                      *)
(***************************************************************************)
EXTENDS EditorDrafts, FiniteSetTheorems, WellFoundedInduction, TLAPS

USE DraftsAssumption

(* The one slot a page may write to: its own, or that of the save it left in *)
(* flight.                                                                   *)
Key(t) == IF tab[t].page = "editing" THEN tab[t].slot ELSE chain[t].key

KeysInv == \A t, u \in Tabs : Key(t) \in Slots /\ Key(t) = Key(u) => t = u

(* Whatever the server has had is known, and confirmed saves are of the past. *)
ServerInv == server.text \in took /\ \A t \in Tabs : acked[t] <= server.version

(* What is on the screen is what was typed last; a draft tracked is of it     *)
(* once nothing is pending; nobody else's slot is listed as one's own.        *)
PageInv(t) ==
  LET p == tab[t] IN
  /\ p.page = "editing" =>
       /\ p.shown \in Texts
       /\ p.pending \in {NoText, p.shown}
       /\ p.pending = NoText => p.own \in {NoText, p.shown}
       /\ acked[t] <= p.base
       /\ \A l \in p.others : l.key # p.slot
  /\ p.page # "editing" => p.others = {}

(* A load is on its way once the saves before it are over, and no older.      *)
LoadInv(t) ==
  get[t] # NoAnswer =>
    /\ tab[t].page = "loading" /\ chain[t] = NoSave
    /\ get[t].text \in took /\ acked[t] <= get[t].version

(* A save is made from the slot of the page that still edits.                 *)
SaveInv(t) ==
  LET c == chain[t] IN
  /\ c.stage = "none" => c = NoSave
  /\ c.stage # "none" =>
       /\ c.text \in Texts /\ c.key \in Slots
       /\ tab[t].page = "editing" => c.key = tab[t].slot
  /\ c.stage = "taken" => c.text \in took /\ c.version <= server.version

(* A write is of the text pending, or of the draft typed since the save; that *)
(* is made anew only if another tab removed it.                               *)
WriteFor(t, w) ==
  /\ w.text \in Texts /\ w.key \in Slots /\ w.key = Key(t)
  /\ w.then # "answer" =>
       /\ tab[t].page = "editing" /\ w.text = tab[t].pending
       /\ w.then = "save" => chain[t] = NoSave
  /\ w.then = "answer" =>
       chain[t].stage = "taken" /\ w.text = tab[t].own /\ w.text # chain[t].text
WriteInv(t) ==
  LET w == writing[t] IN
  /\ w.stage = "none" => w = NoWrite
  /\ w.stage # "none" => WriteFor(t, w)
  /\ w.stage \in {"create", "count"} /\ w.then = "answer" /\ tab[t].page = "editing" => t \in removed

(* The draft in the slot is the one tracked, or just written, if it is there; *)
(* if not, the page that edits knows or will hear.                            *)
Tracked(t) == IF writing[t].stage = "count" THEN writing[t].text ELSE tab[t].own
DraftInv(t) ==
  Key(t) \in Slots =>
    /\ draft[Key(t)] \in {NoText, Tracked(t)}
    /\ tab[t].page = "editing" /\ draft[Key(t)] = NoText => Tracked(t) = NoText \/ t \in removed

TabInv(t) == PageInv(t) /\ LoadInv(t) /\ SaveInv(t) /\ WriteInv(t) /\ DraftInv(t)

(* The drafts counted when they were made fit. *)
Counting == {s \in Slots : \E t \in Tabs : writing[t].stage = "count" /\ writing[t].key = s}
CountedInv == Cardinality((Kept \ uncounted) \ Counting) <= Cap

IInv ==
  /\ TypeOK
  /\ ServerInv
  /\ KeysInv
  /\ \A t \in Tabs : TabInv(t)
  /\ CountedInv

-----------------------------------------------------------------------------
(* The types of rows and of what is in them. *)
TabRow ==
  [page : {"closed", "away", "loading", "editing"}, slot : MaybeSlot,
   shown : MaybeText, episode : MaybeText, base : Versions,
   pending : MaybeText, own : MaybeText, backupOk : BOOLEAN,
   others : SUBSET [key : Slots, text : Texts]]
SaveRow ==
  [stage : {"none", "sent", "taken"}, text : MaybeText, key : MaybeSlot, version : Versions]
AnswerRow == [text : MaybeText, version : Versions]
WriteRow ==
  [stage : {"none", "rewrite", "create", "count"}, text : MaybeText, key : MaybeSlot,
   then : {"stay", "save", "leave", "answer"}]

(* What nothing is, is of the types. *)
LEMMA NothingTypes ==
  /\ NoPage \in TabRow /\ NoSave \in SaveRow /\ NoAnswer \in AnswerRow /\ NoWrite \in WriteRow
  /\ NoText \in MaybeText /\ NoSlot \in MaybeSlot /\ Texts \subseteq MaybeText /\ Slots \subseteq MaybeSlot
<1>1. NoText \in MaybeText /\ NoSlot \in MaybeSlot /\ Texts \subseteq MaybeText /\ Slots \subseteq MaybeSlot
  BY DEF MaybeText, MaybeSlot
<1>2. 0 \in Versions
  BY DEF Versions
<1>3. NoPage \in TabRow
  BY <1>1, <1>2 DEF NoPage, TabRow
<1>4. NoSave \in SaveRow /\ NoAnswer \in AnswerRow /\ NoWrite \in WriteRow
  BY <1>1, <1>2 DEF NoSave, SaveRow, NoAnswer, AnswerRow, NoWrite, WriteRow
<1> QED
  BY <1>1, <1>3, <1>4

(* The types, row by row. *)
LEMMA RowTypes ==
  ASSUME TypeOK, NEW t \in Tabs
  PROVE  /\ tab[t] \in TabRow /\ chain[t] \in SaveRow
         /\ get[t] \in AnswerRow /\ writing[t] \in WriteRow
         /\ acked[t] \in Nat /\ server.version \in Nat
  BY DEF TypeOK, TabRow, SaveRow, AnswerRow, WriteRow, Versions

(* A page's key is a slot or none. *)
LEMMA KeyType ==
  ASSUME TypeOK, NEW t \in Tabs
  PROVE  Key(t) \in MaybeSlot
  BY RowTypes DEF Key, TabRow, SaveRow

(* How the drafts change for one write or removal of t's. *)
LEMMA BecomeStep ==
  ASSUME IInv, NEW t \in Tabs, NEW d \in [Slots -> MaybeText], NEW written \in SUBSET Slots,
         \A s \in written : d[s] # NoText, Become(d, t, written)
  PROVE  /\ draft' = d
         /\ stale' \subseteq Kept' /\ uncounted' \subseteq Kept'
         /\ removed \subseteq removed' /\ removed' \subseteq Tabs
         /\ t \in removed' <=> t \in removed
         /\ \A u \in Tabs \ {t} : \A s \in Slots :
              tab[u].page = "editing" /\ tab[u].slot = s /\ draft[s] # NoText /\ d[s] = NoText =>
                u \in removed'
         /\ \A s \in Kept \cap Kept' : s \notin uncounted' => s \notin uncounted
         /\ writing[t].stage = "rewrite" => \A s \in written \ Kept : s \in uncounted'
<1>1. draft' = d /\ Kept' = {s \in Slots : d[s] # NoText}
  BY DEF Become, Kept
<1>2. stale \subseteq Kept /\ uncounted \subseteq Kept /\ removed \subseteq Tabs
  BY DEF IInv, TypeOK
<1>3. stale' \subseteq Kept' /\ uncounted' \subseteq Kept'
  BY <1>1, <1>2 DEF Become, Kept
<1>4. removed \subseteq removed' /\ removed' \subseteq Tabs /\ (t \in removed' <=> t \in removed)
  BY <1>2 DEF Become
<1>5. ASSUME NEW u \in Tabs \ {t}, NEW s \in Slots,
             tab[u].page = "editing", tab[u].slot = s, draft[s] # NoText, d[s] = NoText
      PROVE  u \in removed'
  BY <1>5 DEF Become, Kept
<1>6. \A s \in Kept \cap Kept' : s \notin uncounted' => s \notin uncounted
  BY <1>1 DEF Become, Kept
<1>7. writing[t].stage = "rewrite" => \A s \in written \ Kept : s \in uncounted'
  BY DEF Become
<1> QED
  BY <1>1, <1>3, <1>4, <1>5, <1>6, <1>7

-----------------------------------------------------------------------------
(* A step of t's page leaves the others' alone, but for telling those whose   *)
(* draft it removes.                                                          *)
StepOf(t) ==
  /\ \A u \in Tabs \ {t} :
       /\ tab'[u] = tab[u] /\ chain'[u] = chain[u] /\ get'[u] = get[u]
       /\ writing'[u] = writing[u] /\ acked'[u] = acked[u]
       /\ u \in removed => u \in removed'
  /\ took \subseteq took' /\ server.version <= server'.version
  /\ \A s \in Slots \ {Key(t)} :
       \/ draft'[s] = draft[s]
       \/ /\ draft'[s] = NoText
          /\ \A u \in Tabs \ {t} : tab[u].page = "editing" /\ tab[u].slot = s => u \in removed'

(* So they go on to hold what they are. *)
LEMMA OthersStep ==
  ASSUME IInv, TypeOK', NEW t \in Tabs, StepOf(t), NEW u \in Tabs \ {t}
  PROVE  TabInv(u)' /\ Key(u)' = Key(u)
<1>1. /\ tab'[u] = tab[u] /\ chain'[u] = chain[u] /\ get'[u] = get[u]
      /\ writing'[u] = writing[u] /\ acked'[u] = acked[u] /\ (u \in removed => u \in removed')
      /\ took \subseteq took' /\ server.version <= server'.version
  BY DEF StepOf
<1>2. Key(u)' = Key(u) /\ Tracked(u)' = Tracked(u)
  BY <1>1 DEF Key, Tracked
<1>3. PageInv(u) /\ LoadInv(u) /\ SaveInv(u) /\ WriteInv(u) /\ DraftInv(u)
  BY DEF IInv, TabInv
<1>4. PageInv(u)' /\ LoadInv(u)'
  BY <1>1, <1>3 DEF PageInv, LoadInv
<1>5. SaveInv(u)'
  <2>1. chain[u].version \in Nat /\ server.version \in Nat /\ server'.version \in Nat
    BY RowTypes DEF IInv, SaveRow, Versions, TypeOK
  <2> QED
    BY <1>1, <1>3, <2>1 DEF SaveInv
<1>6. WriteInv(u)'
  BY <1>1, <1>2, <1>3 DEF WriteInv, WriteFor
<1>7. DraftInv(u)'
  <2>1. SUFFICES ASSUME Key(u) \in Slots
                 PROVE  /\ draft'[Key(u)] \in {NoText, Tracked(u)}
                        /\ tab[u].page = "editing" /\ draft'[Key(u)] = NoText =>
                             Tracked(u) = NoText \/ u \in removed'
    BY <1>1, <1>2 DEF DraftInv
  <2>2. Key(u) # Key(t)
    BY <2>1 DEF IInv, KeysInv
  <2>3. tab[u].page = "editing" => tab[u].slot = Key(u)
    BY DEF Key
  <2>4. \/ draft'[Key(u)] = draft[Key(u)]
        \/ /\ draft'[Key(u)] = NoText
           /\ tab[u].page = "editing" => u \in removed'
    BY <2>1, <2>2, <2>3 DEF StepOf
  <2> QED
    BY <1>1, <1>3, <2>1, <2>4 DEF DraftInv
<1> QED
  BY <1>2, <1>4, <1>5, <1>6, <1>7 DEF TabInv

(* It remains to see to the page itself. *)
LEMMA StepHolds ==
  ASSUME IInv, TypeOK', NEW t \in Tabs, StepOf(t),
         TabInv(t)',
         Key(t)' \in Slots => \A u \in Tabs \ {t} : Key(t)' # Key(u),
         server'.text \in took', acked'[t] <= server'.version,
         CountedInv'
  PROVE  IInv'
<1>1. \A u \in Tabs \ {t} : TabInv(u)' /\ Key(u)' = Key(u)
  BY OthersStep
<1>2. \A u \in Tabs : TabInv(u)'
  BY <1>1
<1>3. KeysInv'
  BY <1>1 DEF KeysInv, IInv
<1>4. ServerInv'
  <2>1. ASSUME NEW u \in Tabs PROVE acked'[u] <= server'.version
    <3>1. acked'[u] = acked[u] => acked[u] <= server.version /\ server.version <= server'.version
      BY DEF IInv, ServerInv, StepOf
    <3>2. acked[u] \in Nat /\ server.version \in Nat /\ server'.version \in Nat
      BY DEF IInv, TypeOK, Versions
    <3>3. u # t => acked'[u] = acked[u]
      BY DEF StepOf
    <3> QED
      BY <3>1, <3>2, <3>3
  <2> QED
    BY <2>1 DEF ServerInv
<1> QED
  BY <1>2, <1>3, <1>4 DEF IInv

(* The drafts counted stay so few when none is added to them. *)
LEMMA CountedStep ==
  ASSUME IInv,
         \A s \in Slots : s \in Kept' /\ s \notin uncounted' /\ s \notin Counting' =>
           s \in Kept /\ s \notin uncounted /\ s \notin Counting
  PROVE  CountedInv'
<1>1. (Kept \ uncounted) \ Counting \in SUBSET Slots
  BY DEF Kept
<1>2. (Kept' \ uncounted') \ Counting' \in SUBSET ((Kept \ uncounted) \ Counting)
  BY DEF Kept
<1>3. /\ IsFiniteSet((Kept \ uncounted) \ Counting)
      /\ Cardinality((Kept \ uncounted) \ Counting) \in Nat
  BY <1>1, FS_Subset, FS_CardinalityType
<1>4. /\ Cardinality((Kept' \ uncounted') \ Counting') <= Cardinality((Kept \ uncounted) \ Counting)
      /\ Cardinality((Kept' \ uncounted') \ Counting') \in Nat
  BY <1>2, <1>3, FS_Subset, FS_CardinalityType
<1>5. Cardinality((Kept \ uncounted) \ Counting) <= Cap
  BY DEF IInv, CountedInv
<1> QED
  BY <1>3, <1>4, <1>5 DEF CountedInv

-----------------------------------------------------------------------------
(* The drafts without some of them. *)
LEMMA WithoutTypes ==
  ASSUME NEW d \in [Slots -> MaybeText], NEW keys
  PROVE  /\ Without(d, keys) \in [Slots -> MaybeText]
         /\ \A s \in Slots : Without(d, keys)[s] = IF s \in keys THEN NoText ELSE d[s]
  BY NothingTypes DEF Without

(* What is listed of the others' drafts is none of the page's own. *)
LEMMA OthersTypes ==
  ASSUME NEW d \in [Slots -> MaybeText], NEW slot, NEW held
  PROVE  /\ Others(d, slot, held) \in SUBSET [key : Slots, text : Texts]
         /\ \A l \in Others(d, slot, held) : l.key # slot
<1>1. ASSUME NEW l \in Others(d, slot, held)
      PROVE  l \in [key : Slots, text : Texts] /\ l.key # slot
  <2>1. PICK s \in Slots \ {slot} : d[s] \notin {NoText, held} /\ l = Listed(s, d[s])
    BY <1>1 DEF Others
  <2>2. d[s] \in Texts
    BY <2>1 DEF MaybeText
  <2> QED
    BY <2>1, <2>2 DEF Listed
<1> QED
  BY <1>1

(* A page's row changes, and nothing else of the pages. *)
LEMMA PageTypes ==
  ASSUME TypeOK, NEW t \in Tabs, NEW row \in TabRow, row.page = "editing" <=> row.slot \in Slots,
         tab' = [tab EXCEPT ![t] = row]
  PROVE  /\ tab' \in [Tabs -> TabRow] /\ tab'[t] = row
         /\ \A u \in Tabs \ {t} : tab'[u] = tab[u]
         /\ \A u \in Tabs : tab'[u].page = "editing" <=> tab'[u].slot \in Slots
<1>1. tab \in [Tabs -> TabRow] /\ \A u \in Tabs : tab[u].page = "editing" <=> tab[u].slot \in Slots
  BY DEF TypeOK, TabRow
<1>2. tab'[t] = row /\ \A u \in Tabs \ {t} : tab'[u] = tab[u]
  BY <1>1
<1>3. tab' \in [Tabs -> TabRow]
  BY <1>1
<1> QED
  BY <1>1, <1>2, <1>3

(* flushDraft() ends: what it wrote, or nothing, is in the page's slot.       *)
LEMMA FlushEndsStep ==
  ASSUME IInv, NEW t \in Tabs, NEW w \in WriteRow, NEW ok \in BOOLEAN,
         NEW d \in [Slots -> MaybeText],
         tab[t].page = "editing", w.key = tab[t].slot, w.text \in Texts, w.text = tab[t].pending,
         w.then # "answer", w.then = "save" => chain[t] = NoSave,
         \A s \in Slots \ {w.key} : d[s] = draft[s],
         ok => d[w.key] \in {NoText, w.text} /\ (d[w.key] = NoText => t \in removed),
         ok /\ w.stage = "rewrite" => d[w.key] = w.text,
         FlushEnds(t, d, w, ok),
         writing' \in [Tabs -> WriteRow], writing'[t] = NoWrite,
         \A u \in Tabs \ {t} : writing'[u] = writing[u],
         CountedInv'
  PROVE  IInv'
<1> DEFINE left == IF ok THEN d ELSE Without(d, {w.key})
           page == [tab[t] EXCEPT !.pending = NoText, !.backupOk = ok,
                                  !.own = IF ok THEN w.text ELSE NoText]
<1>1. w.key \in Slots /\ Key(t) = w.key
  BY DEF IInv, TypeOK, Key
<1>2. /\ left \in [Slots -> MaybeText] /\ \A s \in Slots \ {w.key} : left[s] = draft[s]
      /\ left[w.key] = IF ok THEN d[w.key] ELSE NoText
  <2>1. CASE ok
    BY <1>1, <2>1
  <2>2. CASE ~ok
    <3>1. left = Without(d, {w.key})
      BY <2>2
    <3>2. /\ left \in [Slots -> MaybeText]
          /\ \A s \in Slots : left[s] = IF s \in {w.key} THEN NoText ELSE d[s]
      BY <3>1, WithoutTypes
    <3> QED
      BY <1>1, <2>2, <3>2
  <2> QED
    BY <2>1, <2>2
<1>3. Become(left, t, Written(w, ok)) /\ Go(t, page, w.then)
  BY DEF FlushEnds
<1>4. Written(w, ok) \in SUBSET Slots /\ \A s \in Written(w, ok) : left[s] # NoText
  BY <1>1 DEF Written
<1>5. /\ draft' = left /\ stale' \subseteq Kept' /\ uncounted' \subseteq Kept'
      /\ removed \subseteq removed' /\ removed' \subseteq Tabs
  <2> HIDE DEF left, page
  <2> QED
    BY <1>2, <1>3, <1>4, BecomeStep
<1>6. /\ tab[t] \in TabRow /\ page \in TabRow
      /\ page.page = "editing" /\ page.slot = w.key /\ page.shown = tab[t].shown
      /\ page.pending = NoText /\ page.own = IF ok THEN w.text ELSE NoText
      /\ page.base = tab[t].base /\ page.others = tab[t].others
  BY RowTypes, NothingTypes DEF IInv, TabRow
<1>7. PageInv(t) /\ SaveInv(t) /\ LoadInv(t)
  BY DEF IInv, TabInv
<1>8. tab[t].shown \in Texts /\ w.text = tab[t].shown
  BY <1>7 DEF PageInv
<1> DEFINE away == [NoPage EXCEPT !.page = "away", !.own = page.own]
<1>9. /\ away \in TabRow /\ away.page = "away" /\ away.slot = NoSlot /\ away.others = {}
      /\ away.own = page.own
  BY <1>6, NothingTypes DEF NoPage, TabRow
<1>10. /\ w.then # "leave" => tab'[t] = page
       /\ w.then = "leave" => tab'[t] = away
       /\ \A u \in Tabs \ {t} : tab'[u] = tab[u]
       /\ tab' \in [Tabs -> TabRow]
       /\ \A u \in Tabs : tab'[u].page = "editing" <=> tab'[u].slot \in Slots
  <2>1. tab' = [tab EXCEPT ![t] = IF w.then = "leave" THEN away ELSE page]
    BY <1>3 DEF Go
  <2>2. /\ away.page = "editing" <=> away.slot \in Slots
        /\ page.page = "editing" <=> page.slot \in Slots
    BY <1>1, <1>6, <1>9
  <2> HIDE DEF page, away
  <2>3. CASE w.then = "leave"
    BY <1>9, <2>1, <2>2, <2>3, PageTypes DEF IInv
  <2>4. CASE w.then # "leave"
    BY <1>6, <2>1, <2>2, <2>4, PageTypes DEF IInv
  <2> QED
    BY <2>3, <2>4
<1> DEFINE sent == [stage |-> "sent", text |-> page.shown, key |-> page.slot, version |-> 0]
<1>11. /\ w.then # "save" => chain' = chain
       /\ w.then = "save" => chain'[t] = sent
       /\ \A u \in Tabs \ {t} : chain'[u] = chain[u]
       /\ chain' \in [Tabs -> SaveRow]
  <2>1. /\ chain \in [Tabs -> SaveRow]
        /\ chain' = IF w.then = "save" THEN [chain EXCEPT ![t] = sent] ELSE chain
    BY <1>3 DEF IInv, TypeOK, SaveRow, Go
  <2>2. sent \in SaveRow
    BY <1>1, <1>6, <1>8, NothingTypes DEF SaveRow, Versions, DraftsAssumption
  <2> HIDE DEF sent
  <2> QED
    BY <2>1, <2>2
<1>12. UNCHANGED <<server, get, took, acked, typed, loaded, visits>>
  BY <1>3 DEF Go, history, bounds
<1> HIDE DEF page, away, left
<1>13. TypeOK'
  <2>1. TypeOK
    BY DEF IInv
  <2> QED
    BY <1>2, <1>5, <1>10, <1>11, <1>12, <2>1 DEF TypeOK, TabRow, SaveRow, WriteRow
<1>14. StepOf(t)
  BY <1>1, <1>2, <1>5, <1>10, <1>11, <1>12, RowTypes DEF StepOf, IInv
<1>15. Key(t)' \in {Key(t), NoSlot}
  BY <1>1, <1>6, <1>7, <1>9, <1>10, <1>11 DEF Key, SaveInv, NoSave, SaveRow, IInv, TypeOK
<1>16. PageInv(t)'
  BY <1>6, <1>7, <1>8, <1>9, <1>10, <1>12 DEF PageInv
<1>17. LoadInv(t)'
  BY <1>7, <1>12 DEF LoadInv
<1>18. SaveInv(t)'
  BY <1>1, <1>6, <1>7, <1>8, <1>9, <1>10, <1>11, <1>12 DEF SaveInv
<1>19. WriteInv(t)'
  BY DEF WriteInv, NoWrite
<1>20. DraftInv(t)'
  <2>1. Tracked(t)' = page.own
    BY <1>6, <1>9, <1>10 DEF Tracked, NoWrite
  <2>2. Key(t)' \in Slots => Key(t)' = w.key
    BY <1>1, <1>15
  <2>3. draft'[w.key] \in {NoText, page.own} /\ (draft'[w.key] = NoText => page.own = NoText \/ t \in removed')
    BY <1>2, <1>5, <1>6
  <2> QED
    BY <2>1, <2>2, <2>3 DEF DraftInv
<1>21. Key(t)' \in Slots => \A u \in Tabs \ {t} : Key(t)' # Key(u)
  BY <1>15 DEF IInv, KeysInv
<1>22. server'.text \in took' /\ acked'[t] <= server'.version
  BY <1>12 DEF IInv, ServerInv
<1> QED
  BY <1>13, <1>14, <1>16, <1>17, <1>18, <1>19, <1>20, <1>21, <1>22, StepHolds DEF TabInv

(* A save is confirmed, its own draft seen to. *)
LEMMA AnswerEndsStep ==
  ASSUME IInv, NEW t \in Tabs, NEW own, NEW d \in [Slots -> MaybeText], NEW written \in SUBSET Slots,
         chain[t].stage = "taken",
         own = IF tab[t].own = chain[t].text THEN NoText ELSE tab[t].own,
         \A s \in Slots \ {chain[t].key} : d[s] = draft[s],
         d[chain[t].key] \in {NoText, own},
         tab[t].page = "editing" /\ d[chain[t].key] = NoText => own = NoText \/ t \in removed,
         written \subseteq {chain[t].key}, \A s \in written : d[s] # NoText,
         AnswerEnds(t, d, written),
         writing' \in [Tabs -> WriteRow], writing'[t] = NoWrite,
         \A u \in Tabs \ {t} : writing'[u] = writing[u],
         CountedInv'
  PROVE  IInv'
<1> DEFINE c == chain[t]
           p == tab[t]
           held == {l \in p.others : l.text = c.text}
           same == {l \in held : d[l.key] = c.text}
           gone == {l.key : l \in same}
           left == Without(d, gone)
           page ==
             CASE p.page = "away" -> [p EXCEPT !.own = own]
               [] p.page = "loading" -> [p EXCEPT !.own = own, !.base = c.version]
               [] OTHER -> [p EXCEPT !.own = own, !.base = c.version, !.episode = c.text,
                                     !.others = IF same = held THEN p.others \ same
                                                ELSE Others(left, p.slot, c.text)]
<1>1. PageInv(t) /\ SaveInv(t) /\ LoadInv(t)
  BY DEF IInv, TabInv
<1>2. /\ p \in TabRow /\ c \in SaveRow /\ c.text \in Texts /\ c.key \in Slots
      /\ c.text \in took /\ c.version \in Versions /\ c.version \in Nat /\ c.version <= server.version
      /\ p.page = "editing" => c.key = p.slot
      /\ Key(t) = c.key
  BY <1>1, RowTypes DEF IInv, SaveInv, SaveRow, Versions, Key
<1>3. c.key \notin gone
  BY <1>1, <1>2 DEF PageInv
<1>4. /\ left \in [Slots -> MaybeText]
      /\ \A s \in Slots : left[s] = IF s \in gone THEN NoText ELSE d[s]
  BY WithoutTypes
<1>5. /\ left[c.key] = d[c.key]
      /\ \A s \in Slots \ {c.key} : left[s] \in {NoText, draft[s]}
      /\ \A s \in written : left[s] # NoText
  BY <1>2, <1>3, <1>4
<1>6. /\ Become(left, t, written) /\ tab' = [tab EXCEPT ![t] = page]
      /\ acked' = [acked EXCEPT ![t] = c.version] /\ chain' = [chain EXCEPT ![t] = NoSave]
      /\ UNCHANGED <<server, get, took, bounds>>
  BY DEF AnswerEnds
<1>7. /\ draft' = left /\ stale' \subseteq Kept' /\ uncounted' \subseteq Kept'
      /\ removed \subseteq removed' /\ removed' \subseteq Tabs
      /\ \A u \in Tabs \ {t} : \A s \in Slots :
           tab[u].page = "editing" /\ tab[u].slot = s /\ draft[s] # NoText /\ left[s] = NoText =>
             u \in removed'
  <2> HIDE DEF left
  <2> QED
    BY <1>4, <1>5, <1>6, BecomeStep
<1>8. own \in MaybeText
  BY <1>2, NothingTypes DEF TabRow
<1>9. /\ p.others \ same \in SUBSET [key : Slots, text : Texts]
      /\ \A l \in p.others \ same : p.page = "editing" => l.key # p.slot
  BY <1>1, <1>2 DEF PageInv, TabRow
<1>10. /\ Others(left, p.slot, c.text) \in SUBSET [key : Slots, text : Texts]
       /\ \A l \in Others(left, p.slot, c.text) : l.key # p.slot
  <2> HIDE DEF left
  <2> QED
    BY <1>4, OthersTypes
<1>11. p.page # "editing" => p.others = {} /\ same = held
  BY <1>1 DEF PageInv
<1> DEFINE rest == IF same = held THEN p.others \ same ELSE Others(left, p.slot, c.text)
<1>12. /\ rest \in SUBSET [key : Slots, text : Texts]
       /\ p.page = "editing" => \A l \in rest : l.key # p.slot
       /\ p.page # "editing" => rest = {}
  <2> HIDE DEF same, held, left
  <2> QED
    BY <1>9, <1>10, <1>11
<1> HIDE DEF rest, left, gone, held, same
<1>13. /\ page \in TabRow /\ page.page = p.page /\ page.slot = p.slot /\ page.shown = p.shown
       /\ page.pending = p.pending /\ page.own = own
       /\ page.others \in {p.others, rest}
       /\ p.page = "editing" => page.base = c.version /\ page.others = rest
  <2>1. CASE p.page = "away"
    BY <1>2, <1>8, <2>1 DEF TabRow
  <2>2. CASE p.page = "loading"
    BY <1>2, <1>8, <2>2 DEF TabRow
  <2>3. CASE p.page \in {"editing", "closed"}
    <3>1. page = [p EXCEPT !.own = own, !.base = c.version, !.episode = c.text, !.others = rest]
      BY <2>3 DEF rest
    <3>2. c.text \in MaybeText
      BY <1>2, NothingTypes
    <3> QED
      BY <1>2, <1>8, <1>12, <2>3, <3>1, <3>2 DEF TabRow
  <2> QED
    BY <1>2, <2>1, <2>2, <2>3 DEF TabRow
<1> HIDE DEF page
<1>14. /\ tab' \in [Tabs -> TabRow] /\ tab'[t] = page
       /\ \A u \in Tabs \ {t} : tab'[u] = tab[u]
       /\ \A u \in Tabs : tab'[u].page = "editing" <=> tab'[u].slot \in Slots
  <2>1. page.page = "editing" <=> page.slot \in Slots
    BY <1>13 DEF IInv, TypeOK
  <2> QED
    BY <1>6, <1>13, <2>1, PageTypes DEF IInv
<1>15. /\ chain' \in [Tabs -> SaveRow] /\ chain'[t] = NoSave
       /\ \A u \in Tabs \ {t} : chain'[u] = chain[u]
       /\ acked' \in [Tabs -> Versions] /\ acked'[t] = c.version
       /\ \A u \in Tabs \ {t} : acked'[u] = acked[u]
  BY <1>2, <1>6, NothingTypes DEF IInv, TypeOK, SaveRow
<1>16. UNCHANGED <<server, get, took, typed, loaded, visits>>
  BY <1>6 DEF bounds
<1>17. TypeOK'
  <2>1. TypeOK
    BY DEF IInv
  <2> QED
    BY <1>4, <1>7, <1>14, <1>15, <1>16, <2>1 DEF TypeOK, TabRow, SaveRow, WriteRow
<1>18. StepOf(t)
  BY <1>2, <1>5, <1>7, <1>14, <1>15, <1>16, RowTypes DEF StepOf, IInv
<1>19. Key(t)' = (IF p.page = "editing" THEN c.key ELSE NoSlot)
  BY <1>2, <1>13, <1>14, <1>15 DEF Key, NoSave
<1>20. PageInv(t)'
  BY <1>1, <1>2, <1>11, <1>12, <1>13, <1>14, <1>15 DEF PageInv
<1>21. LoadInv(t)'
  BY <1>1, <1>16, <1>2 DEF LoadInv, NoSave
<1>22. SaveInv(t)'
  BY <1>15 DEF SaveInv, NoSave
<1>23. WriteInv(t)'
  BY DEF WriteInv, NoWrite
<1>24. DraftInv(t)'
  BY <1>5, <1>7, <1>13, <1>14, <1>19 DEF DraftInv, Tracked, NoWrite
<1>25. Key(t)' \in Slots => \A u \in Tabs \ {t} : Key(t)' # Key(u)
  BY <1>2, <1>19 DEF IInv, KeysInv
<1>26. server'.text \in took' /\ acked'[t] <= server'.version
  BY <1>2, <1>15, <1>16 DEF IInv, ServerInv
<1> QED
  BY <1>17, <1>18, <1>20, <1>21, <1>22, <1>23, <1>24, <1>25, <1>26, StepHolds DEF TabInv

-----------------------------------------------------------------------------
(* The drafts counted by no other page are those t has counted. *)
LEMMA CountingStep ==
  ASSUME NEW t \in Tabs, \A u \in Tabs \ {t} : writing'[u] = writing[u],
         NEW s \in Counting, s \notin Counting'
  PROVE  writing[t].stage = "count" /\ writing[t].key = s
  BY DEF Counting

(* A write is counted, or noted, and what is counted out is removed. *)
LEMMA CountedAfter ==
  ASSUME IInv, NEW t \in Tabs, NEW d \in [Slots -> MaybeText], NEW written \in SUBSET Slots,
         Become(d, t, written), \A s \in written : d[s] # NoText,
         \A u \in Tabs \ {t} : writing'[u] = writing[u],
         \A s \in Slots \ Kept : d[s] # NoText => s \in written,
         writing[t].stage = "rewrite" \/ \A s \in written \ Kept : s \in Counting',
         writing[t].stage = "count" => d[writing[t].key] = NoText
  PROVE  CountedInv'
<1>1. SUFFICES ASSUME NEW s \in Slots, s \in Kept', s \notin uncounted', s \notin Counting'
               PROVE  s \in Kept /\ s \notin uncounted /\ s \notin Counting
  BY CountedStep
<1>2. d[s] # NoText
  BY <1>1, BecomeStep DEF Kept
<1>3. s \in Kept
  BY <1>1, <1>2, BecomeStep
<1>4. s \notin uncounted
  BY <1>1, <1>3, BecomeStep
<1>5. s \notin Counting
  BY <1>1, <1>2, CountingStep
<1> QED
  BY <1>3, <1>4, <1>5

(* Nothing is added once the drafts fit. *)
LEMMA CountedFits ==
  ASSUME Cardinality(Kept) <= Cap, Kept' \subseteq Kept
  PROVE  CountedInv'
<1>1. IsFiniteSet(Kept)
  BY FS_Subset DEF Kept
<1>2. (Kept' \ uncounted') \ Counting' \in SUBSET Kept
  OBVIOUS
<1>3. /\ Cardinality((Kept' \ uncounted') \ Counting') <= Cardinality(Kept)
      /\ Cardinality((Kept' \ uncounted') \ Counting') \in Nat /\ Cardinality(Kept) \in Nat
  BY <1>1, <1>2, FS_Subset, FS_CardinalityType
<1> QED
  BY <1>3 DEF CountedInv

(* What the drafts become when a write ends: never more than d, and less only *)
(* of what the server has had.                                               *)
LEMMA ThenBecomes ==
  ASSUME IInv, NEW t \in Tabs, NEW w \in WriteRow, NEW ok \in BOOLEAN,
         NEW d \in [Slots -> MaybeText], WriteFor(t, w), Then(t, d, w, ok)
  PROVE  \E left \in [Slots -> MaybeText] :
           /\ Become(left, t, Written(w, ok))
           /\ \A s \in Slots : left[s] \in {NoText, d[s]}
           /\ \A s \in Slots \ {w.key} :
                left[s] = d[s] \/ (w.then = "answer" /\ d[s] = chain[t].text)
           /\ ok => left[w.key] = d[w.key]
<1>1. CASE w.then = "answer"
  <2> DEFINE held == {l \in tab[t].others : l.text = chain[t].text}
             gone == {l.key : l \in {l \in held : d[l.key] = chain[t].text}}
  <2>1. AnswerEnds(t, d, Written(w, ok))
    BY <1>1 DEF Then
  <2>2. Become(Without(d, gone), t, Written(w, ok))
    BY <2>1 DEF AnswerEnds
  <2>3. \A l \in held : l.key # w.key
    BY DEF IInv, TabInv, PageInv, WriteFor, Key
  <2>4. w.key \notin gone /\ w.key \in Slots /\ \A s \in gone : d[s] = chain[t].text
    BY <2>3 DEF WriteFor
  <2> HIDE DEF gone
  <2>5. Without(d, gone) \in [Slots -> MaybeText]
    BY WithoutTypes
  <2>6. \A s \in Slots : Without(d, gone)[s] = IF s \in gone THEN NoText ELSE d[s]
    BY WithoutTypes
  <2> QED
    BY <1>1, <2>2, <2>4, <2>5, <2>6
<1>2. CASE w.then # "answer" /\ ok
  BY <1>2 DEF Then, FlushEnds
<1>3. CASE w.then # "answer" /\ ~ok
  <2>1. Become(Without(d, {w.key}), t, Written(w, ok))
    BY <1>3 DEF Then, FlushEnds
  <2>2. Without(d, {w.key}) \in [Slots -> MaybeText]
    BY WithoutTypes
  <2>3. \A s \in Slots : Without(d, {w.key})[s] = IF s \in {w.key} THEN NoText ELSE d[s]
    BY WithoutTypes
  <2> QED
    BY <1>3, <2>1, <2>2, <2>3
<1> QED
  BY <1>1, <1>2, <1>3

(* A write ends, done or failed: in the slot is what was written, or nothing. *)
LEMMA ThenStep ==
  ASSUME IInv, NEW t \in Tabs, NEW w \in WriteRow, NEW ok \in BOOLEAN,
         NEW d \in [Slots -> MaybeText], WriteFor(t, w), Then(t, d, w, ok),
         w = writing[t] \/ (writing[t] = NoWrite /\ w.stage = "none"),
         \A s \in Slots \ {w.key} : d[s] = draft[s],
         ok \/ w.then = "answer" =>
           /\ d[w.key] \in {NoText, w.text}
           /\ tab[t].page = "editing" /\ d[w.key] = NoText => t \in removed,
         ok /\ w.stage = "rewrite" => d[w.key] = w.text,
         w.key \in Kept \/ d[w.key] = NoText \/ (ok /\ w.stage = "rewrite"),
         w.stage = "count" => d[w.key] = NoText \/ (Cardinality(Kept) <= Cap /\ d = draft),
         writing' \in [Tabs -> WriteRow], writing'[t] = NoWrite,
         \A u \in Tabs \ {t} : writing'[u] = writing[u]
  PROVE  IInv'
<1>1. w.key \in Slots /\ w.key = Key(t) /\ w.text \in Texts
  BY DEF WriteFor
<1>2. /\ Written(w, ok) \in SUBSET Slots /\ Written(w, ok) \subseteq {w.key}
      /\ \A s \in Written(w, ok) : d[s] # NoText
      /\ Written(w, ok) # {} => ok /\ writing[t].stage = "rewrite"
  BY <1>1 DEF Written
<1>3. CountedInv'
  <2>1. PICK left \in [Slots -> MaybeText] :
          /\ Become(left, t, Written(w, ok))
          /\ \A s \in Slots : left[s] \in {NoText, d[s]}
          /\ ok => left[w.key] = d[w.key]
    BY ThenBecomes
  <2>2. \A s \in Written(w, ok) : left[s] # NoText
    BY <1>2, <2>1
  <2>3. CASE w.stage = "count" /\ Cardinality(Kept) <= Cap /\ d = draft
    <3>1. draft' = left
      BY <1>2, <2>1, <2>2, BecomeStep
    <3>2. Kept' \subseteq Kept
      BY <2>1, <2>3, <3>1 DEF Kept
    <3> QED
      BY <2>3, <3>2, CountedFits
  <2>4. CASE w.stage = "count" => d[w.key] = NoText
    <3>1. \A s \in Slots \ Kept : left[s] # NoText => s \in Written(w, ok)
      BY <1>1, <2>1 DEF Kept, Written
    <3>2. writing[t].stage = "count" => left[writing[t].key] = NoText
      BY <1>1, <2>1, <2>4 DEF NoWrite
    <3>3. writing[t].stage = "rewrite" \/ \A s \in Written(w, ok) \ Kept : s \in Counting'
      BY <1>2
    <3> QED
      BY <1>2, <2>1, <2>2, <3>1, <3>2, <3>3, CountedAfter
  <2> QED
    BY <2>3, <2>4
<1>4. CASE w.then = "answer"
  <2>1. AnswerEnds(t, d, Written(w, ok)) /\ chain[t].stage = "taken"
    BY <1>4 DEF Then, WriteFor
  <2>2. tab[t].own = IF tab[t].own = chain[t].text THEN NoText ELSE tab[t].own
    BY <1>4 DEF WriteFor
  <2>3. w.key = chain[t].key /\ w.text = tab[t].own
    BY <1>1, <1>4, <2>1 DEF WriteFor, IInv, TabInv, SaveInv, Key
  <2> QED
    BY <1>2, <1>3, <1>4, <2>1, <2>2, <2>3, AnswerEndsStep
<1>5. CASE w.then # "answer"
  <2>1. FlushEnds(t, d, w, ok)
    BY <1>5 DEF Then
  <2>2. /\ tab[t].page = "editing" /\ w.key = tab[t].slot /\ w.text = tab[t].pending
        /\ w.then = "save" => chain[t] = NoSave
    BY <1>1, <1>5 DEF WriteFor, Key
  <2> QED
    BY <1>1, <1>3, <1>5, <2>1, <2>2, FlushEndsStep
<1> QED
  BY <1>4, <1>5

-----------------------------------------------------------------------------
(* saveDraft() of t's page comes to w, having left the drafts d of which it
   wrote those of `written`; nothing but the drafts and how far it is changes.
   What w is to find in its slot is its own text once it has created it, and
   what the page tracks before. *)
Expected(t, w) == IF w.stage = "count" THEN w.text ELSE tab[t].own
Waits(t, w, d, written) ==
  /\ WriteFor(t, w) /\ w.stage # "none"
  /\ Become(d, t, written)
  /\ \A s \in written : d[s] # NoText
  /\ \A s \in Slots \ {w.key} : d[s] \in {NoText, draft[s]}
  /\ d[w.key] \in {NoText, Expected(t, w)}
  /\ tab[t].page = "editing" /\ d[w.key] = NoText => Expected(t, w) = NoText \/ t \in removed
  /\ w.stage \in {"create", "count"} /\ w.then = "answer" /\ tab[t].page = "editing" => t \in removed
  /\ writing' = [writing EXCEPT ![t] = w]
  /\ UNCHANGED <<server, tab, chain, get, history, bounds>>

LEMMA WaitStep ==
  ASSUME IInv, NEW t \in Tabs, NEW w \in WriteRow, NEW d \in [Slots -> MaybeText],
         NEW written \in SUBSET Slots, Waits(t, w, d, written), CountedInv'
  PROVE  IInv'
<1>0. /\ WriteFor(t, w) /\ w.stage # "none"
      /\ Become(d, t, written) /\ \A s \in written : d[s] # NoText
      /\ \A s \in Slots \ {w.key} : d[s] \in {NoText, draft[s]}
      /\ w.stage \in {"create", "count"} /\ w.then = "answer" /\ tab[t].page = "editing" => t \in removed
      /\ writing' = [writing EXCEPT ![t] = w]
      /\ UNCHANGED <<server, tab, chain, get, history, bounds>>
  BY DEF Waits
<1> DEFINE text == Expected(t, w)
<1>a. /\ text = IF w.stage = "count" THEN w.text ELSE tab[t].own
      /\ d[w.key] \in {NoText, text}
      /\ tab[t].page = "editing" /\ d[w.key] = NoText => text = NoText \/ t \in removed
  BY DEF Waits, Expected
<1> HIDE DEF text
<1>1. /\ draft' = d /\ stale' \subseteq Kept' /\ uncounted' \subseteq Kept'
      /\ removed \subseteq removed' /\ removed' \subseteq Tabs
      /\ \A u \in Tabs \ {t} : \A s \in Slots :
           tab[u].page = "editing" /\ tab[u].slot = s /\ draft[s] # NoText /\ d[s] = NoText =>
             u \in removed'
  BY <1>0, BecomeStep
<1>2. UNCHANGED <<server, tab, chain, get, took, acked, typed, loaded, visits>>
  BY <1>0 DEF history, bounds
<1>3. /\ writing' \in [Tabs -> WriteRow] /\ writing'[t] = w
      /\ \A u \in Tabs \ {t} : writing'[u] = writing[u]
  BY <1>0 DEF IInv, TypeOK, WriteRow
<1>4. TypeOK'
  <2>1. TypeOK
    BY DEF IInv
  <2> QED
    BY <1>1, <1>2, <1>3, <2>1 DEF TypeOK, WriteRow
<1>5. w.key \in Slots /\ w.key = Key(t) /\ Key(t)' = Key(t)
  BY <1>0, <1>2 DEF WriteFor, Key
<1>6. StepOf(t)
  BY <1>0, <1>1, <1>2, <1>3, <1>5, RowTypes DEF StepOf, IInv
<1>7. PageInv(t) /\ LoadInv(t) /\ SaveInv(t)
  BY DEF IInv, TabInv
<1>8. PageInv(t)' /\ LoadInv(t)' /\ SaveInv(t)'
  BY <1>2, <1>7 DEF PageInv, LoadInv, SaveInv
<1>9. WriteInv(t)'
  BY <1>0, <1>1, <1>2, <1>3, <1>5 DEF WriteInv, WriteFor
<1>10. DraftInv(t)'
  BY <1>0, <1>a, <1>1, <1>2, <1>3, <1>5 DEF DraftInv, Tracked
<1>11. \A u \in Tabs \ {t} : Key(t)' \in Slots => Key(t)' # Key(u)
  BY <1>5 DEF IInv, KeysInv
<1> QED
  BY <1>2, <1>4, <1>6, <1>8, <1>9, <1>10, <1>11, StepHolds DEF TabInv, IInv, ServerInv

(* What room is made of is stale. *)
LEMMA RoomIsStale == ASSUME NEW keys \in Room PROVE keys \subseteq Kept \cap stale
  BY DEF Room, kSubset

(* saveDraft() looks at its slot: rewrites it, makes room, creates or gives up. *)
LEMMA StartWriteStep ==
  ASSUME IInv, NEW t \in Tabs, NEW w \in WriteRow, w.stage = "none", writing[t] = NoWrite,
         WriteFor(t, w), StartWrite(t, w)
  PROVE  IInv'
<1>1. /\ w.key \in Slots /\ w.key = Key(t) /\ w.text \in Texts
      /\ w.then = "answer" => w.text = tab[t].own
  BY DEF WriteFor
<1>2. /\ draft \in [Slots -> MaybeText] /\ writing \in [Tabs -> WriteRow]
  BY DEF IInv, TypeOK, WriteRow
<1>3. /\ draft[w.key] \in {NoText, tab[t].own}
      /\ tab[t].page = "editing" /\ draft[w.key] = NoText => tab[t].own = NoText \/ t \in removed
  BY <1>1 DEF IInv, TabInv, DraftInv, Tracked, NoWrite
<1> DEFINE at(stage) == [w EXCEPT !.stage = stage]
<1>4. ASSUME NEW stage \in {"rewrite", "create"}
      PROVE  /\ at(stage) \in WriteRow /\ at(stage).stage = stage /\ at(stage).text = w.text
             /\ at(stage).key = w.key /\ at(stage).then = w.then /\ WriteFor(t, at(stage))
  BY DEF WriteRow, WriteFor
<1>5. CASE /\ draft[w.key] # NoText
           /\ writing' = [writing EXCEPT ![t] = at("rewrite")]
           /\ UNCHANGED <<server, drafts, tab, chain, get, history, bounds>>
  <2>1. UNCHANGED <<server, tab, chain, get, took, acked, typed, loaded, visits, draft, stale, removed, uncounted>>
    BY <1>5 DEF history, bounds, drafts
  <2>2. /\ writing' \in [Tabs -> WriteRow] /\ writing'[t] = at("rewrite")
        /\ \A u \in Tabs \ {t} : writing'[u] = writing[u]
    BY <1>2, <1>4, <1>5
  <2> HIDE DEF at
  <2>3. TypeOK'
    <3>1. TypeOK
      BY DEF IInv
    <3> QED
      BY <2>1, <2>2, <3>1 DEF TypeOK, WriteRow, Kept
  <2>4. StepOf(t)
    BY <2>1, <2>2, RowTypes DEF StepOf, IInv
  <2>5. PageInv(t) /\ LoadInv(t) /\ SaveInv(t) /\ DraftInv(t)
    BY DEF IInv, TabInv
  <2>6. PageInv(t)' /\ LoadInv(t)' /\ SaveInv(t)'
    BY <2>1, <2>5 DEF PageInv, LoadInv, SaveInv
  <2>7. Key(t)' = Key(t)
    BY <2>1 DEF Key
  <2>8. WriteInv(t)'
    BY <1>4, <2>1, <2>2, <2>7 DEF WriteInv, WriteFor
  <2>9. DraftInv(t)'
    BY <1>4, <2>1, <2>2, <2>5, <2>7 DEF DraftInv, Tracked, NoWrite
  <2>10. CountedInv'
    <3>1. \A s \in Counting : s \in Counting'
      BY <2>2, CountingStep DEF NoWrite
    <3> QED
      BY <2>1, <3>1, CountedStep DEF Kept
  <2>11. \A u \in Tabs \ {t} : Key(t)' \in Slots => Key(t)' # Key(u)
    BY <2>7 DEF IInv, KeysInv
  <2> QED
    BY <2>1, <2>3, <2>4, <2>6, <2>8, <2>9, <2>10, <2>11, StepHolds DEF TabInv, IInv, ServerInv
<1>6. ASSUME NEW keys \in Room, draft[w.key] = NoText, Become(Without(draft, keys), t, {}),
             writing' = [writing EXCEPT ![t] = at("create")],
             UNCHANGED <<server, tab, chain, get, history, bounds>>
      PROVE  IInv'
  <2>1. Without(draft, keys) \in [Slots -> MaybeText]
    BY <1>2, WithoutTypes
  <2>2. \A s \in Slots : Without(draft, keys)[s] = IF s \in keys THEN NoText ELSE draft[s]
    BY <1>2, WithoutTypes
  <2>3. \A u \in Tabs \ {t} : writing'[u] = writing[u]
    BY <1>2, <1>6
  <2>4. CountedInv'
    BY <1>6, <2>1, <2>2, <2>3, CountedAfter DEF Kept, NoWrite
  <2>5. w.then = "answer" /\ tab[t].page = "editing" => t \in removed
    BY <1>1, <1>3, <1>6
  <2>6. /\ at("create") \in WriteRow /\ at("create").stage = "create"
        /\ at("create").key = w.key /\ at("create").then = w.then /\ WriteFor(t, at("create"))
    BY <1>4
  <2>7. /\ \A s \in Slots \ {w.key} : Without(draft, keys)[s] \in {NoText, draft[s]}
        /\ Without(draft, keys)[w.key] = NoText
    BY <1>1, <1>6, <2>2
  <2> DEFINE left == Without(draft, keys)
             row == at("create")
  <2> HIDE DEF at, left, row
  <2>8. /\ left \in [Slots -> MaybeText] /\ Become(left, t, {})
        /\ \A s \in Slots \ {w.key} : left[s] \in {NoText, draft[s]}
        /\ left[w.key] = NoText
    BY <1>6, <2>1, <2>7 DEF left
  <2>9. /\ row \in WriteRow /\ row.stage = "create" /\ row.key = w.key /\ row.then = w.then
        /\ WriteFor(t, row) /\ writing' = [writing EXCEPT ![t] = row]
    BY <1>6, <2>6 DEF row
  <2>10. UNCHANGED <<server, tab, chain, get, history, bounds>>
    BY <1>6
  <2>11. /\ \A s \in Slots \ {row.key} : left[s] \in {NoText, draft[s]}
         /\ left[row.key] \in {NoText, tab[t].own}
         /\ tab[t].page = "editing" /\ left[row.key] = NoText => tab[t].own = NoText \/ t \in removed
         /\ row.stage \in {"create", "count"} /\ row.then = "answer" /\ tab[t].page = "editing" => t \in removed
         /\ tab[t].own = IF row.stage = "count" THEN row.text ELSE tab[t].own
         /\ {} \in SUBSET Slots /\ \A s \in {} : left[s] # NoText
         /\ row.stage # "none"
    BY <1>3, <1>6, <2>5, <2>8, <2>9
  <2>12. Waits(t, row, left, {})
    BY <2>8, <2>9, <2>10, <2>11 DEF Waits, Expected
  <2> QED
    BY <2>4, <2>8, <2>9, <2>11, <2>12, WaitStep
<1>7. CASE draft[w.key] = NoText /\ Then(t, draft, w, FALSE) /\ UNCHANGED writing
  BY <1>1, <1>2, <1>3, <1>7, ThenStep
<1> QED
  BY <1>5, <1>6, <1>7 DEF StartWrite

(* storageSet() of a slot that was there, or the write that fails. *)
LEMMA RewriteStep == ASSUME IInv, NEW t \in Tabs, Rewrite(t) \/ WriteFails(t) PROVE IInv'
<1> DEFINE w == writing[t]
<1>1. /\ draft \in [Slots -> MaybeText] /\ writing \in [Tabs -> WriteRow] /\ w \in WriteRow
  BY RowTypes DEF IInv, TypeOK, WriteRow
<1>2. writing' = [writing EXCEPT ![t] = NoWrite]
  BY DEF Rewrite, WriteFails
<1>3. /\ writing' \in [Tabs -> WriteRow] /\ writing'[t] = NoWrite
      /\ \A u \in Tabs \ {t} : writing'[u] = writing[u]
  BY <1>1, <1>2, NothingTypes
<1>4. w.stage \in {"rewrite", "create"}
  BY DEF Rewrite, WriteFails
<1>5. WriteFor(t, w) /\ DraftInv(t)
  BY <1>4 DEF IInv, TabInv, WriteInv
<1>6. w.key \in Slots /\ w.key = Key(t) /\ w.text \in Texts /\ (w.then = "answer" => w.text = tab[t].own)
  BY <1>5 DEF WriteFor
<1>7. /\ draft[w.key] \in {NoText, tab[t].own}
      /\ tab[t].page = "editing" /\ draft[w.key] = NoText => tab[t].own = NoText \/ t \in removed
  BY <1>4, <1>5, <1>6 DEF DraftInv, Tracked
<1>8. CASE Rewrite(t)
  <2> DEFINE d == [draft EXCEPT ![w.key] = w.text]
  <2>1. /\ d \in [Slots -> MaybeText] /\ d[w.key] = w.text
        /\ \A s \in Slots \ {w.key} : d[s] = draft[s]
    BY <1>1, <1>6, NothingTypes
  <2>2. Then(t, d, w, TRUE) /\ w.stage = "rewrite"
    BY <1>8 DEF Rewrite
  <2> HIDE DEF d, w
  <2>3. w = writing[t]
    BY DEF w
  <2> QED
    BY <1>1, <1>3, <1>5, <1>6, <2>1, <2>2, <2>3, ThenStep
<1>9. CASE WriteFails(t)
  <2>1. Then(t, draft, w, FALSE)
    BY <1>9 DEF WriteFails
  <2>2. w.key \in Kept \/ draft[w.key] = NoText
    BY <1>6 DEF Kept
  <2> HIDE DEF w
  <2>3. w = writing[t]
    BY DEF w
  <2> QED
    BY <1>1, <1>3, <1>4, <1>5, <1>6, <1>7, <2>1, <2>2, <2>3, ThenStep
<1> QED
  BY <1>8, <1>9

(* storageSet() of a slot that wasn't. *)
LEMMA CreateStep == ASSUME IInv, NEW t \in Tabs, Create(t) PROVE IInv'
<1> DEFINE w == writing[t]
           d == [draft EXCEPT ![w.key] = w.text]
           row == [w EXCEPT !.stage = "count"]
<1>1. /\ draft \in [Slots -> MaybeText] /\ writing \in [Tabs -> WriteRow] /\ w \in WriteRow
      /\ w.stage = "create"
  BY RowTypes DEF IInv, TypeOK, WriteRow, Create
<1>2. /\ WriteFor(t, w)
      /\ w.then = "answer" /\ tab[t].page = "editing" => t \in removed
  BY <1>1 DEF IInv, TabInv, WriteInv
<1>3. w.key \in Slots /\ w.text \in Texts
  BY <1>2 DEF WriteFor
<1>4. /\ row \in WriteRow /\ row.stage = "count" /\ row.text = w.text
      /\ row.key = w.key /\ row.then = w.then /\ WriteFor(t, row)
  BY <1>1, <1>2 DEF WriteRow, WriteFor
<1>5. writing' = [writing EXCEPT ![t] = row]
  BY <1>1 DEF Create
<1>6. writing'[t] = row /\ \A u \in Tabs \ {t} : writing'[u] = writing[u]
  BY <1>1, <1>5
<1>7. /\ d \in [Slots -> MaybeText] /\ d[w.key] = w.text
      /\ \A s \in Slots \ {w.key} : d[s] = draft[s]
  BY <1>1, <1>3, NothingTypes
<1>8. Become(d, t, {w.key}) /\ UNCHANGED <<server, tab, chain, get, history, bounds>>
  BY DEF Create
<1> HIDE DEF w, d, row
<1>9. {w.key} \in SUBSET Slots /\ \A s \in {w.key} : d[s] # NoText
  BY <1>3, <1>7
<1>10. w.key \in Counting'
  BY <1>3, <1>4, <1>6 DEF Counting
<1>11. CountedInv'
  <2>1. \A s \in Slots \ Kept : d[s] # NoText => s \in {w.key}
    BY <1>7 DEF Kept
  <2>2. \A s \in {w.key} \ Kept : s \in Counting'
    BY <1>10
  <2>3. writing[t].stage # "count"
    BY <1>1 DEF w
  <2> QED
    BY <1>6, <1>7, <1>8, <1>9, <2>1, <2>2, <2>3, CountedAfter
<1>12. /\ \A s \in Slots \ {row.key} : d[s] \in {NoText, draft[s]}
       /\ d[row.key] \in {NoText, row.text} /\ d[row.key] # NoText
       /\ row.stage # "none" /\ row.text = IF row.stage = "count" THEN row.text ELSE tab[t].own
       /\ row.then = "answer" /\ tab[t].page = "editing" => t \in removed
  BY <1>2, <1>3, <1>4, <1>7
<1>13. tab[t].page = "editing" /\ d[row.key] = NoText => row.text = NoText \/ t \in removed
  BY <1>12
<1>14. row.stage \in {"create", "count"} /\ row.then = "answer" /\ tab[t].page = "editing" => t \in removed
  BY <1>12
<1>15. Waits(t, row, d, {w.key})
  BY <1>4, <1>5, <1>8, <1>9, <1>12, <1>13, <1>14 DEF Waits, Expected
<1> QED
  BY <1>4, <1>7, <1>9, <1>11, <1>15, WaitStep

(* The drafts are counted once more, and the new one removed if too many. *)
LEMMA CountStep == ASSUME IInv, NEW t \in Tabs, Count(t) PROVE IInv'
<1> DEFINE w == writing[t]
<1>1. /\ draft \in [Slots -> MaybeText] /\ writing \in [Tabs -> WriteRow] /\ w \in WriteRow
      /\ w.stage = "count" /\ writing' = [writing EXCEPT ![t] = NoWrite]
  BY RowTypes DEF IInv, TypeOK, WriteRow, Count
<1>2. /\ writing' \in [Tabs -> WriteRow] /\ writing'[t] = NoWrite
      /\ \A u \in Tabs \ {t} : writing'[u] = writing[u]
  BY <1>1, NothingTypes
<1>3. WriteFor(t, w) /\ DraftInv(t) /\ (w.then = "answer" /\ tab[t].page = "editing" => t \in removed)
  BY <1>1 DEF IInv, TabInv, WriteInv
<1>4. w.key \in Slots /\ w.key = Key(t) /\ w.text \in Texts
  BY <1>3 DEF WriteFor
<1>5. /\ draft[w.key] \in {NoText, w.text}
      /\ tab[t].page = "editing" /\ draft[w.key] = NoText => t \in removed
  BY <1>1, <1>3, <1>4 DEF DraftInv, Tracked
<1>6. CASE Cardinality(Kept) <= Cap
  <2>1. Then(t, draft, w, TRUE)
    BY <1>6 DEF Count
  <2>2. w.key \in Kept \/ draft[w.key] = NoText
    BY <1>4 DEF Kept
  <2>3. w = writing[t] /\ w.stage # "rewrite"
    BY <1>1
  <2> DEFINE d == draft
  <2>4. /\ d[w.key] \in {NoText, w.text}
        /\ tab[t].page = "editing" /\ d[w.key] = NoText => t \in removed
        /\ w.key \in Kept \/ d[w.key] = NoText
        /\ \A s \in Slots \ {w.key} : d[s] = draft[s]
        /\ d \in [Slots -> MaybeText] /\ Then(t, d, w, TRUE) /\ d = draft
    BY <1>1, <1>5, <2>1, <2>2
  <2> HIDE DEF w, d
  <2> QED
    BY <1>1, <1>2, <1>3, <1>6, <2>3, <2>4, ThenStep
<1>7. CASE ~(Cardinality(Kept) <= Cap)
  <2> DEFINE d == Without(draft, {w.key})
  <2>1. Then(t, d, w, FALSE)
    <3> DEFINE fits == Cardinality(Kept) <= Cap
    <3>1. Then(t, IF fits THEN draft ELSE d, w, fits)
      BY DEF Count
    <3>2. fits = FALSE
      BY <1>7
    <3> HIDE DEF fits, d, w
    <3> QED
      BY <3>1, <3>2
  <2>2. d \in [Slots -> MaybeText] /\ \A s \in Slots : d[s] = IF s \in {w.key} THEN NoText ELSE draft[s]
    BY <1>1, WithoutTypes
  <2>3. d[w.key] = NoText /\ \A s \in Slots \ {w.key} : d[s] = draft[s]
    BY <1>4, <2>2
  <2> HIDE DEF w, d
  <2>4. w = writing[t]
    BY DEF w
  <2> QED
    BY <1>1, <1>2, <1>3, <1>5, <2>1, <2>2, <2>3, <2>4, ThenStep
<1> QED
  BY <1>6, <1>7

-----------------------------------------------------------------------------
(* Drafts are removed, or none. *)
Removes(t, keys) == (UNCHANGED drafts /\ keys = {}) \/ Become(Without(draft, keys), t, {})

(* What a removal changes, for the page that removes and for the others. *)
LEMMA RemovesStep ==
  ASSUME IInv, NEW t \in Tabs, NEW keys, Removes(t, keys), writing[t].stage # "count",
         \A u \in Tabs \ {t} : writing'[u] = writing[u]
  PROVE  /\ draft' \in [Slots -> MaybeText]
         /\ \A s \in Slots : draft'[s] = IF s \in keys THEN NoText ELSE draft[s]
         /\ stale' \subseteq Kept' /\ uncounted' \subseteq Kept'
         /\ removed \subseteq removed' /\ removed' \subseteq Tabs /\ (t \in removed' <=> t \in removed)
         /\ \A s \in Slots :
              \/ draft'[s] = draft[s]
              \/ /\ draft'[s] = NoText
                 /\ \A u \in Tabs \ {t} : tab[u].page = "editing" /\ tab[u].slot = s => u \in removed'
         /\ CountedInv'
<1>1. draft \in [Slots -> MaybeText] /\ stale \subseteq Kept /\ uncounted \subseteq Kept /\ removed \subseteq Tabs
  BY DEF IInv, TypeOK
<1>2. CASE UNCHANGED drafts /\ keys = {}
  <2>1. UNCHANGED <<draft, stale, removed, uncounted>>
    BY <1>2 DEF drafts
  <2>2. \A s \in Counting : s \in Counting'
    BY CountingStep
  <2>3. CountedInv'
    BY <2>1, <2>2, CountedStep DEF Kept
  <2> QED
    BY <1>1, <1>2, <2>1, <2>3 DEF Kept
<1>3. CASE Become(Without(draft, keys), t, {})
  <2> DEFINE d == Without(draft, keys)
  <2>1. d \in [Slots -> MaybeText] /\ \A s \in Slots : d[s] = IF s \in keys THEN NoText ELSE draft[s]
    BY <1>1, WithoutTypes
  <2> HIDE DEF d
  <2>2. Become(d, t, {}) /\ {} \in SUBSET Slots /\ \A s \in {} : d[s] # NoText
    BY <1>3 DEF d
  <2>3. /\ draft' = d /\ stale' \subseteq Kept' /\ uncounted' \subseteq Kept'
        /\ removed \subseteq removed' /\ removed' \subseteq Tabs /\ (t \in removed' <=> t \in removed)
        /\ \A u \in Tabs \ {t} : \A s \in Slots :
             tab[u].page = "editing" /\ tab[u].slot = s /\ draft[s] # NoText /\ d[s] = NoText =>
               u \in removed'
    BY <2>1, <2>2, BecomeStep
  <2>4. CountedInv'
    <3>1. \A s \in Slots \ Kept : d[s] # NoText => s \in {}
      BY <2>1 DEF Kept
    <3>2. \A s \in {} \ Kept : s \in Counting'
      OBVIOUS
    <3> QED
      BY <2>1, <2>2, <3>1, <3>2, CountedAfter
  <2> QED
    BY <2>1, <2>3, <2>4
<1> QED
  BY <1>2, <1>3 DEF Removes

(* A tab opens the editor. *)
LEMMA OpenStep == ASSUME IInv, NEW t \in Tabs, Open(t) PROVE IInv'
<1> DEFINE page == [tab[t] EXCEPT !.page = "loading"]
<1>1. /\ tab[t].page \in {"closed", "away"} /\ writing[t] = NoWrite
      /\ tab' = [tab EXCEPT ![t].page = "loading"]
      /\ UNCHANGED <<server, chain, get, writing, took, acked, typed, loaded>>
      /\ visits < MaxVisits /\ visits' = visits + 1
  BY DEF Open, history
<1>2. PICK keys : Removes(t, keys)
  BY DEF Open, Prune, Removes
<1>3. /\ draft' \in [Slots -> MaybeText] /\ stale' \subseteq Kept' /\ uncounted' \subseteq Kept'
      /\ removed \subseteq removed' /\ removed' \subseteq Tabs
      /\ \A s \in Slots :
           \/ draft'[s] = draft[s]
           \/ /\ draft'[s] = NoText
              /\ \A u \in Tabs \ {t} : tab[u].page = "editing" /\ tab[u].slot = s => u \in removed'
      /\ CountedInv'
  BY <1>1, <1>2, RemovesStep DEF NoWrite
<1>4. /\ page \in TabRow /\ page.page = "loading" /\ page.slot = tab[t].slot /\ page.slot \notin Slots
      /\ page.own = tab[t].own /\ page.others = tab[t].others
  BY <1>1, RowTypes DEF IInv, TypeOK, TabRow
<1>5. /\ tab' \in [Tabs -> TabRow] /\ tab'[t] = page
      /\ \A u \in Tabs \ {t} : tab'[u] = tab[u]
      /\ \A u \in Tabs : tab'[u].page = "editing" <=> tab'[u].slot \in Slots
  BY <1>1, <1>4, PageTypes DEF IInv
<1> HIDE DEF page
<1>6. TypeOK'
  <2>1. TypeOK
    BY DEF IInv
  <2>2. visits' \in 0..MaxVisits
    BY <1>1, <2>1 DEF TypeOK
  <2> QED
    BY <1>1, <1>3, <1>5, <2>1, <2>2 DEF TypeOK, TabRow
<1>7. StepOf(t)
  BY <1>1, <1>3, <1>5, RowTypes DEF StepOf, IInv
<1>8. Key(t)' = Key(t)
  BY <1>1, <1>4, <1>5 DEF Key
<1>9. PageInv(t) /\ LoadInv(t) /\ SaveInv(t) /\ DraftInv(t)
  BY DEF IInv, TabInv
<1>10. PageInv(t)' /\ LoadInv(t)' /\ SaveInv(t)' /\ WriteInv(t)'
  BY <1>1, <1>4, <1>5, <1>9 DEF PageInv, LoadInv, SaveInv, WriteInv, NoWrite
<1>11. DraftInv(t)'
  BY <1>1, <1>3, <1>4, <1>5, <1>8, <1>9 DEF DraftInv, Tracked, NoWrite
<1>12. \A u \in Tabs \ {t} : Key(t)' \in Slots => Key(t)' # Key(u)
  BY <1>8 DEF IInv, KeysInv
<1> QED
  BY <1>1, <1>3, <1>6, <1>7, <1>10, <1>11, <1>12, StepHolds DEF TabInv, IInv, ServerInv

(* A page asks for the episode, once its own save is over. *)
LEMMA AskStep == ASSUME IInv, NEW t \in Tabs, Ask(t) PROVE IInv'
<1>1. /\ tab[t].page = "loading" /\ chain[t] = NoSave /\ get' = [get EXCEPT ![t] = server]
      /\ UNCHANGED <<server, draft, stale, removed, uncounted, tab, chain, writing, took, acked, typed, loaded, visits>>
  BY DEF Ask, drafts, history, bounds
<1>2. TypeOK
  BY DEF IInv
<1>3. server \in AnswerRow
  BY <1>2, NothingTypes DEF TypeOK, AnswerRow
<1>4. get' \in [Tabs -> AnswerRow] /\ get'[t] = server /\ \A u \in Tabs \ {t} : get'[u] = get[u]
  BY <1>1, <1>2, <1>3 DEF TypeOK, AnswerRow
<1>5. TypeOK'
  BY <1>1, <1>2, <1>4 DEF TypeOK, AnswerRow, Kept
<1>6. StepOf(t)
  BY <1>1, <1>2, <1>4, RowTypes DEF StepOf
<1>7. Key(t)' = Key(t) /\ TabInv(t) /\ ServerInv
  BY <1>1 DEF Key, IInv
<1>8. PageInv(t)' /\ SaveInv(t)' /\ WriteInv(t)' /\ DraftInv(t)'
  BY <1>1, <1>7 DEF TabInv, PageInv, SaveInv, WriteInv, WriteFor, DraftInv, Tracked
<1>9. LoadInv(t)'
  BY <1>1, <1>4, <1>7 DEF LoadInv, ServerInv
<1>10. CountedInv'
  BY <1>1 DEF IInv, CountedInv, Counting, Kept
<1>11. \A u \in Tabs \ {t} : Key(t)' \in Slots => Key(t)' # Key(u)
  BY <1>7 DEF IInv, KeysInv
<1> QED
  BY <1>1, <1>5, <1>6, <1>7, <1>8, <1>9, <1>10, <1>11, StepHolds DEF TabInv, ServerInv

(* newSlotId() gives an id that no page refers to. *)
LEMMA FreshSlot ==
  ASSUME TypeOK, Fresh # {}
  PROVE  /\ Min(Fresh) \in Slots /\ draft[Min(Fresh)] = NoText
         /\ \A u \in Tabs : Min(Fresh) # tab[u].slot /\ Min(Fresh) # chain[u].key
<1>1. Fresh \subseteq Slots /\ Fresh \subseteq Nat
  BY DEF Fresh
<1>2. PICK x \in Fresh : \A y \in Fresh : ~(<<y, x>> \in OpToRel(<, Nat))
  <2> DEFINE R == OpToRel(<, Nat)
  <2>1. IsWellFoundedOn(R, Nat)
    BY NatLessThanWellFounded
  <2> HIDE DEF R
  <2>2. \E x \in Fresh : \A y \in Fresh : ~(<<y, x>> \in R)
    BY <1>1, <2>1, WFMin
  <2> QED
    BY <2>2 DEF R
<1>3. \A y \in Fresh : x <= y
  <2>1. ASSUME NEW y \in Fresh PROVE x <= y
    <3>1. ~(y < x)
      BY <1>1, <1>2 DEF OpToRel
    <3> QED
      BY <1>1, <3>1
  <2> QED
    BY <2>1
<1>4. Min(Fresh) \in Fresh
  BY <1>3 DEF Min
<1> HIDE DEF Fresh
<1>5. Min(Fresh) \in Slots /\ Min(Fresh) \notin Kept
  BY <1>4 DEF Fresh
<1>6. ASSUME NEW u \in Tabs PROVE Min(Fresh) # tab[u].slot /\ Min(Fresh) # chain[u].key
  <2>1. Min(Fresh) \notin UNION {{tab[v].slot, chain[v].key, writing[v].key} : v \in Tabs}
    BY <1>4 DEF Fresh
  <2>2. Min(Fresh) \notin {tab[u].slot, chain[u].key, writing[u].key}
    BY <2>1
  <2> QED
    BY <2>2
<1> QED
  BY <1>5, <1>6 DEF Kept

(* What the server had is shown in a slot that nobody uses. *)
LEMMA LoadShowsStep == ASSUME IInv, NEW t \in Tabs, LoadShows(t) PROVE IInv'
<1> DEFINE slot == Min(Fresh)
           keys == {s \in Kept : draft[s] = get[t].text}
           page == [NoPage EXCEPT !.page = "editing", !.slot = slot, !.shown = get[t].text,
                                  !.episode = get[t].text, !.base = get[t].version,
                                  !.others = Others(draft, slot, get[t].text)]
<1>1. TypeOK /\ TabInv(t) /\ ServerInv
  BY DEF IInv
<1>2. /\ tab[t].page = "loading" /\ writing[t] = NoWrite /\ get[t] # NoAnswer /\ Fresh # {}
      /\ tab' = [tab EXCEPT ![t] = page]
      /\ Become(Without(draft, keys), t, {})
      /\ get' = [get EXCEPT ![t] = NoAnswer]
      /\ UNCHANGED <<server, chain, writing, took, acked, typed, loaded, visits>>
  BY DEF LoadShows, history, bounds
<1>3. /\ slot \in Slots /\ draft[slot] = NoText
      /\ \A u \in Tabs : slot # tab[u].slot /\ slot # chain[u].key
  BY <1>1, <1>2, FreshSlot
<1> HIDE DEF slot
<1>4. /\ chain[t] = NoSave /\ get[t].text \in took /\ get[t].text \in Texts
      /\ acked[t] <= get[t].version /\ get[t].version \in Versions
  BY <1>1, <1>2 DEF TabInv, LoadInv, TypeOK
<1>5. /\ Others(draft, slot, get[t].text) \in SUBSET [key : Slots, text : Texts]
      /\ \A l \in Others(draft, slot, get[t].text) : l.key # slot
  BY <1>1, OthersTypes DEF TypeOK
<1>6. /\ page \in TabRow /\ page.page = "editing" /\ page.slot = slot /\ page.shown = get[t].text
      /\ page.pending = NoText /\ page.own = NoText /\ page.base = get[t].version
      /\ \A l \in page.others : l.key # slot
  <2> DEFINE others == Others(draft, slot, get[t].text)
  <2> HIDE DEF others
  <2>1. /\ NoPage \in TabRow /\ slot \in MaybeSlot /\ get[t].text \in MaybeText
        /\ others \in SUBSET [key : Slots, text : Texts] /\ \A l \in others : l.key # slot
    BY <1>3, <1>4, <1>5, NothingTypes DEF others
  <2>2. page = [NoPage EXCEPT !.page = "editing", !.slot = slot, !.shown = get[t].text,
                              !.episode = get[t].text, !.base = get[t].version, !.others = others]
    BY DEF others
  <2> HIDE DEF page
  <2>3. page \in TabRow
    BY <1>4, <2>1, <2>2 DEF TabRow
  <2>4. /\ page.page = "editing" /\ page.slot = slot /\ page.shown = get[t].text
        /\ page.pending = NoText /\ page.own = NoText /\ page.base = get[t].version
        /\ page.others = others
    BY <2>2 DEF NoPage
  <2> QED
    BY <2>1, <2>3, <2>4
<1> HIDE DEF page, keys
<1>7. /\ draft' \in [Slots -> MaybeText]
      /\ \A s \in Slots : draft'[s] = IF s \in keys THEN NoText ELSE draft[s]
      /\ stale' \subseteq Kept' /\ uncounted' \subseteq Kept'
      /\ removed \subseteq removed' /\ removed' \subseteq Tabs
      /\ \A s \in Slots :
           \/ draft'[s] = draft[s]
           \/ /\ draft'[s] = NoText
              /\ \A u \in Tabs \ {t} : tab[u].page = "editing" /\ tab[u].slot = s => u \in removed'
      /\ CountedInv'
  <2>1. Removes(t, keys) /\ writing[t].stage # "count" /\ \A u \in Tabs \ {t} : writing'[u] = writing[u]
    BY <1>2 DEF Removes, NoWrite
  <2> QED
    BY <2>1, RemovesStep
<1>8. /\ tab' \in [Tabs -> TabRow] /\ tab'[t] = page
      /\ \A u \in Tabs \ {t} : tab'[u] = tab[u]
      /\ \A u \in Tabs : tab'[u].page = "editing" <=> tab'[u].slot \in Slots
  BY <1>1, <1>2, <1>3, <1>6, PageTypes
<1>9. /\ get' \in [Tabs -> AnswerRow] /\ get'[t] = NoAnswer
      /\ \A u \in Tabs \ {t} : get'[u] = get[u]
  BY <1>1, <1>2, NothingTypes DEF TypeOK, AnswerRow
<1>10. TypeOK'
  BY <1>1, <1>2, <1>7, <1>8, <1>9 DEF TypeOK, TabRow, AnswerRow
<1>11. StepOf(t)
  BY <1>1, <1>2, <1>7, <1>8, <1>9, RowTypes DEF StepOf
<1>12. Key(t)' = slot
  BY <1>6, <1>8 DEF Key
<1>13. PageInv(t)' /\ LoadInv(t)' /\ SaveInv(t)' /\ WriteInv(t)'
  BY <1>2, <1>4, <1>6, <1>8, <1>9 DEF PageInv, LoadInv, SaveInv, WriteInv, NoWrite, NoSave
<1>14. DraftInv(t)'
  BY <1>2, <1>3, <1>6, <1>7, <1>8, <1>12 DEF DraftInv, Tracked, NoWrite
<1>15. \A u \in Tabs \ {t} : Key(t)' # Key(u)
  BY <1>3, <1>12 DEF Key
<1> QED
  BY <1>1, <1>2, <1>7, <1>10, <1>11, <1>13, <1>14, <1>15, StepHolds DEF TabInv, ServerInv

(* A page that was left shows nothing of its load. *)
LEMMA LoadGivenUpStep == ASSUME IInv, NEW t \in Tabs, LoadGivenUp(t) PROVE IInv'
<1> DEFINE page == [NoPage EXCEPT !.page = "away", !.own = tab[t].own]
<1>1. TypeOK /\ TabInv(t) /\ ServerInv
  BY DEF IInv
<1>2. /\ tab[t].page = "loading" /\ writing[t] = NoWrite
      /\ tab' = [tab EXCEPT ![t] = page]
      /\ get' = [get EXCEPT ![t] = NoAnswer]
      /\ UNCHANGED <<server, draft, stale, removed, uncounted, chain, writing, took, acked, typed, loaded, visits>>
  BY DEF LoadGivenUp, drafts, history, bounds
<1>3. /\ page \in TabRow /\ page.page = "away" /\ page.slot = NoSlot /\ page.own = tab[t].own
      /\ page.others = {}
  BY <1>1, RowTypes, NothingTypes DEF NoPage, TabRow
<1> HIDE DEF page
<1>4. /\ tab' \in [Tabs -> TabRow] /\ tab'[t] = page
      /\ \A u \in Tabs \ {t} : tab'[u] = tab[u]
      /\ \A u \in Tabs : tab'[u].page = "editing" <=> tab'[u].slot \in Slots
  BY <1>1, <1>2, <1>3, PageTypes
<1>5. /\ get' \in [Tabs -> AnswerRow] /\ get'[t] = NoAnswer
      /\ \A u \in Tabs \ {t} : get'[u] = get[u]
  BY <1>1, <1>2, NothingTypes DEF TypeOK, AnswerRow
<1>6. TypeOK'
  BY <1>1, <1>2, <1>4, <1>5 DEF TypeOK, TabRow, AnswerRow, Kept
<1>7. StepOf(t)
  BY <1>1, <1>2, <1>4, <1>5, RowTypes DEF StepOf
<1>8. Key(t)' = Key(t)
  BY <1>2, <1>3, <1>4 DEF Key
<1>9. TabInv(t)'
  BY <1>1, <1>2, <1>3, <1>4, <1>5, <1>8
  DEF TabInv, PageInv, LoadInv, SaveInv, WriteInv, DraftInv, Tracked, NoWrite
<1>10. CountedInv'
  BY <1>2 DEF IInv, CountedInv, Counting, Kept
<1>11. \A u \in Tabs \ {t} : Key(t)' \in Slots => Key(t)' # Key(u)
  BY <1>8 DEF IInv, KeysInv
<1> QED
  BY <1>1, <1>2, <1>6, <1>7, <1>9, <1>10, <1>11, StepHolds DEF ServerInv

-----------------------------------------------------------------------------
(* What is on the screen changes, or what is listed. *)
LEMMA ScreenStep ==
  ASSUME IInv, NEW t \in Tabs, Editing(t), NEW row \in TabRow,
         row.page = "editing", row.slot = tab[t].slot, row.own = tab[t].own, row.base = tab[t].base,
         row.shown \in Texts, row.pending \in {NoText, row.shown},
         row.pending = NoText => row.own \in {NoText, row.shown},
         \A l \in row.others : l.key # row.slot,
         tab' = [tab EXCEPT ![t] = row],
         UNCHANGED <<server, drafts, chain, get, writing, history, visits>>,
         typed' \in 0..MaxTyped, loaded' \in 0..MaxLoaded
  PROVE  IInv'
<1>1. TypeOK /\ TabInv(t) /\ ServerInv
  BY DEF IInv
<1>2. UNCHANGED <<server, draft, stale, removed, uncounted, chain, get, writing, took, acked, visits>>
  BY DEF drafts, history
<1>3. tab[t].page = "editing" /\ writing[t] = NoWrite
  BY DEF Editing
<1>4. /\ tab' \in [Tabs -> TabRow] /\ tab'[t] = row
      /\ \A u \in Tabs \ {t} : tab'[u] = tab[u]
      /\ \A u \in Tabs : tab'[u].page = "editing" <=> tab'[u].slot \in Slots
  <2>1. row.page = "editing" <=> row.slot \in Slots
    BY <1>1, <1>3 DEF TypeOK
  <2> QED
    BY <1>1, <2>1, PageTypes
<1>5. TypeOK'
  BY <1>1, <1>2, <1>4 DEF TypeOK, TabRow, Kept
<1>6. StepOf(t)
  BY <1>1, <1>2, <1>4, RowTypes DEF StepOf
<1>7. Key(t)' = Key(t)
  BY <1>3, <1>4 DEF Key
<1>8. PageInv(t)' /\ LoadInv(t)' /\ SaveInv(t)'
  BY <1>1, <1>2, <1>3, <1>4 DEF TabInv, PageInv, LoadInv, SaveInv
<1>9. WriteInv(t)' /\ DraftInv(t)'
  BY <1>1, <1>2, <1>3, <1>4, <1>7 DEF TabInv, WriteInv, DraftInv, Tracked, NoWrite
<1>10. CountedInv'
  BY <1>2 DEF IInv, CountedInv, Counting, Kept
<1>11. \A u \in Tabs \ {t} : Key(t)' \in Slots => Key(t)' # Key(u)
  BY <1>7 DEF IInv, KeysInv
<1> QED
  BY <1>1, <1>2, <1>5, <1>6, <1>8, <1>9, <1>10, <1>11, StepHolds DEF TabInv, ServerInv

(* A text comes on the screen, to be backed up. *)
LEMMA ShowStep ==
  ASSUME IInv, NEW t \in Tabs, NEW text \in Texts, Show(t, text),
         typed' \in 0..MaxTyped, loaded' \in 0..MaxLoaded
  PROVE  IInv'
<1> DEFINE row == [tab[t] EXCEPT !.shown = text, !.pending = text]
<1>1. TypeOK /\ PageInv(t) /\ Editing(t)
  BY DEF IInv, TabInv, Show
<1>2. /\ row \in TabRow /\ row.page = tab[t].page /\ row.slot = tab[t].slot /\ row.own = tab[t].own
      /\ row.base = tab[t].base /\ row.shown = text /\ row.pending = text /\ row.others = tab[t].others
  BY <1>1, RowTypes, NothingTypes DEF TabRow
<1>3. /\ tab' = [tab EXCEPT ![t] = row]
      /\ UNCHANGED <<server, drafts, chain, get, writing, history, visits>>
  BY DEF Show
<1>4. \A l \in row.others : l.key # row.slot
  BY <1>1, <1>2 DEF PageInv, Editing
<1>5. row.page = "editing" /\ row.pending # NoText
  BY <1>1, <1>2 DEF Editing
<1> HIDE DEF row
<1> QED
  BY <1>1, <1>2, <1>3, <1>4, <1>5, ScreenStep

(* A keystroke. *)
LEMMA TypeStep == ASSUME IInv, NEW t \in Tabs, NEW text \in Texts, Type(t, text) PROVE IInv'
<1>1. Show(t, text) /\ typed < MaxTyped /\ typed' = typed + 1 /\ loaded' = loaded
  BY DEF Type
<1>2. typed' \in 0..MaxTyped /\ loaded' \in 0..MaxLoaded
  BY <1>1 DEF IInv, TypeOK
<1> QED
  BY <1>1, <1>2, ShowStep

(* Another page's draft is loaded into this one. *)
LEMMA LoadOtherStep ==
  ASSUME IInv, NEW t \in Tabs, NEW l \in tab[t].others, LoadOther(t, l)
  PROVE  IInv'
<1>1. Show(t, l.text) /\ loaded < MaxLoaded /\ loaded' = loaded + 1 /\ typed' = typed
  BY DEF LoadOther
<1>2. typed' \in 0..MaxTyped /\ loaded' \in 0..MaxLoaded
  BY <1>1 DEF IInv, TypeOK
<1>3. l.text \in Texts
  BY RowTypes DEF IInv, TabRow
<1> QED
  BY <1>1, <1>2, <1>3, ShowStep

(* The others' drafts are listed again. *)
LEMMA RefreshStep == ASSUME IInv, NEW t \in Tabs, Refresh(t) PROVE IInv'
<1> DEFINE rest == Others(draft, tab[t].slot, tab[t].episode)
           row == [tab[t] EXCEPT !.others = rest]
<1>1. TypeOK /\ PageInv(t) /\ Editing(t)
  BY DEF IInv, TabInv, Refresh
<1>2. rest \in SUBSET [key : Slots, text : Texts] /\ \A l \in rest : l.key # tab[t].slot
  BY <1>1, OthersTypes DEF TypeOK
<1>3. /\ tab' = [tab EXCEPT ![t] = row]
      /\ UNCHANGED <<server, drafts, chain, get, writing, history, visits, typed, loaded>>
  BY DEF Refresh, bounds
<1> HIDE DEF rest
<1>4. /\ row \in TabRow /\ row.page = tab[t].page /\ row.slot = tab[t].slot /\ row.own = tab[t].own
      /\ row.base = tab[t].base /\ row.shown = tab[t].shown /\ row.pending = tab[t].pending
      /\ row.others = rest
  BY <1>1, <1>2, RowTypes DEF TabRow
<1> HIDE DEF row
<1>5. typed' \in 0..MaxTyped /\ loaded' \in 0..MaxLoaded
  BY <1>1, <1>3 DEF TypeOK
<1>6. /\ row.page = "editing" /\ row.shown \in Texts /\ row.pending \in {NoText, row.shown}
      /\ row.pending = NoText => row.own \in {NoText, row.shown}
      /\ \A l \in row.others : l.key # row.slot
  BY <1>1, <1>2, <1>4 DEF PageInv, Editing
<1> QED
  BY <1>1, <1>3, <1>4, <1>5, <1>6, ScreenStep

(* The author discards another page's draft. *)
LEMMA DiscardOtherStep ==
  ASSUME IInv, NEW t \in Tabs, NEW l \in tab[t].others, DiscardOther(t, l)
  PROVE  IInv'
<1> DEFINE row == [tab[t] EXCEPT !.others = @ \ {l}]
<1>1. TypeOK /\ TabInv(t) /\ ServerInv
  BY DEF IInv
<1>2. /\ tab[t].page = "editing" /\ writing[t] = NoWrite
      /\ Removes(t, {l.key}) /\ tab' = [tab EXCEPT ![t] = row]
      /\ UNCHANGED <<server, chain, get, writing, took, acked, typed, loaded, visits>>
  BY DEF DiscardOther, Editing, Removes, history, bounds
<1>3. /\ draft' \in [Slots -> MaybeText]
      /\ \A s \in Slots : draft'[s] = IF s \in {l.key} THEN NoText ELSE draft[s]
      /\ stale' \subseteq Kept' /\ uncounted' \subseteq Kept'
      /\ removed \subseteq removed' /\ removed' \subseteq Tabs
      /\ \A s \in Slots :
           \/ draft'[s] = draft[s]
           \/ /\ draft'[s] = NoText
              /\ \A u \in Tabs \ {t} : tab[u].page = "editing" /\ tab[u].slot = s => u \in removed'
      /\ CountedInv'
  BY <1>2, RemovesStep DEF NoWrite
<1>4. /\ row \in TabRow /\ row.page = tab[t].page /\ row.slot = tab[t].slot /\ row.own = tab[t].own
      /\ row.base = tab[t].base /\ row.shown = tab[t].shown /\ row.pending = tab[t].pending
      /\ row.others \subseteq tab[t].others
  BY <1>1, RowTypes DEF TabRow
<1> HIDE DEF row
<1>5. /\ tab' \in [Tabs -> TabRow] /\ tab'[t] = row
      /\ \A u \in Tabs \ {t} : tab'[u] = tab[u]
      /\ \A u \in Tabs : tab'[u].page = "editing" <=> tab'[u].slot \in Slots
  <2>1. row.page = "editing" <=> row.slot \in Slots
    BY <1>1, <1>4 DEF TypeOK
  <2> QED
    BY <1>1, <1>2, <1>4, <2>1, PageTypes
<1>6. TypeOK'
  BY <1>1, <1>2, <1>3, <1>5 DEF TypeOK, TabRow
<1>7. StepOf(t)
  BY <1>1, <1>2, <1>3, <1>5, RowTypes DEF StepOf
<1>8. Key(t)' = Key(t) /\ Key(t) = tab[t].slot /\ l.key # tab[t].slot
  BY <1>1, <1>2, <1>4, <1>5 DEF Key, TabInv, PageInv
<1>9. PageInv(t)' /\ LoadInv(t)' /\ SaveInv(t)'
  BY <1>1, <1>2, <1>4, <1>5 DEF TabInv, PageInv, LoadInv, SaveInv
<1>10. WriteInv(t)' /\ DraftInv(t)'
  <2>1. WriteInv(t)'
    BY <1>2 DEF WriteInv, NoWrite
  <2>2. Tracked(t)' = Tracked(t)
    BY <1>2, <1>4, <1>5 DEF Tracked, NoWrite
  <2>3. Key(t) \in Slots => draft'[Key(t)] = draft[Key(t)]
    BY <1>3, <1>8
  <2>4. DraftInv(t)
    BY <1>1 DEF TabInv
  <2>5. DraftInv(t)'
    BY <1>2, <1>3, <1>4, <1>5, <1>8, <2>2, <2>3, <2>4 DEF DraftInv
  <2> QED
    BY <2>1, <2>5
<1>11. \A u \in Tabs \ {t} : Key(t)' \in Slots => Key(t)' # Key(u)
  BY <1>8 DEF IInv, KeysInv
<1> QED
  BY <1>1, <1>2, <1>3, <1>6, <1>7, <1>9, <1>10, <1>11, StepHolds DEF TabInv, ServerInv

(* A page hears that its draft was removed. *)
LEMMA HearRemovalStep == ASSUME IInv, NEW t \in Tabs, HearRemoval(t) PROVE IInv'
<1> DEFINE own == IF tab[t].page = "editing" /\ tab[t].slot \notin Kept THEN NoText ELSE tab[t].own
           row == [tab[t] EXCEPT !.own = own]
<1>1. TypeOK /\ TabInv(t) /\ ServerInv
  BY DEF IInv
<1>2. /\ writing[t] = NoWrite /\ removed' = removed \ {t}
      /\ tab' = [tab EXCEPT ![t] = row]
      /\ UNCHANGED <<server, draft, stale, uncounted, chain, get, writing, took, acked, typed, loaded, visits>>
  BY DEF HearRemoval, history, bounds
<1>3. /\ row \in TabRow /\ row.page = tab[t].page /\ row.slot = tab[t].slot /\ row.own = own
      /\ row.base = tab[t].base /\ row.shown = tab[t].shown /\ row.pending = tab[t].pending
      /\ row.others = tab[t].others
  BY <1>1, RowTypes, NothingTypes DEF TabRow
<1> HIDE DEF row
<1>4. /\ tab' \in [Tabs -> TabRow] /\ tab'[t] = row
      /\ \A u \in Tabs \ {t} : tab'[u] = tab[u]
      /\ \A u \in Tabs : tab'[u].page = "editing" <=> tab'[u].slot \in Slots
  <2>1. row.page = "editing" <=> row.slot \in Slots
    BY <1>1, <1>3 DEF TypeOK
  <2> QED
    BY <1>1, <1>2, <1>3, <2>1, PageTypes
<1>5. TypeOK'
  BY <1>1, <1>2, <1>4 DEF TypeOK, TabRow, Kept
<1>6. StepOf(t)
  BY <1>1, <1>2, <1>4, RowTypes DEF StepOf
<1>7. Key(t)' = Key(t)
  BY <1>2, <1>3, <1>4 DEF Key
<1>8. PageInv(t)' /\ LoadInv(t)' /\ SaveInv(t)' /\ WriteInv(t)'
  <2>1. PageInv(t)'
    BY <1>1, <1>2, <1>3, <1>4 DEF TabInv, PageInv
  <2>2. LoadInv(t)' /\ SaveInv(t)'
    BY <1>1, <1>2, <1>3, <1>4 DEF TabInv, LoadInv, SaveInv
  <2>3. WriteInv(t)'
    BY <1>2 DEF WriteInv, NoWrite
  <2> QED
    BY <2>1, <2>2, <2>3
<1>9. DraftInv(t)'
  <2>1. tab[t].page = "editing" => Key(t) = tab[t].slot
    BY DEF Key
  <2> QED
    BY <1>1, <1>2, <1>3, <1>4, <1>7, <2>1 DEF TabInv, DraftInv, Tracked, NoWrite, Kept
<1>10. CountedInv'
  BY <1>2 DEF IInv, CountedInv, Counting, Kept
<1>11. \A u \in Tabs \ {t} : Key(t)' \in Slots => Key(t)' # Key(u)
  BY <1>7 DEF IInv, KeysInv
<1> QED
  BY <1>1, <1>2, <1>5, <1>6, <1>8, <1>9, <1>10, <1>11, StepHolds DEF TabInv, ServerInv

-----------------------------------------------------------------------------
(* flushDraft() with nothing to write: the save is sent, or the page left. *)
LEMMA GoStep ==
  ASSUME IInv, NEW t \in Tabs, NEW then \in {"save", "leave"}, Editing(t), tab[t].pending = NoText,
         Go(t, tab[t], then), UNCHANGED <<drafts, writing>>
  PROVE  IInv'
<1> DEFINE p == tab[t]
           away == [NoPage EXCEPT !.page = "away", !.own = p.own]
           row == IF then = "leave" THEN away ELSE p
           sent == [stage |-> "sent", text |-> p.shown, key |-> p.slot, version |-> 0]
           save == IF then = "save" THEN sent ELSE chain[t]
<1>1. TypeOK /\ TabInv(t) /\ ServerInv
  BY DEF IInv
<1>2. p.page = "editing" /\ writing[t] = NoWrite /\ p.shown \in Texts /\ p.slot \in Slots
  BY <1>1 DEF Editing, TabInv, PageInv, TypeOK
<1>3. /\ p \in TabRow /\ away \in TabRow /\ away.page = "away" /\ away.slot = NoSlot
      /\ away.own = p.own /\ away.others = {}
  <2>1. p \in TabRow /\ NoPage \in TabRow
    BY <1>1, RowTypes, NothingTypes
  <2>2. away \in TabRow
    <3> HIDE DEF p
    <3> QED
      BY <2>1 DEF TabRow
  <2>3. away.page = "away" /\ away.slot = NoSlot /\ away.own = p.own /\ away.others = {}
    BY DEF NoPage
  <2> QED
    BY <2>1, <2>2, <2>3
<1>4. sent \in SaveRow /\ chain[t] \in SaveRow
  <2>1. chain[t] \in SaveRow /\ 0 \in Versions
    BY <1>1, RowTypes DEF Versions
  <2>2. p.shown \in MaybeText /\ p.slot \in MaybeSlot
    <3> HIDE DEF p
    <3> QED
      BY <1>2, NothingTypes
  <2> QED
    BY <2>1, <2>2 DEF SaveRow
<1>5. UNCHANGED <<server, draft, stale, removed, uncounted, get, writing, took, acked, typed, loaded, visits>>
  BY DEF Go, drafts, history, bounds
<1>6. /\ tab' = [tab EXCEPT ![t] = row]
      /\ chain' = IF then = "save" THEN [chain EXCEPT ![t] = sent] ELSE chain
  BY DEF Go
<1> HIDE DEF away, sent
<1>7. /\ row \in TabRow /\ (row.page = "editing" <=> row.slot \in Slots)
      /\ row.page = "editing" => row = p
      /\ row.page # "editing" => row = away /\ then = "leave"
  BY <1>1, <1>2, <1>3 DEF TypeOK
<1> HIDE DEF row
<1>8. /\ tab' \in [Tabs -> TabRow] /\ tab'[t] = row
      /\ \A u \in Tabs \ {t} : tab'[u] = tab[u]
      /\ \A u \in Tabs : tab'[u].page = "editing" <=> tab'[u].slot \in Slots
  BY <1>1, <1>6, <1>7, PageTypes
<1>9. /\ chain' \in [Tabs -> SaveRow] /\ chain'[t] = save
      /\ \A u \in Tabs \ {t} : chain'[u] = chain[u]
  <2>1. chain \in [Tabs -> SaveRow]
    BY <1>1 DEF TypeOK, SaveRow
  <2> QED
    BY <1>4, <1>6, <2>1
<1>10. TypeOK'
  BY <1>1, <1>5, <1>8, <1>9 DEF TypeOK, TabRow, SaveRow, Kept
<1>11. StepOf(t)
  BY <1>1, <1>5, <1>8, <1>9, RowTypes DEF StepOf
<1>12. Key(t)' \in {Key(t), NoSlot} /\ Key(t) = p.slot
  BY <1>1, <1>2, <1>3, <1>7, <1>8, <1>9 DEF Key, TabInv, SaveInv, NoSave
<1>13. PageInv(t)'
  BY <1>1, <1>2, <1>3, <1>5, <1>7, <1>8 DEF TabInv, PageInv
<1>14. LoadInv(t)' /\ WriteInv(t)'
  BY <1>1, <1>2, <1>5 DEF TabInv, LoadInv, WriteInv, NoWrite
<1>15. SaveInv(t)'
  <2>1. CASE then = "save"
    <3>1. chain'[t].stage = "sent" /\ chain'[t].text = p.shown /\ chain'[t].key = p.slot
      BY <1>9, <2>1 DEF sent
    <3> QED
      BY <1>2, <1>7, <1>8, <2>1, <3>1 DEF SaveInv
  <2>2. CASE then = "leave"
    <3>1. chain'[t] = chain[t]
      BY <1>9, <2>2
    <3> QED
      BY <1>1, <1>2, <1>5, <1>7, <1>8, <3>1 DEF TabInv, SaveInv
  <2> QED
    BY <2>1, <2>2
<1>16. DraftInv(t)'
  <2>1. Tracked(t)' = Tracked(t)
    BY <1>2, <1>3, <1>5, <1>7, <1>8 DEF Tracked, NoWrite
  <2> QED
    BY <1>1, <1>2, <1>5, <1>12, <2>1 DEF TabInv, DraftInv
<1>17. CountedInv'
  BY <1>5 DEF IInv, CountedInv, Counting, Kept
<1>18. \A u \in Tabs \ {t} : Key(t)' \in Slots => Key(t)' # Key(u)
  BY <1>12 DEF IInv, KeysInv
<1> QED
  BY <1>1, <1>5, <1>10, <1>11, <1>13, <1>14, <1>15, <1>16, <1>17, <1>18, StepHolds DEF TabInv, ServerInv

(* A page starts to write what it has pending. *)
LEMMA FlushStep ==
  ASSUME IInv, NEW t \in Tabs, NEW then \in {"stay", "save", "leave"},
         then = "save" => chain[t] = NoSave, Flush(t, then)
  PROVE  IInv'
<1> DEFINE w == [stage |-> "none", text |-> tab[t].pending, key |-> tab[t].slot, then |-> then]
<1>1. Editing(t)
  BY DEF Flush
<1>2. CASE tab[t].pending = NoText
  <2>1. then # "stay" /\ Go(t, tab[t], then) /\ UNCHANGED <<drafts, writing>>
    BY <1>2 DEF Flush
  <2> QED
    BY <1>1, <1>2, <2>1, GoStep
<1>3. CASE tab[t].pending # NoText
  <2>1. StartWrite(t, w)
    BY <1>3 DEF Flush
  <2>2. tab[t].pending \in Texts /\ tab[t].slot \in Slots /\ tab[t].page = "editing" /\ writing[t] = NoWrite
    BY <1>1, <1>3 DEF IInv, TabInv, PageInv, TypeOK, Editing
  <2>3. w \in WriteRow
    BY <2>2, NothingTypes DEF WriteRow
  <2>4. WriteFor(t, w) /\ w.stage = "none"
    BY <2>2 DEF WriteFor, Key
  <2> HIDE DEF w
  <2> QED
    BY <2>1, <2>2, <2>3, <2>4, StartWriteStep
<1> QED
  BY <1>2, <1>3

(* A page is gone without flushing. *)
LEMMA CrashStep == ASSUME IInv, NEW t \in Tabs, Crash(t) PROVE IInv'
<1>1. TypeOK /\ ServerInv
  BY DEF IInv
<1>2. /\ tab' = [tab EXCEPT ![t] = NoPage] /\ removed' = removed \ {t}
      /\ chain' = [chain EXCEPT ![t] = NoSave] /\ get' = [get EXCEPT ![t] = NoAnswer]
      /\ writing' = [writing EXCEPT ![t] = NoWrite] /\ acked' = [acked EXCEPT ![t] = 0]
      /\ uncounted' = IF writing[t].stage = "count" THEN uncounted \cup ({writing[t].key} \cap Kept)
                      ELSE uncounted
      /\ UNCHANGED <<server, draft, stale, took, typed, loaded, visits>>
  BY DEF Crash, bounds
<1>3. /\ tab' \in [Tabs -> TabRow] /\ tab'[t] = NoPage
      /\ \A u \in Tabs \ {t} : tab'[u] = tab[u]
      /\ \A u \in Tabs : tab'[u].page = "editing" <=> tab'[u].slot \in Slots
  <2>1. NoPage.page # "editing" /\ NoPage.slot \notin Slots
    BY DEF NoPage
  <2> QED
    BY <1>1, <1>2, <2>1, NothingTypes, PageTypes
<1>4. /\ chain' \in [Tabs -> SaveRow] /\ chain'[t] = NoSave
      /\ get' \in [Tabs -> AnswerRow] /\ get'[t] = NoAnswer
      /\ writing' \in [Tabs -> WriteRow] /\ writing'[t] = NoWrite
      /\ \A u \in Tabs \ {t} : chain'[u] = chain[u] /\ get'[u] = get[u] /\ writing'[u] = writing[u]
  BY <1>1, <1>2, NothingTypes DEF TypeOK, SaveRow, AnswerRow, WriteRow
<1>5. /\ acked' \in [Tabs -> Versions] /\ acked'[t] = 0
      /\ \A u \in Tabs \ {t} : acked'[u] = acked[u]
  BY <1>1, <1>2 DEF TypeOK, Versions
<1>6. uncounted \subseteq uncounted' /\ uncounted' \subseteq Kept'
  BY <1>1, <1>2 DEF TypeOK, Kept
<1>7. TypeOK'
  BY <1>1, <1>2, <1>3, <1>4, <1>5, <1>6 DEF TypeOK, TabRow, SaveRow, AnswerRow, WriteRow, Kept
<1>8. StepOf(t)
  BY <1>1, <1>2, <1>3, <1>4, <1>5, RowTypes DEF StepOf
<1>9. Key(t)' = NoSlot
  BY <1>3, <1>4 DEF Key, NoPage, NoSave
<1>10. TabInv(t)'
  BY <1>3, <1>4, <1>9
  DEF TabInv, PageInv, LoadInv, SaveInv, WriteInv, DraftInv, NoPage, NoSave, NoWrite
<1>11. CountedInv'
  <2>1. SUFFICES ASSUME NEW s \in Slots, s \in Kept', s \notin uncounted', s \notin Counting'
                 PROVE  s \in Kept /\ s \notin uncounted /\ s \notin Counting
    BY CountedStep
  <2>2. s \in Kept /\ s \notin uncounted
    BY <1>2, <1>6, <2>1 DEF Kept
  <2>3. s \notin Counting
    BY <1>2, <1>4, <2>1, <2>2, CountingStep
  <2> QED
    BY <2>2, <2>3
<1> QED
  BY <1>1, <1>2, <1>5, <1>7, <1>8, <1>9, <1>10, <1>11, StepHolds DEF ServerInv, TypeOK, Versions

-----------------------------------------------------------------------------
(* The server takes a save. *)
LEMMA TakeSaveStep == ASSUME IInv, NEW t \in Tabs, TakeSave(t) PROVE IInv'
<1> DEFINE version == IF chain[t].text = server.text THEN server.version ELSE server.version + 1
           row == [chain[t] EXCEPT !.stage = "taken", !.version = version]
<1>1. TypeOK /\ TabInv(t) /\ ServerInv
  BY DEF IInv
<1>2. /\ chain[t].stage = "sent" /\ version <= MaxVersion
      /\ server' = [text |-> chain[t].text, version |-> version]
      /\ took' = took \cup {chain[t].text}
      /\ chain' = [chain EXCEPT ![t] = row]
      /\ UNCHANGED <<draft, stale, removed, uncounted, tab, get, writing, acked, typed, loaded, visits>>
  BY DEF TakeSave, drafts, bounds
<1>3. /\ chain[t] \in SaveRow /\ chain[t].text \in Texts /\ chain[t].key \in Slots
      /\ tab[t].page = "editing" => chain[t].key = tab[t].slot
  BY <1>1, <1>2, RowTypes DEF TabInv, SaveInv
<1>4. version \in Versions /\ version \in Nat /\ server.version \in Nat /\ server.version <= version
  BY <1>1, <1>2 DEF TypeOK, Versions
<1>5. server'.text = chain[t].text /\ server'.version = version
  BY <1>2
<1> HIDE DEF version
<1>6. /\ row \in SaveRow /\ row.stage = "taken" /\ row.text = chain[t].text /\ row.key = chain[t].key
      /\ row.version = version
  BY <1>3, <1>4 DEF SaveRow
<1> HIDE DEF row
<1>7. /\ chain' \in [Tabs -> SaveRow] /\ chain'[t] = row
      /\ \A u \in Tabs \ {t} : chain'[u] = chain[u]
  BY <1>1, <1>2, <1>6 DEF TypeOK, SaveRow
<1>8. TypeOK'
  BY <1>1, <1>2, <1>3, <1>4, <1>7 DEF TypeOK, SaveRow, Kept
<1>9. StepOf(t)
  BY <1>2, <1>4, <1>5, <1>7 DEF StepOf
<1>10. Key(t)' = Key(t)
  BY <1>2, <1>6, <1>7 DEF Key
<1>11. PageInv(t)' /\ DraftInv(t)'
  BY <1>1, <1>2, <1>10 DEF TabInv, PageInv, DraftInv, Tracked
<1>12. LoadInv(t)'
  BY <1>1, <1>2 DEF TabInv, LoadInv, NoSave
<1>13. SaveInv(t)'
  BY <1>2, <1>3, <1>4, <1>5, <1>6, <1>7 DEF SaveInv
<1>14. WriteInv(t)'
  BY <1>1, <1>2, <1>6, <1>7, <1>10 DEF TabInv, WriteInv, WriteFor, NoSave
<1>15. CountedInv'
  BY <1>2 DEF IInv, CountedInv, Counting, Kept
<1>16. \A u \in Tabs \ {t} : Key(t)' \in Slots => Key(t)' # Key(u)
  BY <1>10 DEF IInv, KeysInv
<1>17. server'.text \in took' /\ acked'[t] <= server'.version
  <2>1. acked[t] \in Nat /\ acked[t] <= server.version
    BY <1>1, RowTypes DEF ServerInv
  <2> QED
    BY <1>2, <1>4, <1>5, <2>1
<1> QED
  BY <1>8, <1>9, <1>11, <1>12, <1>13, <1>14, <1>15, <1>16, <1>17, StepHolds DEF TabInv

(* A save fails; the draft stays. *)
LEMMA SaveFailsStep == ASSUME IInv, NEW t \in Tabs, SaveFails(t) PROVE IInv'
<1>1. TypeOK /\ TabInv(t) /\ ServerInv
  BY DEF IInv
<1>2. /\ writing[t] = NoWrite /\ chain' = [chain EXCEPT ![t] = NoSave]
      /\ UNCHANGED <<server, draft, stale, removed, uncounted, tab, get, writing, took, acked, typed, loaded, visits>>
  BY DEF SaveFails, drafts, history, bounds
<1>3. /\ chain' \in [Tabs -> SaveRow] /\ chain'[t] = NoSave
      /\ \A u \in Tabs \ {t} : chain'[u] = chain[u]
  BY <1>1, <1>2, NothingTypes DEF TypeOK, SaveRow
<1>4. TypeOK'
  BY <1>1, <1>2, <1>3 DEF TypeOK, SaveRow, Kept
<1>5. StepOf(t)
  BY <1>1, <1>2, <1>3, RowTypes DEF StepOf
<1>6. Key(t)' \in {Key(t), NoSlot}
  BY <1>2, <1>3 DEF Key, NoSave
<1>7. PageInv(t)' /\ LoadInv(t)' /\ SaveInv(t)' /\ WriteInv(t)'
  BY <1>1, <1>2, <1>3 DEF TabInv, PageInv, LoadInv, SaveInv, WriteInv, NoSave, NoWrite
<1>8. DraftInv(t)'
  BY <1>1, <1>2, <1>6 DEF TabInv, DraftInv, Tracked
<1>9. CountedInv'
  BY <1>2 DEF IInv, CountedInv, Counting, Kept
<1>10. \A u \in Tabs \ {t} : Key(t)' \in Slots => Key(t)' # Key(u)
  BY <1>6 DEF IInv, KeysInv
<1> QED
  BY <1>1, <1>2, <1>4, <1>5, <1>7, <1>8, <1>9, <1>10, StepHolds DEF TabInv, ServerInv

(* A save is confirmed: what it saved is no draft any more. *)
LEMMA AnswerStep == ASSUME IInv, NEW t \in Tabs, Answer(t) PROVE IInv'
<1> DEFINE c == chain[t]
           own == tab[t].own
<1>1. TypeOK /\ TabInv(t)
  BY DEF IInv
<1>2. c.stage = "taken" /\ writing[t] = NoWrite
  BY DEF Answer
<1>3. /\ c.text \in Texts /\ c.key \in Slots /\ Key(t) = c.key
      /\ draft \in [Slots -> MaybeText] /\ writing \in [Tabs -> WriteRow]
  BY <1>1, <1>2 DEF TabInv, SaveInv, Key, TypeOK, WriteRow
<1>4. /\ draft[c.key] \in {NoText, own}
      /\ tab[t].page = "editing" /\ draft[c.key] = NoText => own = NoText \/ t \in removed
  BY <1>1, <1>2, <1>3 DEF TabInv, DraftInv, Tracked, NoWrite
<1>5. CASE own \in {NoText, c.text}
  <2> DEFINE d == IF own = c.text THEN Without(draft, {c.key}) ELSE draft
             held == {l \in tab[t].others : l.text = c.text}
             gone == {l.key : l \in {l \in held : d[l.key] = c.text}}
             left == Without(d, gone)
  <2>1. AnswerEnds(t, d, {}) /\ UNCHANGED writing
    BY <1>5 DEF Answer
  <2>2. Become(left, t, {})
    BY <2>1 DEF AnswerEnds
  <2> DEFINE key == {c.key}
             cleared == Without(draft, key)
  <2> HIDE DEF key
  <2>3. /\ cleared \in [Slots -> MaybeText]
        /\ \A s \in Slots : cleared[s] = IF s \in key THEN NoText ELSE draft[s]
    <3>1. draft \in [Slots -> MaybeText]
      BY <1>3
    <3>2. cleared \in [Slots -> MaybeText]
      BY <3>1, WithoutTypes
    <3>3. \A s \in Slots : cleared[s] = IF s \in key THEN NoText ELSE draft[s]
      BY <3>1, WithoutTypes
    <3> QED
      BY <3>2, <3>3
  <2> HIDE DEF cleared
  <2>4. /\ d \in [Slots -> MaybeText] /\ d[c.key] = NoText
        /\ \A s \in Slots \ {c.key} : d[s] = draft[s]
    <3>1. d = IF own = c.text THEN cleared ELSE draft
      BY DEF cleared, key
    <3> HIDE DEF d
    <3> QED
      BY <1>3, <1>4, <1>5, <2>3, <3>1 DEF key
  <2> HIDE DEF d, gone
  <2>5. left \in [Slots -> MaybeText] /\ \A s \in Slots : left[s] = IF s \in gone THEN NoText ELSE d[s]
    BY <2>4, WithoutTypes
  <2> HIDE DEF left
  <2>6. CountedInv'
    <3>1. \A s \in Slots \ Kept : left[s] # NoText => s \in {}
      BY <1>3, <2>4, <2>5 DEF Kept
    <3>2. \A s \in {} \ Kept : s \in Counting'
      OBVIOUS
    <3>3. {} \in SUBSET Slots /\ \A s \in {} : left[s] # NoText
      OBVIOUS
    <3>4. writing[t].stage # "count" /\ \A u \in Tabs \ {t} : writing'[u] = writing[u]
      BY <1>2, <2>1 DEF NoWrite
    <3> QED
      BY <2>2, <2>5, <3>1, <3>2, <3>3, <3>4, CountedAfter
  <2>7. NoText = IF tab[t].own = chain[t].text THEN NoText ELSE tab[t].own
    BY <1>5
  <2> QED
    BY <1>2, <1>3, <2>1, <2>4, <2>6, <2>7, AnswerEndsStep
<1>6. CASE own \notin {NoText, c.text}
  <2> DEFINE w == [stage |-> "none", text |-> own, key |-> c.key, then |-> "answer"]
  <2>1. StartWrite(t, w)
    BY <1>6 DEF Answer
  <2>2. own \in Texts
    BY <1>1, <1>6, RowTypes DEF TabRow, MaybeText
  <2>3. w \in WriteRow
    BY <1>3, <2>2, NothingTypes DEF WriteRow
  <2>4. WriteFor(t, w) /\ w.stage = "none"
    BY <1>2, <1>3, <1>6, <2>2 DEF WriteFor
  <2> HIDE DEF w
  <2> QED
    BY <1>2, <2>1, <2>3, <2>4, StartWriteStep
<1> QED
  BY <1>5, <1>6

(* An hour passes over a slot. *)
LEMMA AgeStep == ASSUME IInv, NEW s \in Slots, Age(s) PROVE IInv'
<1>1. /\ s \in Kept /\ stale' = stale \cup {s}
      /\ UNCHANGED <<server, draft, removed, uncounted, tab, chain, get, writing, took, acked, typed, loaded, visits>>
  BY DEF Age, history, bounds
<1>2. TypeOK'
  BY <1>1 DEF IInv, TypeOK, Kept
<1>3. ServerInv' /\ KeysInv' /\ CountedInv'
  BY <1>1 DEF IInv, ServerInv, KeysInv, Key, CountedInv, Counting, Kept
<1>4. ASSUME NEW t \in Tabs PROVE TabInv(t)'
  <2>1. TabInv(t)
    BY DEF IInv
  <2>2. Key(t)' = Key(t) /\ Tracked(t)' = Tracked(t)
    BY <1>1 DEF Key, Tracked
  <2>3. PageInv(t)' /\ LoadInv(t)' /\ SaveInv(t)' /\ DraftInv(t)'
    BY <1>1, <2>1, <2>2 DEF TabInv, PageInv, LoadInv, SaveInv, DraftInv
  <2>4. WriteInv(t)'
    BY <1>1, <2>1, <2>2 DEF TabInv, WriteInv, WriteFor
  <2> QED
    BY <2>3, <2>4 DEF TabInv
<1> QED
  BY <1>2, <1>3, <1>4 DEF IInv

-----------------------------------------------------------------------------
LEMMA InvInit == Init => IInv
<1> SUFFICES ASSUME Init PROVE IInv
  OBVIOUS
<1>1. TypeOK
  <2>1. 0 \in Versions /\ FirstText \in MaybeText /\ FirstText \in Texts
    BY NothingTypes DEF Versions
  <2>2. Kept = {}
    BY DEF Init, Kept
  <2>3. NoPage \in TabRow /\ NoPage.page # "editing" /\ NoPage.slot \notin Slots
    BY NothingTypes DEF NoPage
  <2>4. 0 \in 0..MaxTyped /\ 0 \in 0..MaxLoaded /\ 0 \in 0..MaxVisits
    OBVIOUS
  <2> HIDE DEF NoPage
  <2> QED
    BY <2>1, <2>2, <2>3, <2>4, NothingTypes DEF Init, TypeOK, TabRow, SaveRow, AnswerRow, WriteRow
<1>2. ServerInv
  BY DEF Init, ServerInv
<1>3. \A t \in Tabs : Key(t) = NoSlot
  BY DEF Init, Key, NoPage, NoSave
<1>4. KeysInv
  BY <1>3 DEF KeysInv
<1>5. ASSUME NEW t \in Tabs PROVE TabInv(t)
  BY <1>3 DEF Init, TabInv, PageInv, LoadInv, SaveInv, WriteInv, DraftInv, NoPage, NoSave, NoWrite
<1>6. CountedInv
  <2>1. (Kept \ uncounted) \ Counting = {}
    BY DEF Init, Kept
  <2> QED
    BY <2>1, FS_EmptySet DEF CountedInv
<1> QED
  BY <1>1, <1>2, <1>4, <1>5, <1>6 DEF IInv

LEMMA InvStep == IInv /\ [Next]_vars => IInv'
<1> SUFFICES ASSUME IInv, [Next]_vars PROVE IInv'
  OBVIOUS
<1>1. CASE UNCHANGED vars
  <2>1. UNCHANGED <<server, draft, stale, removed, uncounted, tab, chain, get, writing, took, acked,
                    typed, loaded, visits>>
    BY <1>1 DEF vars, drafts, history, bounds
  <2>2. TypeOK' /\ ServerInv' /\ KeysInv' /\ CountedInv'
    BY <2>1 DEF IInv, TypeOK, ServerInv, KeysInv, Key, CountedInv, Counting, Kept
  <2>3. ASSUME NEW t \in Tabs PROVE TabInv(t)'
    BY <2>1 DEF IInv, TabInv, PageInv, LoadInv, SaveInv, WriteInv, WriteFor, DraftInv, Tracked, Key
  <2> QED
    BY <2>2, <2>3 DEF IInv
<1>2. CASE \E s \in Slots : Age(s)
  BY <1>2, AgeStep
<1>3. ASSUME NEW t \in Tabs,
             \/ Open(t) \/ Ask(t) \/ LoadShows(t) \/ LoadGivenUp(t)
             \/ \E text \in Texts : Type(t, text)
             \/ \E l \in tab[t].others : LoadOther(t, l) \/ DiscardOther(t, l)
             \/ Refresh(t) \/ HearRemoval(t)
             \/ Debounce(t) \/ PressSave(t) \/ Leave(t) \/ Crash(t)
             \/ Rewrite(t) \/ Create(t) \/ WriteFails(t) \/ Count(t)
             \/ TakeSave(t) \/ SaveFails(t) \/ Answer(t)
      PROVE  IInv'
  <2>1. CASE Open(t) \/ Ask(t) \/ LoadShows(t) \/ LoadGivenUp(t)
    BY <2>1, OpenStep, AskStep, LoadShowsStep, LoadGivenUpStep
  <2>2. CASE \E text \in Texts : Type(t, text)
    BY <2>2, TypeStep
  <2>3. CASE \E l \in tab[t].others : LoadOther(t, l) \/ DiscardOther(t, l)
    BY <2>3, LoadOtherStep, DiscardOtherStep
  <2>4. CASE Refresh(t) \/ HearRemoval(t)
    BY <2>4, RefreshStep, HearRemovalStep
  <2>5. CASE Debounce(t) \/ PressSave(t) \/ Leave(t)
    BY <2>5, FlushStep DEF Debounce, PressSave, Leave
  <2>6. CASE Rewrite(t) \/ WriteFails(t) \/ Create(t) \/ Count(t)
    BY <2>6, RewriteStep, CreateStep, CountStep
  <2>7. CASE Crash(t) \/ TakeSave(t) \/ SaveFails(t) \/ Answer(t)
    BY <2>7, CrashStep, TakeSaveStep, SaveFailsStep, AnswerStep
  <2> QED
    BY <1>3, <2>1, <2>2, <2>3, <2>4, <2>5, <2>6, <2>7
<1> QED
  BY <1>1, <1>2, <1>3 DEF Next

LEMMA Inductive == Spec => []IInv
  BY InvInit, InvStep, PTL DEF Spec

-----------------------------------------------------------------------------
(* What a page takes its own draft to be is so, in every tab, whatever other  *)
(* tabs remove (flushDraft, onStorage): a confirmed save clears what it must. *)
THEOREM OwnDraftTracked == Spec => []Inv
<1>1. IInv => Inv
  <2> SUFFICES ASSUME IInv, NEW t \in Tabs, Editing(t)
               PROVE  IF tab[t].slot \in Kept THEN draft[tab[t].slot] = tab[t].own
                      ELSE tab[t].own = NoText \/ t \in removed
    BY DEF IInv, Inv, OwnIsTracked
  <2>1. Key(t) = tab[t].slot /\ tab[t].slot \in Slots
    BY DEF Editing, Key, IInv, TypeOK
  <2> QED
    BY <2>1 DEF IInv, TabInv, DraftInv, Tracked, Editing, NoWrite, Kept
<1> QED
  BY <1>1, Inductive, PTL

(* Between keystrokes the draft in a page's slot is what is on its screen     *)
(* (handleContentChange, flushDraft, handleSave).                             *)
THEOREM DraftsAreCurrent == Spec => []DraftIsShown
<1>1. IInv => DraftIsShown
  <2> SUFFICES ASSUME IInv, NEW t \in Tabs, Editing(t), tab[t].pending = NoText, tab[t].slot \in Kept
               PROVE  draft[tab[t].slot] = tab[t].shown
    BY DEF DraftIsShown
  <2>1. Key(t) = tab[t].slot /\ tab[t].slot \in Slots
    BY DEF Editing, Key, Kept
  <2>2. draft[tab[t].slot] = tab[t].own
    BY <2>1 DEF IInv, TabInv, DraftInv, Tracked, Editing, NoWrite, Kept
  <2> QED
    BY <2>2 DEF IInv, TabInv, PageInv, Editing, Kept
<1> QED
  BY <1>1, Inductive, PTL

(* No page shows a text older than its own confirmed saves (saveChains): a    *)
(* load is answered after them.                                               *)
THEOREM OwnSavesSeen == Spec => []SavesAreSeen
<1>1. IInv => SavesAreSeen
  <2> SUFFICES ASSUME IInv, NEW t \in Tabs, tab[t].page = "editing"
               PROVE  tab[t].base >= acked[t]
    BY DEF SavesAreSeen
  <2>1. tab[t].base \in Nat /\ acked[t] \in Nat
    BY RowTypes DEF IInv, TabRow, Versions
  <2>2. acked[t] <= tab[t].base
    BY DEF IInv, TabInv, PageInv
  <2> QED
    BY <2>1, <2>2
<1> QED
  BY <1>1, Inductive, PTL

(* However many tabs write at once, no more drafts than the cap are kept, but *)
(* for those not counted yet, or noted as never counted (makeRoom, saveDraft).*)
THEOREM DraftsFit == Spec => []CapHolds
<1>1. IInv => CapHolds
  <2> SUFFICES ASSUME IInv PROVE CapHolds
    OBVIOUS
  <2> DEFINE counted == (Kept \ uncounted) \ Counting
             writers == {t \in Tabs : writing[t].stage = "count"}
             writer == [s \in Counting |-> CHOOSE t \in Tabs : writing[t].stage = "count" /\ writing[t].key = s]
  <2>1. ASSUME NEW s \in Counting
        PROVE  writer[s] \in writers /\ writing[writer[s]].key = s
    BY DEF Counting
  <2>2. writer \in Injection(Counting, writers)
    <3>1. writer \in [Counting -> writers]
      BY <2>1
    <3>2. \A r, s \in Counting : writer[r] = writer[s] => r = s
      BY <2>1
    <3> QED
      BY <3>1, <3>2 DEF Injection, IsInjective
  <2>3. IsFiniteSet(writers)
    BY FS_Subset
  <2>4. /\ IsFiniteSet(Counting) /\ Cardinality(Counting) <= Cardinality(writers)
        /\ Cardinality(Counting) \in Nat /\ Cardinality(writers) \in Nat
    BY <2>2, <2>3, FS_Injection, FS_CardinalityType
  <2>5. IsFiniteSet(counted) /\ Cardinality(counted) \in Nat
    <3>1. counted \in SUBSET Slots
      BY DEF Kept
    <3> QED
      BY <3>1, FS_Subset, FS_CardinalityType
  <2>6. Cardinality(counted) <= Cap
    BY DEF IInv, CountedInv
  <2> DEFINE both == counted \cup Counting
  <2>7. /\ IsFiniteSet(both) /\ Cardinality(both) \in Nat
        /\ Cardinality(both) = Cardinality(counted) + Cardinality(Counting) - Cardinality(counted \cap Counting)
        /\ Cardinality(counted \cap Counting) \in Nat
    BY <2>4, <2>5, FS_Union, FS_Intersection, FS_CardinalityType
  <2>8. /\ Cardinality(Kept \ uncounted) <= Cardinality(both)
        /\ Cardinality(Kept \ uncounted) \in Nat
    <3>1. Kept \ uncounted \in SUBSET both
      OBVIOUS
    <3> QED
      BY <2>7, <3>1, FS_Subset, FS_CardinalityType
  <2>9. SUFFICES Cardinality(Kept \ uncounted) <= Cap + Cardinality(writers)
    BY DEF CapHolds
  <2> DEFINE m == Cardinality(counted)
             n == Cardinality(Counting)
             k == Cardinality(writers)
             i == Cardinality(counted \cap Counting)
             b == Cardinality(both)
             a == Cardinality(Kept \ uncounted)
  <2>10. /\ a <= b /\ b = m + n - i /\ m <= Cap /\ n <= k
         /\ a \in Nat /\ b \in Nat /\ m \in Nat /\ n \in Nat /\ k \in Nat /\ i \in Nat /\ Cap \in Nat
    BY <2>4, <2>5, <2>6, <2>7, <2>8
  <2> HIDE DEF m, n, k, i, b, a
  <2>11. a <= Cap + k
    BY <2>10
  <2> QED
    BY <2>11 DEF a, k
<1> QED
  BY <1>1, Inductive, PTL

-----------------------------------------------------------------------------
(* Other drafts stay when a write ends, or go because the server has their text. *)
LEMMA ThenStays ==
  ASSUME IInv, NEW t \in Tabs, NEW w \in WriteRow, NEW ok \in BOOLEAN,
         NEW d \in [Slots -> MaybeText], WriteFor(t, w), Then(t, d, w, ok),
         NEW s \in Slots \ {w.key}, d[s] = draft[s]
  PROVE  draft'[s] = draft[s] \/ draft[s] \in took
<1>1. PICK left \in [Slots -> MaybeText] :
        /\ Become(left, t, Written(w, ok))
        /\ left[s] = d[s] \/ (w.then = "answer" /\ d[s] = chain[t].text)
  BY ThenBecomes
<1>2. draft' = left
  BY <1>1 DEF Become
<1>3. w.then = "answer" => chain[t].text \in took
  BY DEF WriteFor, IInv, TabInv, SaveInv
<1> QED
  BY <1>1, <1>2, <1>3

(* A removal takes the drafts it is for. *)
LEMMA RemovesOnly ==
  ASSUME IInv, NEW t \in Tabs, NEW keys, Become(Without(draft, keys), t, {}), NEW s \in Slots \ keys
  PROVE  draft'[s] = draft[s]
<1>1. draft \in [Slots -> MaybeText] /\ draft' = Without(draft, keys)
  BY DEF IInv, TypeOK, Become
<1>2. \A r \in Slots : Without(draft, keys)[r] = IF r \in keys THEN NoText ELSE draft[r]
  BY <1>1, WithoutTypes
<1> QED
  BY <1>1, <1>2

LEMMA StartWriteStays ==
  ASSUME IInv, NEW t \in Tabs, NEW w \in WriteRow, WriteFor(t, w), StartWrite(t, w), NEW s \in Kept
  PROVE  draft'[s] = draft[s] \/ draft[s] \in took \/ s \in stale
<1>1. s \in Slots /\ draft[s] # NoText /\ draft \in [Slots -> MaybeText]
  BY DEF Kept, IInv, TypeOK
<1>2. CASE UNCHANGED drafts
  BY <1>2 DEF drafts
<1>3. ASSUME NEW keys \in Room, Become(Without(draft, keys), t, {})
      PROVE  draft'[s] = draft[s] \/ s \in stale
  BY <1>1, <1>3, RoomIsStale, RemovesOnly
<1>4. CASE draft[w.key] = NoText /\ Then(t, draft, w, FALSE)
  <2>1. s \in Slots \ {w.key} /\ draft[s] = draft[s]
    BY <1>1, <1>4
  <2> QED
    BY <1>1, <1>4, <2>1, ThenStays
<1> QED
  BY <1>2, <1>3, <1>4 DEF StartWrite

(* A draft goes, or is written over, only by its own page, or when the server *)
(* has had its text, the author discards it, or nobody wrote to it for long   *)
(* (saveDraft, makeRoom, removeDraftIfUnchanged, pruneStaleDrafts).           *)
THEOREM DraftsKept == Spec => DraftsStay
<1> DEFINE Reason(s) ==
             \/ draft'[s] = draft[s]
             \/ draft[s] \in took
             \/ s \in stale
             \/ \E t \in Tabs : writing[t].key = s
             \/ \E t \in Tabs : \E l \in tab[t].others : l.key = s /\ DiscardOther(t, l)
           A == \A s \in Kept : Reason(s)
<1>1. ASSUME IInv, Next, NEW s \in Kept
      PROVE  Reason(s)
  <2>1. s \in Slots /\ draft[s] # NoText /\ draft \in [Slots -> MaybeText]
    BY <1>1 DEF Kept, IInv, TypeOK
  <2>2. CASE \E r \in Slots : Age(r)
    BY <2>2 DEF Age
  <2>3. ASSUME NEW t \in Tabs, Open(t) \/ Ask(t) \/ LoadShows(t) \/ LoadGivenUp(t)
        PROVE  Reason(s)
    <3>1. CASE Open(t)
      <4>1. PICK keys \in SUBSET (Kept \cap stale) :
              UNCHANGED drafts \/ Become(Without(draft, keys), t, {})
        BY <3>1 DEF Open, Prune
      <4> QED
        BY <1>1, <2>1, <4>1, RemovesOnly DEF drafts
    <3>2. CASE LoadShows(t)
      <4> DEFINE keys == {r \in Kept : draft[r] = get[t].text}
      <4>1. Become(Without(draft, keys), t, {}) /\ get[t] # NoAnswer
        BY <3>2 DEF LoadShows
      <4>2. get[t].text \in took
        BY <1>1, <4>1 DEF IInv, TabInv, LoadInv
      <4>3. s \in keys => draft[s] \in took
        BY <4>2
      <4> HIDE DEF keys
      <4> QED
        BY <1>1, <2>1, <4>1, <4>3, RemovesOnly
    <3> QED
      BY <2>3, <3>1, <3>2 DEF Ask, LoadGivenUp, drafts
  <2>4. ASSUME NEW t \in Tabs,
               \/ \E text \in Texts : Type(t, text)
               \/ \E l \in tab[t].others : LoadOther(t, l) \/ DiscardOther(t, l)
               \/ Refresh(t) \/ HearRemoval(t) \/ Crash(t) \/ TakeSave(t) \/ SaveFails(t)
        PROVE  Reason(s)
    <3>1. ASSUME NEW l \in tab[t].others, DiscardOther(t, l)
          PROVE  Reason(s)
      <4>1. Become(Without(draft, {l.key}), t, {})
        BY <3>1 DEF DiscardOther
      <4>2. s \notin {l.key} => draft'[s] = draft[s]
        BY <1>1, <2>1, <4>1, RemovesOnly
      <4> QED
        BY <3>1, <4>2
    <3>2. CASE \/ \E text \in Texts : Type(t, text)
               \/ \E l \in tab[t].others : LoadOther(t, l)
               \/ Refresh(t) \/ HearRemoval(t) \/ Crash(t) \/ TakeSave(t) \/ SaveFails(t)
      <4>1. UNCHANGED draft
        BY <3>2 DEF Type, LoadOther, Show, Refresh, HearRemoval, Crash, TakeSave, SaveFails, drafts
      <4> QED
        BY <4>1
    <3> QED
      BY <2>4, <3>1, <3>2
  <2>5. ASSUME NEW t \in Tabs, NEW then \in {"stay", "save", "leave"}, Flush(t, then),
               then = "save" => chain[t] = NoSave
        PROVE  Reason(s)
    <3> DEFINE w == [stage |-> "none", text |-> tab[t].pending, key |-> tab[t].slot, then |-> then]
    <3>1. Editing(t)
      BY <2>5 DEF Flush
    <3>2. CASE tab[t].pending = NoText
      BY <2>5, <3>2 DEF Flush, drafts
    <3>3. CASE tab[t].pending # NoText
      <4>1. StartWrite(t, w)
        BY <2>5, <3>3 DEF Flush
      <4>2. tab[t].pending \in Texts /\ tab[t].slot \in Slots /\ tab[t].page = "editing"
        BY <1>1, <3>1, <3>3 DEF IInv, TabInv, PageInv, TypeOK, Editing
      <4>3. w \in WriteRow
        BY <4>2, NothingTypes DEF WriteRow
      <4>4. WriteFor(t, w)
        BY <2>5, <4>2 DEF WriteFor, Key
      <4> HIDE DEF w
      <4>5. draft'[s] = draft[s] \/ draft[s] \in took \/ s \in stale
        BY <1>1, <4>1, <4>3, <4>4, StartWriteStays
      <4> QED
        BY <4>5
    <3> QED
      BY <3>2, <3>3
  <2>6. ASSUME NEW t \in Tabs, Rewrite(t) \/ WriteFails(t) \/ Create(t) \/ Count(t),
               s # writing[t].key
        PROVE  Reason(s)
    <3> DEFINE w == writing[t]
    <3>1. w \in WriteRow /\ w.stage # "none" /\ s \in Slots \ {w.key}
      BY <1>1, <2>1, <2>6, RowTypes DEF IInv, Rewrite, WriteFails, Create, Count
    <3>2. WriteFor(t, w)
      BY <1>1, <3>1 DEF IInv, TabInv, WriteInv
    <3>3. w.key \in Slots /\ w.text \in MaybeText
      BY <3>2, NothingTypes DEF WriteFor
    <3> DEFINE over == [draft EXCEPT ![w.key] = w.text]
               less == Without(draft, {w.key})
    <3>4. over \in [Slots -> MaybeText] /\ over[s] = draft[s]
      BY <2>1, <3>1, <3>3
    <3>5. less \in [Slots -> MaybeText] /\ less[s] = draft[s]
      <4>1. less \in [Slots -> MaybeText] /\ \A r \in Slots : less[r] = IF r \in {w.key} THEN NoText ELSE draft[r]
        BY <2>1, WithoutTypes
      <4> QED
        BY <3>1, <4>1
    <3>6. CASE Create(t)
      <4>1. draft' = over
        BY <3>6 DEF Create, Become
      <4> QED
        BY <3>4, <4>1
    <3>7. CASE Rewrite(t) \/ WriteFails(t) \/ Count(t)
      <4>1. \E ok \in BOOLEAN : Then(t, over, w, ok) \/ Then(t, draft, w, ok) \/ Then(t, less, w, ok)
        <5>1. CASE Rewrite(t) \/ WriteFails(t)
          BY <5>1 DEF Rewrite, WriteFails
        <5>2. CASE Count(t)
          <6> DEFINE fits == Cardinality(Kept) <= Cap
          <6>1. Then(t, IF fits THEN draft ELSE less, w, fits) /\ fits \in BOOLEAN
            BY <5>2 DEF Count
          <6> HIDE DEF fits, less, over, w
          <6> QED
            BY <6>1
        <5> QED
          BY <3>7, <5>1, <5>2
      <4> HIDE DEF over, less, w
      <4>2. draft'[s] = draft[s] \/ draft[s] \in took
        BY <1>1, <2>1, <3>1, <3>2, <3>4, <3>5, <4>1, ThenStays
      <4> QED
        BY <4>2
    <3> QED
      BY <2>6, <3>6, <3>7
  <2>7. ASSUME NEW t \in Tabs, Answer(t)
        PROVE  Reason(s)
    <3> DEFINE c == chain[t]
               own == tab[t].own
    <3>1. c.stage = "taken" /\ writing[t] = NoWrite /\ TabInv(t)
      BY <1>1, <2>7 DEF Answer, IInv
    <3>2. /\ c.text \in took /\ c.key \in Slots /\ Key(t) = c.key
          /\ draft[c.key] \in {NoText, own}
      BY <3>1 DEF TabInv, SaveInv, DraftInv, Tracked, Key, NoWrite
    <3>3. CASE own \in {NoText, c.text}
      <4> DEFINE less == Without(draft, {c.key})
                 d == IF own = c.text THEN less ELSE draft
                 held == {l \in tab[t].others : l.text = c.text}
                 gone == {l.key : l \in {l \in held : d[l.key] = c.text}}
      <4>1. Become(Without(d, gone), t, {})
        BY <2>7, <3>3 DEF Answer, AnswerEnds
      <4>2. \A r \in gone : d[r] = c.text
        OBVIOUS
      <4>3. less \in [Slots -> MaybeText] /\ \A r \in Slots : less[r] = IF r \in {c.key} THEN NoText ELSE draft[r]
        BY <2>1, WithoutTypes
      <4> HIDE DEF less, gone
      <4>4. d \in [Slots -> MaybeText] /\ (d[s] = draft[s] \/ draft[s] = c.text)
        BY <2>1, <3>2, <4>3
      <4> HIDE DEF d
      <4>5. Without(d, gone)[s] = IF s \in gone THEN NoText ELSE d[s]
        BY <2>1, <4>4, WithoutTypes
      <4>6. draft'[s] = Without(d, gone)[s]
        BY <4>1 DEF Become
      <4> QED
        BY <3>2, <4>2, <4>4, <4>5, <4>6
    <3>4. CASE own \notin {NoText, c.text}
      <4> DEFINE w == [stage |-> "none", text |-> own, key |-> c.key, then |-> "answer"]
      <4>1. StartWrite(t, w)
        BY <2>7, <3>4 DEF Answer
      <4>2. own \in Texts
        BY <1>1, <3>4, RowTypes DEF IInv, TabRow, MaybeText
      <4>3. w \in WriteRow
        BY <3>2, <4>2, NothingTypes DEF WriteRow
      <4>4. WriteFor(t, w)
        BY <3>1, <3>2, <3>4, <4>2 DEF WriteFor
      <4> HIDE DEF w
      <4>5. draft'[s] = draft[s] \/ draft[s] \in took \/ s \in stale
        BY <1>1, <4>1, <4>3, <4>4, StartWriteStays
      <4> QED
        BY <4>5
    <3> QED
      BY <3>3, <3>4
  <2> HIDE DEF Reason
  <2>8. ASSUME NEW t \in Tabs, s = writing[t].key
        PROVE  Reason(s)
    BY <2>8 DEF Reason
  <2>9. CASE \E t \in Tabs : Debounce(t) \/ PressSave(t) \/ Leave(t)
    BY <2>5, <2>9 DEF Debounce, PressSave, Leave
  <2> QED
    BY <1>1, <2>2, <2>3, <2>4, <2>6, <2>7, <2>8, <2>9 DEF Next
<1>2. IInv /\ [Next]_vars => [A]_vars
  BY <1>1
<1> QED
  BY <1>2, Inductive, PTL DEF Spec, DraftsStay

===============================================================================
