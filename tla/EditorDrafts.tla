----------------------------- MODULE EditorDrafts -----------------------------
(***************************************************************************)
(* The manuscript editor of one episode in several tabs                    *)
(* (frontend/src/pages/EditorPage.tsx) and the drafts they keep in the     *)
(* browser's storage (utils/draft.ts, safeStorage.ts): typing, saves and   *)
(* loads that overlap when the author leaves the editor and returns,       *)
(* slots at their cap, tabs that close or crash, lost answers.             *)
(*                                                                         *)
(* Everything a page does between two waits is one step of its event loop, *)
(* but for saveDraft(): each of its accesses to the storage is a step,     *)
(* since another tab's may come in between (draft.ts, 135-138).  A tab     *)
(* that is writing does nothing else.                                      *)
(*                                                                         *)
(* A version stands for updated_at.  The version a draft was written on    *)
(* top of only changes what the author is asked before loading it, and is  *)
(* left out.                                                               *)
(***************************************************************************)
EXTENDS Naturals, FiniteSets, FiniteSetsExt

CONSTANTS
  Tabs,
  Texts,
  FirstText,   \* the manuscript at first
  NoText,
  Slots,       \* bound: ids that newSlotId may return; one is given again
               \* only when nothing refers to it any more
  NoSlot,
  Cap,         \* MAX_DRAFTS_PER_EPISODE
  MaxVersion,  \* bound: how often the server's text changes
  MaxTyped,    \* bound: how often the author types
  MaxLoaded,   \* bound: how often the author loads a draft
  MaxVisits    \* bound: how often the editor is opened

ASSUME DraftsAssumption ==
  /\ FirstText \in Texts /\ NoText \notin Texts
  /\ IsFiniteSet(Tabs) /\ IsFiniteSet(Slots)
  /\ Slots \subseteq Nat /\ NoSlot \notin Slots
  /\ Cap \in Nat \ {0} /\ {MaxVersion, MaxTyped, MaxLoaded, MaxVisits} \subseteq Nat

VARIABLES
  server,   \* the episode: [text, version]
  draft,    \* the storage: the text of each slot
  stale,    \* slots not written to for STALE_SLOT_MS, or for MAX_DRAFT_AGE_MS
  tab,      \* each tab's page
  removed,  \* tabs that have yet to hear that their slot was removed
  chain,    \* saveChains: the save in flight, a queue of at most one (see PressSave)
  get,      \* a load's answer on its way: [text, version]
  writing,  \* saveDraft() under way
  typed, loaded, visits,  \* how often, for the bounds
  \* History, read by no action:
  took,     \* every text the server has had
  acked,    \* the version of each page's last confirmed save
  uncounted \* slots a rewrite put back, or whose page crashed before it counted them

drafts == <<draft, stale, removed, uncounted>>
history == <<took, acked>>
bounds == <<typed, loaded, visits>>
vars == <<server, drafts, tab, chain, get, writing, history, bounds>>

\* page: "closed", "away" (on another screen), "loading" or "editing".
\* episode and base are serverContentRef and serverUpdatedAtRef; while the
\* page is editing, episode.content is the former.
NoPage ==
  [page |-> "closed", slot |-> NoSlot, shown |-> NoText, episode |-> NoText, base |-> 0,
   pending |-> NoText, own |-> NoText, backupOk |-> TRUE, others |-> {}]
NoSave == [stage |-> "none", text |-> NoText, key |-> NoSlot, version |-> 0]
NoAnswer == [text |-> NoText, version |-> 0]
NoWrite == [stage |-> "none", text |-> NoText, key |-> NoSlot, then |-> "stay"]

Init ==
  /\ server = [text |-> FirstText, version |-> 0]
  /\ draft = [s \in Slots |-> NoText] /\ stale = {} /\ removed = {} /\ uncounted = {}
  /\ tab = [t \in Tabs |-> NoPage]
  /\ chain = [t \in Tabs |-> NoSave]
  /\ get = [t \in Tabs |-> NoAnswer]
  /\ writing = [t \in Tabs |-> NoWrite]
  /\ typed = 0 /\ loaded = 0 /\ visits = 0
  /\ took = {FirstText} /\ acked = [t \in Tabs |-> 0]

Editing(t) == tab[t].page = "editing" /\ writing[t] = NoWrite

-----------------------------------------------------------------------------
(* The storage.                                                            *)

Kept == {s \in Slots : draft[s] # NoText}

Without(d, keys) == [s \in Slots |-> IF s \in keys THEN NoText ELSE d[s]]

\* The drafts become d, by tab t, which wrote these.  A removal is told, by a
\* storage event, to the page whose slot it was.
Become(d, t, written) ==
  LET gone == {s \in Kept : d[s] = NoText} IN
  /\ draft' = d
  /\ stale' = stale \ (gone \cup written)
  /\ uncounted' = (uncounted \ gone) \cup
       (IF writing[t].stage = "rewrite" THEN written \ Kept ELSE {})
  /\ removed' = removed \cup
       {u \in Tabs \ {t} : tab[u].page = "editing" /\ tab[u].slot \in gone}

\* makeRoom(): the slots it may remove for one more, the oldest; {} if too few
\* are stale.
Room ==
  IF Cardinality(Kept) < Cap THEN {{}}
  ELSE kSubset(Cardinality(Kept) - Cap + 1, Kept \cap stale)

\* Time passes, more than a write takes.
Age(s) ==
  /\ s \in Kept \ stale /\ \A t \in Tabs : writing[t].key # s
  /\ stale' = stale \cup {s}
  /\ UNCHANGED <<server, draft, removed, uncounted, tab, chain, get, writing, history, bounds>>

\* pruneStaleDrafts(): of the stale, those nobody came back for in a month.
Prune(t) == \E keys \in SUBSET (Kept \cap stale) : Become(Without(draft, keys), t, {})

-----------------------------------------------------------------------------
(* What a draft is written for.                                            *)

\* The slot w wrote, if it did and wasn't counted since.
Written(w, ok) == IF ok /\ w.stage = "rewrite" THEN {w.key} ELSE {}

Listed(s, text) == [key |-> s, text |-> text]

\* listOtherDrafts() among d, without what the server holds.
Others(d, slot, held) ==
  {Listed(s, d[s]) : s \in {s \in Slots \ {slot} : d[s] \notin {NoText, held}}}

\* What flushDraft() was called for, leaving the page as p: nothing more (the
\* debounce, the page hidden), a save of the text shown, or leaving the editor.
Go(t, p, then) ==
  /\ tab' = [tab EXCEPT ![t] =
       IF then = "leave" THEN [NoPage EXCEPT !.page = "away", !.own = p.own] ELSE p]
  /\ chain' = IF then = "save"
                THEN [chain EXCEPT ![t] = [stage |-> "sent", text |-> p.shown, key |-> p.slot, version |-> 0]]
                ELSE chain
  /\ UNCHANGED <<server, get, history, bounds>>

\* Variant: an older text stays in the slot when the write fails.
FlushKeepsDraft(t, d, w, ok) ==
  /\ Become(d, t, Written(w, ok))
  /\ Go(t, [tab[t] EXCEPT !.pending = NoText, !.backupOk = ok,
                          !.own = IF ok THEN w.text ELSE NoText], w.then)

\* flushDraft() goes on, its write done or failed: no draft is safer than a
\* stale one.
FlushEnds(t, d, w, ok) ==
  /\ Become(IF ok THEN d ELSE Without(d, {w.key}), t, Written(w, ok))
  /\ Go(t, [tab[t] EXCEPT !.pending = NoText, !.backupOk = ok,
                          !.own = IF ok THEN w.text ELSE NoText], w.then)

\* Variant: listed drafts are removed as they were when listed.
AnswerDropsListed(t, d, written) ==
  LET c == chain[t]
      p == tab[t]
      held == {l \in p.others : l.text = c.text}
      own == IF p.own = c.text THEN NoText ELSE p.own
  IN
  /\ p.page = "editing"
  /\ Become(Without(d, {l.key : l \in held}), t, written)
  /\ tab' = [tab EXCEPT ![t].base = c.version, ![t].own = own, ![t].episode = c.text,
                        ![t].others = p.others \ held]
  /\ acked' = [acked EXCEPT ![t] = c.version]
  /\ chain' = [chain EXCEPT ![t] = NoSave]
  /\ UNCHANGED <<server, get, took, bounds>>

\* A save is confirmed, its own draft seen to: listed drafts the server now
\* holds are removed if they still are that text, and if not all are, the list
\* is read again.  The slot is held while the page loads: nothing is listed.
AnswerEnds(t, d, written) ==
  LET c == chain[t]
      p == tab[t]
      held == {l \in p.others : l.text = c.text}
      same == {l \in held : d[l.key] = c.text}
      left == Without(d, {l.key : l \in same})
      own == IF p.own = c.text THEN NoText ELSE p.own
  IN
  /\ Become(left, t, written)
  /\ tab' = [tab EXCEPT ![t] =
       CASE p.page = "away" -> [p EXCEPT !.own = own]
         [] p.page = "loading" -> [p EXCEPT !.own = own, !.base = c.version]
         [] OTHER -> [p EXCEPT !.own = own, !.base = c.version, !.episode = c.text,
                               !.others = IF same = held THEN @ \ same
                                          ELSE Others(left, p.slot, c.text)]]
  /\ acked' = [acked EXCEPT ![t] = c.version]
  /\ chain' = [chain EXCEPT ![t] = NoSave]
  /\ UNCHANGED <<server, get, took, bounds>>

Then(t, d, w, ok) == IF w.then = "answer" THEN AnswerEnds(t, d, Written(w, ok)) ELSE FlushEnds(t, d, w, ok)

-----------------------------------------------------------------------------
(* saveDraft().                                                            *)

\* Room is made for a slot that isn't there.  One refused lately (ROOM_RETRY_MS)
\* fails as when the storage is full.
StartWrite(t, w) ==
  LET Wait(stage) == writing' = [writing EXCEPT ![t] = [w EXCEPT !.stage = stage]] IN
  \/ /\ draft[w.key] # NoText
     /\ Wait("rewrite")
     /\ UNCHANGED <<server, drafts, tab, chain, get, history, bounds>>
  \/ \E keys \in Room :
       /\ draft[w.key] = NoText
       /\ Become(Without(draft, keys), t, {})
       /\ Wait("create")
       /\ UNCHANGED <<server, tab, chain, get, history, bounds>>
  \/ /\ draft[w.key] = NoText /\ Room = {}
     /\ Then(t, draft, w, FALSE)
     /\ UNCHANGED writing

\* storageSet(): the slot was there when it was looked for.
Rewrite(t) ==
  LET w == writing[t] IN
  /\ w.stage = "rewrite"
  /\ Then(t, [draft EXCEPT ![w.key] = w.text], w, TRUE)
  /\ writing' = [writing EXCEPT ![t] = NoWrite]

\* storageSet(): it wasn't.
Create(t) ==
  LET w == writing[t] IN
  /\ w.stage = "create"
  /\ Become([draft EXCEPT ![w.key] = w.text], t, {w.key})
  /\ writing' = [writing EXCEPT ![t].stage = "count"]
  /\ UNCHANGED <<server, tab, chain, get, history, bounds>>

\* storageSet() throws: the storage is full or blocked.
WriteFails(t) ==
  LET w == writing[t] IN
  /\ w.stage \in {"rewrite", "create"}
  /\ Then(t, draft, w, FALSE)
  /\ writing' = [writing EXCEPT ![t] = NoWrite]

\* Variant: the drafts are not counted again.
CountOnce(t) ==
  LET w == writing[t] IN
  /\ w.stage = "count"
  /\ Then(t, draft, w, TRUE)
  /\ writing' = [writing EXCEPT ![t] = NoWrite]

Count(t) ==
  LET w == writing[t]
      fits == Cardinality(Kept) <= Cap
  IN
  /\ w.stage = "count"
  /\ Then(t, IF fits THEN draft ELSE Without(draft, {w.key}), w, fits)
  /\ writing' = [writing EXCEPT ![t] = NoWrite]

-----------------------------------------------------------------------------
(* Loading the editor.                                                     *)

\* The page is opened, which prunes the drafts, or returned to: the slot is held
\* until it has loaded.  own outlives a visit, since a save in flight goes by it.
Open(t) ==
  /\ \/ tab[t].page = "closed" /\ Prune(t)
     \/ tab[t].page = "away" /\ UNCHANGED drafts
  /\ writing[t] = NoWrite
  /\ visits < MaxVisits /\ visits' = visits + 1
  /\ tab' = [tab EXCEPT ![t].page = "loading"]
  /\ UNCHANGED <<server, chain, get, writing, history, typed, loaded>>

\* Variant: a load is not chained after the saves.
AskAtOnce(t) ==
  /\ tab[t].page = "loading" /\ get[t] = NoAnswer
  /\ get' = [get EXCEPT ![t] = server]
  /\ UNCHANGED <<server, drafts, tab, chain, writing, history, bounds>>

\* getEpisode(), once the saves before it are over.
Ask(t) ==
  /\ tab[t].page = "loading" /\ get[t] = NoAnswer
  /\ chain[t] = NoSave
  /\ get' = [get EXCEPT ![t] = server]
  /\ UNCHANGED <<server, drafts, tab, chain, writing, history, bounds>>

\* newSlotId(): an id nothing refers to.
Fresh ==
  Slots \ (Kept \cup UNION {{tab[t].slot, chain[t].key, writing[t].key} : t \in Tabs}
                \cup UNION {{l.key : l \in tab[t].others} : t \in Tabs})

\* The episode has arrived: a slot of its own, and the others' drafts are
\* listed, but for those the server was just read to hold, which are removed.
LoadShows(t) ==
  LET got == get[t] IN
  /\ tab[t].page = "loading" /\ writing[t] = NoWrite
  /\ got # NoAnswer /\ Fresh # {}
  /\ LET slot == Min(Fresh) IN
       tab' = [tab EXCEPT ![t] =
         [NoPage EXCEPT !.page = "editing", !.slot = slot, !.shown = got.text,
                        !.episode = got.text, !.base = got.version,
                        !.others = Others(draft, slot, got.text)]]
  /\ Become(Without(draft, {s \in Kept : draft[s] = got.text}), t, {})
  /\ get' = [get EXCEPT ![t] = NoAnswer]
  /\ UNCHANGED <<server, chain, writing, history, bounds>>

\* The load fails, or is left before it ends (cancelled).
LoadGivenUp(t) ==
  /\ tab[t].page = "loading" /\ writing[t] = NoWrite
  /\ tab' = [tab EXCEPT ![t] = [NoPage EXCEPT !.page = "away", !.own = tab[t].own]]
  /\ get' = [get EXCEPT ![t] = NoAnswer]
  /\ UNCHANGED <<server, drafts, chain, writing, history, bounds>>

-----------------------------------------------------------------------------
(* The author.                                                             *)

\* handleContentChange().
Show(t, text) ==
  /\ Editing(t)
  /\ tab' = [tab EXCEPT ![t].shown = text, ![t].pending = text]
  /\ UNCHANGED <<server, drafts, chain, get, writing, history, visits>>

Type(t, text) ==
  /\ text # tab[t].shown /\ Show(t, text)
  /\ typed < MaxTyped /\ typed' = typed + 1 /\ UNCHANGED loaded

LoadOther(t, l) ==
  /\ l \in tab[t].others /\ Show(t, l.text)
  /\ loaded < MaxLoaded /\ loaded' = loaded + 1 /\ UNCHANGED typed

DiscardOther(t, l) ==
  /\ Editing(t) /\ l \in tab[t].others
  /\ Become(Without(draft, {l.key}), t, {})
  /\ tab' = [tab EXCEPT ![t].others = @ \ {l}]
  /\ UNCHANGED <<server, chain, get, writing, history, bounds>>

\* flushDraft(), up to its write.
Flush(t, then) ==
  /\ Editing(t)
  /\ IF tab[t].pending = NoText
       THEN then # "stay" /\ Go(t, tab[t], then) /\ UNCHANGED <<drafts, writing>>
       ELSE StartWrite(t, [stage |-> "none", text |-> tab[t].pending, key |-> tab[t].slot, then |-> then])

Debounce(t) == Flush(t, "stay")

\* The button waits for the save before; a validation request saves the same way.
PressSave(t) == chain[t] = NoSave /\ Flush(t, "save")

Leave(t) == Flush(t, "leave")

\* refreshOtherDrafts(), a second after another tab's write or removal.
Refresh(t) ==
  /\ Editing(t)
  /\ tab' = [tab EXCEPT ![t].others = Others(draft, tab[t].slot, tab[t].episode)]
  /\ tab' # tab
  /\ UNCHANGED <<server, drafts, chain, get, writing, history, bounds>>

\* Variant: the page doesn't learn that its slot is gone.
HearNothing(t) ==
  /\ t \in removed /\ writing[t] = NoWrite
  /\ removed' = removed \ {t}
  /\ UNCHANGED <<server, draft, stale, uncounted, tab, chain, get, writing, history, bounds>>

\* onStorage(): nothing but on the page the event was for.
HearRemoval(t) ==
  /\ t \in removed /\ writing[t] = NoWrite
  /\ removed' = removed \ {t}
  /\ tab' = [tab EXCEPT ![t].own =
       IF tab[t].page = "editing" /\ tab[t].slot \notin Kept THEN NoText ELSE @]
  /\ UNCHANGED <<server, draft, stale, uncounted, chain, get, writing, history, bounds>>

\* A crash, or the tab closed: pagehide has flushed, and nothing is pending.  The
\* module's state is gone; a request it sent was taken by then or never is.
Crash(t) ==
  /\ tab[t].page # "closed"
  /\ tab' = [tab EXCEPT ![t] = NoPage]
  /\ removed' = removed \ {t}
  /\ chain' = [chain EXCEPT ![t] = NoSave]
  /\ get' = [get EXCEPT ![t] = NoAnswer]
  /\ writing' = [writing EXCEPT ![t] = NoWrite]
  /\ acked' = [acked EXCEPT ![t] = 0]
  /\ uncounted' = IF writing[t].stage = "count" THEN uncounted \cup ({writing[t].key} \cap Kept) ELSE uncounted
  /\ UNCHANGED <<server, draft, stale, took, bounds>>

-----------------------------------------------------------------------------
(* A save and its answer.                                                  *)

\* save_episode(): updated_at moves if the content does.
TakeSave(t) ==
  LET text == chain[t].text
      version == IF text = server.text THEN server.version ELSE server.version + 1
  IN
  /\ chain[t].stage = "sent" /\ version <= MaxVersion
  /\ server' = [text |-> text, version |-> version]
  /\ took' = took \cup {text}
  /\ chain' = [chain EXCEPT ![t].stage = "taken", ![t].version = version]
  /\ UNCHANGED <<drafts, tab, get, writing, acked, bounds>>

\* Refused, or the answer lost.
SaveFails(t) ==
  /\ chain[t] # NoSave /\ writing[t] = NoWrite
  /\ chain' = [chain EXCEPT ![t] = NoSave]
  /\ UNCHANGED <<server, drafts, tab, get, writing, history, bounds>>

\* The draft the save was made from is removed, or, if it holds what was typed
\* since, written again on top of the version the save made.
Answer(t) ==
  LET c == chain[t]
      own == tab[t].own
  IN
  /\ c.stage = "taken" /\ writing[t] = NoWrite
  /\ IF own \in {NoText, c.text}
       THEN AnswerEnds(t, IF own = c.text THEN Without(draft, {c.key}) ELSE draft, {})
            /\ UNCHANGED writing
       ELSE StartWrite(t, [stage |-> "none", text |-> own, key |-> c.key, then |-> "answer"])

-----------------------------------------------------------------------------
Next ==
  \/ \E t \in Tabs :
       \/ Open(t) \/ Ask(t) \/ LoadShows(t) \/ LoadGivenUp(t)
       \/ \E text \in Texts : Type(t, text)
       \/ \E l \in tab[t].others : LoadOther(t, l) \/ DiscardOther(t, l)
       \/ Refresh(t) \/ HearRemoval(t)
       \/ Debounce(t) \/ PressSave(t) \/ Leave(t) \/ Crash(t)
       \/ Rewrite(t) \/ Create(t) \/ WriteFails(t) \/ Count(t)
       \/ TakeSave(t) \/ SaveFails(t) \/ Answer(t)
  \/ \E s \in Slots : Age(s)

Spec == Init /\ [][Next]_vars

-----------------------------------------------------------------------------
MaybeText == Texts \cup {NoText}
MaybeSlot == Slots \cup {NoSlot}
Versions == 0..MaxVersion

\* Types; a page has a slot exactly while it edits, or writes before it leaves.
TypeOK ==
  /\ server \in [text : Texts, version : Versions]
  /\ draft \in [Slots -> MaybeText]
  /\ stale \subseteq Kept /\ removed \subseteq Tabs /\ uncounted \subseteq Kept
  /\ tab \in [Tabs -> [page : {"closed", "away", "loading", "editing"}, slot : MaybeSlot,
                       shown : MaybeText, episode : MaybeText, base : Versions,
                       pending : MaybeText, own : MaybeText, backupOk : BOOLEAN,
                       others : SUBSET [key : Slots, text : Texts]]]
  /\ \A t \in Tabs : tab[t].page = "editing" <=> tab[t].slot \in Slots
  /\ chain \in [Tabs -> [stage : {"none", "sent", "taken"}, text : MaybeText, key : MaybeSlot,
                         version : Versions]]
  /\ get \in [Tabs -> [text : MaybeText, version : Versions]]
  /\ writing \in [Tabs -> [stage : {"none", "rewrite", "create", "count"},
                           text : MaybeText, key : MaybeSlot,
                           then : {"stay", "save", "leave", "answer"}]]
  /\ typed \in 0..MaxTyped /\ loaded \in 0..MaxLoaded /\ visits \in 0..MaxVisits
  /\ took \subseteq Texts /\ acked \in [Tabs -> Versions]

\* What a page believes of its own draft is so: a text in its slot is the one
\* it tracks (else no confirmed save would remove it), and a text it tracks is
\* there unless it has yet to hear that another tab removed it.
OwnIsTracked ==
  \A t \in Tabs : Editing(t) =>
    IF tab[t].slot \in Kept THEN draft[tab[t].slot] = tab[t].own
    ELSE tab[t].own = NoText \/ t \in removed

\* What every state has, whoever acts: the types, and drafts that are tracked.
Inv == TypeOK /\ OwnIsTracked

\* Between keystrokes a page's draft is what is on its screen or there is none;
\* an older text is never kept, to be offered as if it were current.
DraftIsShown ==
  \A t \in Tabs : Editing(t) /\ tab[t].pending = NoText /\ tab[t].slot \in Kept =>
    draft[tab[t].slot] = tab[t].shown

\* A page never shows, and goes on from, a text older than what a save of its
\* own has made of it, whatever it left and loaded meanwhile.
SavesAreSeen == \A t \in Tabs : tab[t].page = "editing" => tab[t].base >= acked[t]

\* However many tabs make a slot at once, the drafts don't outgrow their cap; but
\* for one removed in the middle of its own rewrite, or left by a crash between
\* writing and counting.
CapHolds ==
  Cardinality(Kept \ uncounted) <= Cap + Cardinality({t \in Tabs : writing[t].stage = "count"})

\* A draft goes, or is written over, only by its own page, or when the server
\* has had its text, the author discards it, or nobody wrote to it for long.
DraftsStay ==
  [][\A s \in Kept :
       \/ draft'[s] = draft[s]
       \/ draft[s] \in took
       \/ s \in stale
       \/ \E t \in Tabs : writing[t].key = s
       \/ \E t \in Tabs : \E l \in tab[t].others : l.key = s /\ DiscardOther(t, l)]_vars

\* The editor's comment (EditorPage.tsx, 252-253): without a draft, leaving loses
\* what the server doesn't have, so the browser asks first.
AskedBeforeLoss ==
  \A t \in Tabs :
    LET p == tab[t]
        lost == p.shown \notin took /\ \A s \in Kept : draft[s] # p.shown
    IN  Editing(t) /\ p.pending = NoText /\ t \notin removed /\ p.shown # p.episode /\ lost
          => ~p.backupOk

===============================================================================
