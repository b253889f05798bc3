----------------------------- MODULE StoryHistory -----------------------------
(***************************************************************************)
(* What validation makes of a novel's episodes over time: it holds what an *)
(* episode says against the cards and against what the episodes before it  *)
(* left behind (pipeline/context_bundle.py, pipeline/judges.py), fills in  *)
(* what is still empty on a card and keeps the state each episode leaves   *)
(* the cards in (pipeline/merge.py) - while the author rewrites episodes,  *)
(* validates them in any order and again, and edits the cards meanwhile.   *)
(*                                                                         *)
(* One job runs at a time (JobRunner); its run is not given up on here     *)
(* (ValidationRun).  A card stands for one attribute of it: a fixed one of *)
(* a character, the features of a place.  A sentence is a model value; the *)
(* claims the extraction may make of it are Reads[s], and it may miss it.  *)
(***************************************************************************)
EXTENDS Naturals, Sequences, FiniteSets, FiniteSetsExt, SequencesExt

CONSTANTS
  Characters, Places,
  Values,            \* what a claim can say of a card's key
  Deaths, Revivals,  \* the conditions is_death and is_revival accept
  NoValue,
  Sentences, NoSentence,
  Reads,             \* [Sentences -> SUBSET Claims]
  Stories            \* what the author writes, in how many episodes, and sets on cards

Cards == Characters \cup Places
Keys == {"fixed", "condition", "presence", "features", "state"}
CardKeys == {"fixed", "features"}  \* FIXED_ATTR_KEYS, GEO_ATTR_KEYS
Claims == [about : Cards, key : Keys, value : Values]

ASSUME StoryAssumption ==
  /\ Characters \cap Places = {}
  /\ Deaths \subseteq Values /\ Revivals \subseteq Values /\ Deaths \cap Revivals = {}
  /\ NoValue \notin Values /\ NoSentence \notin Sentences
  /\ Reads \in [Sentences -> SUBSET Claims]
  /\ \A s \in Stories : /\ s.texts \subseteq Seq(Sentences) /\ s.last \in Nat
                        /\ s.edits \subseteq Cards \X (Values \cup {NoValue})
                        /\ s.exempts \subseteq Characters

VARIABLES
  story,       \* the member of Stories being written
  manuscript,  \* Episode.content
  seen,        \* the manuscript an episode's last finished run read
  attrs,       \* the attribute on each card
  source,      \* attr_sources: the episode and sentence it was filled in from
  history,     \* character_state_history ("condition"), location_state_history
  exempt,      \* the characters with appears_after_death
  run          \* the validate_episode job at work

cardVars == <<attrs, source, exempt>>
vars == <<story, manuscript, seen, cardVars, history, run>>

Episodes == 1 .. story.last
ByAuthor == [episode |-> 0, evidence |-> NoSentence]  \* no source is recorded
Idle == [step |-> "none", episode |-> 0, text |-> <<>>, claims |-> <<>>, flags |-> {}]

Init ==
  /\ story \in Stories
  /\ manuscript = [e \in Episodes |-> <<>>] /\ seen = manuscript
  /\ attrs = [c \in Cards |-> NoValue]
  /\ source = [c \in Cards |-> ByAuthor]
  /\ history = [e \in Episodes |-> [c \in Cards |-> NoValue]]
  /\ exempt = {}
  /\ run = Idle

-----------------------------------------------------------------------------
(* What the episodes before one left behind. *)

\* Variant: a coming back does not undo an earlier death.
DiedOnceBefore(c, e) == Max({0} \cup {d \in 1 .. e - 1 : history[d][c] \in Deaths})

\* deaths_before: the episode of the death c has not come back from, or 0: the
\* last that tells of a death or a coming back, if that is a death.
DiedBefore(c, e) ==
  LET last == Max({0} \cup {n \in 1 .. e - 1 : history[n][c] \in Deaths \cup Revivals})
  IN IF last # 0 /\ history[last][c] \in Deaths THEN last ELSE 0

\* _latest_states: the latest episode before e that changed p's state, or 0.
LatestStateBefore(p, e) == Max({0} \cup {n \in 1 .. e - 1 : history[n][p] # NoValue})

-----------------------------------------------------------------------------
(* The author. *)

\* save_episode.
Write(e, text) ==
  /\ text \in story.texts
  /\ manuscript' = [manuscript EXCEPT ![e] = text]
  /\ UNCHANGED <<story, seen, cardVars, history, run>>

\* update_character with another value for the attribute, or none: it is the
\* author's now (_apply). Accepting a flag and adding to the settings set one,
\* of a place too (api/episodes.py).
EditCard(c, v) ==
  /\ c \in Characters \/ v # NoValue
  /\ v # attrs[c]
  /\ attrs' = [attrs EXCEPT ![c] = v]
  /\ source' = [source EXCEPT ![c] = ByAuthor]
  /\ UNCHANGED <<story, manuscript, seen, exempt, history, run>>

\* update_character with the other appears_after_death.
Exempt(c) ==
  /\ exempt' = IF c \in exempt THEN exempt \ {c} ELSE exempt \cup {c}
  /\ UNCHANGED <<story, manuscript, seen, attrs, source, history, run>>

-----------------------------------------------------------------------------
(* The validate_episode job. *)

Told(s, key) == {c \in Reads[s] : c.key = key}

\* cue_hits, and value_of what the QA model answers: a character's attribute.
Answers(s) == Told(s, "fixed")

\* features_of a place, and is_state_change: what it is like, or has become.
Features(s) == Told(s, "features")
StateChanges(s) == Told(s, "state")

\* condition_of: a death, or a coming back.
Conditions(s) == Told(s, "condition")

\* presence_of a character who died, in a sentence that says no such thing of it.
Presences(s, dead) ==
  {c \in Told(s, "presence") : c.about \in dead /\ ~\E d \in Conditions(s) : d.about = c.about}

\* extract_claims: of each sentence a claim, or none, by its place in the text.
Extractions(text, dead) ==
  LET of(s) == Answers(s) \cup Features(s) \cup StateChanges(s)
                 \cup Conditions(s) \cup Presences(s, dead)
  IN UNION {{r \in [said -> UNION {of(text[i]) : i \in said}] : \A i \in said : r[i] \in of(text[i])} :
              said \in SUBSET DOMAIN text}

\* _read_input and the extraction. A blank manuscript fails the run.
Read(e) ==
  /\ run = Idle /\ manuscript[e] # <<>>
  /\ LET dead == {c \in Characters \ exempt : DiedBefore(c, e) # 0}
     IN \E claims \in Extractions(manuscript[e], dead) :
          run' = [step |-> "judge", episode |-> e, text |-> manuscript[e],
                  claims |-> claims, flags |-> {}]
  /\ UNCHANGED <<story, manuscript, seen, cardVars, history>>

Said(about, keys) == {i \in DOMAIN run.claims : run.claims[i].about = about /\ run.claims[i].key \in keys}

\* _to_judge: a value from elsewhere, which the claim does not repeat.
ToJudge(i) ==
  LET c == run.claims[i] IN
  /\ c.key \in CardKeys
  /\ attrs[c.about] \notin {NoValue, c.value}
  /\ source[c.about].episode # run.episode

Flag(i, attribute, setting, from) ==
  [claim |-> i, attribute |-> attribute, reference |-> setting, from |-> from]

\* _pairs: what the model is asked about a card's value.
Pairs ==
  {Flag(i, run.claims[i].key, attrs[run.claims[i].about], source[run.claims[i].about].episode) :
     i \in {j \in DOMAIN run.claims : ToJudge(j)}}

\* Variant: also of a place this episode changes.
StatePairsOfAny ==
  LET at(i) == LatestStateBefore(run.claims[i].about, run.episode)
  IN {Flag(i, "state", history[at(i)][run.claims[i].about], at(i)) :
        i \in {j \in UNION {Said(p, {"features"}) : p \in Places} : at(j) # 0}}

\* _state_pairs: a place's features against the state it was left in, unless
\* this episode changes it.
StatePairs ==
  LET at(i) == LatestStateBefore(run.claims[i].about, run.episode)
      unchanged == {p \in Places : Said(p, {"state"}) = {}}
  IN {Flag(i, "state", history[at(i)][run.claims[i].about], at(i)) :
        i \in {j \in UNION {Said(p, {"features"}) : p \in unchanged} : at(j) # 0}}

\* judge_timeline: the first sentence that shows a character who died, unless
\* this episode brings it back.
ShownDead ==
  LET revived == {c \in Characters : \E i \in Said(c, {"condition"}) : run.claims[i].value \in Revivals}
      shown == {c \in Characters \ revived : DiedBefore(c, run.episode) # 0 /\ Said(c, {"presence"}) # {}}
      flag(c) == LET d == DiedBefore(c, run.episode)
                 IN Flag(Min(Said(c, {"presence"})), "presence", history[d][c], d)
  IN {flag(c) : c \in shown}

\* merge_and_dedupe: of the flags on one card, attribute and sentence the most
\* confident, whichever of the claims that is of where the sentence is repeated.
Detection(f) == <<run.claims[f.claim].about, f.attribute, run.text[f.claim]>>
Deduped(flags) ==
  {kept \in SUBSET flags : /\ \A f \in flags : \E g \in kept : Detection(g) = Detection(f)
                          /\ \A f, g \in kept : Detection(f) = Detection(g) => f = g}

\* _judge: of what the model is asked, it finds any contradicting; asked the
\* same of two claims, it answers the same.
Question(f) == <<run.claims[f.claim], run.text[f.claim], f.attribute, f.reference>>
Judge ==
  /\ run.step = "judge"
  /\ \E found \in SUBSET {Question(f) : f \in Pairs \cup StatePairs} :
     \E flags \in Deduped({f \in Pairs \cup StatePairs : Question(f) \in found} \cup ShownDead) :
       run' = [run EXCEPT !.step = "store", !.flags = flags]
  /\ UNCHANGED <<story, manuscript, seen, cardVars, history>>

\* Variant: a sentence the place's state contradicts is still a feature to add.
FlaggedByValue(i) == \E f \in run.flags : f.claim = i /\ f.attribute = run.claims[i].key

\* A claim flagged against the card, or against the place's state.
Flagged(i) == \E f \in run.flags : f.claim = i

\* What the episode says of the card's attribute, unflagged.
ToAdd(c) == {i \in Said(c, CardKeys) : ~Flagged(i)}

IsOwn(c) == source[c].episode = run.episode
Source(i) == [episode |-> run.episode, evidence |-> run.text[i]]

\* Variant: own wording stays though its sentence is gone.
FilledOnly(c) ==
  IF ToAdd(c) # {} /\ (attrs[c] = NoValue \/ IsOwn(c))
    THEN [value |-> run.claims[Min(ToAdd(c))].value, from |-> Source(Min(ToAdd(c)))]
    ELSE [value |-> attrs[c], from |-> source[c]]

\* apply_new_information, of a card: the first mention fills an attribute that
\* is empty or this episode's earlier wording; one not said again is cleared
\* once its sentence is gone (_gone_from), or read as a state (_now_a_state).
FilledIn(c) ==
  LET asState == {run.text[i] : i \in Said(c, {"state"})}
      lost == source[c].evidence \notin ToSet(run.text) \/ source[c].evidence \in asState
  IN IF ToAdd(c) # {} /\ (attrs[c] = NoValue \/ IsOwn(c))
       THEN [value |-> run.claims[Min(ToAdd(c))].value, from |-> Source(Min(ToAdd(c)))]
     ELSE IF ToAdd(c) = {} /\ IsOwn(c) /\ lost
       THEN [value |-> NoValue, from |-> ByAuthor]
     ELSE [value |-> attrs[c], from |-> source[c]]

\* The state the episode leaves a card in: a character's first condition, but a
\* death or a coming back outweighs it, the last of them; a place's last state.
LeftIn(c) ==
  LET conditions == Said(c, {"condition"})
      turns == {i \in conditions : run.claims[i].value \in Deaths \cup Revivals}
      states == Said(c, {"state"})
  IN IF turns # {} THEN run.claims[Max(turns)].value
     ELSE IF conditions # {} THEN run.claims[Min(conditions)].value
     ELSE IF states # {} THEN run.claims[Max(states)].value
     ELSE NoValue

\* This episode's rows replace what an earlier run of it recorded.
Recorded == [c \in Cards |-> LeftIn(c)]

\* _store.
Store ==
  /\ run.step = "store"
  /\ attrs' = [c \in Cards |-> FilledIn(c).value]
  /\ source' = [c \in Cards |-> FilledIn(c).from]
  /\ history' = [history EXCEPT ![run.episode] = Recorded]
  /\ seen' = [seen EXCEPT ![run.episode] = run.text]
  /\ run' = Idle
  /\ UNCHANGED <<story, manuscript, exempt>>

\* A model or anything else failed (_finish_failed), or the job was cut off.
Fail ==
  /\ run # Idle
  /\ run' = Idle
  /\ UNCHANGED <<story, manuscript, seen, cardVars, history>>

Next ==
  \/ \E e \in Episodes : Read(e) \/ \E text \in story.texts : Write(e, text)
  \/ \E edit \in story.edits : EditCard(edit[1], edit[2])
  \/ \E c \in story.exempts : Exempt(c)
  \/ Judge \/ Store \/ Fail

Spec == Init /\ [][Next]_vars

-----------------------------------------------------------------------------
TypeOK ==
  /\ story \in Stories
  /\ manuscript \in [Episodes -> story.texts \cup {<<>>}]
  /\ seen \in [Episodes -> story.texts \cup {<<>>}]
  /\ attrs \in [Cards -> Values \cup {NoValue}]
  /\ source \in [Cards -> [episode : Episodes \cup {0}, evidence : Sentences \cup {NoSentence}]]
  /\ history \in [Episodes -> [Cards -> Values \cup {NoValue}]]
  /\ exempt \in SUBSET Characters
  /\ run.step \in {"none", "judge", "store"}
  /\ run.episode \in Episodes \cup {0} /\ run.text \in story.texts \cup {<<>>}
  /\ DOMAIN run.claims \subseteq DOMAIN run.text
  /\ \A i \in DOMAIN run.claims : run.claims[i] \in Claims

Storing == run.step = "store"
MaySay(s, c, keys, v) == \E r \in Reads[s] : r.about = c /\ r.key \in keys /\ r.value = v

\* A value filled in from an episode is one a sentence of it says, as the
\* episode was when last validated: what the author took out is not held
\* against the other episodes (merge.py's docstring).
FilledFromTheText ==
  \A c \in Cards : source[c].episode # 0 =>
    /\ source[c].evidence \in ToSet(seen[source[c].episode])
    /\ MaySay(source[c].evidence, c, CardKeys, attrs[c])

\* So is the state an episode is on record as leaving a card in.
RecordIsOfTheText ==
  \A e \in Episodes, c \in Cards : history[e][c] # NoValue =>
    \E s \in ToSet(seen[e]) : MaySay(s, c, {"condition", "state"}, history[e][c])

\* What every state has, whoever acts: the types, and on the cards and on
\* record nothing that no manuscript says.
Inv == TypeOK /\ FilledFromTheText /\ RecordIsOfTheText

\* Validation only adds: a value of the author's, or of another episode's, is
\* neither replaced nor cleared by a run, however the card and the run's other
\* episodes changed between what it read and what it stores; and what it adds
\* a claim says that has no flag, though the author has emptied the card since
\* - of a sentence said twice, though its other claim has one (Deduped).
OnlyAdds ==
  [][run' # run => \A c \in Cards :
       /\ attrs'[c] # attrs[c] => attrs[c] = NoValue \/ source[c].episode = run.episode
       /\ source'[c] # source[c] /\ source'[c] # ByAuthor => \E i \in DOMAIN run.claims :
            /\ run.claims[i].about = c /\ run.claims[i].value = attrs'[c]
            /\ run.text[i] = source'[c].evidence
            /\ ~\E f \in run.flags : f.claim = i]_vars

\* An episode is never held against itself. A value on a card is the author's,
\* or one another episode says as it was last validated - a later one too, when
\* that was validated first. States and deaths are only of the episodes before:
\* of a place its last, and not where this episode changes it.
HeldAgainstOthers ==
  Storing => \A f \in run.flags :
    LET claim == run.claims[f.claim] IN
    /\ f.from # run.episode
    /\ f.attribute \in CardKeys /\ f.from # 0 =>
         \E s \in ToSet(seen[f.from]) : MaySay(s, claim.about, CardKeys, f.reference)
    /\ f.attribute \notin CardKeys => f.from < run.episode
    /\ f.attribute = "state" =>
         /\ f.reference = history[f.from][claim.about]
         /\ \A n \in f.from + 1 .. run.episode : n < run.episode => history[n][claim.about] = NoValue
         /\ ~\E i \in DOMAIN run.claims : run.claims[i].about = claim.about /\ run.claims[i].key = "state"

\* A character is flagged for being shown exactly if an episode before had it
\* die, none after that had it come back, and this one does not: once.
DeadBefore(c, e) ==
  \E d \in 1 .. e - 1 : /\ history[d][c] \in Deaths
                        /\ \A r \in d + 1 .. e - 1 : history[r][c] \notin Revivals
DeadAreNoticed ==
  Storing => \A c \in Characters : Said(c, {"presence"}) # {} =>
    LET flags == {f \in run.flags : f.attribute = "presence" /\ run.claims[f.claim].about = c}
        back == \E i \in Said(c, {"condition"}) : run.claims[i].value \in Revivals
    IN Cardinality(flags) = IF DeadBefore(c, run.episode) /\ ~back THEN 1 ELSE 0
===============================================================================
