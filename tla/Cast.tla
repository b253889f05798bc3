--------------------------------- MODULE Cast ---------------------------------
(***************************************************************************)
(* The novel's cards and who its claims are about: the author makes,       *)
(* renames and deletes characters (api/settings.py), while a run finds the *)
(* names in the manuscript (pipeline/extraction_rules.py Registry), ties   *)
(* each claim to a card, and makes a card of whoever has none              *)
(* (pipeline/entities.py).  A run reads the cards three times, and holds   *)
(* no lock in between: for the extraction, before the judgment and when    *)
(* it stores.                                                              *)
(*                                                                         *)
(* Names are equal as normalize_name compares them.  One episode, whose    *)
(* runs replace its claims; one job at a time (JobRunner).  A claim that   *)
(* fits several characters is left without a card here: PendingLinks has   *)
(* the author pick one.                                                    *)
(***************************************************************************)
EXTENDS Naturals, Sequences, FiniteSets, FiniteSetsExt, SequencesExt

CONSTANTS
  Names,
  NoName,      \* the subject of a claim whose pronoun fits several
  MaxCards,    \* bound: cards ever made
  MaxAliases,  \* bound: aliases of a card
  MaxClaims    \* bound: claims of a run

ASSUME CastAssumption ==
  NoName \notin Names /\ {MaxCards, MaxAliases, MaxClaims} \subseteq Nat

VARIABLES
  cards,    \* the rows ever made, oldest first; kind "deleted" for one deleted
  claims,   \* the episode's claims: [kind, name, card, judged], the card any flag was raised against
  run,      \* the validate_episode job at work
  edited    \* the author changed the characters since the run's judgment

vars == <<cards, claims, run, edited>>

NoCard == 0  \* a null subject_id, or ref; the card of a flag that is not there
Ids == DOMAIN cards
OfKind(kind) == {c \in Ids : cards[c].kind = kind}
KnownAs(c) == {cards[c].name} \cup cards[c].aliases

Row(kind, name, aliases) == [kind |-> kind, name |-> name, aliases |-> aliases]
Idle == [step |-> "none", found |-> <<>>, matches |-> <<>>]

Init == cards = <<>> /\ claims = {} /\ run = Idle /\ edited = FALSE

-----------------------------------------------------------------------------
(* The settings screen. *)

AliasesFor(name) == {a \in SUBSET (Names \ {name}) : Cardinality(a) <= MaxAliases}

\* Variant: namesakes need only have no alias in common.
SharesAlias(name, aliases, except) ==
  \E c \in OfKind("character") \ except :
    cards[c].name = name /\ aliases \cap cards[c].aliases # {}

\* _reject_indistinguishable.
Indistinguishable(name, aliases, except) ==
  \E c \in OfKind("character") \ except :
    /\ cards[c].name = name
    /\ aliases = {} \/ cards[c].aliases = {} \/ aliases \cap cards[c].aliases # {}

\* create_character. CharacterInput takes the name out of the aliases.
Create(name, aliases) ==
  /\ Len(cards) < MaxCards
  /\ ~Indistinguishable(name, aliases, {})
  /\ cards' = Append(cards, Row("character", name, aliases))
  /\ edited' = (run.step = "store")
  /\ UNCHANGED <<claims, run>>

\* update_character, with another name or other aliases; renamed, its claims
\* show the name it has now.
Update(c, name, aliases) ==
  /\ c \in OfKind("character") /\ cards[c] # Row("character", name, aliases)
  /\ ~Indistinguishable(name, aliases, {c})
  /\ cards' = [cards EXCEPT ![c] = Row("character", name, aliases)]
  /\ claims' = {IF claim.card = c /\ name # cards[c].name THEN [claim EXCEPT !.name = name]
                                                          ELSE claim : claim \in claims}
  /\ edited' = (run.step = "store")
  /\ UNCHANGED run

\* delete_character: its claims stay, named but no longer linked.
Delete(c) ==
  /\ c \in OfKind("character")
  /\ cards' = [cards EXCEPT ![c] = Row("deleted", NoName, {})]
  /\ claims' = {IF claim.card = c THEN [claim EXCEPT !.card = NoCard] ELSE claim : claim \in claims}
  /\ edited' = (run.step = "store")
  /\ UNCHANGED run

-----------------------------------------------------------------------------
(* What a name in the manuscript is read as, by the cards at the start. *)

Said(kind, name, ref) == [kind |-> kind, name |-> name, ref |-> ref]

\* Registry.resolve: a character by a name or an alias, and its name and ref
\* from here on; a place; a name several characters share, without a ref. Any
\* other, and one a character and a place share, is what the NER model takes
\* it for (_mentions).
Reading(name) ==
  LET characters == {c \in OfKind("character") : name \in KnownAs(c)}
      places == {c \in OfKind("location") : name = cards[c].name}
  IN IF places = {} /\ characters # {}
       THEN IF Cardinality(characters) = 1
              THEN {Said("character", cards[c].name, c) : c \in characters}
              ELSE {Said("character", name, NoCard)}
     ELSE IF places # {} /\ characters = {} THEN {Said("location", name, NoCard)}
     ELSE {Said("character", name, NoCard), Said("location", name, NoCard)}

Mentioned == UNION {Reading(name) : name \in Names}

\* owner, of a sentence that names nobody: its pronoun, or the subject it drops,
\* is whoever the sentences before name and the pronoun fits. Of several, all
\* of them on cards, the author is to pick one; of others it is nobody's.
Owner(before) ==
  IF Cardinality(before) = 1 THEN before
  ELSE IF before # {} /\ \A who \in before : who.ref # NoCard
    THEN {Said("character", NoName, NoCard)}
  ELSE {}

Characters == {who \in Mentioned : who.kind = "character"}

Readings == Mentioned \cup UNION {Owner(before) : before \in SUBSET Characters}

\* _read_input and extract_claims: claims about one name, by which they may be
\* told apart as several characters. Those about others are tied to cards alike.
Read ==
  /\ run = Idle
  /\ \E r \in Readings : \E found \in SUBSET {s \in Readings : s.kind = r.kind /\ s.name = r.name} :
       /\ Cardinality(found) \in 1 .. MaxClaims
       /\ run' = [Idle EXCEPT !.step = "judge", !.found = SetToSeq(found)]
  /\ UNCHANGED <<cards, claims, edited>>

-----------------------------------------------------------------------------
(* Entity matching. *)

Match(card, ambiguous) == [card |-> card, ambiguous |-> ambiguous]
OnlyOf(ids) == IF Cardinality(ids) = 1 THEN Match(Max(ids), FALSE) ELSE Match(NoCard, TRUE)

\* _Cards.find: by the ref, where the name is still that character's, then by
\* name and by alias; a place by name, the oldest of it.
Find(claim, ref) ==
  LET called == {c \in OfKind(claim.kind) : cards[c].name = claim.name}
      aliased == {c \in OfKind("character") : claim.name \in cards[c].aliases}
  IN IF claim.name = NoName THEN Match(NoCard, TRUE)
     ELSE IF claim.kind = "location" THEN Match(IF called = {} THEN NoCard ELSE Min(called), FALSE)
     ELSE IF ref \in OfKind("character") /\ claim.name \in KnownAs(ref) THEN Match(ref, FALSE)
     ELSE IF called # {} THEN OnlyOf(called)
     ELSE IF aliased # {} THEN OnlyOf(aliased)
     ELSE Match(NoCard, FALSE)

\* Variant: a claim keeps the name the extraction gave it.
AsSaid(claim, match) == claim

\* A claim about a character found is named by the character's name.
Named(claim, match) ==
  IF claim.kind = "character" /\ match.card # NoCard
    THEN [claim EXCEPT !.name = cards[match.card].name] ELSE claim

\* _judge: resolve_subjects; a claim's flags are raised against the card found.
Judge ==
  /\ run.step = "judge"
  /\ LET matches == [i \in DOMAIN run.found |-> Find(run.found[i], run.found[i].ref)]
     IN run' = [step |-> "store", matches |-> matches,
                found |-> [i \in DOMAIN matches |-> Named(run.found[i], matches[i])]]
  /\ edited' = FALSE
  /\ UNCHANGED <<cards, claims>>

\* Variants: the matches from before the judgment stand; or count for nothing.
MatchBefore(i) == run.matches[i]
MatchAnew(i) == Find(run.found[i], NoCard)

\* match_and_register: a card found then that is still there; otherwise, where
\* none was found or it was deleted, who the name stands for now.
MatchNow(i) ==
  LET match == run.matches[i] IN
  IF match.card \in OfKind(run.found[i].kind) \/ match.ambiguous
    THEN match ELSE Find(run.found[i], NoCard)

\* The claims with no card make one for each name, with no alias, in some order:
\* the cards of one run have one created_at.
Unmatched ==
  {i \in DOMAIN run.found : MatchNow(i) = Match(NoCard, FALSE)}
FirstOf(i) ==
  Min({j \in Unmatched : run.found[j].kind = run.found[i].kind /\ run.found[j].name = run.found[i].name})
NewCards == SetToSeq({FirstOf(i) : i \in Unmatched})

SubjectId(i) ==
  IF i \in Unmatched
    THEN Len(cards) + (CHOOSE n \in DOMAIN NewCards : NewCards[n] = FirstOf(i))
    ELSE MatchNow(i).card

\* _store: the claims replace the episode's earlier ones. A flag is the
\* claim's, whatever card that has come to be about.
Store ==
  /\ run.step = "store"
  /\ Len(cards) + Len(NewCards) <= MaxCards
  /\ cards' = cards \o [n \in DOMAIN NewCards |->
                         Row(run.found[NewCards[n]].kind, run.found[NewCards[n]].name, {})]
  /\ claims' = {[kind |-> run.found[i].kind, name |-> run.found[i].name, card |-> SubjectId(i),
                 judged |-> run.matches[i].card] :
                  i \in DOMAIN run.found}
  /\ run' = Idle /\ edited' = FALSE

\* A model or anything else failed (_finish_failed), or the job was cut off.
Fail ==
  /\ run # Idle /\ run' = Idle /\ edited' = FALSE
  /\ UNCHANGED <<cards, claims>>

Next ==
  \/ \E name \in Names : \E aliases \in AliasesFor(name) :
       Create(name, aliases) \/ \E c \in Ids : Update(c, name, aliases)
  \/ \E c \in Ids : Delete(c)
  \/ Read \/ Judge \/ Store \/ Fail

Spec == Init /\ [][Next]_vars

-----------------------------------------------------------------------------
Kinds == {"character", "location"}

TypeOK ==
  /\ cards \in Seq([kind : Kinds \cup {"deleted"}, name : Names \cup {NoName}, aliases : SUBSET Names])
  /\ claims \subseteq [kind : Kinds, name : Names \cup {NoName}, card : Ids \cup {NoCard},
                       judged : Ids \cup {NoCard}]
  /\ run.step \in {"none", "judge", "store"}
  /\ run.found \in Seq([kind : Kinds, name : Names \cup {NoName}, ref : Ids \cup {NoCard}])
  /\ edited \in BOOLEAN

\* Characters that share a name can be told apart, whoever made them: each has
\* aliases, and none in common (models/character.py). Edits of one at a time,
\* and the cards runs make, never add up to two the extraction cannot tell.
NamesakesToldApart ==
  \A c, d \in OfKind("character") : c # d /\ cards[c].name = cards[d].name =>
    /\ cards[c].aliases # {} /\ cards[d].aliases # {}
    /\ cards[c].aliases \cap cards[d].aliases = {}

\* A run makes no card for a name that some card of the kind goes by when it
\* stores, though the author made or renamed that one since it looked.
NewIsUnknown ==
  [][run' # run => \A c \in DOMAIN cards' \ Ids, d \in DOMAIN cards' :
       d # c /\ cards'[d].kind = cards'[c].kind =>
         cards'[c].name \notin {cards'[d].name} \cup cards'[d].aliases]_vars

\* No claim is about a card that is gone, or is of the other kind: a card
\* deleted under a run comes back in none of its claims.
NothingDangling ==
  \A claim \in claims : claim.card # NoCard => cards[claim.card].kind = claim.kind

\* A flag is on a claim about the card it was judged against, as long as there
\* is that card: what the author does to the names under a run puts no
\* contradiction with one card's settings on another.
JudgedIsItsCard ==
  \A claim \in claims : claim.judged # NoCard =>
    claim.card = claim.judged \/ cards[claim.judged].kind = "deleted"

\* What every state has, whoever acts: the types, and claims and flags that
\* are about the cards they say.
Inv == TypeOK /\ NothingDangling /\ JudgedIsItsCard

\* A claim shows the name its card has (models/claim.py), whatever alias the
\* manuscript uses - but one stored by a run under which the author changed
\* the characters keeps the name it was judged under, until renamed again.
ClaimsShowTheName ==
  [][\A claim \in claims' : claim.kind = "character" /\ claim.card # NoCard =>
       claim.name = cards'[claim.card].name \/ claim \in claims
       \/ (run' # run /\ edited)]_vars
===============================================================================
