------------------------------ MODULE CastProofs ------------------------------
(***************************************************************************)
(* Proofs that claims and flags stay about the cards they say, and that    *)
(* characters of one name can be told apart, whatever the author does to   *)
(* the cards under a run, for every set of names and any number of cards.  *)
(***************************************************************************)
EXTENDS Cast, FiniteSetTheorems, FunctionTheorems, WellFoundedInduction, TLAPS

USE CastAssumption DEF NoCard

Rows == [kind : Kinds \cup {"deleted"}, name : Names \cup {NoName}, aliases : SUBSET Names]
Found == [kind : Kinds, name : Names \cup {NoName}, ref : Ids \cup {NoCard}]

(* What was found before the judgment: a card of the claim's kind, which may *)
(* have been deleted since.                                                  *)
MatchesInv ==
  run.step = "store" =>
    /\ DOMAIN run.matches = DOMAIN run.found
    /\ \A i \in DOMAIN run.found :
         LET match == run.matches[i] IN
         /\ match.card \in Ids \cup {NoCard} /\ match.ambiguous \in BOOLEAN
         /\ match = Match(match.card, match.ambiguous)
         /\ match.ambiguous => match.card = NoCard
         /\ match.card # NoCard => cards[match.card].kind \in {run.found[i].kind, "deleted"}

(* While the author leaves the characters alone, it still is as it was found: *)
(* by a name that it has, or by nobody's.                                     *)
Unknown(claim) ==
  /\ claim.name # NoName
  /\ \A c \in OfKind(claim.kind) : cards[c].name # claim.name
  /\ claim.kind = "character" => \A c \in OfKind("character") : claim.name \notin cards[c].aliases
UneditedInv ==
  run.step = "store" /\ ~edited =>
    \A i \in DOMAIN run.found : run.found[i].kind = "character" =>
      LET match == run.matches[i] IN
      IF match.card # NoCard
        THEN match.card \in OfKind("character") /\ cards[match.card].name = run.found[i].name
        ELSE match.ambiguous \/ Unknown(run.found[i])

PlacesHaveNoAliases == \A c \in OfKind("location") : cards[c].aliases = {}

IInv ==
  /\ TypeOK
  /\ PlacesHaveNoAliases
  /\ MatchesInv
  /\ UneditedInv
  /\ NothingDangling
  /\ JudgedIsItsCard
  /\ NamesakesToldApart

(* ----------------------------------------------------------------------- *)
(* Least members, and sets as sequences.                                   *)

(* A nonempty set of naturals has a least member, Min. *)
LEMMA MinIn ==
  ASSUME NEW S \in SUBSET Nat, S # {}
  PROVE  Min(S) \in S /\ \A x \in S : Min(S) <= x
<1>1. PICK x \in S : \A y \in S : ~(<<y, x>> \in OpToRel(<, Nat))
  <2> DEFINE R == OpToRel(<, Nat)
  <2>1. IsWellFoundedOn(R, Nat)
    BY NatLessThanWellFounded
  <2> HIDE DEF R
  <2>2. \E x \in S : \A y \in S : ~(<<y, x>> \in R)
    BY <2>1, WFMin
  <2> QED
    BY <2>2 DEF R
<1>2. \A y \in S : x <= y
  <2>1. ASSUME NEW y \in S PROVE x <= y
    <3>1. ~(y < x)
      BY <1>1 DEF OpToRel
    <3> QED
      BY <3>1
  <2> QED
    BY <2>1
<1> QED
  BY <1>2 DEF Min

(* A finite set as a sequence: each member of it, once. *)
LEMMA SetAsSeq ==
  ASSUME NEW S, IsFiniteSet(S)
  PROVE  /\ SetToSeq(S) \in Seq(S)
         /\ \A n, m \in DOMAIN SetToSeq(S) : SetToSeq(S)[n] = SetToSeq(S)[m] => n = m
         /\ \A x \in S : \E n \in DOMAIN SetToSeq(S) : SetToSeq(S)[n] = x
<1> DEFINE N == Cardinality(S)
           f == SetToSeq(S)
<1>1. N \in Nat /\ ExistsBijection(1 .. N, S)
  BY FS_CardinalityType
<1>2. PICK g \in Bijection(1 .. N, S) : TRUE
  BY <1>1 DEF ExistsBijection
<1>3. g \in [1 .. N -> S] /\ IsInjective(g)
  BY <1>2 DEF Bijection, Injection, Surjection, IsInjective
<1>4. f \in [1 .. N -> S] /\ IsInjective(f)
  BY <1>3 DEF SetToSeq
<1> HIDE DEF f
<1>5. f \in Injection(1 .. N, S)
  BY <1>4 DEF Injection
<1>6. Cardinality(1 .. N) = N
  BY <1>1, FS_Interval
<1> HIDE DEF N
<1>7. f \in Surjection(1 .. N, S)
  <2>1. Cardinality(1 .. N) = Cardinality(S)
    BY <1>6 DEF N
  <2> QED
    BY <1>5, <2>1, FS_Injection
<1>8. f \in Seq(S)
  BY <1>1, <1>4
<1>9. \A x \in S : \E n \in DOMAIN f : f[n] = x
  BY <1>4, <1>7 DEF Surjection
<1>10. \A n, m \in DOMAIN f : f[n] = f[m] => n = m
  BY <1>4 DEF IsInjective
<1> QED
  BY <1>8, <1>9, <1>10 DEF f

(* ----------------------------------------------------------------------- *)
(* What Find finds.                                                        *)

(* The cards are finitely many. *)
LEMMA IdsAreFinite ==
  ASSUME TypeOK
  PROVE  /\ Ids = 1 .. Len(cards) /\ Len(cards) \in Nat /\ IsFiniteSet(Ids)
         /\ \A c \in Ids : cards[c] \in Rows
<1>1. cards \in Seq(Rows)
  BY DEF TypeOK, Rows
<1>2. DOMAIN cards = 1 .. Len(cards) /\ Len(cards) \in Nat /\ \A c \in DOMAIN cards : cards[c] \in Rows
  BY <1>1
<1>3. IsFiniteSet(1 .. Len(cards))
  BY <1>2, FS_Interval
<1> QED
  BY <1>2, <1>3 DEF Ids

(* So are the claims found, each of them of a kind, with a name. *)
LEMMA FoundAre ==
  ASSUME TypeOK
  PROVE  /\ run.found \in Seq(Found) /\ DOMAIN run.found = 1 .. Len(run.found) /\ Len(run.found) \in Nat
         /\ \A i \in DOMAIN run.found : run.found[i] \in Found
         /\ \A claim \in Found : claim.kind \in Kinds
<1>1. run.found \in Seq(Found)
  BY DEF TypeOK, Found
<1>2. \A claim \in Found : claim.kind \in Kinds
  BY DEF Found
<1> HIDE DEF Found
<1> QED
  BY <1>1, <1>2

(* One of several: the only one, or none. *)
LEMMA OnlyOne ==
  ASSUME TypeOK, NEW S \in SUBSET Ids, S # {}
  PROVE  \/ \E c \in S : OnlyOf(S) = Match(c, FALSE)
         \/ OnlyOf(S) = Match(NoCard, TRUE)
<1>1. CASE Cardinality(S) = 1
  <2>1. IsFiniteSet(S)
    BY IdsAreFinite, FS_Subset
  <2>2. PICK c : S = {c}
    BY <1>1, <2>1, FS_Singleton
  <2>3. c \in Nat
    BY <2>2, IdsAreFinite
  <2>4. Max(S) = c
    BY <2>2, <2>3 DEF Max
  <2> QED
    BY <1>1, <2>2, <2>4 DEF OnlyOf
<1> QED
  BY <1>1 DEF OnlyOf

(* Find's answer is a card of the claim's kind that goes by the name, or the *)
(* name is several characters', or nobody's.                                 *)
LEMMA FindIt ==
  ASSUME TypeOK, NEW claim, claim \in Found, NEW ref
  PROVE  \/ \E c \in OfKind(claim.kind) : Find(claim, ref) = Match(c, FALSE)
         \/ Find(claim, ref) = Match(NoCard, TRUE)
         \/ Find(claim, ref) = Match(NoCard, FALSE) /\ Unknown(claim)
<1> DEFINE called == {c \in OfKind(claim.kind) : cards[c].name = claim.name}
           aliased == {c \in OfKind("character") : claim.name \in cards[c].aliases}
<1>1. /\ called \in SUBSET Ids /\ aliased \in SUBSET Ids /\ called \in SUBSET OfKind(claim.kind)
      /\ aliased \in SUBSET OfKind("character") /\ Ids \subseteq Nat
  BY IdsAreFinite DEF OfKind
<1>2. Find(claim, ref) =
        IF claim.name = NoName THEN Match(NoCard, TRUE)
        ELSE IF claim.kind = "location" THEN Match(IF called = {} THEN NoCard ELSE Min(called), FALSE)
        ELSE IF ref \in OfKind("character") /\ claim.name \in KnownAs(ref) THEN Match(ref, FALSE)
        ELSE IF called # {} THEN OnlyOf(called)
        ELSE IF aliased # {} THEN OnlyOf(aliased)
        ELSE Match(NoCard, FALSE)
  BY DEF Find
<1>3. called = {} => \A c \in OfKind(claim.kind) : cards[c].name # claim.name
  OBVIOUS
<1>4. aliased = {} => \A c \in OfKind("character") : claim.name \notin cards[c].aliases
  OBVIOUS
<1> HIDE DEF called, aliased
<1>5. CASE claim.name = NoName
  BY <1>2, <1>5
<1>6. CASE claim.name # NoName /\ claim.kind = "location"
  <2>1. CASE called = {}
    <3>1. Find(claim, ref) = Match(NoCard, FALSE)
      BY <1>2, <1>6, <2>1
    <3>2. Unknown(claim)
      BY <1>3, <1>6, <2>1 DEF Unknown
    <3> QED
      BY <3>1, <3>2
  <2>2. CASE called # {}
    <3>1. Min(called) \in called
      BY <1>1, <2>2, MinIn
    <3> QED
      BY <1>1, <1>2, <1>6, <2>2, <3>1
  <2> QED
    BY <2>1, <2>2
<1>7. CASE claim.name # NoName /\ claim.kind # "location"
  <2>0. claim.kind = "character"
    BY <1>7 DEF Found, Kinds
  <2>1. CASE ref \in OfKind("character") /\ claim.name \in KnownAs(ref)
    BY <1>2, <1>7, <2>0, <2>1
  <2>2. CASE ~(ref \in OfKind("character") /\ claim.name \in KnownAs(ref)) /\ called # {}
    <3>1. Find(claim, ref) = OnlyOf(called)
      BY <1>2, <1>7, <2>2
    <3> QED
      BY <1>1, <2>2, <3>1, OnlyOne
  <2>3. CASE ~(ref \in OfKind("character") /\ claim.name \in KnownAs(ref)) /\ called = {} /\ aliased # {}
    <3>1. Find(claim, ref) = OnlyOf(aliased)
      BY <1>2, <1>7, <2>3
    <3> QED
      BY <1>1, <2>0, <2>3, <3>1, OnlyOne
  <2>4. CASE ~(ref \in OfKind("character") /\ claim.name \in KnownAs(ref)) /\ called = {} /\ aliased = {}
    <3>1. Find(claim, ref) = Match(NoCard, FALSE)
      BY <1>2, <1>7, <2>4
    <3>2. Unknown(claim)
      BY <1>3, <1>4, <1>7, <2>4 DEF Unknown
    <3> QED
      BY <3>1, <3>2
  <2> QED
    BY <2>1, <2>2, <2>3, <2>4
<1> QED
  BY <1>5, <1>6, <1>7

(* A character's name that is nobody's finds none. *)
LEMMA UnknownFindsNone ==
  ASSUME TypeOK, NEW claim, claim \in Found, Unknown(claim), claim.kind = "character"
  PROVE  Find(claim, NoCard) = Match(NoCard, FALSE)
<1>1. NoCard \notin OfKind("character")
  BY IdsAreFinite DEF OfKind
<1>2. {c \in OfKind(claim.kind) : cards[c].name = claim.name} = {}
  BY DEF Unknown
<1>3. {c \in OfKind("character") : claim.name \in cards[c].aliases} = {}
  BY DEF Unknown
<1>4. claim.name # NoName
  BY DEF Unknown
<1> QED
  BY <1>1, <1>2, <1>3, <1>4 DEF Find

(* ----------------------------------------------------------------------- *)
(* The author.                                                             *)

(* What the author does to the cards leaves a run's matches as they may be: *)
(* a card stays the card it is, or is deleted.                              *)
LEMMA AuthorStep ==
  ASSUME MatchesInv, UNCHANGED run, edited' = (run.step = "store"), Ids \subseteq Ids',
         \A c \in Ids : cards'[c].kind \in {cards[c].kind, "deleted"}
  PROVE  MatchesInv' /\ UneditedInv'
<1>1. UneditedInv'
  BY DEF UneditedInv
<1>2. SUFFICES ASSUME run.step = "store", NEW i \in DOMAIN run.found
               PROVE  /\ run.matches[i].card \in Ids' \cup {NoCard} /\ run.matches[i].ambiguous \in BOOLEAN
                      /\ run.matches[i] = Match(run.matches[i].card, run.matches[i].ambiguous)
                      /\ run.matches[i].ambiguous => run.matches[i].card = NoCard
                      /\ run.matches[i].card # NoCard =>
                           cards'[run.matches[i].card].kind \in {run.found[i].kind, "deleted"}
  BY <1>1 DEF MatchesInv, Match
<1>3. /\ run.matches[i].card \in Ids \cup {NoCard} /\ run.matches[i].ambiguous \in BOOLEAN
      /\ run.matches[i] = Match(run.matches[i].card, run.matches[i].ambiguous)
      /\ run.matches[i].ambiguous => run.matches[i].card = NoCard
      /\ run.matches[i].card # NoCard => cards[run.matches[i].card].kind \in {run.found[i].kind, "deleted"}
  BY <1>2 DEF MatchesInv
<1> DEFINE c == run.matches[i].card
<1>4. c # NoCard => c \in Ids
  BY <1>3
<1>5. c # NoCard => cards'[c].kind \in {cards[c].kind, "deleted"}
  BY <1>4
<1> QED
  BY <1>3, <1>5

(* A character made leaves those there are, and can be told from them. *)
LEMMA CreateStep ==
  ASSUME IInv, NEW name \in Names, NEW aliases \in AliasesFor(name), Create(name, aliases)
  PROVE  IInv'
<1> DEFINE new == Len(cards) + 1
           row == Row("character", name, aliases)
<1>1. /\ TypeOK /\ PlacesHaveNoAliases /\ MatchesInv /\ NothingDangling /\ JudgedIsItsCard
      /\ NamesakesToldApart
  BY DEF IInv
<1>2. /\ ~Indistinguishable(name, aliases, {}) /\ cards' = Append(cards, row)
      /\ edited' = (run.step = "store") /\ claims' = claims /\ run' = run
  BY DEF Create
<1>3. row \in Rows /\ row.kind = "character" /\ row.name = name /\ row.aliases = aliases
  BY DEF Row, Rows, AliasesFor, Kinds
<1> HIDE DEF row
<1>4. /\ Ids = 1 .. Len(cards) /\ Len(cards) \in Nat /\ cards \in Seq(Rows)
  BY <1>1, IdsAreFinite DEF TypeOK, Rows
<1>5. /\ cards' \in Seq(Rows) /\ Ids' = Ids \cup {new} /\ new \notin Ids
      /\ cards'[new] = row /\ \A c \in Ids : cards'[c] = cards[c]
  BY <1>2, <1>3, <1>4 DEF Ids
<1> HIDE DEF new
<1>6. TypeOK'
  <2> DEFINE CRows(ids) == [kind : Kinds, name : Names \cup {NoName}, card : ids \cup {NoCard},
                            judged : ids \cup {NoCard}]
             FRows(ids) == [kind : Kinds, name : Names \cup {NoName}, ref : ids \cup {NoCard}]
  <2>1. CRows(Ids) \subseteq CRows(Ids') /\ FRows(Ids) \subseteq FRows(Ids')
    BY <1>5
  <2>2. claims \subseteq CRows(Ids) /\ run.found \in Seq(FRows(Ids))
    BY <1>1 DEF TypeOK
  <2> HIDE DEF CRows, FRows
  <2>3. claims' \subseteq CRows(Ids') /\ run'.found \in Seq(FRows(Ids'))
    BY <1>2, <2>1, <2>2
  <2> QED
    BY <1>1, <1>2, <1>5, <2>3 DEF TypeOK, Rows, CRows, FRows
<1>7. MatchesInv' /\ UneditedInv'
  BY <1>1, <1>2, <1>5, AuthorStep
<1>8. PlacesHaveNoAliases'
  BY <1>1, <1>3, <1>5 DEF PlacesHaveNoAliases, OfKind
<1>9. NothingDangling' /\ JudgedIsItsCard'
  <2>1. \A claim \in claims : claim.card \in Ids \cup {NoCard} /\ claim.judged \in Ids \cup {NoCard}
    BY <1>1 DEF TypeOK
  <2>2. \A claim \in claims :
          /\ claim.card # NoCard => cards'[claim.card] = cards[claim.card]
          /\ claim.judged # NoCard => cards'[claim.judged] = cards[claim.judged]
    BY <1>5, <2>1
  <2> QED
    BY <1>1, <1>2, <2>2 DEF NothingDangling, JudgedIsItsCard
<1>10. NamesakesToldApart'
  <2>1. \A c \in OfKind("character") : cards[c].name = name =>
          aliases # {} /\ cards[c].aliases # {} /\ aliases \cap cards[c].aliases = {}
    BY <1>2 DEF Indistinguishable
  <2>2. OfKind("character")' = OfKind("character") \cup {new}
    BY <1>3, <1>5 DEF OfKind
  <2>3. \A c \in OfKind("character") : cards'[c] = cards[c]
    BY <1>5 DEF OfKind
  <2> QED
    BY <1>1, <1>3, <1>5, <2>1, <2>2, <2>3 DEF NamesakesToldApart
<1> QED
  BY <1>6, <1>7, <1>8, <1>9, <1>10 DEF IInv

(* A card renamed, or with other aliases, can still be told from the others. *)
LEMMA UpdateStep ==
  ASSUME IInv, NEW name \in Names, NEW aliases \in AliasesFor(name), NEW c \in Ids,
         Update(c, name, aliases)
  PROVE  IInv'
<1> DEFINE row == Row("character", name, aliases)
           Renamed(claim) == IF claim.card = c /\ name # cards[c].name THEN [claim EXCEPT !.name = name]
                                                                       ELSE claim
<1>1. /\ TypeOK /\ PlacesHaveNoAliases /\ MatchesInv /\ NothingDangling /\ JudgedIsItsCard
      /\ NamesakesToldApart
  BY DEF IInv
<1>2. /\ c \in OfKind("character") /\ ~Indistinguishable(name, aliases, {c})
      /\ cards' = [cards EXCEPT ![c] = row]
      /\ claims' = {Renamed(claim) : claim \in claims}
      /\ edited' = (run.step = "store") /\ run' = run
  BY DEF Update
<1>3. row \in Rows /\ row.kind = "character" /\ row.name = name /\ row.aliases = aliases
  BY DEF Row, Rows, AliasesFor, Kinds
<1> HIDE DEF row
<1>4. Ids = 1 .. Len(cards) /\ Len(cards) \in Nat /\ cards \in Seq(Rows) /\ cards[c].kind = "character"
  BY <1>1, <1>2, IdsAreFinite DEF TypeOK, Rows, OfKind
<1>5. /\ cards' \in Seq(Rows) /\ Ids' = Ids
      /\ cards'[c] = row /\ \A d \in Ids : d # c => cards'[d] = cards[d]
  BY <1>2, <1>3, <1>4 DEF Ids
<1>6. \A d \in Ids : cards'[d].kind = cards[d].kind
  BY <1>3, <1>4, <1>5
<1> DEFINE CRows == [kind : Kinds, name : Names \cup {NoName}, card : Ids \cup {NoCard},
                     judged : Ids \cup {NoCard}]
<1>7. claims \subseteq CRows
  BY <1>1 DEF TypeOK
<1>8. \A claim \in claims : /\ Renamed(claim) \in CRows /\ Renamed(claim).kind = claim.kind
                            /\ Renamed(claim).card = claim.card /\ Renamed(claim).judged = claim.judged
  BY <1>7
<1> HIDE DEF Renamed
<1>9. TypeOK'
  <2>1. claims' \subseteq CRows
    BY <1>2, <1>8
  <2>2. claims' \subseteq CRows'
    BY <1>5, <2>1
  <2> HIDE DEF CRows
  <2> QED
    BY <1>1, <1>2, <1>5, <2>2 DEF TypeOK, Rows, CRows
<1> HIDE DEF CRows
<1>10. MatchesInv' /\ UneditedInv'
  BY <1>1, <1>2, <1>5, <1>6, AuthorStep
<1>11. PlacesHaveNoAliases'
  BY <1>1, <1>3, <1>5 DEF PlacesHaveNoAliases, OfKind
<1>12. NothingDangling' /\ JudgedIsItsCard'
  <2>1. \A claim \in claims : claim.card \in Ids \cup {NoCard} /\ claim.judged \in Ids \cup {NoCard}
    BY <1>1 DEF TypeOK
  <2>2. NothingDangling'
    BY <1>1, <1>2, <1>5, <1>6, <1>8, <2>1 DEF NothingDangling
  <2>3. JudgedIsItsCard'
    BY <1>1, <1>2, <1>5, <1>6, <1>8, <2>1 DEF JudgedIsItsCard
  <2> QED
    BY <2>2, <2>3
<1>13. NamesakesToldApart'
  <2>1. \A d \in OfKind("character") : d # c /\ cards[d].name = name =>
          aliases # {} /\ cards[d].aliases # {} /\ aliases \cap cards[d].aliases = {}
    BY <1>2 DEF Indistinguishable
  <2>2. OfKind("character")' = OfKind("character")
    BY <1>5, <1>6 DEF OfKind
  <2>3. \A d \in OfKind("character") : d # c => cards'[d] = cards[d]
    BY <1>5 DEF OfKind
  <2> QED
    BY <1>1, <1>3, <1>5, <2>1, <2>2, <2>3 DEF NamesakesToldApart
<1> QED
  BY <1>9, <1>10, <1>11, <1>12, <1>13 DEF IInv

(* A card deleted leaves no claim linked to it. *)
LEMMA DeleteStep == ASSUME IInv, NEW c \in Ids, Delete(c) PROVE IInv'
<1> DEFINE row == Row("deleted", NoName, {})
           Unlinked(claim) == IF claim.card = c THEN [claim EXCEPT !.card = NoCard] ELSE claim
<1>1. /\ TypeOK /\ PlacesHaveNoAliases /\ MatchesInv /\ NothingDangling /\ JudgedIsItsCard
      /\ NamesakesToldApart
  BY DEF IInv
<1>2. /\ cards' = [cards EXCEPT ![c] = row]
      /\ claims' = {Unlinked(claim) : claim \in claims}
      /\ edited' = (run.step = "store") /\ run' = run
  BY DEF Delete
<1>3. row \in Rows /\ row.kind = "deleted"
  BY DEF Row, Rows
<1> HIDE DEF row
<1>4. Ids = 1 .. Len(cards) /\ Len(cards) \in Nat /\ cards \in Seq(Rows)
  BY <1>1, IdsAreFinite DEF TypeOK, Rows
<1>5. /\ cards' \in Seq(Rows) /\ Ids' = Ids
      /\ cards'[c] = row /\ \A d \in Ids : d # c => cards'[d] = cards[d]
  BY <1>2, <1>3, <1>4 DEF Ids
<1>6. \A d \in Ids : cards'[d].kind \in {cards[d].kind, "deleted"}
  BY <1>3, <1>5
<1> DEFINE CRows == [kind : Kinds, name : Names \cup {NoName}, card : Ids \cup {NoCard},
                     judged : Ids \cup {NoCard}]
<1>7. claims \subseteq CRows
  BY <1>1 DEF TypeOK
<1>8. \A claim \in claims : /\ Unlinked(claim) \in CRows /\ Unlinked(claim).kind = claim.kind
                            /\ Unlinked(claim).card = IF claim.card = c THEN NoCard ELSE claim.card
                            /\ Unlinked(claim).judged = claim.judged
  BY <1>7
<1> HIDE DEF Unlinked
<1>9. TypeOK'
  <2>1. claims' \subseteq CRows
    BY <1>2, <1>8
  <2>2. claims' \subseteq CRows'
    BY <1>5, <2>1
  <2> HIDE DEF CRows
  <2> QED
    BY <1>1, <1>2, <1>5, <2>2 DEF TypeOK, Rows, CRows
<1> HIDE DEF CRows
<1>10. MatchesInv' /\ UneditedInv'
  BY <1>1, <1>2, <1>5, <1>6, AuthorStep
<1>11. \A k \in Kinds : OfKind(k)' \subseteq OfKind(k) \ {c}
  BY <1>3, <1>5 DEF OfKind, Kinds
<1>12. PlacesHaveNoAliases' /\ NamesakesToldApart'
  <2>1. \A k \in Kinds : \A d \in OfKind(k)' : d \in OfKind(k) /\ cards'[d] = cards[d]
    BY <1>5, <1>11 DEF OfKind
  <2>2. "location" \in Kinds /\ "character" \in Kinds
    BY DEF Kinds
  <2> QED
    BY <1>1, <2>1, <2>2 DEF PlacesHaveNoAliases, NamesakesToldApart
<1>13. NothingDangling' /\ JudgedIsItsCard'
  <2>1. \A claim \in claims : claim.card \in Ids \cup {NoCard} /\ claim.judged \in Ids \cup {NoCard}
    BY <1>1 DEF TypeOK
  <2>2. NothingDangling'
    BY <1>1, <1>2, <1>5, <1>8, <2>1 DEF NothingDangling
  <2>3. JudgedIsItsCard'
    <3>1. SUFFICES ASSUME NEW claim \in claims, claim.judged # NoCard
                   PROVE  \/ Unlinked(claim).card = claim.judged
                          \/ cards'[claim.judged].kind = "deleted"
      BY <1>2, <1>8 DEF JudgedIsItsCard
    <3>2. CASE claim.judged = c
      BY <1>3, <1>5, <3>2
    <3>3. CASE claim.judged # c
      BY <1>1, <1>5, <1>8, <2>1, <3>1, <3>3 DEF JudgedIsItsCard
    <3> QED
      BY <3>2, <3>3
  <2> QED
    BY <2>2, <2>3
<1> QED
  BY <1>9, <1>10, <1>12, <1>13 DEF IInv

(* ----------------------------------------------------------------------- *)
(* A run reads and judges.                                                 *)

(* What a sentence may name is of a kind, has a name, and a card there is. *)
LEMMA ReadingsTyped == ASSUME TypeOK PROVE Readings \subseteq Found
<1>1. ASSUME NEW name \in Names PROVE Reading(name) \subseteq Found
  <2>1. /\ Said("character", name, NoCard) \in Found /\ Said("location", name, NoCard) \in Found
        /\ Said("character", NoName, NoCard) \in Found
    BY DEF Said, Found, Kinds
  <2>2. \A c \in Ids : Said("character", cards[c].name, c) \in Found
    BY IdsAreFinite DEF Said, Found, Kinds, Rows
  <2>3. \A c \in {d \in OfKind("character") : name \in KnownAs(d)} :
          Said("character", cards[c].name, c) \in Found
    BY <2>2 DEF OfKind
  <2> HIDE DEF Found
  <2> QED
    BY <2>1, <2>3 DEF Reading
<1>2. Mentioned \subseteq Found
  BY <1>1 DEF Mentioned
<1>3. ASSUME NEW before \in SUBSET Characters PROVE Owner(before) \subseteq Found
  <2>1. Said("character", NoName, NoCard) \in Found
    BY DEF Said, Found, Kinds
  <2>2. before \subseteq Found
    BY <1>2 DEF Characters
  <2> HIDE DEF Found
  <2> QED
    BY <2>1, <2>2 DEF Owner
<1> QED
  BY <1>2, <1>3 DEF Readings

(* Those of one name differ in their card, so they are finitely many. *)
LEMMA ReadingsFinite ==
  ASSUME TypeOK, NEW r \in Readings,
         NEW found \in SUBSET {s \in Readings : s.kind = r.kind /\ s.name = r.name}
  PROVE  IsFiniteSet(found) /\ SetToSeq(found) \in Seq(Found)
<1> DEFINE f == [s \in found |-> s.ref]
<1>1. /\ found \subseteq Found /\ \A s, t \in found : s.kind = t.kind /\ s.name = t.name
  BY ReadingsTyped
<1>2. f \in [found -> Ids \cup {NoCard}]
  BY <1>1 DEF Found
<1>3. \A s, t \in found : s.ref = t.ref => s = t
  BY <1>1 DEF Found
<1>4. IsInjective(f)
  BY <1>3 DEF IsInjective
<1>5. f \in Injection(found, Ids \cup {NoCard})
  BY <1>2, <1>4 DEF Injection
<1>6. IsFiniteSet(Ids \cup {NoCard})
  BY IdsAreFinite, FS_AddElement
<1> HIDE DEF f
<1>7. IsFiniteSet(found)
  BY <1>5, <1>6, FS_Injection
<1>8. SetToSeq(found) \in Seq(found)
  BY <1>7, SetAsSeq
<1> QED
  BY <1>1, <1>7, <1>8

(* A run begins with what the sentences may name. *)
LEMMA ReadStep == ASSUME IInv, Read PROVE IInv'
<1>1. /\ TypeOK /\ PlacesHaveNoAliases /\ NothingDangling /\ JudgedIsItsCard /\ NamesakesToldApart
  BY DEF IInv
<1>2. PICK r \in Readings : \E found \in SUBSET {s \in Readings : s.kind = r.kind /\ s.name = r.name} :
        run' = [Idle EXCEPT !.step = "judge", !.found = SetToSeq(found)]
  BY DEF Read
<1>3. PICK found \in SUBSET {s \in Readings : s.kind = r.kind /\ s.name = r.name} :
        run' = [Idle EXCEPT !.step = "judge", !.found = SetToSeq(found)]
  BY <1>2
<1>4. run'.step = "judge" /\ run'.found = SetToSeq(found)
  BY <1>3 DEF Idle
<1>5. SetToSeq(found) \in Seq(Found)
  BY <1>1, ReadingsFinite
<1>6. cards' = cards /\ claims' = claims /\ edited' = edited /\ Ids' = Ids
  BY DEF Read, Ids
<1>7. TypeOK'
  BY <1>1, <1>4, <1>5, <1>6 DEF TypeOK, Found
<1>8. PlacesHaveNoAliases' /\ NothingDangling' /\ JudgedIsItsCard' /\ NamesakesToldApart'
  BY <1>1, <1>6 DEF PlacesHaveNoAliases, NothingDangling, JudgedIsItsCard, NamesakesToldApart, OfKind
<1>9. MatchesInv' /\ UneditedInv'
  BY <1>4 DEF MatchesInv, UneditedInv
<1> QED
  BY <1>7, <1>8, <1>9 DEF IInv

(* A job that ends leaves nothing begun. *)
LEMMA FailStep == ASSUME IInv, Fail PROVE IInv'
<1>1. /\ TypeOK /\ PlacesHaveNoAliases /\ NothingDangling /\ JudgedIsItsCard /\ NamesakesToldApart
  BY DEF IInv
<1>2. run'.step = "none" /\ run'.found = <<>>
  BY DEF Fail, Idle
<1>3. cards' = cards /\ claims' = claims /\ edited' = FALSE /\ Ids' = Ids
  BY DEF Fail, Ids
<1>4. TypeOK'
  <2>1. run'.found \in Seq(Found')
    BY <1>2
  <2> QED
    BY <1>1, <1>2, <1>3, <2>1 DEF TypeOK, Found
<1>5. PlacesHaveNoAliases' /\ NothingDangling' /\ JudgedIsItsCard' /\ NamesakesToldApart'
  BY <1>1, <1>3 DEF PlacesHaveNoAliases, NothingDangling, JudgedIsItsCard, NamesakesToldApart, OfKind
<1>6. MatchesInv' /\ UneditedInv'
  BY <1>2 DEF MatchesInv, UneditedInv
<1> QED
  BY <1>4, <1>5, <1>6 DEF IInv

(* What Judge leaves of a claim found: a card of its kind, by the name that *)
(* card has; or none, for several; or none, for nobody's name.              *)
LEMMA JudgedClaim ==
  ASSUME TypeOK, NEW claim, claim \in Found, NEW match, match = Find(claim, claim.ref)
  PROVE  /\ Named(claim, match) \in Found /\ Named(claim, match).kind = claim.kind
         /\ match = Match(match.card, match.ambiguous) /\ match.ambiguous \in BOOLEAN
         /\ \/ /\ match.card # NoCard /\ match.card \in OfKind(claim.kind) /\ ~match.ambiguous
               /\ claim.kind = "character" => cards[match.card].name = Named(claim, match).name
            \/ match.card = NoCard /\ match.ambiguous
            \/ match.card = NoCard /\ ~match.ambiguous /\ Unknown(Named(claim, match))
<1>1. Ids \subseteq Nat /\ NoCard \notin Ids /\ \A c \in Ids : cards[c].name \in Names \cup {NoName}
  BY IdsAreFinite DEF Rows
<1>2. CASE \E c \in OfKind(claim.kind) : match = Match(c, FALSE)
  <2>1. PICK c \in OfKind(claim.kind) : match = Match(c, FALSE)
    BY <1>2
  <2>2. match.card = c /\ match.ambiguous = FALSE /\ c \in Ids /\ c # NoCard
    BY <1>1, <2>1 DEF Match, OfKind
  <2>3. CASE claim.kind = "character"
    <3>1. Named(claim, match) = [claim EXCEPT !.name = cards[c].name]
      BY <2>2, <2>3 DEF Named
    <3> QED
      BY <1>1, <2>1, <2>2, <3>1 DEF Found
  <2>4. CASE claim.kind # "character"
    BY <2>1, <2>2, <2>4 DEF Named
  <2> QED
    BY <2>3, <2>4
<1>3. CASE match = Match(NoCard, TRUE)
  BY <1>3 DEF Match, Named
<1>4. CASE match = Match(NoCard, FALSE) /\ Unknown(claim)
  BY <1>4 DEF Match, Named
<1> QED
  BY <1>2, <1>3, <1>4, FindIt

(* The judgment finds each claim's card as the cards are now. *)
LEMMA JudgeStep == ASSUME IInv, Judge PROVE IInv'
<1> DEFINE matches == [i \in DOMAIN run.found |-> Find(run.found[i], run.found[i].ref)]
           found == [i \in DOMAIN matches |-> Named(run.found[i], matches[i])]
<1>1. /\ TypeOK /\ PlacesHaveNoAliases /\ NothingDangling /\ JudgedIsItsCard /\ NamesakesToldApart
  BY DEF IInv
<1>2. run' = [step |-> "store", matches |-> matches, found |-> found]
  BY DEF Judge
<1>3. DOMAIN matches = DOMAIN run.found /\ DOMAIN found = DOMAIN run.found
  OBVIOUS
<1>4. run.found \in Seq(Found)
  BY <1>1 DEF TypeOK, Found
<1>5. ASSUME NEW i \in DOMAIN run.found
      PROVE  /\ found[i] \in Found /\ found[i].kind = run.found[i].kind
             /\ matches[i] = Match(matches[i].card, matches[i].ambiguous)
             /\ matches[i].ambiguous \in BOOLEAN
             /\ \/ /\ matches[i].card # NoCard /\ matches[i].card \in OfKind(found[i].kind)
                   /\ ~matches[i].ambiguous
                   /\ found[i].kind = "character" => cards[matches[i].card].name = found[i].name
                \/ matches[i].card = NoCard /\ matches[i].ambiguous
                \/ matches[i].card = NoCard /\ ~matches[i].ambiguous /\ Unknown(found[i])
  <2>1. run.found[i] \in Found
    BY <1>4
  <2>2. matches[i] = Find(run.found[i], run.found[i].ref) /\ found[i] = Named(run.found[i], matches[i])
    OBVIOUS
  <2> HIDE DEF matches, found
  <2> QED
    BY <1>1, <2>1, <2>2, JudgedClaim
<1>6. found \in Seq(Found)
  <2>1. DOMAIN found = 1 .. Len(run.found) /\ Len(run.found) \in Nat
    BY <1>3, <1>4
  <2>2. found = [i \in DOMAIN found |-> found[i]]
    OBVIOUS
  <2> HIDE DEF matches, found, Found
  <2>3. found \in [1 .. Len(run.found) -> Found]
    BY <1>3, <1>5, <2>1, <2>2
  <2> QED
    BY <2>1, <2>3
<1> HIDE DEF matches, found
<1>7. run'.step = "store" /\ run'.matches = matches /\ run'.found = found
  BY <1>2
<1>8. cards' = cards /\ claims' = claims /\ edited' = FALSE /\ Ids' = Ids
  BY DEF Judge, Ids
<1>9. TypeOK'
  BY <1>1, <1>6, <1>7, <1>8 DEF TypeOK, Found
<1>10. PlacesHaveNoAliases' /\ NothingDangling' /\ JudgedIsItsCard' /\ NamesakesToldApart'
  BY <1>1, <1>8 DEF PlacesHaveNoAliases, NothingDangling, JudgedIsItsCard, NamesakesToldApart, OfKind
<1>11. ASSUME NEW i \in DOMAIN found
       PROVE  /\ matches[i].card \in Ids \cup {NoCard} /\ matches[i].ambiguous \in BOOLEAN
              /\ matches[i] = Match(matches[i].card, matches[i].ambiguous)
              /\ matches[i].ambiguous => matches[i].card = NoCard
              /\ matches[i].card # NoCard => cards[matches[i].card].kind \in {found[i].kind, "deleted"}
  BY <1>3, <1>5 DEF OfKind
<1>12. MatchesInv'
  BY <1>3, <1>7, <1>8, <1>11 DEF MatchesInv, Match
<1>13. UneditedInv'
  <2>1. SUFFICES ASSUME NEW i \in DOMAIN found, found[i].kind = "character"
                 PROVE  IF matches[i].card # NoCard
                          THEN /\ matches[i].card \in OfKind("character")
                               /\ cards[matches[i].card].name = found[i].name
                          ELSE matches[i].ambiguous \/ Unknown(found[i])
    BY <1>7, <1>8 DEF UneditedInv, Unknown, OfKind
  <2> QED
    BY <1>3, <1>5, <2>1
<1> QED
  BY <1>9, <1>10, <1>12, <1>13 DEF IInv

(* ----------------------------------------------------------------------- *)
(* A run stores.                                                           *)

LEMMA RowIs ==
  \A kind, name, aliases : /\ Row(kind, name, aliases).kind = kind
                           /\ Row(kind, name, aliases).name = name
                           /\ Row(kind, name, aliases).aliases = aliases
  BY DEF Row

(* When it stores, a claim is about a card there is, of its kind; or about *)
(* none, for several; or about nobody, who is unknown now. A card found    *)
(* before the judgment it still is about, unless that was deleted.         *)
LEMMA MatchedNow ==
  ASSUME TypeOK, MatchesInv, run.step = "store", NEW i \in DOMAIN run.found
  PROVE  /\ \/ \E c \in OfKind(run.found[i].kind) : MatchNow(i) = Match(c, FALSE)
            \/ MatchNow(i) = Match(NoCard, TRUE)
            \/ MatchNow(i) = Match(NoCard, FALSE) /\ Unknown(run.found[i])
         /\ run.matches[i].card # NoCard =>
              \/ MatchNow(i) = Match(run.matches[i].card, FALSE)
              \/ cards[run.matches[i].card].kind = "deleted"
<1> DEFINE match == run.matches[i]
<1>1. /\ match.card \in Ids \cup {NoCard} /\ match.ambiguous \in BOOLEAN
      /\ match = Match(match.card, match.ambiguous)
      /\ match.ambiguous => match.card = NoCard
      /\ match.card # NoCard => cards[match.card].kind \in {run.found[i].kind, "deleted"}
  BY DEF MatchesInv
<1>2. NoCard \notin Ids
  BY IdsAreFinite
<1>3. run.found[i] \in Found
  BY FoundAre
<1>4. MatchNow(i) = IF match.card \in OfKind(run.found[i].kind) \/ match.ambiguous
                      THEN match ELSE Find(run.found[i], NoCard)
  BY DEF MatchNow
<1> HIDE DEF match
<1>5. CASE match.card \in OfKind(run.found[i].kind)
  <2>1. match.card # NoCard
    BY <1>2, <1>5 DEF OfKind
  <2>2. match.ambiguous = FALSE
    BY <1>1, <2>1
  <2>3. MatchNow(i) = Match(match.card, FALSE)
    BY <1>1, <1>4, <1>5, <2>2
  <2> QED
    BY <1>5, <2>3 DEF match
<1>6. CASE match.ambiguous
  <2>1. match.card = NoCard /\ match.ambiguous = TRUE
    BY <1>1, <1>6
  <2>2. MatchNow(i) = Match(NoCard, TRUE)
    BY <1>1, <1>4, <1>6, <2>1
  <2> QED
    BY <2>1, <2>2 DEF match
<1>7. CASE match.card \notin OfKind(run.found[i].kind) /\ ~match.ambiguous
  <2>1. MatchNow(i) = Find(run.found[i], NoCard)
    BY <1>4, <1>7
  <2>2. match.card # NoCard => cards[match.card].kind = "deleted"
    BY <1>1, <1>7 DEF OfKind
  <2> QED
    BY <1>3, <2>1, <2>2, FindIt DEF match
<1> QED
  BY <1>5, <1>6, <1>7

(* Of the claims without a card, the first of each name. *)
LEMMA Firsts ==
  ASSUME TypeOK
  PROVE  /\ Unmatched \subseteq Nat /\ IsFiniteSet(Unmatched) /\ Unmatched \subseteq DOMAIN run.found
         /\ \A i \in Unmatched : /\ FirstOf(i) \in Unmatched
                                 /\ run.found[FirstOf(i)].kind = run.found[i].kind
                                 /\ run.found[FirstOf(i)].name = run.found[i].name
         /\ \A i, j \in Unmatched :
              run.found[i].kind = run.found[j].kind /\ run.found[i].name = run.found[j].name =>
                FirstOf(i) = FirstOf(j)
<1>1. DOMAIN run.found = 1 .. Len(run.found) /\ Len(run.found) \in Nat
  BY FoundAre
<1>2. Unmatched \subseteq DOMAIN run.found
  BY DEF Unmatched
<1>3. IsFiniteSet(Unmatched)
  <2> DEFINE n == Len(run.found)
  <2>1. n \in Int /\ Unmatched \in SUBSET (1 .. n)
    BY <1>1, <1>2
  <2> HIDE DEF n
  <2>2. IsFiniteSet(1 .. n)
    BY <2>1, FS_Interval
  <2> QED
    BY <2>1, <2>2, FS_Subset
<1>4. Unmatched \subseteq Nat
  BY <1>1, <1>2
<1>5. ASSUME NEW i \in Unmatched
      PROVE  /\ FirstOf(i) \in Unmatched
             /\ run.found[FirstOf(i)].kind = run.found[i].kind
             /\ run.found[FirstOf(i)].name = run.found[i].name
  <2> DEFINE same == {j \in Unmatched : /\ run.found[j].kind = run.found[i].kind
                                        /\ run.found[j].name = run.found[i].name}
  <2>1. same \in SUBSET Nat /\ same # {}
    BY <1>4
  <2>2. FirstOf(i) = Min(same)
    BY DEF FirstOf
  <2>3. Min(same) \in same
    BY <2>1, MinIn
  <2> QED
    BY <2>2, <2>3
<1>6. ASSUME NEW i \in Unmatched, NEW j \in Unmatched,
             run.found[i].kind = run.found[j].kind, run.found[i].name = run.found[j].name
      PROVE  FirstOf(i) = FirstOf(j)
  BY <1>6 DEF FirstOf
<1> QED
  BY <1>2, <1>3, <1>4, <1>5, <1>6

(* They make a card each, in some order. *)
LEMMA NewCardsAre ==
  ASSUME TypeOK
  PROVE  /\ NewCards \in Seq(Unmatched)
         /\ \A n \in DOMAIN NewCards : FirstOf(NewCards[n]) = NewCards[n]
         /\ \A n, m \in DOMAIN NewCards : NewCards[n] = NewCards[m] => n = m
         /\ \A i \in Unmatched : \E n \in DOMAIN NewCards : NewCards[n] = FirstOf(i)
<1> DEFINE S == {FirstOf(i) : i \in Unmatched}
<1>1. S \subseteq Unmatched /\ IsFiniteSet(Unmatched)
  BY Firsts
<1>2. IsFiniteSet(S)
  BY <1>1, FS_Subset
<1>3. \A x \in S : FirstOf(x) = x
  BY Firsts
<1>4. \A i \in Unmatched : FirstOf(i) \in S
  OBVIOUS
<1>5. NewCards = SetToSeq(S)
  BY DEF NewCards
<1> HIDE DEF S
<1>6. /\ NewCards \in Seq(S)
      /\ \A n, m \in DOMAIN NewCards : NewCards[n] = NewCards[m] => n = m
      /\ \A x \in S : \E n \in DOMAIN NewCards : NewCards[n] = x
  BY <1>2, <1>5, SetAsSeq
<1>7. \A n \in DOMAIN NewCards : NewCards[n] \in S
  BY <1>6
<1> QED
  BY <1>1, <1>3, <1>4, <1>6, <1>7

(* What Store makes of the cards. *)
LEMMA Registered ==
  ASSUME TypeOK, MatchesInv, Store
  PROVE  /\ cards' \in Seq(Rows) /\ Ids \subseteq Ids' /\ \A c \in Ids : cards'[c] = cards[c]
         /\ \A c \in Ids' \ Ids : \E n \in DOMAIN NewCards :
              /\ c = Len(cards) + n
              /\ cards'[c] = Row(run.found[NewCards[n]].kind, run.found[NewCards[n]].name, {})
         /\ \A i \in Unmatched : /\ SubjectId(i) \in Ids' \ Ids /\ Unknown(run.found[i])
                                 /\ cards'[SubjectId(i)] = Row(run.found[i].kind, run.found[i].name, {})
<1> DEFINE made == [n \in DOMAIN NewCards |->
                      Row(run.found[NewCards[n]].kind, run.found[NewCards[n]].name, {})]
           N == Len(NewCards)
<1>1. Ids = 1 .. Len(cards) /\ Len(cards) \in Nat /\ cards \in Seq(Rows)
  BY IdsAreFinite DEF TypeOK, Rows
<1>2. /\ NewCards \in Seq(Unmatched) /\ DOMAIN NewCards = 1 .. N /\ N \in Nat
      /\ \A n \in DOMAIN NewCards : NewCards[n] \in Unmatched
  BY NewCardsAre
<1>3. \A i \in DOMAIN run.found : run.found[i] \in Found
  BY FoundAre
<1>4. \A n \in 1 .. N : made[n] \in Rows
  <2>1. ASSUME NEW n \in 1 .. N PROVE made[n] \in Rows
    <3>1. NewCards[n] \in DOMAIN run.found
      BY <1>2, Firsts
    <3>2. run.found[NewCards[n]].kind \in Kinds /\ run.found[NewCards[n]].name \in Names \cup {NoName}
      BY <1>3, <3>1 DEF Found
    <3>3. made[n] = Row(run.found[NewCards[n]].kind, run.found[NewCards[n]].name, {})
      BY <1>2
    <3> QED
      BY <3>2, <3>3 DEF Row, Rows
  <2> QED
    BY <2>1
<1>5. made \in [1 .. N -> Rows]
  BY <1>2, <1>4
<1>6. made \in Seq(Rows) /\ Len(made) = N
  BY <1>2, <1>5
<1>7. cards' = cards \o made
  BY DEF Store
<1>8. /\ cards' \in Seq(Rows) /\ Ids' = 1 .. Len(cards) + N
      /\ \A c \in Ids : cards'[c] = cards[c] /\ c \in Ids'
      /\ \A n \in 1 .. N : cards'[Len(cards) + n] = made[n]
  <2> HIDE DEF made, N
  <2>1. Len(cards \o made) = Len(cards) + N /\ cards \o made \in Seq(Rows)
    BY <1>1, <1>6
  <2>2. DOMAIN (cards \o made) = 1 .. Len(cards) + N
    BY <2>1
  <2>3. \A c \in 1 .. Len(cards) : (cards \o made)[c] = cards[c]
    BY <1>1, <1>6, <1>2
  <2>4. \A n \in 1 .. N : (cards \o made)[Len(cards) + n] = made[n]
    BY <1>1, <1>6, <1>2
  <2> QED
    BY <1>1, <1>2, <1>7, <2>1, <2>2, <2>3, <2>4 DEF Ids
<1>9. ASSUME NEW c \in Ids' \ Ids
      PROVE  \E n \in DOMAIN NewCards :
               /\ c = Len(cards) + n
               /\ cards'[c] = Row(run.found[NewCards[n]].kind, run.found[NewCards[n]].name, {})
  <2> DEFINE n == c - Len(cards)
  <2>1. n \in 1 .. N /\ c = Len(cards) + n
    BY <1>1, <1>2, <1>8
  <2> HIDE DEF n
  <2>2. cards'[c] = made[n]
    BY <1>8, <2>1
  <2> QED
    BY <1>2, <2>1, <2>2
<1>10. ASSUME NEW i \in Unmatched
       PROVE  /\ SubjectId(i) \in Ids' \ Ids /\ Unknown(run.found[i])
              /\ cards'[SubjectId(i)] = Row(run.found[i].kind, run.found[i].name, {})
  <2> DEFINE n == CHOOSE n \in DOMAIN NewCards : NewCards[n] = FirstOf(i)
  <2>1. \E m \in DOMAIN NewCards : NewCards[m] = FirstOf(i)
    BY NewCardsAre
  <2>2. n \in DOMAIN NewCards /\ NewCards[n] = FirstOf(i)
    BY <2>1
  <2>3. SubjectId(i) = Len(cards) + n
    BY DEF SubjectId
  <2> HIDE DEF n
  <2>4. SubjectId(i) \in Ids' \ Ids
    BY <1>1, <1>2, <1>8, <2>2, <2>3
  <2>5. cards'[SubjectId(i)] = made[n]
    BY <1>2, <1>8, <2>2, <2>3
  <2>6. made[n] = Row(run.found[i].kind, run.found[i].name, {})
    BY <2>2, Firsts
  <2>7. i \in DOMAIN run.found /\ MatchNow(i) = Match(NoCard, FALSE)
    BY DEF Unmatched
  <2>8. MatchNow(i) # Match(NoCard, TRUE) /\ \A c \in OfKind(run.found[i].kind) : MatchNow(i) # Match(c, FALSE)
    BY <1>1, <2>7 DEF Match, OfKind
  <2>9. Unknown(run.found[i])
    <3>1. run.step = "store"
      BY DEF Store
    <3> QED
      BY <2>7, <2>8, <3>1, MatchedNow
  <2> QED
    BY <2>4, <2>5, <2>6, <2>9
<1> HIDE DEF made, N
<1> QED
  BY <1>8, <1>9, <1>10

(* A card a run makes has a name no other card of its kind goes by. *)
LEMMA NewAreUnknown ==
  ASSUME TypeOK, PlacesHaveNoAliases, MatchesInv, Store,
         NEW c \in Ids' \ Ids, NEW d \in Ids', d # c, cards'[d].kind = cards'[c].kind
  PROVE  cards'[c].name \notin {cards'[d].name} \cup cards'[d].aliases
<1>1. PICK n \in DOMAIN NewCards :
        /\ c = Len(cards) + n
        /\ cards'[c] = Row(run.found[NewCards[n]].kind, run.found[NewCards[n]].name, {})
  BY Registered
<1> DEFINE claim == run.found[NewCards[n]]
<1>2. cards'[c].kind = claim.kind /\ cards'[c].name = claim.name
  BY <1>1 DEF Row
<1>3. NewCards[n] \in Unmatched
  BY NewCardsAre
<1>4. Unknown(claim) /\ claim.kind \in Kinds
  <2>1. Unknown(run.found[NewCards[n]])
    BY <1>3, Registered
  <2>2. NewCards[n] \in DOMAIN run.found
    BY <1>3, Firsts
  <2> QED
    BY <2>1, <2>2, FoundAre
<1>5. CASE d \in Ids
  <2>1. cards'[d] = cards[d]
    BY <1>5, Registered
  <2>2. d \in OfKind(claim.kind)
    BY <1>2, <1>5, <2>1 DEF OfKind
  <2>3. cards[d].name # claim.name
    BY <1>4, <2>2 DEF Unknown
  <2>4. claim.name \notin cards[d].aliases
    <3>1. CASE claim.kind = "character"
      BY <1>4, <2>2, <3>1 DEF Unknown
    <3>2. CASE claim.kind = "location"
      BY <2>2, <3>2 DEF PlacesHaveNoAliases
    <3> QED
      BY <1>4, <3>1, <3>2 DEF Kinds
  <2> QED
    BY <1>2, <2>1, <2>3, <2>4
<1>6. CASE d \notin Ids
  <2>1. PICK m \in DOMAIN NewCards :
          /\ d = Len(cards) + m
          /\ cards'[d] = Row(run.found[NewCards[m]].kind, run.found[NewCards[m]].name, {})
    BY <1>6, Registered
  <2>2. /\ cards'[d].kind = run.found[NewCards[m]].kind /\ cards'[d].name = run.found[NewCards[m]].name
        /\ cards'[d].aliases = {}
    BY <2>1 DEF Row
  <2>3. ASSUME cards'[d].name = cards'[c].name PROVE FALSE
    <3>1. NewCards[m] \in Unmatched
      BY NewCardsAre
    <3>2. FirstOf(NewCards[m]) = FirstOf(NewCards[n])
      BY <1>2, <1>3, <2>2, <2>3, <3>1, Firsts
    <3>3. NewCards[m] = NewCards[n]
      BY <3>2, NewCardsAre
    <3>4. m = n
      BY <3>3, NewCardsAre
    <3> QED
      BY <1>1, <2>1, <3>4
  <2> QED
    BY <2>2, <2>3
<1> QED
  BY <1>5, <1>6

(* A claim stored is about a card of its kind, the one its flags are about *)
(* unless that was deleted; and shows that card's name, unless the author  *)
(* changed the characters since the judgment.                              *)
LEMMA StoredClaim ==
  ASSUME TypeOK, MatchesInv, UneditedInv, Store, NEW i \in DOMAIN run.found
  PROVE  /\ SubjectId(i) \in Ids' \cup {NoCard}
         /\ SubjectId(i) # NoCard => cards'[SubjectId(i)].kind = run.found[i].kind
         /\ run.matches[i].card \in Ids' \cup {NoCard}
         /\ run.matches[i].card # NoCard =>
              \/ SubjectId(i) = run.matches[i].card
              \/ cards'[run.matches[i].card].kind = "deleted"
         /\ run.found[i].kind = "character" /\ SubjectId(i) # NoCard /\ ~edited =>
              run.found[i].name = cards'[SubjectId(i)].name
<1> DEFINE judged == run.matches[i].card
<1>0. run.step = "store" /\ NoCard \notin Ids
  BY IdsAreFinite DEF Store
<1>1. /\ judged \in Ids \cup {NoCard} /\ run.matches[i].ambiguous \in BOOLEAN
      /\ run.matches[i] = Match(judged, run.matches[i].ambiguous)
      /\ run.matches[i].ambiguous => judged = NoCard
  BY <1>0 DEF MatchesInv
<1>2. Ids \subseteq Ids' /\ \A c \in Ids : cards'[c] = cards[c]
  BY Registered
<1>3. judged # NoCard => MatchNow(i) = Match(judged, FALSE) \/ cards[judged].kind = "deleted"
  BY <1>0, MatchedNow
<1>4. run.found[i].kind = "character" /\ ~edited =>
        IF judged # NoCard
          THEN judged \in OfKind("character") /\ cards[judged].name = run.found[i].name
          ELSE run.matches[i].ambiguous \/ Unknown(run.found[i])
  BY <1>0 DEF UneditedInv
<1>5. judged \in Ids' \cup {NoCard} /\ (judged # NoCard => cards'[judged] = cards[judged])
  BY <1>1, <1>2
<1> HIDE DEF judged
<1>6. CASE i \in Unmatched
  <2>1. /\ SubjectId(i) \in Ids' /\ cards'[SubjectId(i)].kind = run.found[i].kind
        /\ cards'[SubjectId(i)].name = run.found[i].name
    <3>1. /\ SubjectId(i) \in Ids' \ Ids
          /\ cards'[SubjectId(i)] = Row(run.found[i].kind, run.found[i].name, {})
      BY <1>6, Registered
    <3> QED
      BY <3>1, RowIs
  <2>2. MatchNow(i) = Match(NoCard, FALSE)
    BY <1>6 DEF Unmatched
  <2>3. judged # NoCard => cards'[judged].kind = "deleted"
    BY <1>3, <1>5, <2>2 DEF Match
  <2> QED
    BY <1>5, <2>1, <2>3 DEF judged
<1>7. CASE i \notin Unmatched
  <2>1. SubjectId(i) = MatchNow(i).card /\ MatchNow(i) # Match(NoCard, FALSE)
    BY <1>7 DEF SubjectId, Unmatched
  <2>2. CASE \E c \in OfKind(run.found[i].kind) : MatchNow(i) = Match(c, FALSE)
    <3>1. PICK c \in OfKind(run.found[i].kind) : MatchNow(i) = Match(c, FALSE)
      BY <2>2
    <3>2. SubjectId(i) = c /\ c \in Ids /\ cards[c].kind = run.found[i].kind /\ c # NoCard
      BY <1>0, <2>1, <3>1 DEF Match, OfKind
    <3>3. cards'[c] = cards[c] /\ c \in Ids'
      BY <1>2, <3>2
    <3>4. judged # NoCard => c = judged \/ cards[judged].kind = "deleted"
      BY <1>3, <3>1 DEF Match
    <3>5. ASSUME run.found[i].kind = "character", ~edited PROVE run.found[i].name = cards[c].name
      <4>1. CASE judged # NoCard
        <5>1. cards[judged].kind # "deleted" /\ cards[judged].name = run.found[i].name
          BY <1>4, <3>5, <4>1 DEF OfKind
        <5> QED
          BY <3>4, <4>1, <5>1
      <4>2. CASE judged = NoCard
        <5>1. CASE run.matches[i].ambiguous
          <6>1. MatchNow(i).ambiguous
            BY <5>1 DEF MatchNow
          <6> QED
            BY <3>1, <6>1 DEF Match
        <5>2. CASE ~run.matches[i].ambiguous /\ Unknown(run.found[i])
          <6>1. run.matches[i].card \notin OfKind(run.found[i].kind)
            BY <1>0, <4>2 DEF judged, OfKind
          <6>2. MatchNow(i) = Find(run.found[i], NoCard)
            BY <5>2, <6>1 DEF MatchNow
          <6>3. MatchNow(i) = Match(NoCard, FALSE)
            BY <3>5, <5>2, <6>2, FoundAre, UnknownFindsNone
          <6> QED
            BY <2>1, <6>3
        <5> QED
          BY <1>4, <3>5, <4>2, <5>1, <5>2
      <4> QED
        BY <4>1, <4>2
    <3> QED
      BY <1>5, <3>2, <3>3, <3>4, <3>5 DEF judged
  <2>3. CASE MatchNow(i) = Match(NoCard, TRUE)
    <3>1. SubjectId(i) = NoCard
      BY <2>1, <2>3 DEF Match
    <3>2. judged # NoCard => cards'[judged].kind = "deleted"
      BY <1>3, <1>5, <2>3 DEF Match
    <3> QED
      BY <1>5, <3>1, <3>2 DEF judged
  <2> QED
    BY <1>0, <2>1, <2>2, <2>3, MatchedNow
<1> QED
  BY <1>6, <1>7

(* A run stores: each claim with its card, and a card for whoever has none. *)
LEMMA StoreStep == ASSUME IInv, Store PROVE IInv'
<1> DEFINE stored(i) == [kind |-> run.found[i].kind, name |-> run.found[i].name,
                         card |-> SubjectId(i), judged |-> run.matches[i].card]
           CRows == [kind : Kinds, name : Names \cup {NoName}, card : Ids' \cup {NoCard},
                     judged : Ids' \cup {NoCard}]
<1>1. /\ TypeOK /\ PlacesHaveNoAliases /\ MatchesInv /\ UneditedInv /\ NothingDangling
      /\ JudgedIsItsCard /\ NamesakesToldApart
  BY DEF IInv
<1>2. claims' = {stored(i) : i \in DOMAIN run.found}
  BY DEF Store
<1>3. \A i \in DOMAIN run.found :
        /\ SubjectId(i) \in Ids' \cup {NoCard}
        /\ SubjectId(i) # NoCard => cards'[SubjectId(i)].kind = run.found[i].kind
        /\ run.matches[i].card \in Ids' \cup {NoCard}
        /\ run.matches[i].card # NoCard =>
             \/ SubjectId(i) = run.matches[i].card
             \/ cards'[run.matches[i].card].kind = "deleted"
  BY <1>1, StoredClaim
<1>4. run'.step = "none" /\ run'.found = <<>> /\ edited' = FALSE
  BY DEF Store, Idle
<1>5. /\ cards' \in Seq(Rows) /\ Ids \subseteq Ids' /\ \A c \in Ids : cards'[c] = cards[c]
      /\ \A c \in Ids' \ Ids : \E n \in DOMAIN NewCards :
           cards'[c] = Row(run.found[NewCards[n]].kind, run.found[NewCards[n]].name, {})
  BY <1>1, Registered
<1>6. TypeOK'
  <2>1. \A i \in DOMAIN run.found : stored(i) \in CRows
    <3>1. \A i \in DOMAIN run.found :
            run.found[i].kind \in Kinds /\ run.found[i].name \in Names \cup {NoName}
      BY <1>1, FoundAre DEF Found
    <3> QED
      BY <1>3, <3>1
  <2> HIDE DEF stored, CRows
  <2>2. claims' \subseteq CRows
    BY <1>2, <2>1
  <2>3. run'.found \in Seq(Found')
    BY <1>4
  <2> QED
    BY <1>1, <1>4, <1>5, <2>2, <2>3 DEF TypeOK, Found, Rows, CRows
<1>7. NothingDangling'
  BY <1>2, <1>3 DEF NothingDangling
<1>8. JudgedIsItsCard'
  BY <1>2, <1>3 DEF JudgedIsItsCard
<1>9. MatchesInv' /\ UneditedInv'
  BY <1>4 DEF MatchesInv, UneditedInv
<1>10. PlacesHaveNoAliases'
  <2>1. SUFFICES ASSUME NEW c \in Ids', cards'[c].kind = "location" PROVE cards'[c].aliases = {}
    BY DEF PlacesHaveNoAliases, OfKind
  <2>2. CASE c \in Ids
    BY <1>1, <1>5, <2>1, <2>2 DEF PlacesHaveNoAliases, OfKind
  <2>3. CASE c \notin Ids
    <3>1. c \in Ids' \ Ids
      BY <2>3
    <3>2. \E n \in DOMAIN NewCards :
            cards'[c] = Row(run.found[NewCards[n]].kind, run.found[NewCards[n]].name, {})
      BY <1>5, <3>1
    <3> QED
      BY <3>2, RowIs
  <2> QED
    BY <2>2, <2>3
<1>11. NamesakesToldApart'
  <2>1. SUFFICES ASSUME NEW c \in Ids', NEW d \in Ids', cards'[c].kind = "character",
                        cards'[d].kind = "character", c # d, cards'[c].name = cards'[d].name
                 PROVE  /\ cards'[c].aliases # {} /\ cards'[d].aliases # {}
                        /\ cards'[c].aliases \cap cards'[d].aliases = {}
    BY DEF NamesakesToldApart, OfKind
  <2>2. CASE c \in Ids /\ d \in Ids
    <3>1. c \in OfKind("character") /\ d \in OfKind("character") /\ cards[c].name = cards[d].name
      BY <1>5, <2>1, <2>2 DEF OfKind
    <3> QED
      BY <1>1, <1>5, <2>1, <2>2, <3>1 DEF NamesakesToldApart
  <2>3. CASE c \notin Ids
    BY <1>1, <2>1, <2>3, NewAreUnknown
  <2>4. CASE d \notin Ids
    BY <1>1, <2>1, <2>4, NewAreUnknown
  <2> QED
    BY <2>2, <2>3, <2>4
<1> QED
  BY <1>6, <1>7, <1>8, <1>9, <1>10, <1>11 DEF IInv

(* ----------------------------------------------------------------------- *)
(* The theorems.                                                           *)

LEMMA InitIInv == ASSUME Init PROVE IInv
<1>1. cards = <<>> /\ claims = {} /\ run.step = "none" /\ run.found = <<>> /\ edited = FALSE
  BY DEF Init, Idle
<1>2. Ids = {}
  BY <1>1 DEF Ids
<1>3. run.found \in Seq(Found) /\ cards \in Seq(Rows)
  BY <1>1
<1>4. TypeOK
  BY <1>1, <1>3 DEF TypeOK, Found, Rows
<1> QED
  BY <1>1, <1>2, <1>4 DEF IInv, MatchesInv, UneditedInv, PlacesHaveNoAliases, NothingDangling,
     JudgedIsItsCard, NamesakesToldApart, OfKind

LEMMA StutterIInv == ASSUME IInv, UNCHANGED vars PROVE IInv'
<1>1. cards' = cards /\ claims' = claims /\ run' = run /\ edited' = edited /\ Ids' = Ids
  BY DEF vars, Ids
<1>2. \A kind : OfKind(kind)' = OfKind(kind)
  BY <1>1 DEF OfKind
<1>3. \A claim : Unknown(claim)' <=> Unknown(claim)
  BY <1>1, <1>2 DEF Unknown
<1>4. TypeOK' /\ MatchesInv' /\ PlacesHaveNoAliases' /\ NothingDangling' /\ JudgedIsItsCard'
      /\ NamesakesToldApart'
  BY <1>1, <1>2 DEF IInv, TypeOK, MatchesInv, PlacesHaveNoAliases, NothingDangling,
     JudgedIsItsCard, NamesakesToldApart
<1>5. UneditedInv'
  BY <1>1, <1>2, <1>3 DEF IInv, UneditedInv
<1> QED
  BY <1>4, <1>5 DEF IInv

LEMMA StepIInv == ASSUME IInv, [Next]_vars PROVE IInv'
<1>1. ASSUME NEW name \in Names, NEW aliases \in AliasesFor(name), Create(name, aliases) PROVE IInv'
  BY <1>1, CreateStep
<1>2. ASSUME NEW name \in Names, NEW aliases \in AliasesFor(name), NEW c \in Ids, Update(c, name, aliases)
      PROVE  IInv'
  BY <1>2, UpdateStep
<1>3. ASSUME NEW c \in Ids, Delete(c) PROVE IInv'
  BY <1>3, DeleteStep
<1> QED
  BY <1>1, <1>2, <1>3, ReadStep, JudgeStep, StoreStep, FailStep, StutterIInv DEF Next

LEMMA InductiveInvariant == Spec => []IInv
<1>1. Init => IInv
  BY InitIInv
<1>2. IInv /\ [Next]_vars => IInv'
  BY StepIInv
<1> QED
  BY <1>1, <1>2, PTL DEF Spec

(* Every claim is about a card there is, of its kind, and every flag on a *)
(* claim about the card it was judged against, whatever the author does   *)
(* to the cards under a run.                                              *)
THEOREM CardsAreAsSaid == Spec => []Inv
<1>1. IInv => Inv
  BY DEF IInv, Inv
<1> QED
  BY <1>1, InductiveInvariant, PTL

(* No edits and no runs leave two characters that cannot be told apart. *)
THEOREM NamesakesDiffer == Spec => []NamesakesToldApart
<1>1. IInv => NamesakesToldApart
  BY DEF IInv
<1> QED
  BY <1>1, InductiveInvariant, PTL

(* A run makes no card for a name some card of the kind goes by. *)
THEOREM RegistersTheUnknown == Spec => NewIsUnknown
<1> DEFINE A == run' # run => \A c \in DOMAIN cards' \ Ids, d \in DOMAIN cards' :
                 d # c /\ cards'[d].kind = cards'[c].kind =>
                   cards'[c].name \notin {cards'[d].name} \cup cards'[d].aliases
<1>1. IInv /\ [Next]_vars => [A]_vars
  <2>1. SUFFICES ASSUME IInv, Next, run' # run PROVE A
    BY DEF vars
  <2>2. CASE Store
    <3>1. TypeOK /\ PlacesHaveNoAliases /\ MatchesInv
      BY <2>1 DEF IInv
    <3>2. Ids' = DOMAIN cards'
      BY DEF Ids
    <3>3. ASSUME NEW c \in Ids' \ Ids, NEW d \in Ids', d # c, cards'[d].kind = cards'[c].kind
          PROVE  cards'[c].name \notin {cards'[d].name} \cup cards'[d].aliases
      BY <2>2, <3>1, <3>3, NewAreUnknown
    <3> QED
      BY <3>2, <3>3
  <2>3. CASE cards' = cards
    BY <2>3 DEF Ids
  <2> QED
    BY <2>1, <2>2, <2>3 DEF Next, Create, Update, Delete, Read, Judge, Fail
<1> HIDE DEF A
<1>2. Spec => [][A]_vars
  BY <1>1, InductiveInvariant, PTL DEF Spec
<1> QED
  BY <1>2 DEF NewIsUnknown, A

(* A claim shows its card's name, but for what a run stores under which the *)
(* author changed the characters.                                           *)
THEOREM NamesAreShown == Spec => ClaimsShowTheName
<1> DEFINE A == \A claim \in claims' : claim.kind = "character" /\ claim.card # NoCard =>
                 claim.name = cards'[claim.card].name \/ claim \in claims \/ (run' # run /\ edited)
<1>1. IInv /\ [Next]_vars => [A]_vars
  <2>1. SUFFICES ASSUME IInv, Next PROVE A
    BY DEF vars
  <2>2. TypeOK /\ MatchesInv /\ UneditedInv
    BY <2>1 DEF IInv
  <2>3. ASSUME NEW name \in Names, NEW aliases \in AliasesFor(name), NEW c \in Ids, Update(c, name, aliases)
        PROVE  A
    <3>1. /\ cards' = [cards EXCEPT ![c] = Row("character", name, aliases)]
          /\ claims' = {IF claim.card = c /\ name # cards[c].name THEN [claim EXCEPT !.name = name]
                                                                  ELSE claim : claim \in claims}
      BY <2>3 DEF Update
    <3>2. cards'[c].name = name
      BY <3>1 DEF Row, Ids
    <3>3. \A claim \in claims : [claim EXCEPT !.name = name].card = claim.card
                                /\ [claim EXCEPT !.name = name].name = name
      BY <2>2 DEF TypeOK
    <3> QED
      BY <3>1, <3>2, <3>3
  <2>4. ASSUME NEW c \in Ids, Delete(c) PROVE A
    <3>1. claims' = {IF claim.card = c THEN [claim EXCEPT !.card = NoCard] ELSE claim : claim \in claims}
      BY <2>4 DEF Delete
    <3>2. \A claim \in claims : [claim EXCEPT !.card = NoCard].card = NoCard
      BY <2>2 DEF TypeOK
    <3> QED
      BY <3>1, <3>2
  <2>5. CASE Store
    <3>1. SUFFICES ASSUME NEW i \in DOMAIN run.found, run.found[i].kind = "character",
                          SubjectId(i) # NoCard, ~edited
                   PROVE  run.found[i].name = cards'[SubjectId(i)].name
      <4>1. claims' = {[kind |-> run.found[i].kind, name |-> run.found[i].name, card |-> SubjectId(i),
                        judged |-> run.matches[i].card] : i \in DOMAIN run.found}
        BY <2>5 DEF Store
      <4>2. run' # run
        BY <2>5 DEF Store, Idle
      <4> QED
        BY <4>1, <4>2
    <3> QED
      BY <2>2, <2>5, <3>1, StoredClaim
  <2>6. CASE claims' = claims
    BY <2>6
  <2> QED
    BY <2>1, <2>3, <2>4, <2>5, <2>6 DEF Next, Create, Read, Judge, Fail
<1> HIDE DEF A
<1>2. Spec => [][A]_vars
  BY <1>1, InductiveInvariant, PTL DEF Spec
<1> QED
  BY <1>2 DEF ClaimsShowTheName, A
===============================================================================
