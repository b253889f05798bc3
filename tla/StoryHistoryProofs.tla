-------------------------- MODULE StoryHistoryProofs --------------------------
(***************************************************************************)
(* Proofs that what validation leaves on the cards and on record is of the *)
(* manuscripts it read, that an episode is held against what others say    *)
(* only, and that a run replaces nothing that is not its own - for every   *)
(* set of cards and values, any sentences that may be read in any way, and *)
(* any number of episodes.                                                 *)
(***************************************************************************)
EXTENDS StoryHistory, FiniteSetTheorems, WellFoundedInduction, TLAPS

(* What a run works on: its episode, and of each sentence a claim it can be *)
(* read as, or none.                                                        *)
ClaimsInv ==
  /\ DOMAIN run = DOMAIN Idle
  /\ run.step # "none" => run.episode \in Episodes
  /\ \A i \in DOMAIN run.claims : run.claims[i] \in Reads[run.text[i]]

(* What a run may flag: what a claim says of a card's value from elsewhere, *)
(* the author's or another episode's, of a place's state, or of one who     *)
(* died - and the last it does flag.                                        *)
HeldAgainstCard ==
  {f \in [claim : DOMAIN run.claims, attribute : CardKeys, reference : Values \cup {NoValue},
          from : (Episodes \cup {0}) \ {run.episode}] :
     f.from # 0 => \E s \in ToSet(seen[f.from]) :
                     MaySay(s, run.claims[f.claim].about, CardKeys, f.reference)}
FlagsInv ==
  run.step = "store" =>
    /\ run.flags \subseteq HeldAgainstCard \cup StatePairs \cup ShownDead
    /\ ShownDead \subseteq run.flags

IInv ==
  /\ TypeOK
  /\ ClaimsInv
  /\ FlagsInv
  /\ FilledFromTheText
  /\ RecordIsOfTheText

(* ----------------------------------------------------------------------- *)
(* Least and greatest members.                                             *)

(* A nonempty set of naturals has a least member, Min. *)
LEMMA MinIn ==
  ASSUME NEW S \in SUBSET Nat, S # {}
  PROVE  Min(S) \in S /\ \A x \in S : Min(S) <= x
<1>1. PICK x \in S : \A y \in S : ~(<<y, x>> \in OpToRel(<, Nat))
  <2> DEFINE R == OpToRel(<, Nat)
  <2>1. IsWellFoundedOn(R, Nat)
    BY NatLessThanWellFounded
  <2> HIDE DEF R
  <2>2. \E x \in S : \A y \in S : ~(<<y, x>> \in R)
    BY <2>1, WFMin
  <2> QED
    BY <2>2 DEF R
<1>2. \A y \in S : x <= y
  <2>1. ASSUME NEW y \in S PROVE x <= y
    <3>1. ~(y < x)
      BY <1>1 DEF OpToRel
    <3> QED
      BY <3>1
  <2> QED
    BY <2>1
<1> QED
  BY <1>2 DEF Min

(* A nonempty set of naturals up to some bound has a greatest member, Max: *)
(* the least of its bounds.                                                *)
LEMMA MaxIn ==
  ASSUME NEW n \in Nat, NEW S \in SUBSET (0 .. n), S # {}
  PROVE  Max(S) \in S /\ \A x \in S : x <= Max(S)
<1> DEFINE bounds == {m \in Nat : \A x \in S : x <= m}
<1>1. bounds \in SUBSET Nat /\ n \in bounds
  OBVIOUS
<1>2. Min(bounds) \in bounds /\ \A m \in bounds : Min(bounds) <= m
  BY <1>1, MinIn
<1> DEFINE b == Min(bounds)
<1>3. b \in Nat /\ \A x \in S : x <= b
  BY <1>2
<1>4. \A m \in Nat : (\A x \in S : x <= m) => b <= m
  BY <1>2
<1> HIDE DEF b, bounds
<1>5. b \in S
  <2>1. CASE b = 0
    <3>1. PICK x : x \in S
      OBVIOUS
    <3>2. x = 0
      BY <1>3, <2>1, <3>1
    <3> QED
      BY <2>1, <3>1, <3>2
  <2>2. CASE b # 0
    <3>1. b - 1 \in Nat /\ ~(b <= b - 1)
      BY <1>3, <2>2
    <3>2. PICK x \in S : ~(x <= b - 1)
      BY <1>4, <3>1
    <3>3. x = b
      BY <1>3, <3>1, <3>2
    <3> QED
      BY <3>2, <3>3
  <2> QED
    BY <2>1, <2>2
<1>6. b \in S /\ \A x \in S : b >= x
  BY <1>3, <1>5
<1>7. Max(S) \in S /\ \A x \in S : Max(S) >= x
  BY <1>6 DEF Max
<1> QED
  BY <1>7

(* ----------------------------------------------------------------------- *)
(* What the episodes before one left behind.                               *)

(* DiedBefore finds the death no coming back has followed, if there is one. *)
LEMMA Died ==
  ASSUME NEW c, NEW e \in Nat
  PROVE  /\ DiedBefore(c, e) # 0 => /\ DiedBefore(c, e) \in 1 .. e - 1
                                    /\ history[DiedBefore(c, e)][c] \in Deaths
         /\ DiedBefore(c, e) # 0 <=> DeadBefore(c, e)
<1> DEFINE turns == {n \in 1 .. e - 1 : history[n][c] \in Deaths \cup Revivals}
           last == Max({0} \cup turns)
<1>1. {0} \cup turns \in SUBSET (0 .. e)
  OBVIOUS
<1>2. last \in {0} \cup turns /\ \A x \in {0} \cup turns : x <= last
  <2> DEFINE S == {0} \cup turns
  <2>1. S \in SUBSET (0 .. e) /\ S # {}
    BY <1>1
  <2> HIDE DEF S
  <2>2. Max(S) \in S /\ \A x \in S : x <= Max(S)
    BY <2>1, MaxIn
  <2> QED
    BY <2>2 DEF S
<1>3. DiedBefore(c, e) = IF last # 0 /\ history[last][c] \in Deaths THEN last ELSE 0
  BY DEF DiedBefore
<1> HIDE DEF last
<1>4. last # 0 => last \in 1 .. e - 1 /\ history[last][c] \in Deaths \cup Revivals
  BY <1>2
<1>5. \A n \in 1 .. e - 1 : history[n][c] \in Deaths \cup Revivals => n <= last
  BY <1>2
<1>6. last \in Nat
  BY <1>2
<1> HIDE DEF turns
<1>7. CASE last # 0 /\ history[last][c] \in Deaths
  <2>1. DiedBefore(c, e) = last
    BY <1>3, <1>7
  <2>2. ASSUME NEW r \in last + 1 .. e - 1 PROVE history[r][c] \notin Revivals
    <3>1. r \in 1 .. e - 1 /\ ~(r <= last)
      BY <1>6
    <3> QED
      BY <1>5, <3>1
  <2>3. DeadBefore(c, e)
    BY <1>4, <1>7, <2>2 DEF DeadBefore
  <2> QED
    BY <1>4, <1>7, <2>1, <2>3
<1>8. CASE ~(last # 0 /\ history[last][c] \in Deaths)
  <2>1. DiedBefore(c, e) = 0
    BY <1>3, <1>8
  <2>2. ASSUME NEW d \in 1 .. e - 1, history[d][c] \in Deaths,
               \A r \in d + 1 .. e - 1 : history[r][c] \notin Revivals
        PROVE  FALSE
    <3>1. d <= last
      BY <1>5, <2>2
    <3>2. last # 0 /\ history[last][c] \in Revivals /\ last \in 1 .. e - 1
      BY <1>4, <1>6, <1>8, <3>1
    <3>3. last # d
      BY StoryAssumption, <2>2, <3>2
    <3>4. last \in d + 1 .. e - 1
      BY <1>6, <3>1, <3>2, <3>3
    <3> QED
      BY <2>2, <3>2, <3>4
  <2>3. ~DeadBefore(c, e)
    BY <2>2 DEF DeadBefore
  <2> QED
    BY <2>1, <2>3
<1> QED
  BY <1>7, <1>8

(* LatestStateBefore finds the last state on record before the episode. *)
LEMMA Latest ==
  ASSUME NEW p, NEW e \in Nat, LatestStateBefore(p, e) # 0
  PROVE  /\ LatestStateBefore(p, e) \in 1 .. e - 1 /\ history[LatestStateBefore(p, e)][p] # NoValue
         /\ \A n \in 1 .. e - 1 : n > LatestStateBefore(p, e) => history[n][p] = NoValue
<1> DEFINE S == {0} \cup {n \in 1 .. e - 1 : history[n][p] # NoValue}
<1>1. LatestStateBefore(p, e) = Max(S)
  BY DEF LatestStateBefore
<1>2. S \in SUBSET (0 .. e) /\ S # {}
  OBVIOUS
<1> HIDE DEF S
<1>3. Max(S) \in S /\ \A x \in S : x <= Max(S)
  BY <1>2, MaxIn
<1>4. Max(S) \in 1 .. e - 1 /\ history[Max(S)][p] # NoValue
  BY <1>1, <1>3 DEF S
<1>5. ASSUME NEW n \in 1 .. e - 1, n > Max(S) PROVE history[n][p] = NoValue
  <2>1. n \notin S
    BY <1>3, <1>4, <1>5
  <2> QED
    BY <2>1 DEF S
<1> QED
  BY <1>1, <1>4, <1>5

(* ----------------------------------------------------------------------- *)
(* What a run has read, and what it flags.                                 *)

(* The claims a run made are of its text's sentences. *)
LEMMA RunIs ==
  ASSUME TypeOK
  PROVE  /\ run.text \in Seq(Sentences) /\ DOMAIN run.text = 1 .. Len(run.text) /\ Len(run.text) \in Nat
         /\ \A i \in DOMAIN run.text : run.text[i] \in Sentences /\ run.text[i] \in ToSet(run.text)
         /\ DOMAIN run.claims \subseteq DOMAIN run.text
         /\ \A i \in DOMAIN run.claims : run.claims[i].about \in Cards /\ run.claims[i].key \in Keys
                                         /\ run.claims[i].value \in Values
<1>1. run.text \in story.texts \cup {<<>>} /\ story.texts \subseteq Seq(Sentences)
  BY StoryAssumption DEF TypeOK
<1>2. run.text \in Seq(Sentences)
  <2>1. <<>> \in Seq(Sentences)
    OBVIOUS
  <2> QED
    BY <1>1, <2>1
<1>3. DOMAIN run.claims \subseteq DOMAIN run.text /\ \A i \in DOMAIN run.claims : run.claims[i] \in Claims
  BY DEF TypeOK
<1>4. \A c \in Claims : c.about \in Cards /\ c.key \in Keys /\ c.value \in Values
  BY DEF Claims
<1>5. /\ DOMAIN run.text = 1 .. Len(run.text) /\ Len(run.text) \in Nat
      /\ \A i \in DOMAIN run.text : run.text[i] \in Sentences
  BY <1>2
<1>6. \A i \in DOMAIN run.text : run.text[i] \in ToSet(run.text)
  BY DEF ToSet
<1> QED
  BY <1>2, <1>3, <1>4, <1>5, <1>6

(* Some of them have a first and a last. *)
LEMMA SomeSaid ==
  ASSUME TypeOK, NEW S \in SUBSET DOMAIN run.claims, S # {}
  PROVE  Min(S) \in S /\ Max(S) \in S
<1>1. DOMAIN run.claims \subseteq 1 .. Len(run.text) /\ Len(run.text) \in Nat
  BY RunIs
<1> DEFINE n == Len(run.text)
<1>2. n \in Nat /\ S \in SUBSET (0 .. n) /\ S \in SUBSET Nat
  BY <1>1
<1> HIDE DEF n
<1> QED
  BY <1>2, MinIn, MaxIn

LEMMA FlagIs ==
  \A i, attribute, setting, from :
    /\ Flag(i, attribute, setting, from).claim = i /\ Flag(i, attribute, setting, from).attribute = attribute
    /\ Flag(i, attribute, setting, from).reference = setting /\ Flag(i, attribute, setting, from).from = from
  BY DEF Flag

(* An episode that has a character die before, shown here without coming back. *)
ShownAfterDeath(c) ==
  /\ c \in Characters /\ DeadBefore(c, run.episode) /\ Said(c, {"presence"}) # {}
  /\ ~\E i \in Said(c, {"condition"}) : run.claims[i].value \in Revivals
DeathFlag(c) ==
  Flag(Min(Said(c, {"presence"})), "presence", history[DiedBefore(c, run.episode)][c],
       DiedBefore(c, run.episode))

(* The flags of those shown after their death: one of each. *)
LEMMA ShownAre ==
  ASSUME TypeOK, run.episode \in Nat
  PROVE  /\ ShownDead = {DeathFlag(c) : c \in {d \in Characters : ShownAfterDeath(d)}}
         /\ \A c \in Characters : ShownAfterDeath(c) =>
              /\ DeathFlag(c).claim \in DOMAIN run.claims /\ run.claims[DeathFlag(c).claim].about = c
              /\ DeathFlag(c).attribute = "presence" /\ DeathFlag(c).from \in 1 .. run.episode - 1
<1> DEFINE revived == {c \in Characters : \E i \in Said(c, {"condition"}) : run.claims[i].value \in Revivals}
           shown == {c \in Characters \ revived : /\ DiedBefore(c, run.episode) # 0
                                                  /\ Said(c, {"presence"}) # {}}
<1>1. \A c \in Characters : c \in shown <=> ShownAfterDeath(c)
  BY Died DEF ShownAfterDeath
<1>2. shown = {d \in Characters : ShownAfterDeath(d)}
  BY <1>1
<1>3. ShownDead = {DeathFlag(c) : c \in shown}
  BY DEF ShownDead, DeathFlag
<1> HIDE DEF shown
<1>4. ASSUME NEW c \in Characters, ShownAfterDeath(c)
      PROVE  /\ DeathFlag(c).claim \in DOMAIN run.claims /\ run.claims[DeathFlag(c).claim].about = c
             /\ DeathFlag(c).attribute = "presence" /\ DeathFlag(c).from \in 1 .. run.episode - 1
  <2>1. Said(c, {"presence"}) # {} /\ DiedBefore(c, run.episode) # 0
    BY <1>4, Died DEF ShownAfterDeath
  <2>2. Said(c, {"presence"}) \in SUBSET DOMAIN run.claims
    BY DEF Said
  <2>3. Min(Said(c, {"presence"})) \in Said(c, {"presence"})
    BY <2>1, <2>2, SomeSaid
  <2>4. /\ DeathFlag(c).claim = Min(Said(c, {"presence"})) /\ DeathFlag(c).attribute = "presence"
        /\ DeathFlag(c).from = DiedBefore(c, run.episode)
    BY FlagIs DEF DeathFlag
  <2>5. run.claims[Min(Said(c, {"presence"}))].about = c /\ Min(Said(c, {"presence"})) \in DOMAIN run.claims
    BY <2>3 DEF Said
  <2>6. DiedBefore(c, run.episode) \in 1 .. run.episode - 1
    BY <2>1, Died
  <2> QED
    BY <2>4, <2>5, <2>6
<1> QED
  BY <1>2, <1>3, <1>4

(* A place's features are held against the last state before, where the *)
(* episode does not change it.                                          *)
LEMMA StatePairIs ==
  ASSUME NEW f \in StatePairs
  PROVE  /\ f.claim \in DOMAIN run.claims /\ f.attribute = "state"
         /\ LatestStateBefore(run.claims[f.claim].about, run.episode) # 0
         /\ f.from = LatestStateBefore(run.claims[f.claim].about, run.episode)
         /\ f.reference = history[f.from][run.claims[f.claim].about]
         /\ Said(run.claims[f.claim].about, {"state"}) = {}
<1> DEFINE at(i) == LatestStateBefore(run.claims[i].about, run.episode)
           unchanged == {p \in Places : Said(p, {"state"}) = {}}
<1>1. PICK i \in {j \in UNION {Said(p, {"features"}) : p \in unchanged} : at(j) # 0} :
        f = Flag(i, "state", history[at(i)][run.claims[i].about], at(i))
  BY DEF StatePairs
<1>2. PICK p \in unchanged : i \in Said(p, {"features"})
  BY <1>1
<1>3. i \in DOMAIN run.claims /\ run.claims[i].about = p /\ Said(p, {"state"}) = {}
  BY <1>2 DEF Said
<1>4. at(i) # 0
  BY <1>1
<1>5. /\ f.claim = i /\ f.attribute = "state" /\ f.reference = history[at(i)][run.claims[i].about]
      /\ f.from = at(i)
  <2>1. f = Flag(i, "state", history[at(i)][run.claims[i].about], at(i))
    BY <1>1
  <2> HIDE DEF at
  <2> QED
    BY <2>1, FlagIs
<1> QED
  BY <1>3, <1>4, <1>5

(* What a claim says is held against a card's value of another's. *)
LEMMA PairsAre ==
  ASSUME TypeOK, FilledFromTheText
  PROVE  Pairs \subseteq HeldAgainstCard
<1> SUFFICES ASSUME NEW f \in Pairs PROVE f \in HeldAgainstCard
  OBVIOUS
<1>1. PICK i \in {j \in DOMAIN run.claims : ToJudge(j)} :
        f = Flag(i, run.claims[i].key, attrs[run.claims[i].about], source[run.claims[i].about].episode)
  BY DEF Pairs
<1>2. i \in DOMAIN run.claims /\ run.claims[i].key \in CardKeys
      /\ source[run.claims[i].about].episode # run.episode
  BY <1>1 DEF ToJudge
<1>3. run.claims[i].about \in Cards
  BY <1>2, RunIs
<1>4. attrs[run.claims[i].about] \in Values \cup {NoValue}
      /\ source[run.claims[i].about].episode \in Episodes \cup {0}
  BY <1>3 DEF TypeOK
<1>5. source[run.claims[i].about].episode # 0 =>
        \E s \in ToSet(seen[source[run.claims[i].about].episode]) :
          MaySay(s, run.claims[i].about, CardKeys, attrs[run.claims[i].about])
  BY <1>3 DEF FilledFromTheText
<1>6. /\ f.claim = i /\ f.attribute = run.claims[i].key /\ f.reference = attrs[run.claims[i].about]
      /\ f.from = source[run.claims[i].about].episode
      /\ f \in [claim : DOMAIN run.claims, attribute : CardKeys, reference : Values \cup {NoValue},
                from : (Episodes \cup {0}) \ {run.episode}]
  BY <1>1, <1>2, <1>4 DEF Flag
<1> QED
  BY <1>5, <1>6 DEF HeldAgainstCard

(* ----------------------------------------------------------------------- *)
(* What the invariant says of the flags.                                   *)

(* Nothing a run flags is held against its own episode, nor against a value *)
(* no other says, nor a state other than the last before it, nor where the  *)
(* episode changes the state.                                               *)
LEMMA HeldElsewhere == ASSUME IInv PROVE HeldAgainstOthers
<1>1. SUFFICES ASSUME run.step = "store", NEW f \in run.flags
      PROVE  /\ f.from # run.episode
             /\ f.attribute \in CardKeys /\ f.from # 0 =>
                  \E s \in ToSet(seen[f.from]) :
                    MaySay(s, run.claims[f.claim].about, CardKeys, f.reference)
             /\ f.attribute \notin CardKeys => f.from < run.episode
             /\ f.attribute = "state" =>
                  /\ f.reference = history[f.from][run.claims[f.claim].about]
                  /\ \A n \in f.from + 1 .. run.episode :
                       n < run.episode => history[n][run.claims[f.claim].about] = NoValue
                  /\ ~\E i \in DOMAIN run.claims :
                       run.claims[i].about = run.claims[f.claim].about /\ run.claims[i].key = "state"
  BY DEF HeldAgainstOthers, Storing
<1>2. /\ TypeOK /\ run.episode \in Episodes
      /\ run.flags \subseteq HeldAgainstCard \cup StatePairs \cup ShownDead
  BY <1>1 DEF IInv, ClaimsInv, FlagsInv
<1>3. run.episode \in Nat
  BY <1>2 DEF Episodes, TypeOK
<1>4. CASE f \in HeldAgainstCard
  BY <1>4 DEF HeldAgainstCard, CardKeys
<1>5. CASE f \in StatePairs
  <2> DEFINE p == run.claims[f.claim].about
  <2>1. /\ f.claim \in DOMAIN run.claims /\ f.from = LatestStateBefore(p, run.episode) /\ f.from # 0
        /\ f.reference = history[f.from][p] /\ Said(p, {"state"}) = {}
    BY <1>5, StatePairIs
  <2>2. /\ f.from \in 1 .. run.episode - 1
        /\ \A n \in 1 .. run.episode - 1 : n > f.from => history[n][p] = NoValue
    BY <1>3, <2>1, Latest
  <2>3. ~\E i \in DOMAIN run.claims : run.claims[i].about = p /\ run.claims[i].key = "state"
    BY <2>1 DEF Said
  <2> HIDE DEF p
  <2>4. \A n \in f.from + 1 .. run.episode : n < run.episode => history[n][p] = NoValue
    BY <1>3, <2>2
  <2>5. f.from # run.episode /\ f.from < run.episode
    BY <1>3, <2>2
  <2>6. f.attribute \notin CardKeys
    BY <1>5, StatePairIs DEF CardKeys
  <2> QED
    BY <2>1, <2>3, <2>4, <2>5, <2>6 DEF p
<1>6. CASE f \in ShownDead
  <2>1. PICK c \in Characters : ShownAfterDeath(c) /\ f = DeathFlag(c)
    BY <1>2, <1>3, <1>6, ShownAre
  <2>2. f.attribute = "presence" /\ f.from \in 1 .. run.episode - 1
    BY <1>2, <1>3, <2>1, ShownAre
  <2> QED
    BY <1>3, <2>2 DEF CardKeys
<1> QED
  BY <1>2, <1>4, <1>5, <1>6

(* One who died and is shown without having come back is flagged once. *)
LEMMA DeadNoticed == ASSUME IInv PROVE DeadAreNoticed
<1>1. SUFFICES ASSUME run.step = "store", NEW c \in Characters, Said(c, {"presence"}) # {}
      PROVE  Cardinality({f \in run.flags : f.attribute = "presence" /\ run.claims[f.claim].about = c})
             = IF DeadBefore(c, run.episode) /\ ~\E i \in Said(c, {"condition"}) : run.claims[i].value \in Revivals
                 THEN 1 ELSE 0
  BY DEF DeadAreNoticed, Storing
<1> DEFINE flags == {f \in run.flags : f.attribute = "presence" /\ run.claims[f.claim].about = c}
<1>2. /\ TypeOK /\ run.episode \in Episodes
      /\ run.flags \subseteq HeldAgainstCard \cup StatePairs \cup ShownDead /\ ShownDead \subseteq run.flags
  BY <1>1 DEF IInv, ClaimsInv, FlagsInv
<1>3. run.episode \in Nat
  BY <1>2 DEF Episodes, TypeOK
<1>4. ShownAfterDeath(c) <=> /\ DeadBefore(c, run.episode)
                             /\ ~\E i \in Said(c, {"condition"}) : run.claims[i].value \in Revivals
  BY <1>1 DEF ShownAfterDeath
<1>5. \A f \in flags : ShownAfterDeath(c) /\ f = DeathFlag(c)
  <2>1. SUFFICES ASSUME NEW f \in flags PROVE ShownAfterDeath(c) /\ f = DeathFlag(c)
    OBVIOUS
  <2>2. f \in run.flags /\ f.attribute = "presence" /\ run.claims[f.claim].about = c
    BY <2>1
  <2>3. f \notin HeldAgainstCard
    BY <2>2 DEF HeldAgainstCard, CardKeys
  <2>4. f \notin StatePairs
    BY <2>2, StatePairIs
  <2>5. f \in ShownDead
    BY <1>2, <2>2, <2>3, <2>4
  <2>6. PICK d \in Characters : ShownAfterDeath(d) /\ f = DeathFlag(d)
    BY <1>2, <1>3, <2>5, ShownAre
  <2>7. d = c
    BY <1>2, <1>3, <2>2, <2>6, ShownAre
  <2> QED
    BY <2>6, <2>7
<1>6. ShownAfterDeath(c) => DeathFlag(c) \in flags
  <2>1. SUFFICES ASSUME ShownAfterDeath(c) PROVE DeathFlag(c) \in flags
    OBVIOUS
  <2>2. DeathFlag(c) \in ShownDead
    BY <1>2, <1>3, <2>1, ShownAre
  <2>3. run.claims[DeathFlag(c).claim].about = c /\ DeathFlag(c).attribute = "presence"
    BY <1>2, <1>3, <2>1, ShownAre
  <2> QED
    BY <1>2, <2>2, <2>3
<1> HIDE DEF flags
<1>7. CASE ShownAfterDeath(c)
  <2>1. flags = {DeathFlag(c)}
    BY <1>5, <1>6, <1>7
  <2>2. Cardinality(flags) = 1
    BY <2>1, FS_Singleton
  <2> QED
    BY <1>4, <1>7, <2>2 DEF flags
<1>8. CASE ~ShownAfterDeath(c)
  <2>1. flags = {}
    BY <1>5, <1>8
  <2>2. Cardinality(flags) = 0
    BY <2>1, FS_EmptySet
  <2> QED
    BY <1>4, <1>8, <2>2 DEF flags
<1> QED
  BY <1>7, <1>8

(* ----------------------------------------------------------------------- *)
(* The author, and the end of a run.                                       *)

(* What a run may flag is fixed by what it read and what is on record. *)
LEMMA FlagsStay ==
  ASSUME run'.claims = run.claims, run'.episode = run.episode, history' = history, story' = story,
         seen' = seen
  PROVE  StatePairs' = StatePairs /\ ShownDead' = ShownDead /\ HeldAgainstCard' = HeldAgainstCard
<1>1. \A c, keys : Said(c, keys)' = Said(c, keys)
  BY DEF Said
<1>2. \A c, e : DiedBefore(c, e)' = DiedBefore(c, e)
  BY DEF DiedBefore
<1>3. \A p, e : LatestStateBefore(p, e)' = LatestStateBefore(p, e)
  BY DEF LatestStateBefore
<1>4. StatePairs' = StatePairs
  BY <1>1, <1>3 DEF StatePairs, Flag
<1>5. ShownDead' = ShownDead
  BY <1>1, <1>2 DEF ShownDead, Flag
<1>6. HeldAgainstCard' = HeldAgainstCard
  BY DEF HeldAgainstCard, Episodes
<1> QED
  BY <1>4, <1>5, <1>6

(* The author's steps change nothing a run has read. *)
LEMMA RunStays ==
  ASSUME IInv, run' = run, history' = history, story' = story, seen' = seen
  PROVE  ClaimsInv' /\ FlagsInv'
<1>1. StatePairs' = StatePairs /\ ShownDead' = ShownDead /\ HeldAgainstCard' = HeldAgainstCard
  BY FlagsStay
<1>2. ClaimsInv'
  BY DEF IInv, ClaimsInv, Episodes
<1>3. FlagsInv'
  BY <1>1 DEF IInv, FlagsInv
<1> QED
  BY <1>2, <1>3

LEMMA WriteStep == ASSUME IInv, NEW e \in Episodes, NEW text, Write(e, text) PROVE IInv'
<1>1. /\ text \in story.texts /\ manuscript' = [manuscript EXCEPT ![e] = text] /\ story' = story
      /\ seen' = seen /\ attrs' = attrs /\ source' = source /\ exempt' = exempt /\ history' = history
      /\ run' = run
  BY DEF Write, cardVars
<1>2. TypeOK /\ FilledFromTheText /\ RecordIsOfTheText
  BY DEF IInv
<1>3. TypeOK'
  BY <1>1, <1>2 DEF TypeOK, Episodes
<1>4. FilledFromTheText' /\ RecordIsOfTheText'
  BY <1>1, <1>2 DEF FilledFromTheText, RecordIsOfTheText, Episodes
<1>5. ClaimsInv' /\ FlagsInv'
  BY <1>1, RunStays
<1> QED
  BY <1>3, <1>4, <1>5 DEF IInv

(* A value the author sets is of no text. *)
LEMMA EditCardStep == ASSUME IInv, NEW edit \in story.edits, EditCard(edit[1], edit[2]) PROVE IInv'
<1> DEFINE c == edit[1]
           v == edit[2]
<1>1. /\ attrs' = [attrs EXCEPT ![c] = v] /\ source' = [source EXCEPT ![c] = ByAuthor]
      /\ story' = story /\ manuscript' = manuscript /\ seen' = seen /\ exempt' = exempt
      /\ history' = history /\ run' = run
  BY DEF EditCard
<1>2. TypeOK /\ FilledFromTheText /\ RecordIsOfTheText
  BY DEF IInv
<1>3. c \in Cards /\ v \in Values \cup {NoValue}
  <2>1. edit \in Cards \X (Values \cup {NoValue})
    BY <1>2, StoryAssumption DEF TypeOK
  <2> QED
    BY <2>1
<1> HIDE DEF c, v
<1>4. ByAuthor.episode = 0 /\ ByAuthor \in [episode : Episodes \cup {0}, evidence : Sentences \cup {NoSentence}]
  BY DEF ByAuthor
<1>5. TypeOK'
  <2>1. attrs' \in [Cards -> Values \cup {NoValue}]
    BY <1>1, <1>2, <1>3 DEF TypeOK
  <2>2. source' \in [Cards -> [episode : Episodes \cup {0}, evidence : Sentences \cup {NoSentence}]]
    BY <1>1, <1>2, <1>3, <1>4 DEF TypeOK
  <2> QED
    BY <1>1, <1>2, <2>1, <2>2 DEF TypeOK, Episodes
<1>6. FilledFromTheText'
  <2>1. SUFFICES ASSUME NEW d \in Cards, source'[d].episode # 0
                 PROVE  /\ source'[d].evidence \in ToSet(seen[source'[d].episode])
                        /\ MaySay(source'[d].evidence, d, CardKeys, attrs'[d])
    BY <1>1 DEF FilledFromTheText
  <2>2. d # c
    BY <1>1, <1>2, <1>3, <1>4, <2>1 DEF TypeOK
  <2>3. source'[d] = source[d] /\ attrs'[d] = attrs[d]
    BY <1>1, <1>2, <2>2 DEF TypeOK
  <2> QED
    BY <1>2, <2>1, <2>3 DEF FilledFromTheText
<1>7. RecordIsOfTheText'
  BY <1>1, <1>2 DEF RecordIsOfTheText, Episodes
<1>8. ClaimsInv' /\ FlagsInv'
  BY <1>1, RunStays
<1> QED
  BY <1>5, <1>6, <1>7, <1>8 DEF IInv

LEMMA ExemptStep == ASSUME IInv, NEW c \in story.exempts, Exempt(c) PROVE IInv'
<1>1. /\ exempt' = (IF c \in exempt THEN exempt \ {c} ELSE exempt \cup {c})
      /\ story' = story /\ manuscript' = manuscript /\ seen' = seen /\ attrs' = attrs
      /\ source' = source /\ history' = history /\ run' = run
  BY DEF Exempt
<1>2. TypeOK /\ FilledFromTheText /\ RecordIsOfTheText
  BY DEF IInv
<1>3. c \in Characters
  BY <1>2, StoryAssumption DEF TypeOK
<1>4. exempt' \in SUBSET Characters
  BY <1>1, <1>2, <1>3 DEF TypeOK
<1>5. TypeOK'
  BY <1>1, <1>2, <1>4 DEF TypeOK, Episodes
<1>6. FilledFromTheText' /\ RecordIsOfTheText'
  BY <1>1, <1>2 DEF FilledFromTheText, RecordIsOfTheText, Episodes
<1>7. ClaimsInv' /\ FlagsInv'
  BY <1>1, RunStays
<1> QED
  BY <1>5, <1>6, <1>7 DEF IInv

(* No run at work: nothing read, nothing flagged. *)
LEMMA IdleIs ==
  /\ Idle.step = "none" /\ Idle.episode = 0 /\ Idle.text = <<>> /\ DOMAIN Idle.text = {}
  /\ DOMAIN Idle.claims = {}
  BY DEF Idle

LEMMA FailStep == ASSUME IInv, Fail PROVE IInv'
<1>1. /\ run' = Idle /\ story' = story /\ manuscript' = manuscript /\ seen' = seen /\ attrs' = attrs
      /\ source' = source /\ exempt' = exempt /\ history' = history
  BY DEF Fail, cardVars
<1>2. TypeOK /\ FilledFromTheText /\ RecordIsOfTheText
  BY DEF IInv
<1>3. TypeOK'
  BY <1>1, <1>2, IdleIs DEF TypeOK, Episodes
<1>4. FilledFromTheText' /\ RecordIsOfTheText'
  BY <1>1, <1>2 DEF FilledFromTheText, RecordIsOfTheText, Episodes
<1>5. ClaimsInv' /\ FlagsInv'
  BY <1>1, IdleIs DEF ClaimsInv, FlagsInv
<1> QED
  BY <1>3, <1>4, <1>5 DEF IInv

(* ----------------------------------------------------------------------- *)
(* A run reads and judges.                                                 *)

(* The extraction makes claims of what the sentences may be read as. *)
LEMMA ExtractionsAre ==
  ASSUME NEW text, NEW dead, NEW claims \in Extractions(text, dead)
  PROVE  DOMAIN claims \subseteq DOMAIN text /\ \A i \in DOMAIN claims : claims[i] \in Reads[text[i]]
<1> DEFINE of(s) == Answers(s) \cup Features(s) \cup StateChanges(s)
                      \cup Conditions(s) \cup Presences(s, dead)
<1>1. \A s : of(s) \subseteq Reads[s]
  BY DEF Answers, Features, StateChanges, Conditions, Presences, Told
<1>2. PICK said \in SUBSET DOMAIN text :
        claims \in {r \in [said -> UNION {of(text[i]) : i \in said}] : \A i \in said : r[i] \in of(text[i])}
  BY DEF Extractions
<1> HIDE DEF of
<1>3. DOMAIN claims = said /\ \A i \in said : claims[i] \in of(text[i])
  BY <1>2
<1> QED
  BY <1>1, <1>3

LEMMA ReadStep == ASSUME IInv, NEW e \in Episodes, Read(e) PROVE IInv'
<1>1. /\ story' = story /\ manuscript' = manuscript /\ seen' = seen /\ attrs' = attrs
      /\ source' = source /\ exempt' = exempt /\ history' = history
  BY DEF Read, cardVars
<1>2. PICK dead : \E claims \in Extractions(manuscript[e], dead) :
        run' = [step |-> "judge", episode |-> e, text |-> manuscript[e], claims |-> claims, flags |-> {}]
  BY DEF Read
<1>3. PICK claims \in Extractions(manuscript[e], dead) :
        run' = [step |-> "judge", episode |-> e, text |-> manuscript[e], claims |-> claims, flags |-> {}]
  BY <1>2
<1>4. /\ run'.step = "judge" /\ run'.episode = e /\ run'.text = manuscript[e] /\ run'.claims = claims
      /\ DOMAIN run' = DOMAIN Idle
  BY <1>3 DEF Idle
<1>5. DOMAIN claims \subseteq DOMAIN manuscript[e] /\ \A i \in DOMAIN claims : claims[i] \in Reads[manuscript[e][i]]
  BY ExtractionsAre
<1>6. TypeOK /\ FilledFromTheText /\ RecordIsOfTheText
  BY DEF IInv
<1>7. manuscript[e] \in story.texts \cup {<<>>} /\ story.texts \subseteq Seq(Sentences)
  BY <1>6, StoryAssumption DEF TypeOK
<1>8. \A i \in DOMAIN claims : claims[i] \in Claims
  <2>1. manuscript[e] \in Seq(Sentences)
    <3>1. <<>> \in Seq(Sentences)
      OBVIOUS
    <3> QED
      BY <1>7, <3>1
  <2>2. \A i \in DOMAIN manuscript[e] : manuscript[e][i] \in Sentences
    BY <2>1
  <2>3. \A s \in Sentences : Reads[s] \subseteq Claims
    BY StoryAssumption
  <2> QED
    BY <1>5, <2>2, <2>3
<1>9. TypeOK'
  BY <1>1, <1>4, <1>5, <1>6, <1>7, <1>8 DEF TypeOK, Episodes
<1>10. FilledFromTheText' /\ RecordIsOfTheText'
  BY <1>1, <1>6 DEF FilledFromTheText, RecordIsOfTheText, Episodes
<1>11. ClaimsInv' /\ FlagsInv'
  BY <1>1, <1>4, <1>5 DEF ClaimsInv, FlagsInv, Episodes
<1> QED
  BY <1>9, <1>10, <1>11 DEF IInv

(* One flag is kept of each card, attribute and sentence: one who died and is *)
(* shown has no other.                                                        *)
LEMMA JudgeStep == ASSUME IInv, Judge PROVE IInv'
<1>1. /\ story' = story /\ manuscript' = manuscript /\ seen' = seen /\ attrs' = attrs
      /\ source' = source /\ exempt' = exempt /\ history' = history
  BY DEF Judge, cardVars
<1>2. run.step = "judge" /\ TypeOK /\ ClaimsInv /\ FilledFromTheText /\ RecordIsOfTheText
  BY DEF IInv, Judge
<1>3. PICK found : \E flags \in Deduped({f \in Pairs \cup StatePairs : Question(f) \in found} \cup ShownDead) :
        run' = [run EXCEPT !.step = "store", !.flags = flags]
  BY DEF Judge
<1> DEFINE all == {f \in Pairs \cup StatePairs : Question(f) \in found} \cup ShownDead
<1>4. PICK flags \in Deduped(all) : run' = [run EXCEPT !.step = "store", !.flags = flags]
  BY <1>3
<1>5. all \subseteq HeldAgainstCard \cup StatePairs \cup ShownDead /\ ShownDead \subseteq all
  BY <1>2, PairsAre
<1> HIDE DEF all
<1>6. /\ flags \subseteq all /\ \A f \in all : \E g \in flags : Detection(g) = Detection(f)
  BY DEF Deduped
<1>7. flags \subseteq HeldAgainstCard \cup StatePairs \cup ShownDead
  BY <1>5, <1>6
<1>8. run.episode \in Nat
  BY <1>2 DEF ClaimsInv, Episodes, TypeOK
<1>9. ShownDead \subseteq flags
  <2>1. SUFFICES ASSUME NEW f \in ShownDead PROVE f \in flags
    OBVIOUS
  <2>2. PICK c \in Characters : ShownAfterDeath(c) /\ f = DeathFlag(c)
    BY <1>2, <1>8, ShownAre
  <2>3. run.claims[f.claim].about = c /\ f.attribute = "presence"
    BY <1>2, <1>8, <2>2, ShownAre
  <2>4. PICK g \in flags : Detection(g) = Detection(f)
    BY <1>5, <1>6
  <2>5. run.claims[g.claim].about = c /\ g.attribute = "presence"
    BY <2>3, <2>4 DEF Detection
  <2>6. g \notin HeldAgainstCard
    BY <2>5 DEF HeldAgainstCard, CardKeys
  <2>7. g \notin StatePairs
    BY <2>5, StatePairIs
  <2>8. g \in ShownDead
    BY <1>7, <2>6, <2>7
  <2>9. PICK d \in Characters : ShownAfterDeath(d) /\ g = DeathFlag(d)
    BY <1>2, <1>8, <2>8, ShownAre
  <2>10. d = c
    BY <1>2, <1>8, <2>5, <2>9, ShownAre
  <2> QED
    BY <2>2, <2>9, <2>10
<1>10. /\ run'.claims = run.claims /\ run'.episode = run.episode /\ run'.text = run.text
       /\ run'.step = "store" /\ run'.flags = flags
  <2>1. {"step", "episode", "text", "claims", "flags"} = DOMAIN run
    BY <1>2 DEF ClaimsInv, Idle
  <2> QED
    BY <1>2, <1>4, <2>1 DEF TypeOK
<1>11. StatePairs' = StatePairs /\ ShownDead' = ShownDead /\ HeldAgainstCard' = HeldAgainstCard
  BY <1>1, <1>10, FlagsStay
<1>12. TypeOK'
  BY <1>1, <1>2, <1>10 DEF TypeOK, Episodes
<1>13. FilledFromTheText' /\ RecordIsOfTheText'
  BY <1>1, <1>2 DEF FilledFromTheText, RecordIsOfTheText, Episodes
<1>14. ClaimsInv'
  <2>1. DOMAIN run' = DOMAIN Idle
    BY <1>2, <1>4 DEF ClaimsInv
  <2> QED
    BY <1>1, <1>2, <1>10, <2>1 DEF ClaimsInv, Episodes
<1>15. FlagsInv'
  BY <1>7, <1>9, <1>10, <1>11 DEF FlagsInv
<1> QED
  BY <1>12, <1>13, <1>14, <1>15 DEF IInv

(* ----------------------------------------------------------------------- *)
(* A run stores.                                                           *)

(* A card's attribute is what the first claim with no flag says, where it was *)
(* empty or the episode's own; or cleared, where it was the episode's own; or *)
(* what it was, of a sentence the text has if it is the episode's own.        *)
LEMMA FilledInIs ==
  ASSUME TypeOK, NEW c \in Cards
  PROVE  \/ /\ Min(ToAdd(c)) \in ToAdd(c) /\ (attrs[c] = NoValue \/ IsOwn(c))
            /\ FilledIn(c).value = run.claims[Min(ToAdd(c))].value
            /\ FilledIn(c).from = Source(Min(ToAdd(c)))
         \/ IsOwn(c) /\ FilledIn(c).value = NoValue /\ FilledIn(c).from = ByAuthor
         \/ /\ FilledIn(c).value = attrs[c] /\ FilledIn(c).from = source[c]
            /\ IsOwn(c) => source[c].evidence \in ToSet(run.text)
<1> DEFINE asState == {run.text[i] : i \in Said(c, {"state"})}
           lost == source[c].evidence \notin ToSet(run.text) \/ source[c].evidence \in asState
<1>1. FilledIn(c) =
        IF ToAdd(c) # {} /\ (attrs[c] = NoValue \/ IsOwn(c))
          THEN [value |-> run.claims[Min(ToAdd(c))].value, from |-> Source(Min(ToAdd(c)))]
        ELSE IF ToAdd(c) = {} /\ IsOwn(c) /\ lost THEN [value |-> NoValue, from |-> ByAuthor]
        ELSE [value |-> attrs[c], from |-> source[c]]
  BY DEF FilledIn
<1>2. ~lost => source[c].evidence \in ToSet(run.text)
  OBVIOUS
<1> HIDE DEF lost
<1>3. CASE ToAdd(c) # {} /\ (attrs[c] = NoValue \/ IsOwn(c))
  <2>1. ToAdd(c) \in SUBSET DOMAIN run.claims
    BY DEF ToAdd, Said
  <2>2. Min(ToAdd(c)) \in ToAdd(c)
    BY <1>3, <2>1, SomeSaid
  <2>3. FilledIn(c) = [value |-> run.claims[Min(ToAdd(c))].value, from |-> Source(Min(ToAdd(c)))]
    BY <1>1, <1>3
  <2> QED
    BY <1>3, <2>2, <2>3
<1>4. CASE ToAdd(c) = {} /\ IsOwn(c) /\ lost
  <2>1. FilledIn(c) = [value |-> NoValue, from |-> ByAuthor]
    BY <1>1, <1>4
  <2> QED
    BY <1>4, <2>1
<1>5. CASE /\ ~(ToAdd(c) # {} /\ (attrs[c] = NoValue \/ IsOwn(c)))
           /\ ~(ToAdd(c) = {} /\ IsOwn(c) /\ lost)
  <2>1. FilledIn(c) = [value |-> attrs[c], from |-> source[c]]
    BY <1>1, <1>5
  <2>2. IsOwn(c) => ~lost
    BY <1>5
  <2> QED
    BY <1>2, <2>1, <2>2
<1> QED
  BY <1>3, <1>4, <1>5

(* The state on record is one some claim says. *)
LEMMA LeftInIs ==
  ASSUME TypeOK, NEW c \in Cards
  PROVE  \/ LeftIn(c) = NoValue
         \/ \E i \in DOMAIN run.claims : /\ run.claims[i].about = c /\ run.claims[i].value = LeftIn(c)
                                         /\ run.claims[i].key \in {"condition", "state"}
<1> DEFINE conditions == Said(c, {"condition"})
           turns == {i \in conditions : run.claims[i].value \in Deaths \cup Revivals}
           states == Said(c, {"state"})
<1>1. /\ conditions \in SUBSET DOMAIN run.claims /\ states \in SUBSET DOMAIN run.claims
      /\ turns \in SUBSET DOMAIN run.claims
  BY DEF Said
<1>2. \A i \in conditions \cup turns \cup states :
        /\ i \in DOMAIN run.claims /\ run.claims[i].about = c
        /\ run.claims[i].key \in {"condition", "state"}
  BY DEF Said
<1>3. LeftIn(c) = IF turns # {} THEN run.claims[Max(turns)].value
                  ELSE IF conditions # {} THEN run.claims[Min(conditions)].value
                  ELSE IF states # {} THEN run.claims[Max(states)].value
                  ELSE NoValue
  BY DEF LeftIn
<1> HIDE DEF conditions, turns, states
<1>4. /\ turns # {} => Max(turns) \in turns
      /\ conditions # {} => Min(conditions) \in conditions
      /\ states # {} => Max(states) \in states
  BY <1>1, SomeSaid
<1> QED
  BY <1>2, <1>3, <1>4

(* What a run stores is of the text it read, which is the one last validated. *)
LEMMA StoreStep == ASSUME IInv, Store PROVE IInv'
<1> DEFINE e == run.episode
           Sources == [episode : Episodes \cup {0}, evidence : Sentences \cup {NoSentence}]
<1>1. /\ attrs' = [c \in Cards |-> FilledIn(c).value] /\ source' = [c \in Cards |-> FilledIn(c).from]
      /\ history' = [history EXCEPT ![e] = Recorded] /\ seen' = [seen EXCEPT ![e] = run.text]
      /\ run' = Idle /\ story' = story /\ manuscript' = manuscript /\ exempt' = exempt
  BY DEF Store
<1>2. /\ TypeOK /\ FilledFromTheText /\ RecordIsOfTheText /\ e \in Episodes
      /\ \A i \in DOMAIN run.claims : run.claims[i] \in Reads[run.text[i]]
  BY DEF IInv, ClaimsInv, Store
<1>3. /\ e # 0 /\ run.text \in story.texts \cup {<<>>} /\ Episodes' = Episodes
  BY <1>1, <1>2 DEF Episodes, TypeOK
<1>4. \A c \in Cards : \A i \in ToAdd(c) :
        /\ i \in DOMAIN run.claims /\ run.claims[i].about = c /\ run.claims[i].key \in CardKeys
        /\ run.claims[i].value \in Values /\ run.text[i] \in Sentences
        /\ run.text[i] \in ToSet(run.text) /\ Source(i) \in Sources
        /\ Source(i).episode = e /\ Source(i).evidence = run.text[i]
        /\ MaySay(run.text[i], c, CardKeys, run.claims[i].value)
  <2>1. SUFFICES ASSUME NEW c \in Cards, NEW i \in ToAdd(c)
        PROVE  /\ i \in DOMAIN run.claims /\ run.claims[i].about = c /\ run.claims[i].key \in CardKeys
               /\ run.claims[i].value \in Values /\ run.text[i] \in Sentences
               /\ run.text[i] \in ToSet(run.text) /\ Source(i) \in Sources
               /\ Source(i).episode = e /\ Source(i).evidence = run.text[i]
               /\ MaySay(run.text[i], c, CardKeys, run.claims[i].value)
    OBVIOUS
  <2>2. i \in DOMAIN run.claims /\ run.claims[i].about = c /\ run.claims[i].key \in CardKeys
    BY DEF ToAdd, Said
  <2>3. /\ run.claims[i].value \in Values /\ run.text[i] \in Sentences /\ run.text[i] \in ToSet(run.text)
    BY <1>2, <2>2, RunIs
  <2>4. Source(i) \in Sources /\ Source(i).episode = e /\ Source(i).evidence = run.text[i]
    BY <1>2, <2>3 DEF Source
  <2>5. MaySay(run.text[i], c, CardKeys, run.claims[i].value)
    BY <1>2, <2>2 DEF MaySay
  <2> QED
    BY <2>2, <2>3, <2>4, <2>5
<1>5. /\ attrs \in [Cards -> Values \cup {NoValue}] /\ source \in [Cards -> Sources]
      /\ ByAuthor \in Sources /\ ByAuthor.episode = 0
  BY <1>2 DEF TypeOK, ByAuthor
<1> HIDE DEF Sources, e
<1>6. /\ attrs' \in [Cards -> Values \cup {NoValue}] /\ source' \in [Cards -> Sources]
  <2>1. \A c \in Cards : FilledIn(c).value \in Values \cup {NoValue} /\ FilledIn(c).from \in Sources
    BY <1>2, <1>4, <1>5, FilledInIs
  <2> QED
    BY <1>1, <2>1
<1>7. Recorded \in [Cards -> Values \cup {NoValue}]
  <2>1. \A c \in Cards : LeftIn(c) \in Values \cup {NoValue}
    BY <1>2, LeftInIs, RunIs
  <2> QED
    BY <2>1 DEF Recorded
<1>8. TypeOK'
  <2>1. history' \in [Episodes -> [Cards -> Values \cup {NoValue}]]
    BY <1>1, <1>2, <1>7 DEF TypeOK
  <2>2. seen' \in [Episodes -> story.texts \cup {<<>>}]
    BY <1>1, <1>2, <1>3 DEF TypeOK
  <2> QED
    BY <1>1, <1>2, <1>3, <1>6, <2>1, <2>2, IdleIs DEF TypeOK, Sources
<1>9. /\ seen'[e] = run.text /\ \A d \in Episodes : d # e => seen'[d] = seen[d]
      /\ history'[e] = Recorded /\ \A d \in Episodes : d # e => history'[d] = history[d]
  BY <1>1, <1>2 DEF TypeOK
<1>10. FilledFromTheText'
  <2>1. SUFFICES ASSUME NEW c \in Cards, source'[c].episode # 0
                 PROVE  /\ source'[c].evidence \in ToSet(seen'[source'[c].episode])
                        /\ MaySay(source'[c].evidence, c, CardKeys, attrs'[c])
    BY DEF FilledFromTheText, MaySay
  <2>2. attrs'[c] = FilledIn(c).value /\ source'[c] = FilledIn(c).from
    BY <1>1
  <2>3. CASE /\ Min(ToAdd(c)) \in ToAdd(c) /\ FilledIn(c).value = run.claims[Min(ToAdd(c))].value
             /\ FilledIn(c).from = Source(Min(ToAdd(c)))
    BY <1>4, <1>9, <2>2, <2>3
  <2>4. CASE FilledIn(c).from = ByAuthor
    BY <1>5, <2>1, <2>2, <2>4
  <2>5. CASE /\ FilledIn(c).value = attrs[c] /\ FilledIn(c).from = source[c]
             /\ IsOwn(c) => source[c].evidence \in ToSet(run.text)
    <3>1. source[c].episode # 0 /\ source[c].episode \in Episodes
      BY <1>5, <2>1, <2>2, <2>5 DEF Sources
    <3>2. /\ source[c].evidence \in ToSet(seen[source[c].episode])
          /\ MaySay(source[c].evidence, c, CardKeys, attrs[c])
      BY <1>2, <3>1 DEF FilledFromTheText
    <3>3. CASE source[c].episode = e
      BY <1>9, <2>2, <2>5, <3>2, <3>3 DEF IsOwn, e
    <3>4. CASE source[c].episode # e
      BY <1>9, <2>2, <2>5, <3>1, <3>2, <3>4
    <3> QED
      BY <3>3, <3>4
  <2> QED
    BY <1>2, <2>3, <2>4, <2>5, FilledInIs
<1>11. RecordIsOfTheText'
  <2>1. SUFFICES ASSUME NEW d \in Episodes, NEW c \in Cards, history'[d][c] # NoValue
                 PROVE  \E s \in ToSet(seen'[d]) : MaySay(s, c, {"condition", "state"}, history'[d][c])
    BY <1>3 DEF RecordIsOfTheText, MaySay
  <2>2. CASE d = e
    <3>1. history'[d][c] = LeftIn(c) /\ LeftIn(c) # NoValue
      BY <1>9, <2>1, <2>2 DEF Recorded
    <3>2. PICK i \in DOMAIN run.claims : /\ run.claims[i].about = c /\ run.claims[i].value = LeftIn(c)
                                         /\ run.claims[i].key \in {"condition", "state"}
      BY <1>2, <3>1, LeftInIs
    <3>3. run.text[i] \in ToSet(run.text) /\ run.claims[i] \in Reads[run.text[i]]
      BY <1>2, RunIs
    <3>4. MaySay(run.text[i], c, {"condition", "state"}, LeftIn(c))
      BY <3>2, <3>3 DEF MaySay
    <3> QED
      BY <1>9, <2>2, <3>1, <3>3, <3>4
  <2>3. CASE d # e
    <3>1. history'[d] = history[d] /\ seen'[d] = seen[d]
      BY <1>9, <2>3
    <3> QED
      BY <1>2, <2>1, <3>1 DEF RecordIsOfTheText
  <2> QED
    BY <2>2, <2>3
<1>12. ClaimsInv' /\ FlagsInv'
  BY <1>1, IdleIs DEF ClaimsInv, FlagsInv
<1> QED
  BY <1>8, <1>10, <1>11, <1>12 DEF IInv

(* ----------------------------------------------------------------------- *)
(* The theorems.                                                           *)

LEMMA InitIInv == ASSUME Init PROVE IInv
<1>1. /\ story \in Stories /\ manuscript = [e \in Episodes |-> <<>>] /\ seen = manuscript
      /\ attrs = [c \in Cards |-> NoValue] /\ source = [c \in Cards |-> ByAuthor]
      /\ history = [e \in Episodes |-> [c \in Cards |-> NoValue]] /\ exempt = {} /\ run = Idle
  BY DEF Init
<1>2. ByAuthor.episode = 0 /\ ByAuthor \in [episode : Episodes \cup {0}, evidence : Sentences \cup {NoSentence}]
  BY DEF ByAuthor
<1>3. TypeOK
  <2>1. /\ attrs \in [Cards -> Values \cup {NoValue}]
        /\ source \in [Cards -> [episode : Episodes \cup {0}, evidence : Sentences \cup {NoSentence}]]
        /\ history \in [Episodes -> [Cards -> Values \cup {NoValue}]]
    BY <1>1, <1>2
  <2>2. manuscript \in [Episodes -> story.texts \cup {<<>>}] /\ seen \in [Episodes -> story.texts \cup {<<>>}]
    BY <1>1
  <2> QED
    BY <1>1, <2>1, <2>2, IdleIs DEF TypeOK
<1>4. FilledFromTheText /\ RecordIsOfTheText
  BY <1>1, <1>2 DEF FilledFromTheText, RecordIsOfTheText
<1>5. ClaimsInv /\ FlagsInv
  BY <1>1, IdleIs DEF ClaimsInv, FlagsInv
<1> QED
  BY <1>3, <1>4, <1>5 DEF IInv

LEMMA StutterIInv == ASSUME IInv, UNCHANGED vars PROVE IInv'
<1>1. /\ story' = story /\ manuscript' = manuscript /\ seen' = seen /\ attrs' = attrs
      /\ source' = source /\ exempt' = exempt /\ history' = history /\ run' = run
  BY DEF vars, cardVars
<1>2. TypeOK' /\ FilledFromTheText' /\ RecordIsOfTheText'
  BY <1>1 DEF IInv, TypeOK, FilledFromTheText, RecordIsOfTheText, Episodes
<1>3. ClaimsInv' /\ FlagsInv'
  BY <1>1, RunStays
<1> QED
  BY <1>2, <1>3 DEF IInv

LEMMA StepIInv == ASSUME IInv, [Next]_vars PROVE IInv'
<1>1. ASSUME NEW e \in Episodes, Read(e) PROVE IInv'
  BY <1>1, ReadStep
<1>2. ASSUME NEW e \in Episodes, NEW text \in story.texts, Write(e, text) PROVE IInv'
  BY <1>2, WriteStep
<1>3. ASSUME NEW edit \in story.edits, EditCard(edit[1], edit[2]) PROVE IInv'
  BY <1>3, EditCardStep
<1>4. ASSUME NEW c \in story.exempts, Exempt(c) PROVE IInv'
  BY <1>4, ExemptStep
<1> QED
  BY <1>1, <1>2, <1>3, <1>4, JudgeStep, StoreStep, FailStep, StutterIInv DEF Next

LEMMA InductiveInvariant == Spec => []IInv
<1>1. Init => IInv
  BY InitIInv
<1>2. IInv /\ [Next]_vars => IInv'
  BY StepIInv
<1> QED
  BY <1>1, <1>2, PTL DEF Spec

(* What runs filled in on the cards, and the states they left on record, are *)
(* what the episodes say as last validated.                                  *)
THEOREM KeptIsOfTheText == Spec => []Inv
<1>1. IInv => Inv
  BY DEF IInv, Inv
<1> QED
  BY <1>1, InductiveInvariant, PTL

(* An episode is never held against itself: of a card's value, against what  *)
(* the author set or another episode says, before it or after; of a state or *)
(* a death, against the episodes before it.                                  *)
THEOREM HeldAgainstOtherEpisodes == Spec => []HeldAgainstOthers
<1>1. IInv => HeldAgainstOthers
  BY HeldElsewhere
<1> QED
  BY <1>1, InductiveInvariant, PTL

(* Who died and is shown without having come back is flagged, once. *)
THEOREM DeathsAreNoticed == Spec => []DeadAreNoticed
<1>1. IInv => DeadAreNoticed
  BY DeadNoticed
<1> QED
  BY <1>1, InductiveInvariant, PTL

(* A run replaces no value that is not its own episode's, and adds only what *)
(* a claim without a flag says.                                              *)
THEOREM RunsOnlyAdd == Spec => OnlyAdds
<1> DEFINE A == run' # run => \A c \in Cards :
                 /\ attrs'[c] # attrs[c] => attrs[c] = NoValue \/ source[c].episode = run.episode
                 /\ source'[c] # source[c] /\ source'[c] # ByAuthor => \E i \in DOMAIN run.claims :
                      /\ run.claims[i].about = c /\ run.claims[i].value = attrs'[c]
                      /\ run.text[i] = source'[c].evidence
                      /\ ~\E f \in run.flags : f.claim = i
<1>1. IInv /\ [Next]_vars => [A]_vars
  <2>1. SUFFICES ASSUME IInv, Next PROVE A
    BY DEF vars
  <2>2. CASE Store
    <3>1. SUFFICES ASSUME NEW c \in Cards
          PROVE  /\ attrs'[c] # attrs[c] => attrs[c] = NoValue \/ source[c].episode = run.episode
                 /\ source'[c] # source[c] /\ source'[c] # ByAuthor => \E i \in DOMAIN run.claims :
                      /\ run.claims[i].about = c /\ run.claims[i].value = attrs'[c]
                      /\ run.text[i] = source'[c].evidence
                      /\ ~\E f \in run.flags : f.claim = i
      OBVIOUS
    <3>2. attrs'[c] = FilledIn(c).value /\ source'[c] = FilledIn(c).from /\ TypeOK
      BY <2>1, <2>2 DEF Store, IInv
    <3>3. CASE /\ Min(ToAdd(c)) \in ToAdd(c) /\ (attrs[c] = NoValue \/ IsOwn(c))
               /\ FilledIn(c).value = run.claims[Min(ToAdd(c))].value
               /\ FilledIn(c).from = Source(Min(ToAdd(c)))
      <4>1. PICK i \in ToAdd(c) : i = Min(ToAdd(c))
        BY <3>3
      <4>2. i \in DOMAIN run.claims /\ run.claims[i].about = c /\ ~\E f \in run.flags : f.claim = i
        BY <4>1 DEF ToAdd, Said, Flagged
      <4>3. run.claims[i].value = attrs'[c] /\ run.text[i] = source'[c].evidence
        BY <3>2, <3>3, <4>1 DEF Source
      <4> QED
        BY <3>3, <4>2, <4>3 DEF IsOwn
    <3>4. CASE IsOwn(c) /\ FilledIn(c).value = NoValue /\ FilledIn(c).from = ByAuthor
      BY <3>2, <3>4 DEF IsOwn
    <3>5. CASE FilledIn(c).value = attrs[c] /\ FilledIn(c).from = source[c]
      BY <3>2, <3>5
    <3> QED
      BY <3>2, <3>3, <3>4, <3>5, FilledInIs
  <2>3. CASE attrs' = attrs /\ source' = source
    BY <2>3
  <2>4. CASE run' = run
    BY <2>4
  <2> QED
    BY <2>1, <2>2, <2>3, <2>4 DEF Next, Read, Write, EditCard, Exempt, Judge, Fail, cardVars
<1> HIDE DEF A
<1>2. Spec => [][A]_vars
  BY <1>1, InductiveInvariant, PTL DEF Spec
<1> QED
  BY <1>2 DEF OnlyAdds, A
===============================================================================
