---------------------------- MODULE MCStoryHistory ----------------------------
(* Three stories: a character who dies and may come back, in three episodes; *)
(* a character's attribute, and a place that is described - once, or twice   *)
(* in the same words - and falls, in two.                                    *)
EXTENDS StoryHistory, TLC

CONSTANTS
  hero, town,
  blue, red, hurt, died, returned, thriving, ruins,
  eyesBlue, eyesRed, isHurt, dies, comesBack, isThere, thrives, falls

MCDeaths == {died}
MCRevivals == {returned}

Of(c, k, v) == [about |-> c, key |-> k, value |-> v]

\* That the town fell may be read as a feature of it.
MCReads ==
  [s \in Sentences |->
     CASE s = eyesBlue  -> {Of(hero, "fixed", blue)}
       [] s = eyesRed   -> {Of(hero, "fixed", red)}
       [] s = isHurt    -> {Of(hero, "condition", hurt)}
       [] s = dies      -> {Of(hero, "condition", died)}
       [] s = comesBack -> {Of(hero, "condition", returned)}
       [] s = isThere   -> {Of(hero, "presence", hurt)}
       [] s = thrives   -> {Of(town, "features", thriving)}
       [] s = falls     -> {Of(town, "state", ruins), Of(town, "features", ruins)}]

MCStories ==
  {[last |-> 3, texts |-> {<<isHurt, dies>>, <<comesBack>>, <<isThere, dies>>},
    edits |-> {}, exempts |-> {hero}],
   [last |-> 2, texts |-> {<<eyesBlue>>, <<eyesRed, eyesBlue>>},
    edits |-> {hero} \X {blue, red, NoValue}, exempts |-> {}],
   [last |-> 2, texts |-> {<<thrives, thrives>>, <<falls>>, <<thrives, falls>>},
    edits |-> {<<town, thriving>>}, exempts |-> {}]}
===============================================================================
