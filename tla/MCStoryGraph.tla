----------------------------- MODULE MCStoryGraph -----------------------------
EXTENDS StoryGraph, TLC

Symmetry ==
  UNION {Permutations(S) : S \in {Requests, Characters, Types, RelationIds, EventIds, LinkIds}}
===============================================================================
