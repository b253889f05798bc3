------------------------------- MODULE MCStartup -------------------------------
(* A version of the app, the next two, the last of which drops what the first *)
(* revision added, and one from a branch that split off after the first.      *)
EXTENDS Startup, TLC

CONSTANTS r1, r2, r3, side, old, new, newest, branch, bare

MCShips == [c \in Codes |-> CASE c = old -> <<r1>>
                              [] c = new -> <<r1, r2>>
                              [] c = bare -> <<r1, r2>>
                              [] c = newest -> <<r1, r2, r3>>
                              [] c = branch -> <<r1, side>>]
MCDrops == {<<r3, r1>>}

Symmetry == Permutations(Processes)
===============================================================================
