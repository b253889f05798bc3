-------------------------------- MODULE MCCast --------------------------------
EXTENDS Cast, TLC

Symmetry == Permutations(Names)
===============================================================================
