--------------------------- MODULE MCPublication ---------------------------
(* Publication on small sets: constants for TLC.  Nothing orders workers.   *)
EXTENDS Publication, TLC

CONSTANTS w1, w2, s1, s2

Symmetry == Permutations(Workers)
=============================================================================
