----------------------------- MODULE MCOutreach -----------------------------
(* Outreach on small sets: constants for TLC. *)
EXTENDS Outreach, TLC

CONSTANTS w1, w2, h1, h2, e1

Symmetry == Permutations(Workers) \union Permutations(Hooks)
=============================================================================
