-------------------------- MODULE MCCreativeBilling --------------------------
(* CreativeBilling on small sets: constants for TLC. *)
EXTENDS CreativeBilling, TLC

CONSTANTS w1, w2, r1, r2, p1

\* Everywhere but from the first bad slide marked to the refund.
OutsideRefund == Steps \ {"mark"}

WorkerSymmetry == Permutations(Workers)
WorkerRequestSymmetry == Permutations(Workers) \union Permutations(Requests)
=============================================================================
