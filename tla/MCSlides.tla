------------------------------ MODULE MCSlides ------------------------------
(* Slides on small numbers: constants for TLC. *)
EXTENDS Slides

CONSTANTS p, q

=============================================================================
