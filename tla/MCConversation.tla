--------------------------- MODULE MCConversation ---------------------------
(* Conversation on small sets: constants for TLC. *)
EXTENDS Conversation

CONSTANTS w1, m1, m2
=============================================================================
