----------------------------- MODULE MCJobQueue -----------------------------
(* JobQueue on small sets: constants for TLC. *)
EXTENDS JobQueue, TLC

CONSTANTS w1, w2, j1, j2

\* BACKOFF = (10, 60), scaled: the second retry waits longer than the first.
Backoff3 == <<1, 2, 2>>
Backoff2 == <<1, 1>>

WorkerSymmetry == Permutations(Workers)
JobWorkerSymmetry == Permutations(Workers) \union Permutations(Jobs)
=============================================================================
