---------------------------- MODULE MCToolCache ----------------------------
(* Two threads, of one process or of two, and three invocations: both      *)
(* threads may store the key, and one be served from what they made.       *)
EXTENDS ToolCache, TLC
Symmetry == Permutations(Threads)
=============================================================================
