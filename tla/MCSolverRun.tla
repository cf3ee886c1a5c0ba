---------------------------- MODULE MCSolverRun ----------------------------
(* Two streams of two chunks from each process, through pipes that hold    *)
(* one: a writer blocks on either stream.                                  *)
EXTENDS SolverRun
=============================================================================
