-------------------------- MODULE MCCfdLifecycle --------------------------
(* CfdLifecycle for TLC: a sweep of two points and a run, in either order, *)
(* with an edit or a load between or during them, and the longest and the  *)
(* shortest study.                                                         *)
EXTENDS CfdLifecycle

Short == [compressible |-> TRUE, potential |-> TRUE, startup |-> FALSE]
Long == [compressible |-> FALSE, potential |-> TRUE, startup |-> TRUE]
MCPlans == {Short, Long}
=============================================================================
