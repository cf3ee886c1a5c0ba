------------------------- MODULE MCRefinementStage -------------------------
(* RefinementStage for TLC.  Eight evaluations for a population of three   *)
(* that may shrink to two, and two polls of one variable, each with its    *)
(* gradient trial: the clock cuts any batch of any phase.  On a budget of  *)
(* one the operators stop at once.                                         *)
EXTENDS RefinementStage
=============================================================================
