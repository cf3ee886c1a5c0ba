---------------------------- MODULE MCRunWindow ----------------------------
(* RunWindow for TLC: one analysis beside the mission and the MSES stage,  *)
(* three section polars on up to two workers, and a guided run followed by *)
(* a run in the sandbox.                                                   *)
EXTENDS RunWindow

MCOrder == <<"avl", "mission", "mses">>
=============================================================================
