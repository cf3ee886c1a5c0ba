---------------------------- MODULE MCNativePool ----------------------------
(* NativePool for TLC: the bounds are in the .cfg files.  Two lanes on     *)
(* three designs make a lane come back for a second candidate and one      *)
(* fetch_add run past the end; two batches show what a token set in the    *)
(* first does to the second.                                               *)
EXTENDS NativePool
=============================================================================
