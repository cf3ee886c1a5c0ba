--------------------------- MODULE MCCancelWatch ---------------------------
(* Up to three lanes, two generations of two candidates, and a ladder of     *)
(* five jobs of which two are required: three waves, the last one short.   *)
EXTENDS CancelWatch
=============================================================================
