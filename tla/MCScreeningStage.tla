-------------------------- MODULE MCScreeningStage --------------------------
(* ScreeningStage for TLC.  Four passed points in batches of three, two    *)
(* rejections allowed, give a calibration wave, a full batch, a batch      *)
(* the budget shortens and one the rejection cap ends.                     *)
EXTENDS ScreeningStage
=============================================================================
