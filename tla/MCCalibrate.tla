---------------------------- MODULE MCCalibrate ----------------------------
(***************************************************************************)
(* Calibrate with small duties; one fan, and one or two sweeps of it.       *)
(***************************************************************************)
EXTENDS Calibrate, TLC

CONSTANTS cpu, g1, g2

OneFan == cpu :> {g1}
TwoSlots == cpu :> {g1, g2}
=============================================================================
