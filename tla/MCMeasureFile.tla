---------------------------- MODULE MCMeasureFile ----------------------------
(* Instances of MeasureFile for TLC: a tick is 30 seconds. *)
EXTENDS MeasureFile

CONSTANTS i1, i2, i3

MCInodes == {i1, i2, i3}
=============================================================================
