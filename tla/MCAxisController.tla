-------------------------- MODULE MCAxisController --------------------------
(* Instances of AxisController for TLC. *)
EXTENDS AxisController

MCHomeSide == -1

OneTwoSteps == {-1, 2}
=============================================================================
