------------------------- MODULE MCPhysicalSchedule -------------------------
(* Instances of PhysicalSchedule for TLC. *)
EXTENDS MCPhysicalMotionController, PhysicalSchedule
=============================================================================
