-------------------- MODULE MCPhysicalMotionController --------------------
(* Instances of PhysicalMotionController for TLC. *)
EXTENDS PhysicalMotionController

MCHomeSide == -1

OneStep == {1}

\* Both axes off home, one of them, and one of them beyond its limit.
MCPositions ==
  {[ax \in Axes |-> 1],
   [ax \in Axes |-> IF ax = "AZ" THEN 1 ELSE 0],
   [ax \in Axes |-> IF ax = "AZ" THEN 1 ELSE 2]}

Released == {[ax \in Axes |-> FALSE]}

\* Azimuth's switch acts, elevation's does not.
AzimuthSwitch ==
  {[ax \in Axes |-> level /\ ax = "AZ"] : level \in BOOLEAN}
=============================================================================
