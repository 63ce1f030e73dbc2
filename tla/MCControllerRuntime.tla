------------------------- MODULE MCControllerRuntime -------------------------
(* Instances of ControllerRuntime for TLC. *)
EXTENDS ControllerRuntime

MCHomeSide == -1

OneOf(op) == [op |-> op]

MoveAzimuth == [op |-> "MOVE_REL", axis |-> "AZ", by |-> 1, speedOk |-> TRUE]

\* A host that moves and recovers.
MovingLines == {MoveAzimuth, OneOf("CLEAR_FAULT")}

\* A host that homes an axis, or powers one, as one that was given up can do.
HomeAndPower == {[op |-> "HOME", axis |-> "AZ"],
                 [op |-> "MOTOR_ENABLE", axis |-> "AZ", on |-> TRUE]}

\* The home switches open, or the one of azimuth closed.
AllOpen == {[ax \in Axes |-> FALSE]}
AzimuthSwitch == AllOpen \cup {[ax \in Axes |-> ax = "AZ"]}

\* No edge of the emergency input has come, or will.
WithoutEdges == edges = MaxEdges /\ ~(pending \/ ctl.latched)

\* The host homes, and nothing else happens; or edges of the emergency input
\* come, and a line that powers an axis or a tick of the diagnostics task
\* with them.
HomingOrEdges ==
  /\ sent' + ticks' <= 1
  /\ ticks' # ticks => ~WithoutEdges
  /\ sent' # sent => (uart'[1].order.op = "HOME" <=> WithoutEdges)

\* A home switch closes only while its axis homes.
SwitchFoundHoming ==
  \A ax \in Axes : ctl'.axes[ax].candidate /\ ~ctl.axes[ax].candidate =>
                     ctl.axes[ax].phase \in LivePhases

TasksSpec ==
  /\ RuntimeInit
  /\ [][RuntimeNext /\ HomingOrEdges /\ SwitchFoundHoming]_runtimeVars
  /\ TaskFairness
=============================================================================
