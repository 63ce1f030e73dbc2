-------------------------- MODULE MCProtocolEngine --------------------------
(* Instances of ProtocolEngine for TLC. *)
EXTENDS MCPhysicalMotionController, ProtocolEngine

OneOf(op) == [op |-> op]

\* A host that moves both axes together, and recovers.
MovingHost ==
  {OneOf("CLEAR_FAULT"),
   [op |-> "MOVE_REL", axis |-> "BOTH", by |-> 1, speedOk |-> TRUE]}

\* A host that also stops and moves on.
StoppingHost ==
  MovingHost \cup
    {OneOf("STOP"), [op |-> "MOVE", to |-> [ax \in Axes |-> 1], speedOk |-> TRUE]}

\* A host of the owned hardware, which has no home switches: it can step the
\* motors, and every other move is refused.
BenchHost ==
  {OneOf("CLEAR_FAULT"),
   [op |-> "ENABLE", on |-> TRUE], [op |-> "HOME", axis |-> "BOTH"],
   [op |-> "MOTOR_STEP", axis |-> "AZ", by |-> 1],
   [op |-> "MOTOR_MICROSTEPS", axis |-> "AZ", to |-> 1]}

\* A host that homes an axis.
HomingHost ==
  {[op |-> "HOME", axis |-> "AZ"], OneOf("QUERY")}

\* A host that switches an axis off and on during a move.
SwitchingHost ==
  {[op |-> "MOVE", to |-> [ax \in Axes |-> 1], speedOk |-> TRUE],
   [op |-> "MOTOR_ENABLE", axis |-> "AZ", on |-> FALSE],
   [op |-> "MOTOR_ENABLE", axis |-> "AZ", on |-> TRUE]}
=============================================================================
