---------------------------- MODULE MCHostClient ----------------------------
(* Instances of HostClient for TLC. *)
EXTENDS HostClient

MCHomeSide == -1

\* The home switches stay open.
AllOpen == {[ax \in Axes |-> FALSE]}

MoveAzimuthTo(angle) ==
  [op |-> "MOVE", speedOk |-> TRUE,
   to |-> [ax \in Axes |-> IF ax = "AZ" THEN angle ELSE 0]]

MoveAzimuthBy(delta) ==
  [op |-> "MOVE_REL", axis |-> "AZ", by |-> delta, speedOk |-> TRUE]

\* Two steps on, each time.
TwoSteps == {MoveAzimuthBy(2)}

\* A move of a single step.
ShortMove == {MoveAzimuthTo(1)}

\* A relative move of no length.
NoMove == {MoveAzimuthBy(0)}

\* That move, and one of no length, which nothing announces.
Waits == {MoveAzimuthTo(2), MoveAzimuthBy(0)}

\* A stop, the reset of its fault, and a move.
StopAndMove == {[op |-> "STOP"], [op |-> "CLEAR_FAULT"], MoveAzimuthBy(1)}

\* All the calls of an instance, and what the client adds to them.
MCLines(some) == some \cup {Query, [op |-> "STOP"]}

TwoStepsLines == MCLines(TwoSteps)
ShortMoveLines == MCLines(ShortMove)
WaitsLines == MCLines(Waits)
NoMoveLines == MCLines(NoMove)
StopAndMoveLines == MCLines(StopAndMove)

\* Time passes while an axis moves, when it may run out, and not else.
TimeOfMoves ==
  safety'.silence # safety.silence => \E ax \in Axes : ctl.axes[ax].moving

MovesSpec == HostInit /\ [][HostNext /\ TimeOfMoves]_hostClientVars
=============================================================================
