--------------------------- MODULE AxisController ---------------------------
(***************************************************************************)
(* One AxisController with its driver and its GPTimer pulse scheduler.     *)
(*                                                                         *)
(* Two actors step over one axis record.  The motion task calls the        *)
(* commands and service(); the timer interrupt raises and lowers STEP and  *)
(* counts completed pulses.  Commands take the scheduler's lock once, so   *)
(* each is one action.  service() takes it several times, with room for    *)
(* the interrupt in between: it is split at its lock sections.  The pulses *)
(* are consumed (pc "idle" to "pulses"), counted one by one, each arming   *)
(* the next (pc "pulses"), and then homing is served (pc "homing").        *)
(*                                                                         *)
(* drift is not a variable of the program.  While the position is trusted  *)
(* it is what the position counter gained minus what the shaft moved since *)
(* trust was gained.  standing is the last order the axis was given.       *)
(***************************************************************************)
EXTENDS AxisOperations

CONSTANTS
  MaxCommands,     \* bound on the commands issued, and on their ids
  MoveAngles,      \* angles MOVE asks for
  MoveDeltas,      \* angles MOVE_REL asks for
  BenchMoves       \* step counts MOTOR STEP asks for

ASSUME CommandAssumption ==
  /\ MaxCommands \in Nat
  /\ MoveAngles \subseteq Int
  /\ MoveDeltas \subseteq Int
  /\ BenchMoves \subseteq Int

VARIABLES
  axis,      \* the AxisController, its driver and its scheduler
  pc,        \* where service() stands
  credit,    \* completed pulses consumed and not yet counted
  issued,    \* commands issued so far; the next command's id is issued + 1
  drift,     \* counted minus moved steps while trusted
  standing   \* the last order: move, stop, disable, estop or none

vars == <<axis, pc, credit, issued, drift, standing>>

Orders == {"none", "move", "stop", "disable", "estop"}

\* Every field of the axis keeps to its range: the counts and ids never
\* wrap and the phase, fault and purpose are those of AxisState
\* (axis_controller.hpp).
TypeOK ==
  /\ axis \in AxisState
  /\ pc \in {"idle", "pulses", "homing"}
  /\ credit \in Nat
  /\ issued \in Nat
  /\ drift \in Int
  /\ standing \in Orders

Init ==
  /\ axis \in {StartupAxis("ready", raw) :
                 raw \in IF HasHomeSwitch THEN BOOLEAN ELSE {FALSE}}
  /\ pc = "idle"
  /\ credit = 0
  /\ issued = 0
  /\ drift = 0
  /\ standing = "none"

\* The level of the home switch input; without a switch it reads inactive.
SwitchLevels == IF HasHomeSwitch THEN BOOLEAN ELSE {FALSE}

\* axis' is next, the shaft having moved by moved steps.
AxisBecomes(next, moved) ==
  /\ axis' = next
  /\ drift' = IF axis.trusted /\ next.trusted
                THEN drift + (next.position - axis.position) - moved
                ELSE 0

\* The shaft turns on a rising edge of STEP if the driver's outputs are on.
ShaftStep == IF axis.outputs THEN axis.direction ELSE 0

-----------------------------------------------------------------------------
(* Commands: the motion task, between two calls of service() *)

\* A command with its outcome; order is what it asks of the axis if accepted.
Command(outcome, order) ==
  /\ pc = "idle"
  /\ issued < MaxCommands
  /\ issued' = issued + 1
  /\ AxisBecomes(outcome.axis, 0)
  /\ standing' = IF outcome.ok THEN order ELSE standing
  /\ UNCHANGED <<pc, credit>>

MoveAbsoluteDegrees ==
  \E angle \in MoveAngles, speedOk, armOk \in BOOLEAN :
    Command(MoveAbsolute(axis, angle, speedOk, issued + 1, armOk), "move")

MoveRelativeDegrees ==
  \E delta \in MoveDeltas, speedOk, armOk \in BOOLEAN :
    Command(MoveRelative(axis, delta, speedOk, issued + 1, armOk), "move")

BenchMoveSteps ==
  \E steps \in BenchMoves, armOk \in BOOLEAN :
    Command(BenchMove(axis, steps, issued + 1, armOk), "move")

Home ==
  \E raw \in SwitchLevels, armOk \in BOOLEAN :
    Command(StartHoming(axis, raw, issued + 1, armOk), "move")

StopCommand ==
  Command([axis |-> Stop(axis), ok |-> TRUE, fault |-> "stopped"], "stop")

EmergencyStopCommand ==
  Command([axis |-> EmergencyStop(axis), ok |-> TRUE,
           fault |-> "emergency_stop"], "estop")

EnableCommand == Command(SetEnabled(axis, TRUE), "none")

DisableCommand == Command(SetEnabled(axis, FALSE), "disable")

ClearFaultCommand == Command(ClearFault(axis), standing)

SetCurrentCommand ==
  \E result \in WriteResults : Command(SetCurrent(axis, result), standing)

SetMicrostepsCommand ==
  \E microsteps \in MicrostepChoices, result \in WriteResults :
    Command(SetMicrosteps(axis, microsteps, result), standing)

Commands ==
  \/ MoveAbsoluteDegrees
  \/ MoveRelativeDegrees
  \/ BenchMoveSteps
  \/ Home
  \/ StopCommand
  \/ EmergencyStopCommand
  \/ EnableCommand
  \/ DisableCommand
  \/ ClearFaultCommand
  \/ SetCurrentCommand
  \/ SetMicrostepsCommand

-----------------------------------------------------------------------------
(* service(), also the motion task *)

\* The checks at its head; unless one of them fails the axis, the completed
\* pulses are consumed.
ServiceBegin ==
  /\ pc = "idle"
  /\ \E raw \in SwitchLevels :
       LET checked == ServiceEntry(axis, raw)
           passed  == checked = UpdateSwitch(axis, raw)
       IN  /\ AxisBecomes([checked EXCEPT !.completed =
                             IF passed THEN 0 ELSE @], 0)
           /\ credit' = IF passed THEN axis.completed ELSE 0
           /\ pc' = IF passed THEN "pulses" ELSE "homing"
  /\ UNCHANGED <<issued, standing>>

\* One round of the counting loop; a pulse consumed after the axis came to
\* rest is dropped.
ServicePulse ==
  /\ pc = "pulses"
  /\ credit > 0
  /\ axis.moving
  /\ credit' = credit - 1
  /\ \E armOk \in BOOLEAN : AxisBecomes(CreditPulse(axis, armOk), 0)
  /\ UNCHANGED <<pc, issued, standing>>

\* The cooperative fallback drives STEP itself: a rising edge, and at the
\* falling edge the step is counted.  Edges that are not yet due are skipped.
CooperativeRise ==
  /\ ~HasScheduler
  /\ pc = "pulses"
  /\ axis.moving
  /\ ~axis.stepHigh
  /\ AxisBecomes([axis EXCEPT !.stepHigh = TRUE], ShaftStep)
  /\ pc' = "homing"
  /\ UNCHANGED <<credit, issued, standing>>

CooperativeFall ==
  /\ ~HasScheduler
  /\ pc = "pulses"
  /\ axis.moving
  /\ axis.stepHigh
  /\ AxisBecomes(CreditPulse(axis, TRUE), 0)
  /\ pc' = "homing"
  /\ UNCHANGED <<credit, issued, standing>>

ServicePulsesDone ==
  /\ pc = "pulses"
  /\ credit = 0 \/ ~axis.moving
  /\ pc' = "homing"
  /\ credit' = 0
  /\ UNCHANGED <<axis, issued, drift, standing>>

ServiceHomingStep ==
  /\ pc = "homing"
  /\ \E armOk \in BOOLEAN : AxisBecomes(ServiceHoming(axis, armOk), 0)
  /\ pc' = "idle"
  /\ UNCHANGED <<credit, issued, standing>>

\* The diagnostics tick, which the motion task also serves.
Diagnostics ==
  /\ pc = "idle"
  /\ \E reading \in Readings :
       AxisBecomes(ServiceDiagnostics(axis, reading), 0)
  /\ UNCHANGED <<pc, credit, issued, standing>>

MotionTask ==
  \/ ServiceBegin
  \/ ServicePulse
  \/ CooperativeRise
  \/ CooperativeFall
  \/ ServicePulsesDone
  \/ ServiceHomingStep

-----------------------------------------------------------------------------
(* The timer interrupt, and time *)

\* handle_alarm(), first alarm: STEP goes high, and if the falling edge
\* cannot be armed the pulse is abandoned with the sticky fault set.
AlarmRise ==
  /\ axis.armed
  /\ ~axis.stepHigh
  /\ \E armOk \in BOOLEAN :
       AxisBecomes(IF armOk
                     THEN [axis EXCEPT !.stepHigh = TRUE]
                     ELSE [axis EXCEPT !.armed = FALSE, !.schedFault = TRUE],
                   ShaftStep)
  /\ UNCHANGED <<pc, credit, issued, standing>>

\* handle_alarm(), second alarm: STEP goes low and the pulse is complete.
AlarmFall ==
  /\ axis.armed
  /\ axis.stepHigh
  /\ AxisBecomes([axis EXCEPT !.stepHigh = FALSE, !.armed = FALSE,
                              !.completed = @ + 1], 0)
  /\ UNCHANGED <<pc, credit, issued, standing>>

\* service() reads the clock once, at its head: time passes between calls.
Tick ==
  /\ pc = "idle"
  /\ Age(axis) # axis
  /\ AxisBecomes(Age(axis), 0)
  /\ UNCHANGED <<pc, credit, issued, standing>>

TimerInterrupt == AlarmRise \/ AlarmFall

Next == Commands \/ MotionTask \/ Diagnostics \/ TimerInterrupt \/ Tick

Spec == Init /\ [][Next]_vars

\* The motion task wakes every millisecond and the clock runs.  The timer is
\* not trusted to fire (the motion timeout is there for that), and nothing
\* obliges the host to send a command.
FairSpec ==
  /\ Spec
  /\ WF_vars(MotionTask)
  /\ SF_vars(Tick)

-----------------------------------------------------------------------------
(* Safety *)

\* What STATUS reports about trust is one coherent story: a trusted position
\* comes with HOMED and a completed homing and without a loss reason, an
\* untrusted one always has a reason (mark_position_untrusted, 170-174).
TrustIsExplained ==
  /\ axis.trusted <=> axis.homed
  /\ axis.trusted <=> axis.lossReason = "none"
  /\ axis.trusted => axis.phase = "complete"

\* A moving axis is energised: the driver answers, its last status is good
\* and its outputs are on, whatever was configured, disabled or lost since
\* the move began (start_step_move, 224-234; set_current, 616-625).
MovingIsPowered ==
  axis.moving => /\ axis.enabled /\ axis.outputs
                 /\ axis.connected /\ axis.status = "ok"

\* ENABLED is reported of a driver whose outputs are off only once that
\* driver was lost in a configuration write (service_driver_status, 524-536).
EnabledUnlessLost ==
  axis.enabled /\ axis.connected => axis.outputs

\* The timer never pulses an axis the controller takes to be at rest
\* (stop_pulse_generation, 373-384).
PulsesOnlyWhileMoving == axis.armed \/ axis.stepHigh => axis.moving

\* A move is never forgotten: while it lasts a pulse is armed, or a completed
\* one or a scheduler fault is waiting for service() (392-422).
MoveIsDriven ==
  HasScheduler /\ axis.moving =>
    axis.armed \/ axis.completed > 0 \/ credit > 0 \/ axis.schedFault

\* A moving axis has its target ahead of it: no pulse, however late it is
\* counted, takes the position past the target (service_step_generator).
TargetAhead ==
  axis.moving => (axis.target - axis.position) * axis.direction > 0

\* At rest, a trusted position is exactly where the shaft is: one counted
\* step per pulse (test_axis/test_main.cpp:243-263).
PositionMatchesPulses ==
  axis.trusted /\ ~axis.moving => drift = 0

\* After an emergency stop nothing moves and nothing is powered until an
\* order that moves or enables the axis is accepted; in particular a homing
\* in progress does not go on (emergency_stop, 579-585).
EmergencyStopHolds ==
  standing = "estop" => ~axis.moving /\ ~axis.outputs /\ ~axis.trusted

\* After STOP the axis rests until an order that moves it is accepted
\* (stop, 569-577; test_physical/test_main.cpp:335-348).
StopHolds == standing = "stop" => ~axis.moving

\* After a disable the outputs stay off until an order that moves or enables
\* the axis is accepted (set_enabled, 587-596).
DisableHolds == standing = "disable" => ~axis.outputs

\* A trusted position lies within the soft limits, since every motion command
\* keeps to them (docs/firmware/protocol.md:4-5).
TrustedWithinLimits == axis.trusted => axis.position \in SoftLimits(axis)

-----------------------------------------------------------------------------
(* Action properties *)

\* LAST_COMMAND, from which the protocol takes the id of MOTION_COMPLETE,
\* never goes back to an older command, although an interrupted homing keeps
\* its id and may finish after commands issued later.
CompletionsAdvance == [][axis'.lastCompleted >= axis.lastCompleted]_vars

\* A command is reported complete only with the axis at rest, and either on
\* the target it was moving to or newly homed (finish_motion, 386-391).
CompletedAtTarget ==
  [][axis'.lastCompleted # axis.lastCompleted =>
       /\ ~axis'.moving
       /\ axis'.position = axis.target \/ (axis'.trusted /\ ~axis.trusted)]_vars

\* The pulses made or armed that belong to no step of the move under way:
\* those a stop left behind, which the next move takes for its own.
LeftOver ==
  axis.completed + credit
    + (IF axis.armed THEN 1 ELSE 0) - (IF axis.moving THEN 1 ELSE 0)

\* How far astray the position is once the step just made has been counted.
Astray ==
  IF axis.moving /\ (axis.stepHigh \/ ~axis.armed)
    THEN drift + axis.direction ELSE drift

Magnitude(n) == IF n < 0 THEN -n ELSE n

\* Nothing but pulses left over makes a trusted position lie: no sequence of
\* moves, configuration writes, diagnostics and lost alarms takes it a step
\* further from the shaft without using up a completed pulse that stop() left
\* in the scheduler (idf_step_pulse_scheduler.cpp:118-128; consumed by
\* service_step_generator, axis_controller.cpp:392-422).
DriftIsPaidFor ==
  [][HasScheduler /\ axis.trusted /\ axis'.trusted =>
       Magnitude(Astray') + LeftOver' <= Magnitude(Astray) + LeftOver]_vars

-----------------------------------------------------------------------------
(* Liveness *)

\* Every move ends, even if the timer never fires again.
MovesEnd == axis.moving ~> ~axis.moving

\* Every homing ends, even one whose switch never acts or whose move is over.
HomingEnds == axis.phase \in LivePhases ~> axis.phase \notin LivePhases
=============================================================================
