---------------------- MODULE PhysicalMotionController ----------------------
(***************************************************************************)
(* PhysicalMotionController: two axes, one emergency stop, one status.     *)
(*                                                                         *)
(* All its methods run on the motion task, one after the other; the timers *)
(* of the two axes and the emergency input change between them.  Here a    *)
(* pulse of an axis is one action (AxisController splits it), as only      *)
(* service() tells a half-done pulse from one not begun.                   *)
(***************************************************************************)
EXTENDS PhysicalOperations

CONSTANTS
  StartupKinds,  \* how an axis may come up
  MaxCommands,   \* bound on the commands issued, and on their ids
  Positions,     \* the [AZ, EL] pairs of angles MOVE asks for
  Deltas,        \* angles MOVE_REL asks for
  StepCounts,    \* step counts MOTOR STEP asks for
  SwitchLevels,  \* the [AZ, EL] pairs of home switch levels met
  InputLevels,   \* levels the emergency input takes, TRUE when pressed
  WriteOutcomes  \* how the verified driver writes may end

ASSUME CommandAssumption ==
  /\ StartupKinds \subseteq Startups
  /\ MaxCommands \in Nat
  /\ Positions \subseteq [Axes -> Int]
  /\ Deltas \subseteq Int
  /\ StepCounts \subseteq Int
  /\ SwitchLevels \subseteq [Axes -> BOOLEAN]
  /\ InputLevels \subseteq BOOLEAN /\ FALSE \in InputLevels
  /\ WriteOutcomes \subseteq WriteResults

VARIABLES
  ctl,       \* the PhysicalMotionController with its axes
  pressed,   \* the level of the emergency input
  issued,    \* commands issued so far; the next command's id is issued + 1
  accepted   \* FALSE just after a command that was refused

vars == <<ctl, pressed, issued, accepted>>

\* Both axes, their copy in STATUS and the emergency input keep to their
\* types (physical_motion_controller.hpp).
TypeOK ==
  /\ ctl \in ControllerState
  /\ pressed \in BOOLEAN
  /\ issued \in Nat
  /\ accepted \in BOOLEAN

Selections == Axes \cup {"BOTH"}

\* Power-on, however each axis comes up.
Init ==
  /\ pressed \in InputLevels
  /\ \E startups \in [Axes -> StartupKinds], raw \in SwitchLevels :
       /\ \A ax \in Axes :
            startups[ax] = "unvisited" => \A other \in Axes :
                                            startups[other] = "unvisited"
       /\ ctl = StartupController(startups, pressed, raw)
  /\ issued = 0
  /\ accepted = TRUE

Ready ==
  StartupController([ax \in Axes |-> "ready"], FALSE, [ax \in Axes |-> FALSE])

\* Every axis at home, as HOME BOTH leaves it as command 1, the switches
\* having been released since.  Runs about moves start here.
HomedAxis ==
  [StartupAxis("ready", FALSE) EXCEPT
     !.position = HomeOffset * StartMicrosteps,
     !.target = HomeOffset * StartMicrosteps,
     !.direction = HomeSide, !.activeId = 1, !.lastCompleted = 1,
     !.trusted = TRUE, !.homed = TRUE, !.lossReason = "none",
     !.enabled = TRUE, !.outputs = TRUE, !.phase = "complete"]

HomedInit ==
  /\ ctl = Synchronize([Ready EXCEPT !.axes = [ax \in Axes |-> HomedAxis]])
  /\ pressed = FALSE
  /\ issued = 1
  /\ accepted = TRUE

-----------------------------------------------------------------------------
(* Commands *)

\* Whether each timer can be armed: one of them may fail in a step.
ArmChoices == {armOk \in [Axes -> BOOLEAN] : \E ax \in Axes : armOk[ax]}

Handle(outcome) ==
  /\ issued < MaxCommands
  /\ issued' = issued + 1
  /\ ctl' = outcome.ctl
  /\ accepted' = outcome.ok
  /\ UNCHANGED pressed

HomeCommand ==
  \E selection \in Selections, raw \in SwitchLevels, armOk \in ArmChoices :
    Handle(HomeAxes(ctl, selection, raw, issued + 1, armOk))

MoveAbsoluteCommand ==
  \E angles \in Positions, speedOk \in BOOLEAN, armOk \in ArmChoices :
    Handle(MoveTo(ctl, angles, speedOk, issued + 1, armOk))

MoveRelativeCommand ==
  \E selection \in Selections, delta \in Deltas,
     speedOk \in BOOLEAN, armOk \in ArmChoices :
    Handle(MoveBy(ctl, selection, delta, speedOk, issued + 1, armOk))

BenchCommand ==
  \E ax \in Axes, steps \in StepCounts, armOk \in ArmChoices :
    Handle(BenchAxis(ctl, ax, steps, issued + 1, armOk))

StopAxisCommand == \E ax \in Axes : Handle(StopAxis(ctl, ax))

StopCommand == Handle(StopAll(ctl))

EmergencyStopCommand == Handle(EmergencyStopAll(ctl))

ClearFaultCommand == Handle(ClearFaults(ctl, pressed))

SetEnabledCommand ==
  \E enabled \in BOOLEAN : Handle(SetAllEnabled(ctl, enabled))

SetAxisEnabledCommand ==
  \E ax \in Axes, enabled \in BOOLEAN :
    Handle(SetAxisEnabled(ctl, ax, enabled))

SetAxisCurrentCommand ==
  \E ax \in Axes, write \in WriteOutcomes :
    Handle(SetAxisCurrent(ctl, ax, write))

SetAxisMicrostepsCommand ==
  \E ax \in Axes, microsteps \in MicrostepChoices, write \in WriteOutcomes :
    Handle(SetAxisMicrosteps(ctl, ax, microsteps, write))

Commands ==
  \/ HomeCommand
  \/ MoveAbsoluteCommand
  \/ MoveRelativeCommand
  \/ BenchCommand
  \/ StopAxisCommand
  \/ StopCommand
  \/ EmergencyStopCommand
  \/ ClearFaultCommand
  \/ SetEnabledCommand
  \/ SetAxisEnabledCommand
  \/ SetAxisCurrentCommand
  \/ SetAxisMicrostepsCommand

-----------------------------------------------------------------------------
(* The motion task's own calls *)

Unasked == accepted' = TRUE /\ UNCHANGED issued

ServiceController ==
  /\ \E raw \in SwitchLevels, armOk \in ArmChoices :
       ctl' = ServiceAll(ctl, pressed, raw, armOk)
  /\ Unasked
  /\ UNCHANGED pressed

\* One driver at a time reads badly.
ReadingChoices ==
  {readings \in [Axes -> Readings] : \E ax \in Axes : readings[ax] = "ok"}

DiagnosticsTick ==
  /\ \E readings \in ReadingChoices : ctl' = DiagnoseAll(ctl, readings)
  /\ Unasked
  /\ UNCHANGED pressed

-----------------------------------------------------------------------------
(* The timers, the emergency input and time *)

\* Both alarms of a pulse.  The first may fail to arm the second.
PulseDone ==
  /\ \E ax \in Axes :
       /\ ctl.axes[ax].armed
       /\ \/ ctl' = [ctl EXCEPT !.axes[ax].armed = FALSE,
                                !.axes[ax].completed = @ + 1]
          \/ ctl' = [ctl EXCEPT !.axes[ax].armed = FALSE,
                                !.axes[ax].schedFault = TRUE]
  /\ Unasked
  /\ UNCHANGED pressed

InputChanges ==
  /\ pressed' \in InputLevels \ {pressed}
  /\ Unasked
  /\ UNCHANGED ctl

Tick ==
  /\ AgeAll(ctl) # ctl
  /\ ctl' = AgeAll(ctl)
  /\ Unasked
  /\ UNCHANGED pressed

Next ==
  \/ Commands
  \/ ServiceController
  \/ DiagnosticsTick
  \/ PulseDone
  \/ InputChanges
  \/ Tick

Spec == Init /\ [][Next]_vars

HomedSpec == HomedInit /\ [][Next]_vars

-----------------------------------------------------------------------------
(* Safety *)

Off(a) == ~a.moving /\ ~a.armed /\ ~a.outputs /\ ~a.enabled

\* While the emergency stop is latched both axes are off and untrusted, no
\* homing is in progress, and STATUS says so: no command, no homing already
\* under way and no diagnostics tick wakes an axis (emergency_stop, 335-343;
\* test_physical:287-307).
LatchHolds ==
  ctl.latched =>
    /\ \A ax \in Axes : /\ Off(ctl.axes[ax])
                        /\ ~ctl.axes[ax].trusted
                        /\ ctl.axes[ax].phase \notin LivePhases
    /\ ~ctl.coordinated
    /\ ctl.state.estop

\* A controller one of whose axes did not come up never powers either of
\* them, whatever it is asked afterwards (initialize, 128-155).
UninitializedStaysOff ==
  ~ctl.initialized => \A ax \in Axes : Off(ctl.axes[ax])

\* STATUS, the heartbeat watchdog and the completion events read a copy of
\* the axes that refused commands do not refresh: the copy may lag, but it
\* never shows at rest an axis that moves (synchronize_state, 101-116).
MotionIsReported ==
  \A ax \in Axes : ctl.axes[ax].moving => ctl.state.axes[ax].moving

\* The fault of an axis is never hidden behind a healthy controller, though
\* several handlers clear the controller's fault (active_axis_fault, 118-126).
AxisFaultIsReported ==
  (\E ax \in Axes : ctl.axes[ax].fault # "none") => ctl.state.fault # "none"

\* Locked out, by the latch or by a start that failed, the axes stay off
\* whatever comes (emergency_stop, 335-343, initialize, 128-155).
OffWhenLockedOut == LatchHolds /\ UninitializedStaysOff

\* What STATUS tells is never better than what is (synchronize_state, 101-116).
StatusHidesNothing == MotionIsReported /\ AxisFaultIsReported

-----------------------------------------------------------------------------
(* The contract of the interface *)

\* What state() tells of an axis once it has been synchronized.
Shown(a) ==
  [working |-> a.moving, homing |-> a.phase \in LivePhases,
   trusted |-> a.trusted, enabled |-> a.enabled,
   order |-> a.activeId, done |-> a.lastCompleted]

Contract == INSTANCE MotionContract WITH
  PowerUnderLatch <- FALSE,
  units <- [ax \in Axes |-> Shown(ctl.axes[ax])],
  latched <- ctl.latched,
  used <- issued

\* Two axes with their timers, switches and faults, one emergency stop and a
\* homing that any command may interrupt still keep the promises of
\* MotionController: nothing comes to life under the latch, a refused command
\* moves nothing, no interrupted order keeps the trust, trust is gained only
\* by a homing, and nothing is done twice or in a wrong order.
HonoursContract == Contract!ContractSpec

-----------------------------------------------------------------------------
(* Action properties *)

ByItself == issued' = issued

Ended(ax) == ctl.axes[ax].moving /\ ~ctl'.axes[ax].moving

EndedShort(ax) == Ended(ax) /\ ctl'.axes[ax].lastCompleted # ctl.axes[ax].activeId

\* A coordinated move is carried out by both axes or by none: when one axis
\* breaks off on its own, the other stops in the same step (service, 171-190).
OneFailsBothStop ==
  [][\A ax \in Axes :
       ctl.coordinated /\ ctl.axes[ax].purpose = "normal"
         /\ EndedShort(ax) /\ ByItself
       => ~AnyMoving(ctl')]_vars

\* An axis whose driver a service step turned off is reported with the fault
\* that did it, not as a mere stop (the comment at 119-121: "either is
\* promoted to the controller").
FailureIsNamed ==
  [][\A ax \in Axes :
       ctl.axes[ax].outputs /\ ~ctl'.axes[ax].outputs /\ ByItself
       => ctl'.state.fault \notin {"none", "stopped"}]_vars

\* The latch is released only with the input released
\* (test_physical:262-285, "requires_released_input").
ClearRequiresRelease ==
  [][ctl.latched /\ ~ctl'.latched => ~pressed]_vars

=============================================================================
