--------------------- MODULE SimulatedMotionController ---------------------
(***************************************************************************)
(* SimulatedMotionController, the MotionController without hardware that   *)
(* ProtocolEngine makes for itself when it is given none.                  *)
(*                                                                         *)
(* Every command is carried out within the call: nothing is ever moving.   *)
(* Its methods are operators from the state to an outcome, as those of     *)
(* PhysicalOperations are.  Angles are whole units, Turn of them a turn;   *)
(* an angle divided by no steps at all (an infinity or no number) is       *)
(* Nowhere.                                                                *)
(***************************************************************************)
EXTENDS AxisConfig

CONSTANTS
  Profile,           \* the AxisConfig of each axis
  Turn,              \* 360 degrees
  Nowhere,           \* an angle that is not in any range
  BenchLimit,        \* maximum_bench_test_steps
  MicrostepChoices,  \* values set_axis_microsteps() knows
  Positions,         \* the [AZ, EL] pairs of angles move_absolute() is given
  Deltas,            \* angles move_relative() is given
  StepCounts,        \* step counts bench_move_steps() is given
  Statuses,          \* what simulate_driver_status() is given
  Failures,          \* what simulate_homing_failure() is given
  MaxCommands,       \* bound on the commands issued, and on their ids
  MaxSimulated       \* bound on what a test makes happen

Selections == Axes \cup {"BOTH"}

Selected(selection) == IF selection = "BOTH" THEN Axes ELSE {selection}

Configured(ax, microsteps) == [Profile[ax] EXCEPT !.microsteps = microsteps]

ASSUME SimulatorAssumption ==
  /\ Profile \in [Axes -> Configs]
  /\ MicrostepChoices \subseteq Nat \ {0}
  /\ \A ax \in Axes :
       /\ Profile[ax].microsteps \in MicrostepChoices
       /\ Nowhere \notin Profile[ax].minimum .. Profile[ax].maximum
       /\ \A microsteps \in MicrostepChoices :
            LET steps == StepsPerTurn(Configured(ax, microsteps))
            IN  steps > 0 => Turn % steps = 0
  /\ Turn \in Nat \ {0} /\ Nowhere \in Int
  /\ BenchLimit \in Nat \ {0}
  /\ Positions \subseteq [Axes -> Int] /\ Deltas \subseteq Int
  /\ StepCounts \subseteq Int
  /\ "ok" \in Statuses /\ Statuses \subseteq {"ok", "critical", "lost"}
  /\ MaxCommands \in Nat /\ MaxSimulated \in Nat

VARIABLES
  sim,       \* the state_, config_ and simulated failures of the controller
  issued,    \* commands issued so far; the next command's id is issued + 1
  accepted,  \* MotionResult::ok of the last command
  simulated  \* what a test has made happen so far

simVars == <<sim, issued, accepted, simulated>>

SimFaults == Failures \cup
  {"none", "invalid_configuration", "invalid_argument", "emergency_stop",
   "stopped", "not_homed", "position_untrusted", "driver_disabled",
   "limit_reached", "driver_critical", "driver_communication"}

SimLosses ==
  {"startup", "none", "emergency_stop", "driver_fault", "homing_failed",
   "driver_disabled_during_motion", "configuration_changed", "stopped",
   "watchdog_reset_during_motion"}

SimAxis ==
  [at : Int, steps : Int, enabled : BOOLEAN, homed : BOOLEAN,
   trusted : BOOLEAN, lossReason : SimLosses, fault : SimFaults, done : Nat,
   status : Statuses, microsteps : MicrostepChoices]

\* The simulated controller keeps to its types (motion_controller.hpp:115-137).
SimTypeOK ==
  /\ sim \in [axes : [Axes -> SimAxis], fault : SimFaults, stopped : BOOLEAN,
              estop : BOOLEAN,
              failing : [Axes -> Failures \cup {"none"}]]
  /\ issued \in Nat
  /\ accepted \in BOOLEAN
  /\ simulated \in Nat

-----------------------------------------------------------------------------
(* Results and helpers *)

FailWith(s, fault) ==
  [sim |-> [s EXCEPT !.fault = fault], ok |-> FALSE]

Succeed(s) == [sim |-> [s EXCEPT !.fault = "none"], ok |-> TRUE]

\* Bug: a position that is not trusted stays trusted.
InvalidateHomedOnly(a, reason) ==
  [a EXCEPT !.homed = FALSE, !.lossReason = reason]

\* invalidate()
Invalidate(a, reason) ==
  [a EXCEPT !.trusted = FALSE, !.homed = FALSE, !.lossReason = reason]

\* What always follows it when the motor is disabled too.
SwitchedOff(a, reason) == [Invalidate(a, reason) EXCEPT !.enabled = FALSE]

Failed(a, reason, fault) == [SwitchedOff(a, reason) EXCEPT !.fault = fault]

\* The selected axes become change(axis), the others stay.
Change(s, axes, change(_)) ==
  [s EXCEPT !.axes =
     [ax \in Axes |-> IF ax \in axes THEN change(@[ax]) ELSE @[ax]]]

Config(s, ax) == Configured(ax, s.axes[ax].microsteps)

\* ControllerConfig::valid()
ConfigIsValid(s) == \A ax \in Axes : AxisIsValid(Config(s, ax))

InRange(ax, angle) == angle \in Profile[ax].minimum .. Profile[ax].maximum

-----------------------------------------------------------------------------
(* Motion *)

\* What home() and move_absolute() begin with.
Ready(s, outcome) ==
  IF ~ConfigIsValid(s) THEN FailWith(s, "invalid_configuration")
  ELSE IF s.estop THEN FailWith(s, "emergency_stop")
  ELSE IF s.stopped THEN FailWith(s, "stopped")
  ELSE outcome

Homed(a, offset, id) ==
  [a EXCEPT !.enabled = TRUE, !.at = offset, !.steps = 0, !.homed = TRUE,
            !.trusted = TRUE, !.lossReason = "none", !.done = id]

\* home(): the first selected axis whose homing is to fail fails it for both.
HomeTo(s, selection, id) ==
  LET fails(ax) == ax \in Selected(selection) /\ s.failing[ax] # "none"
      failed(ax) ==
        FailWith([s EXCEPT !.axes[ax] =
                    Failed(@, "homing_failed", s.failing[ax])],
                 s.failing[ax])
  IN  Ready(s, IF fails("AZ") THEN failed("AZ")
               ELSE IF fails("EL") THEN failed("EL")
               ELSE Succeed([s EXCEPT !.axes = [ax \in Axes |->
                      IF ax \in Selected(selection)
                        THEN Homed(@[ax], Profile[ax].offset, id)
                        ELSE @[ax]]]))

Moved(a, angle, id) == [a EXCEPT !.at = angle, !.done = id]

\* Bug: one homed axis is enough.
MoveToAny(s, angles, speedOk, id) ==
  Ready(s, IF \A ax \in Axes : ~s.axes[ax].homed
             THEN FailWith(s, "not_homed")
           ELSE IF ~speedOk
             THEN FailWith(s, "invalid_argument")
           ELSE Succeed([s EXCEPT !.axes = [ax \in Axes |->
                  Moved(@[ax], angles[ax], id)]]))

\* move_absolute(): both axes or none.
MoveTo(s, angles, speedOk, id) ==
  Ready(s, IF \E ax \in Axes : ~s.axes[ax].homed
             THEN FailWith(s, "not_homed")
           ELSE IF \E ax \in Axes : ~s.axes[ax].trusted
             THEN FailWith(s, "position_untrusted")
           ELSE IF \E ax \in Axes : ~s.axes[ax].enabled
             THEN FailWith(s, "driver_disabled")
           ELSE IF ~speedOk
             THEN FailWith(s, "invalid_argument")
           ELSE IF \E ax \in Axes : ~InRange(ax, angles[ax])
             THEN FailWith(s, "limit_reached")
           ELSE Succeed([s EXCEPT !.axes = [ax \in Axes |->
                  Moved(@[ax], angles[ax], id)]]))

\* move_relative(): a move of both axes, one of them to where it is.
MoveBy(s, selection, delta, speedOk, id) ==
  LET goal(ax) == IF ax \notin Selected(selection) \/ s.axes[ax].at = Nowhere
                    THEN s.axes[ax].at
                    ELSE s.axes[ax].at + delta
  IN  MoveTo(s, [ax \in Axes |-> goal(ax)], speedOk, id)

Benched(a, angle, steps, id) ==
  [a EXCEPT !.enabled = TRUE, !.steps = @ + steps, !.at = angle, !.done = id]

\* bench_move_steps(): no latch, no stop and no trust is looked at, and the
\* angle is that of the steps counted since home, moves left out.
BenchMove(s, selection, steps, id) ==
  LET turn(ax) == StepsPerTurn(Config(s, ax))
      angle(ax, count) ==
        IF turn(ax) = 0 THEN Nowhere ELSE count * (Turn \div turn(ax))
  IN  IF selection = "BOTH" \/ steps = 0
        THEN FailWith(s, "invalid_argument")
      ELSE IF steps > BenchLimit \/ steps < -BenchLimit
        THEN FailWith(s, "limit_reached")
      ELSE Succeed(Change(s, {selection}, LAMBDA a :
             Benched(a, angle(selection, a.steps + steps), steps, id)))

-----------------------------------------------------------------------------
(* Stopping, enabling and configuring *)

StopAll(s) ==
  FailWith(Change([s EXCEPT !.stopped = TRUE], Axes,
                  LAMBDA a : Invalidate(a, "stopped")),
           "stopped")

EmergencyStopAll(s) ==
  FailWith(Change([s EXCEPT !.stopped = TRUE, !.estop = TRUE], Axes,
                  LAMBDA a : SwitchedOff(a, "emergency_stop")),
           "emergency_stop")

\* clear_fault(): nothing ever releases the latch of the simulator.
ClearFault(s) ==
  IF s.estop THEN FailWith(s, "emergency_stop")
             ELSE Succeed([s EXCEPT !.stopped = FALSE])

Switched(a, enabled) ==
  IF enabled
    THEN [a EXCEPT !.enabled = TRUE]
    ELSE SwitchedOff(a, "driver_disabled_during_motion")

\* set_enabled()
SetAllEnabled(s, enabled) ==
  LET switched == Change(s, Axes, LAMBDA a : Switched(a, enabled))
  IN  IF enabled THEN Succeed(switched)
                 ELSE FailWith(switched, "driver_disabled")

StopAxis(s, selection) ==
  Succeed(Change(s, Selected(selection), LAMBDA a : Invalidate(a, "stopped")))

SetAxisEnabled(s, selection, enabled) ==
  Succeed(Change(s, Selected(selection), LAMBDA a : Switched(a, enabled)))

\* set_axis_current(): the current itself is of no consequence.
SetAxisCurrent(s, selection, current) ==
  IF selection = "BOTH" \/ current = 0
    THEN FailWith(s, "invalid_argument") ELSE Succeed(s)

Reconfigured(a, microsteps) ==
  IF a.microsteps = microsteps
    THEN a
    ELSE [Invalidate(a, "configuration_changed") EXCEPT
            !.microsteps = microsteps]

\* set_axis_microsteps(): the configuration may no longer be valid after it.
SetAxisMicrosteps(s, selection, microsteps) ==
  IF selection = "BOTH" \/ microsteps \notin MicrostepChoices
    THEN FailWith(s, "invalid_argument")
    ELSE Succeed(Change(s, {selection}, LAMBDA a :
           Reconfigured(a, microsteps)))

-----------------------------------------------------------------------------
(* service() and what tests make happen *)

\* service()
ServeAll(s) ==
  Change(s, Axes, LAMBDA a :
    IF a.status = "ok"
      THEN a
      ELSE Failed(a, "driver_fault",
                  IF a.status = "critical" THEN "driver_critical"
                                           ELSE "driver_communication"))

SimulateReset(s, selection) ==
  [Change(s, Selected(selection), LAMBDA a :
     Failed(a, "watchdog_reset_during_motion", "driver_communication"))
   EXCEPT !.fault = "driver_communication"]
-----------------------------------------------------------------------------
SimInit ==
  LET axis(ax) ==
        [at |-> 0, steps |-> 0, enabled |-> FALSE, homed |-> FALSE,
         trusted |-> FALSE, lossReason |-> "startup", fault |-> "none",
         done |-> 0, status |-> "ok", microsteps |-> Profile[ax].microsteps]
  IN  /\ sim = [axes |-> [ax \in Axes |-> axis(ax)],
                fault |-> IF \A ax \in Axes : AxisIsValid(Profile[ax])
                            THEN "none" ELSE "invalid_configuration",
                stopped |-> FALSE, estop |-> FALSE,
                failing |-> [ax \in Axes |-> "none"]]
      /\ issued = 0
      /\ accepted = TRUE
      /\ simulated = 0

Handle(outcome) ==
  /\ issued < MaxCommands
  /\ issued' = issued + 1
  /\ sim' = outcome.sim
  /\ accepted' = outcome.ok
  /\ UNCHANGED simulated

SimHome ==
  \E selection \in Selections : Handle(HomeTo(sim, selection, issued + 1))

SimMoveAbsolute ==
  \E angles \in Positions, speedOk \in BOOLEAN :
    Handle(MoveTo(sim, angles, speedOk, issued + 1))

SimMoveRelative ==
  \E selection \in Selections, delta \in Deltas, speedOk \in BOOLEAN :
    Handle(MoveBy(sim, selection, delta, speedOk, issued + 1))

SimBenchMove ==
  \E selection \in Selections, steps \in StepCounts :
    Handle(BenchMove(sim, selection, steps, issued + 1))

SimStop ==
  \/ Handle(StopAll(sim))
  \/ \E selection \in Selections : Handle(StopAxis(sim, selection))

SimEmergencyStop == Handle(EmergencyStopAll(sim))

SimClearFault == Handle(ClearFault(sim))

SimSetEnabled ==
  \E enabled \in BOOLEAN :
    \/ Handle(SetAllEnabled(sim, enabled))
    \/ \E selection \in Selections :
         Handle(SetAxisEnabled(sim, selection, enabled))

SimConfigure ==
  \E selection \in Selections :
    \/ \E current \in {0, 400} : Handle(SetAxisCurrent(sim, selection, current))
    \/ \E microsteps \in MicrostepChoices \cup {3} :
         Handle(SetAxisMicrosteps(sim, selection, microsteps))

ByItself == accepted' = TRUE /\ UNCHANGED issued

SimService == sim' = ServeAll(sim) /\ ByItself /\ UNCHANGED simulated

\* report_fault(): the protocol's fault() and the runtime report anything.
SimReportFault ==
  /\ \E fault \in {"invalid_argument", "driver_communication"} :
       sim' = [sim EXCEPT !.fault = fault]
  /\ ByItself /\ UNCHANGED simulated

\* simulate_driver_status(), simulate_homing_failure() and simulate_reset()
Simulate ==
  /\ simulated < MaxSimulated /\ simulated' = simulated + 1
  /\ \/ \E ax \in Axes, status \in Statuses :
          sim' = [sim EXCEPT !.axes[ax].status = status]
     \/ \E ax \in Axes, fault \in Failures \cup {"none"} :
          sim' = [sim EXCEPT !.failing[ax] = fault]
     \/ \E selection \in Selections : sim' = SimulateReset(sim, selection)
  /\ ByItself

SimNext ==
  \/ SimHome \/ SimMoveAbsolute \/ SimMoveRelative \/ SimBenchMove
  \/ SimStop \/ SimEmergencyStop \/ SimClearFault
  \/ SimSetEnabled \/ SimConfigure
  \/ SimService \/ SimReportFault \/ Simulate

SimSpec == SimInit /\ [][SimNext]_simVars

-----------------------------------------------------------------------------
(* Properties *)

\* The three ways the state has of saying that a position is known agree, and
\* a known position belongs to a controller that is ready to use it: enabled
\* and not stopped.  So of the refusals of move_absolute() that follow
\* not_homed, position_untrusted and driver_disabled are never given.
SimTrustIsReady ==
  \A ax \in Axes :
    LET a == sim.axes[ax]
    IN  /\ a.trusted <=> a.homed
        /\ a.trusted <=> a.lossReason = "none"
        /\ a.trusted => a.enabled /\ ~sim.stopped

\* What is seen of an axis that does all it does within a call.
SimShown(ax) ==
  LET a == sim.axes[ax]
  IN  [working |-> FALSE, homing |-> FALSE, trusted |-> a.trusted,
       enabled |-> a.enabled, order |-> 0, done |-> a.done]

SimContract == INSTANCE MotionContract
  WITH PowerUnderLatch <- TRUE,
       units <- [ax \in Axes |-> SimShown(ax)],
       latched <- sim.estop,
       used <- issued

\* The simulated controller keeps the promises of MotionController
\* (motion_controller.hpp:148-180), except that it enables and moves a motor
\* under a latched emergency stop.
SimHonoursContract == SimContract!ContractSpec
=============================================================================
