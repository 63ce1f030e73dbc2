------------------------- MODULE PhysicalOperations -------------------------
(***************************************************************************)
(* The operations of PhysicalMotionController as functions of its state.   *)
(*                                                                         *)
(* The record holds the two axes, the flags of the controller, the         *)
(* debounced emergency input, and state_, the copy that STATUS, the events *)
(* and the heartbeat watchdog read: it follows the axes only when a handler *)
(* calls synchronize_state().  Every method is an operator to an outcome:  *)
(* the new record and the MotionResult {ok, fault}.                        *)
(***************************************************************************)
EXTENDS AxisOperations

CONSTANT EmergencyDebounce   \* emergency_stop_debounce_ms, in ticks

ASSUME EmergencyAssumption == EmergencyDebounce \in Nat \ {0}

Axes == {"AZ", "EL"}

Faults == AxisFaults \cup Refusals

\* What the protocol and the runtime read of an axis in state_.
Seen(a) == [moving |-> a.moving, trusted |-> a.trusted, enabled |-> a.enabled,
            fault |-> a.fault, lastCompleted |-> a.lastCompleted]

SeenAxis == [moving : BOOLEAN, trusted : BOOLEAN, enabled : BOOLEAN,
             fault : AxisFaults, lastCompleted : Nat]

Reported == [axes : [Axes -> SeenAxis], fault : Faults, stopped : BOOLEAN,
             estop : BOOLEAN]

Input == [known : BOOLEAN, candidate : BOOLEAN, stable : BOOLEAN,
          age : 0 .. EmergencyDebounce]

ControllerState ==
  [axes : [Axes -> AxisState], initialized : BOOLEAN, coordinated : BOOLEAN,
   latched : BOOLEAN, input : Input, state : Reported]

-----------------------------------------------------------------------------
(* Helpers *)

\* Bug: the new level is not kept as the candidate.
UpdateEmergencyForgetful(c, raw) ==
  LET in      == c.input
      settled == ~in.known \/ (raw = in.candidate /\ in.age = EmergencyDebounce)
  IN  [c EXCEPT !.input =
         [known |-> TRUE, candidate |-> in.candidate,
          stable |-> IF settled THEN raw ELSE in.stable,
          age |-> IF raw # in.candidate \/ settled THEN 0 ELSE in.age]]

\* update_emergency_input()
UpdateEmergency(c, raw) ==
  LET in      == c.input
      settled == ~in.known \/ (raw = in.candidate /\ in.age = EmergencyDebounce)
  IN  [c EXCEPT !.input =
         [known |-> TRUE, candidate |-> raw,
          stable |-> IF settled THEN raw ELSE in.stable,
          age |-> IF raw # in.candidate \/ settled THEN 0 ELSE in.age]]

\* active_axis_fault()
ActiveAxisFault(c) ==
  IF c.axes["AZ"].fault # "none" THEN c.axes["AZ"].fault ELSE c.axes["EL"].fault

AnyMoving(c) == \E ax \in Axes : c.axes[ax].moving

\* synchronize_state()
Synchronize(c) ==
  LET axisFault == ActiveAxisFault(c)
      fault == IF c.latched THEN "emergency_stop"
               ELSE IF axisFault # "none" THEN axisFault
               ELSE c.state.fault
  IN  [c EXCEPT !.state =
         [axes |-> [ax \in Axes |-> Seen(c.axes[ax])],
          fault |-> fault,
          stopped |-> c.latched \/ (~AnyMoving(c) /\ fault = "stopped"),
          estop |-> c.latched]]

\* report_fault()
ReportFault(c, fault) == [c EXCEPT !.state.fault = fault]

\* reject(): only the fault of state_ changes, the axes are not copied.
Reject(c, fault) ==
  [ctl |-> ReportFault(c, fault), ok |-> FALSE, fault |-> fault]

\* A handler that ends in synchronize_state() and returns a result.
Answer(c, ok, fault) == [ctl |-> Synchronize(c), ok |-> ok, fault |-> fault]

\* Bug: the latch is not looked at.
GuardedUnlatched(c, outcome) ==
  IF ~c.initialized THEN Reject(c, "invalid_configuration") ELSE outcome

\* The check all motion and configuration handlers begin with.
Guarded(c, outcome) ==
  IF c.latched THEN Reject(c, "emergency_stop")
  ELSE IF ~c.initialized THEN Reject(c, "invalid_configuration")
  ELSE outcome

WithAxis(c, ax, a) == [c EXCEPT !.axes[ax] = a]

\* An order for one axis, whatever its result.
OneAxis(c, ax, out) == Answer(WithAxis(c, ax, out.axis), out.ok, out.fault)

\* Bug: azimuth goes on alone.
BothAxesKeepAzimuth(c, azimuth, elevation, evenIfStill) ==
  LET azOnly  == WithAxis(c, "AZ", azimuth.axis)
      started == WithAxis(azOnly, "EL", elevation.axis)
  IN  IF ~azimuth.ok
        THEN Reject(azOnly, azimuth.fault)
      ELSE IF ~elevation.ok
        THEN Reject(started, elevation.fault)
      ELSE Answer([started EXCEPT
                     !.coordinated = evenIfStill \/ AnyMoving(started)],
                  TRUE, "none")

\* Bug: azimuth goes on alone, and STATUS shows it.
BothAxesShowAzimuth(c, azimuth, elevation, evenIfStill) ==
  LET azOnly  == WithAxis(c, "AZ", azimuth.axis)
      started == WithAxis(azOnly, "EL", elevation.axis)
  IN  IF ~azimuth.ok
        THEN Reject(azOnly, azimuth.fault)
      ELSE Answer([started EXCEPT
                     !.coordinated = evenIfStill \/ AnyMoving(started)],
                  elevation.ok, elevation.fault)

\* An order for both: azimuth first; it is stopped again if elevation
\* refuses.  MOVE moves as one only if there is something to move.
BothAxes(c, azimuth, elevation, evenIfStill) ==
  LET azOnly  == WithAxis(c, "AZ", azimuth.axis)
      started == WithAxis(azOnly, "EL", elevation.axis)
  IN  IF ~azimuth.ok
        THEN Reject(azOnly, azimuth.fault)
      ELSE IF ~elevation.ok
        THEN Reject(WithAxis(started, "AZ", Stop(azimuth.axis)),
                    elevation.fault)
      ELSE Answer([started EXCEPT
                     !.coordinated = evenIfStill \/ AnyMoving(started)],
                  TRUE, "none")

-----------------------------------------------------------------------------
(* Handlers.  raw gives the home switch level of each axis, armOk whether   *)
(* its timer can be armed, write how its driver's verified write ended.     *)

HomeAxes(c, selection, raw, id, armOk) ==
  LET homing(ax) == StartHoming(c.axes[ax], raw[ax], id, armOk[ax])
  IN  Guarded(c, IF selection = "BOTH"
                   THEN BothAxes(c, homing("AZ"), homing("EL"), TRUE)
                   ELSE OneAxis(c, selection, homing(selection)))

MoveTo(c, angles, speedOk, id, armOk) ==
  LET moving(ax) == MoveAbsolute(c.axes[ax], angles[ax], speedOk, id, armOk[ax])
  IN  Guarded(c, BothAxes(c, moving("AZ"), moving("EL"), FALSE))

MoveBy(c, selection, delta, speedOk, id, armOk) ==
  LET moving(ax) == MoveRelative(c.axes[ax], delta, speedOk, id, armOk[ax])
  IN  Guarded(c, IF selection = "BOTH"
                   THEN BothAxes(c, moving("AZ"), moving("EL"), TRUE)
                   ELSE OneAxis(c, selection, moving(selection)))

BenchAxis(c, ax, steps, id, armOk) ==
  Guarded(c, OneAxis(c, ax, BenchMove(c.axes[ax], steps, id, armOk[ax])))

\* stop_axis()
StopAxis(c, ax) ==
  Answer([WithAxis(c, ax, Stop(c.axes[ax])) EXCEPT !.coordinated = FALSE],
         TRUE, "stopped")

\* stop()
StopAll(c) ==
  Answer([c EXCEPT !.axes = [ax \in Axes |-> Stop(c.axes[ax])],
                   !.coordinated = FALSE, !.state.fault = "stopped"],
         TRUE, "stopped")

\* emergency_stop()
EmergencyStopAll(c) ==
  Answer([c EXCEPT !.latched = TRUE, !.coordinated = FALSE,
                   !.axes = [ax \in Axes |-> EmergencyStop(c.axes[ax])],
                   !.state.fault = "emergency_stop"],
         TRUE, "emergency_stop")

FirstRefusal(azimuth, elevation) ==
  IF ~azimuth.ok THEN azimuth.fault ELSE elevation.fault

\* clear_fault()
ClearFaults(c, raw) ==
  LET seen      == UpdateEmergency(c, raw)
      azimuth   == ClearFault(c.axes["AZ"])
      elevation == ClearFault(c.axes["EL"])
      cleared   == [WithAxis(WithAxis(seen, "AZ", azimuth.axis),
                             "EL", elevation.axis) EXCEPT !.latched = FALSE]
  IN  IF seen.input.stable
        THEN Reject(seen, "emergency_stop")
      ELSE IF ~azimuth.ok \/ ~elevation.ok
        THEN Reject(cleared, FirstRefusal(azimuth, elevation))
      ELSE Answer(ReportFault(cleared, "none"), TRUE, "none")

EnableFault(enabled) == IF enabled THEN "none" ELSE "driver_disabled"

\* set_enabled()
SetAllEnabled(c, enabled) ==
  LET azimuth   == SetEnabled(c.axes["AZ"], enabled)
      elevation == SetEnabled(c.axes["EL"], enabled)
      switched  == WithAxis(WithAxis(c, "AZ", azimuth.axis),
                            "EL", elevation.axis)
  IN  Guarded(c, IF ~azimuth.ok \/ ~elevation.ok
                   THEN Reject(switched, FirstRefusal(azimuth, elevation))
                   ELSE Answer(ReportFault(switched, EnableFault(enabled)),
                               TRUE, EnableFault(enabled)))

\* set_axis_enabled(), set_axis_current() and set_axis_microsteps() clear the
\* fault of state_, or set it, only when the axis accepts.
Configured(c, ax, out, fault) ==
  Guarded(c, OneAxis(IF out.ok THEN ReportFault(c, fault) ELSE c, ax, out))

SetAxisEnabled(c, ax, enabled) ==
  Configured(c, ax, SetEnabled(c.axes[ax], enabled), EnableFault(enabled))

SetAxisCurrent(c, ax, write) ==
  Configured(c, ax, SetCurrent(c.axes[ax], write), "none")

SetAxisMicrosteps(c, ax, microsteps, write) ==
  Configured(c, ax, SetMicrosteps(c.axes[ax], microsteps, write), "none")

-----------------------------------------------------------------------------
(* Service *)

\* The faults of one axis that end the move of both.
SharedFaults == {"driver_critical", "driver_communication", "motion_timeout",
                 "unexpected_home_switch"}

\* Bug: the other axis goes on when a step timer fails.
CoordinateUnlinked(c) ==
  IF ~c.coordinated
    THEN c
  ELSE IF \E ax \in Axes :
            c.axes[ax].fault \in SharedFaults \ {"driver_communication"}
    THEN [c EXCEPT !.axes = [ax \in Axes |-> Stop(c.axes[ax])],
                   !.state.fault = "driver_critical", !.coordinated = FALSE]
  ELSE IF ~AnyMoving(c)
    THEN [c EXCEPT !.state.fault = "none", !.coordinated = FALSE]
  ELSE c

\* Bug: the end of the move is not recorded.
CoordinateForEver(c) ==
  IF ~c.coordinated
    THEN c
  ELSE IF \E ax \in Axes : c.axes[ax].fault \in SharedFaults
    THEN [c EXCEPT !.axes = [ax \in Axes |-> Stop(c.axes[ax])],
                   !.state.fault = "driver_critical", !.coordinated = FALSE]
  ELSE IF ~AnyMoving(c)
    THEN [c EXCEPT !.state.fault = "none"]
  ELSE c

\* The end of a coordinated move: one axis failed, or both are at rest.
Coordinate(c) ==
  IF ~c.coordinated
    THEN c
  ELSE IF \E ax \in Axes : c.axes[ax].fault \in SharedFaults
    THEN [c EXCEPT !.axes = [ax \in Axes |-> Stop(c.axes[ax])],
                   !.state.fault = "driver_critical", !.coordinated = FALSE]
  ELSE IF ~AnyMoving(c)
    THEN [c EXCEPT !.state.fault = "none", !.coordinated = FALSE]
  ELSE c

\* service()
ServiceAll(c, pressed, raw, armOk) ==
  LET seen   == UpdateEmergency(c, pressed)
      served == [seen EXCEPT !.axes =
                   [ax \in Axes |-> Service(c.axes[ax], raw[ax], armOk[ax])]]
  IN  IF seen.input.stable /\ ~c.latched
        THEN EmergencyStopAll(seen).ctl
        ELSE Synchronize(Coordinate(served))

\* service_diagnostics()
DiagnoseAll(c, readings) ==
  IF ~c.initialized \/ c.latched \/ AnyMoving(c)
    THEN c
    ELSE Synchronize([c EXCEPT !.axes =
           [ax \in Axes |-> ServiceDiagnostics(c.axes[ax], readings[ax])]])

-----------------------------------------------------------------------------
(* Time, and the power-on state *)

AgeAll(c) ==
  [c EXCEPT !.axes = [ax \in Axes |-> Age(c.axes[ax])],
            !.input.age = IF c.input.candidate # c.input.stable
                            THEN Older(@, EmergencyDebounce) ELSE @]

\* initialize(), given how each axis came up and whether the input is active.
\* A refused GPIO map leaves axes and input untouched.
StartupController(startups, pressed, raw) ==
  LET gpioOk == \A ax \in Axes : startups[ax] # "unvisited"
      ready  == \A ax \in Axes : startups[ax] = "ready"
      axes   == [ax \in Axes |-> StartupAxis(startups[ax], raw[ax])]
      off    == [axes |-> axes, initialized |-> ready, coordinated |-> FALSE,
                 latched |-> FALSE,
                 input |-> [known |-> FALSE, candidate |-> FALSE,
                            stable |-> FALSE, age |-> 0],
                 state |-> [axes |-> [ax \in Axes |-> Seen(axes[ax])],
                            fault |-> "none", stopped |-> FALSE,
                            estop |-> FALSE]]
      seen   == Synchronize(UpdateEmergency(off, pressed))
      up     == IF ready THEN seen ELSE ReportFault(seen, "driver_communication")
  IN  IF ~gpioOk
        THEN ReportFault(off, "invalid_configuration")
      ELSE IF up.input.stable
        THEN EmergencyStopAll(up).ctl
      ELSE up

=============================================================================
