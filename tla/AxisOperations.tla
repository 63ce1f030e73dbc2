--------------------------- MODULE AxisOperations ---------------------------
(***************************************************************************)
(* The operations of one AxisController as functions of the axis state.    *)
(*                                                                         *)
(* One record holds what AxisController keeps (AxisState and its private   *)
(* members), what its StepperDriver keeps (connected, the EN output, the   *)
(* last status read) and what its StepPulseScheduler keeps (armed, STEP    *)
(* high, completed pulses, the sticky fault).  Every public method is an   *)
(* operator from the record, its arguments and the outcome of its I/O to   *)
(* an outcome: the new record, and the MotionResult {ok, fault}.           *)
(* AxisController composes them with the timer interrupt;                  *)
(* PhysicalMotionController calls them for two axes.                       *)
(*                                                                         *)
(* Time is kept as ages that saturate at the duration they are compared    *)
(* with: elapsed(now, started, d) is age = d.  Angles are in full steps,   *)
(* so that an angle is angle * microsteps steps.                           *)
(***************************************************************************)
EXTENDS Integers

CONSTANTS
  HasScheduler,     \* TRUE: GPTimer pulses; FALSE: the cooperative fallback
  HasHomeSwitch,    \* config_.home_switch_pin >= 0
  HomeSide,         \* -1 when homing.direction_negative, 1 otherwise
  MinAngle,         \* minimum_angle_deg
  MaxAngle,         \* maximum_angle_deg
  HomeOffset,       \* home_offset_deg
  Backoff,          \* homing.backoff_deg
  BenchLimit,       \* maximum_bench_test_steps
  MicrostepChoices, \* values SET_MICROSTEPS accepts
  StartMicrosteps,  \* the profile's microsteps
  Debounce,         \* homing.debounce_ms, in ticks
  MotionTimeout,    \* motion_timeout_ms, in ticks
  HomingTimeout     \* homing.timeout_ms, in ticks

\* AxisConfig::valid(), and the home speeds of the profile within its maximum.
ASSUME ConfigAssumption ==
  /\ HasScheduler \in BOOLEAN
  /\ HasHomeSwitch \in BOOLEAN
  /\ HomeSide \in {-1, 1}
  /\ MinAngle \in Int /\ MaxAngle \in Int /\ MinAngle < MaxAngle
  /\ HomeOffset \in MinAngle .. MaxAngle
  /\ Backoff \in Nat \ {0}
  /\ BenchLimit \in Nat \ {0}
  /\ MicrostepChoices \subseteq Nat \ {0}
  /\ StartMicrosteps \in MicrostepChoices
  /\ Debounce \in Nat \ {0}
  /\ MotionTimeout \in Nat \ {0}
  /\ HomingTimeout \in Nat \ {0}

-----------------------------------------------------------------------------
(* Types *)

Purposes == {"none", "normal", "bench",
             "homing_fast", "homing_backoff", "homing_slow"}

LivePhases == {"validate_switch", "fast_approach", "backoff",
               "confirm_release", "slow_approach", "apply_offset"}

Phases == LivePhases \cup {"idle", "complete", "failed"}

TrustLosses == {"startup", "none", "emergency_stop", "driver_fault",
                "driver_disabled_during_motion", "motion_timeout",
                "suspected_missed_step", "configuration_changed",
                "homing_failed", "stopped"}

AxisFaults == {"none", "invalid_configuration", "motion_timeout",
               "driver_disabled", "emergency_stop", "driver_communication",
               "driver_critical", "homing_stuck_switch",
               "homing_switch_never_triggered",
               "homing_switch_failed_release", "homing_timeout",
               "unexpected_home_switch", "stopped"}

Refusals == {"invalid_argument", "not_homed", "limit_reached",
             "invalid_configuration", "driver_critical"}

\* last_driver_status: healthy, critical_fault() while connected, disconnected.
Readings == {"ok", "critical", "lost"}

AxisState ==
  [position : Int, target : Int, direction : {-1, 0, 1},
   moving : BOOLEAN, purpose : Purposes, activeId : Nat, lastCompleted : Nat,
   trusted : BOOLEAN, homed : BOOLEAN, lossReason : TrustLosses,
   enabled : BOOLEAN, fault : AxisFaults, phase : Phases,
   switchActive : BOOLEAN, candidate : BOOLEAN, switchAge : 0 .. Debounce,
   motionAge : 0 .. MotionTimeout, homingAge : 0 .. HomingTimeout,
   microsteps : MicrostepChoices,
   connected : BOOLEAN, outputs : BOOLEAN, status : Readings,
   armed : BOOLEAN, stepHigh : BOOLEAN, completed : Nat, schedFault : BOOLEAN]

Outcomes == [axis : AxisState, ok : BOOLEAN,
             fault : AxisFaults \cup Refusals]

\* How driver_.set_current_milliamps / set_microsteps ended: written and
\* verified, refused before any write, or a verified write that failed.
WriteResults == {"written", "refused", "lost"}

-----------------------------------------------------------------------------
(* Results *)

\* succeed()
Accept(a) ==
  [axis |-> [a EXCEPT !.fault = "none"], ok |-> TRUE, fault |-> "none"]

\* return MotionResult{false, fault} with no other effect
Refuse(a, fault) == [axis |-> a, ok |-> FALSE, fault |-> fault]

\* Bug: the timer stays armed.
StopPulsesStillArmed(a) ==
  [a EXCEPT !.stepHigh = FALSE, !.moving = FALSE, !.target = a.position,
            !.purpose = "none", !.motionAge = 0]

\* stop_pulse_generation().  (The age of a motion that is over is never
\* read, nor is that of a homing that is over: both are put back to 0.)
StopPulses(a) ==
  [a EXCEPT !.armed = FALSE, !.stepHigh = FALSE, !.moving = FALSE,
            !.target = a.position, !.purpose = "none", !.motionAge = 0]

\* Bug: HOMED survives the loss of trust.
UntrustStillHomed(a, reason) ==
  [a EXCEPT !.trusted = FALSE, !.lossReason = reason]

\* mark_position_untrusted()
Untrust(a, reason) ==
  [a EXCEPT !.trusted = FALSE, !.homed = FALSE, !.lossReason = reason]

\* Bug: the homing in progress is not marked failed.
FailStillHoming(a, fault, reason) ==
  [Untrust(StopPulses(a), reason) EXCEPT
     !.fault = fault, !.outputs = FALSE, !.enabled = FALSE]

\* fail(): every call in the source passes disable_driver = true
Fail(a, fault, reason) ==
  [Untrust(StopPulses(a), reason) EXCEPT
     !.fault = fault, !.phase = "failed", !.homingAge = 0,
     !.outputs = FALSE, !.enabled = FALSE]

Failed(a, fault, reason) ==
  [axis |-> Fail(a, fault, reason), ok |-> FALSE, fault |-> fault]

\* finish_motion()
Finish(a) == [StopPulses(a) EXCEPT !.lastCompleted = a.activeId]

-----------------------------------------------------------------------------
(* Conversions and the home switch *)

Steps(a, angle) == angle * a.microsteps

SoftLimits(a) == Steps(a, MinAngle) .. Steps(a, MaxAngle)

\* The fast approach covers the whole range and a tenth more.
HomingTravel(a) ==
  LET range == Steps(a, MaxAngle) - Steps(a, MinAngle)
  IN  range + range \div 10 + 1

\* update_home_switch(): a level counts once it has been stable for Debounce.
UpdateSwitch(a, raw) ==
  LET stable == raw = a.candidate /\ a.switchAge = Debounce
  IN  [a EXCEPT !.candidate = raw,
                !.switchAge = IF raw # a.candidate \/ stable THEN 0 ELSE @,
                !.switchActive = IF stable THEN raw ELSE @]

-----------------------------------------------------------------------------
(* Motion *)

\* The state once start_step_move has enabled the driver if it was not.
Powered(a) ==
  [a EXCEPT !.enabled = TRUE, !.outputs = IF a.enabled THEN @ ELSE TRUE]

\* schedule_pulse() refuses a second pulse, and the timer may fail to arm.
CanArm(a, armOk) == ~HasScheduler \/ (~a.armed /\ armOk)

\* A timer that fails to arm leaves the sticky scheduler fault behind.
ArmFailed(a) == IF a.armed THEN a ELSE [a EXCEPT !.schedFault = TRUE]

\* Bug: the new move keeps the id of the one before.
StartedWithOldId(a, target, purpose, id) ==
  [Powered(a) EXCEPT
     !.target = target, !.moving = TRUE, !.purpose = purpose,
     !.direction = IF target > a.position THEN 1 ELSE -1, !.motionAge = 0]

Started(a, target, purpose, id) ==
  [Powered(a) EXCEPT
     !.target = target, !.moving = TRUE, !.purpose = purpose,
     !.direction = IF target > a.position THEN 1 ELSE -1,
     !.motionAge = 0, !.activeId = id]

\* start_step_move().  driver_.enable() and set_direction() fail only on a
\* disconnected driver, which the check before them has refused.
StartStepMove(a, target, speedOk, purpose, id, requireTrust, armOk) ==
  IF a.moving \/ ~speedOk
    THEN Refuse(a, "invalid_argument")
  ELSE IF requireTrust /\ ~a.trusted
    THEN Refuse(a, "not_homed")
  ELSE IF purpose = "normal" /\ target \notin SoftLimits(a)
    THEN Refuse(a, "limit_reached")
  ELSE IF ~a.connected \/ a.status # "ok"
    THEN Failed(a, "driver_critical", "driver_fault")
  ELSE IF target = a.position
    THEN Accept([Powered(a) EXCEPT !.target = target, !.lastCompleted = id])
  ELSE IF ~CanArm(a, armOk)
    THEN Failed(ArmFailed(Started(a, target, purpose, id)),
                "driver_communication", "driver_fault")
  ELSE Accept([Started(a, target, purpose, id) EXCEPT
                 !.armed = HasScheduler, !.stepHigh = FALSE])

MoveAbsolute(a, angle, speedOk, id, armOk) ==
  StartStepMove(a, Steps(a, angle), speedOk, "normal", id, TRUE, armOk)

\* move_relative_degrees() asks for trust before anything else.
MoveRelative(a, delta, speedOk, id, armOk) ==
  IF ~a.trusted
    THEN Refuse(a, "not_homed")
    ELSE StartStepMove(a, a.position + Steps(a, delta), speedOk, "normal",
                       id, TRUE, armOk)

\* bench_move_steps(): neither trust nor the soft limits are consulted.
BenchMove(a, steps, id, armOk) ==
  IF steps = 0 \/ steps > BenchLimit \/ steps < -BenchLimit
    THEN Refuse(a, "invalid_argument")
    ELSE StartStepMove(a, a.position + steps, TRUE, "bench", id, FALSE, armOk)

StartHoming(a, raw, id, armOk) ==
  LET seen  == UpdateSwitch(a, raw)
      begun == [Untrust(seen, "homing_failed") EXCEPT
                  !.phase = "validate_switch"]
      approaching == [begun EXCEPT !.phase = "fast_approach", !.homingAge = 0]
  IN  IF ~HasHomeSwitch
        THEN Refuse(a, "invalid_configuration")
      ELSE IF a.moving
        THEN Refuse(a, "invalid_argument")
      ELSE IF seen.switchActive
        THEN Failed(begun, "homing_stuck_switch", "homing_failed")
      ELSE StartStepMove(approaching,
                         a.position + HomeSide * HomingTravel(a),
                         TRUE, "homing_fast", id, FALSE, armOk)

-----------------------------------------------------------------------------
(* Service *)

\* Bug: the motion timeout is not looked at.
ServiceEntryUntimed(a, raw) ==
  LET seen == UpdateSwitch(a, raw)
  IN  IF seen.moving /\ seen.purpose = "normal" /\ seen.switchActive
        THEN Fail(seen, "unexpected_home_switch", "suspected_missed_step")
      ELSE IF seen.schedFault
        THEN [Fail(seen, "driver_communication", "driver_fault") EXCEPT
                !.schedFault = FALSE]
      ELSE seen

\* Bug: an axis out of time is stopped, but keeps its trust.
ServiceEntryStillTrusted(a, raw) ==
  LET seen == UpdateSwitch(a, raw)
  IN  IF seen.moving /\ seen.motionAge = MotionTimeout
        THEN [StopPulses(seen) EXCEPT !.fault = "motion_timeout"]
      ELSE IF seen.moving /\ seen.purpose = "normal" /\ seen.switchActive
        THEN Fail(seen, "unexpected_home_switch", "suspected_missed_step")
      ELSE IF seen.schedFault
        THEN [Fail(seen, "driver_communication", "driver_fault") EXCEPT
                !.schedFault = FALSE]
      ELSE seen

\* service() up to the pulses: the switch, the motion timeout, the home
\* switch met during a normal move, the scheduler's sticky fault.
ServiceEntry(a, raw) ==
  LET seen == UpdateSwitch(a, raw)
  IN  IF seen.moving /\ seen.motionAge = MotionTimeout
        THEN Fail(seen, "motion_timeout", "motion_timeout")
      ELSE IF seen.moving /\ seen.purpose = "normal" /\ seen.switchActive
        THEN Fail(seen, "unexpected_home_switch", "suspected_missed_step")
      ELSE IF seen.schedFault
        THEN [Fail(seen, "driver_communication", "driver_fault") EXCEPT
                !.schedFault = FALSE]
      ELSE seen

\* Bug: the target is compared with the position before the pulse.
CreditPulseLate(a, armOk) ==
  LET moved == [a EXCEPT !.position = @ + a.direction]
  IN  IF a.position = a.target
        THEN Finish(moved)
      ELSE IF CanArm(moved, armOk)
        THEN [moved EXCEPT !.armed = HasScheduler, !.stepHigh = FALSE]
      ELSE Fail(ArmFailed(moved), "driver_communication", "driver_fault")

\* Bug: the next pulse is not armed.
CreditPulseUnarmed(a, armOk) ==
  LET moved == [a EXCEPT !.position = @ + a.direction]
  IN  IF moved.position = a.target THEN Finish(moved) ELSE moved

\* One pulse of the loop in service_step_generator(): count it, then finish
\* or arm the next one.
CreditPulse(a, armOk) ==
  LET moved == [a EXCEPT !.position = @ + a.direction]
  IN  IF moved.position = a.target
        THEN Finish(moved)
      ELSE IF CanArm(moved, armOk)
        THEN [moved EXCEPT !.armed = HasScheduler, !.stepHigh = FALSE]
      ELSE Fail(ArmFailed(moved), "driver_communication", "driver_fault")

\* The homing move after a switch event: backing off, or the slow approach.
HomingMove(a, phase, purpose, steps, armOk) ==
  StartStepMove([a EXCEPT !.phase = phase],
                a.position + HomeSide * steps,
                TRUE, purpose, a.activeId, FALSE, armOk).axis

\* The slow approach met the switch: the position becomes the home offset.
ApplyOffset(a) ==
  [StopPulses(a) EXCEPT
     !.position = Steps(a, HomeOffset), !.target = Steps(a, HomeOffset),
     !.trusted = TRUE, !.homed = TRUE, !.lossReason = "none",
     !.fault = "none", !.phase = "complete", !.homingAge = 0,
     !.lastCompleted = a.activeId]

\* Bug: homing has no timeout of its own.
ServiceHomingUntimed(a, armOk) ==
  IF a.phase = "fast_approach" /\ a.switchActive
    THEN HomingMove(StopPulses(a), "backoff", "homing_backoff",
                    -Steps(a, Backoff), armOk)
  ELSE IF a.phase = "backoff" /\ ~a.moving
    THEN HomingMove(a, "slow_approach", "homing_slow",
                    2 * Steps(a, Backoff), armOk)
  ELSE IF a.phase = "slow_approach" /\ a.switchActive
    THEN ApplyOffset(a)
  ELSE a

ServiceHoming(a, armOk) ==
  IF a.phase \notin LivePhases
    THEN a
  ELSE IF a.homingAge = HomingTimeout
    THEN Fail(a, IF a.phase = "fast_approach"
                   THEN "homing_switch_never_triggered"
                   ELSE "homing_timeout",
              "homing_failed")
  ELSE IF a.phase = "fast_approach" /\ a.switchActive
    THEN HomingMove(StopPulses(a), "backoff", "homing_backoff",
                    -Steps(a, Backoff), armOk)
  ELSE IF a.phase = "backoff" /\ ~a.moving
    THEN IF a.switchActive
           THEN Fail(a, "homing_switch_failed_release", "homing_failed")
           ELSE HomingMove(a, "slow_approach", "homing_slow",
                           2 * Steps(a, Backoff), armOk)
  ELSE IF a.phase = "slow_approach" /\ a.switchActive
    THEN ApplyOffset(a)
  ELSE a

\* The pulses completed since the last service(), counted one by one.
CreditPulses(a, armOk) ==
  LET counted[n \in 0 .. a.completed] ==
        IF n = 0
          THEN [a EXCEPT !.completed = 0]
        ELSE IF counted[n - 1].moving
          THEN CreditPulse(counted[n - 1], armOk)
        ELSE counted[n - 1]
  IN  counted[a.completed]

\* All of service() for a caller that sees nothing of the interrupt meanwhile.
Service(a, raw, armOk) ==
  LET checked == ServiceEntry(a, raw)
  IN  ServiceHoming(IF checked = UpdateSwitch(a, raw)
                      THEN CreditPulses(checked, armOk)
                      ELSE checked,
                    armOk)

\* service_diagnostics(): read_status() of a disconnected driver fails again;
\* a failed read disconnects, and both failures drop the EN output.
ServiceDiagnostics(a, reading) ==
  LET result == IF a.connected THEN reading ELSE "lost"
      read == [a EXCEPT !.status = result, !.connected = result # "lost",
                        !.outputs = @ /\ result = "ok"]
  IN  IF a.moving
        THEN a
      ELSE IF result = "ok"
        THEN read
      ELSE Fail(read, IF result = "critical" THEN "driver_critical"
                                             ELSE "driver_communication",
                "driver_fault")

-----------------------------------------------------------------------------
(* Stopping, enabling and configuring *)

\* Bug: the position stays trusted.
StopStillTrusted(a) == [StopPulses(a) EXCEPT !.fault = "stopped"]

\* Bug: the interrupted command is reported complete.
StopAsFinish(a) ==
  [IF a.moving THEN Untrust(Finish(a), "stopped") ELSE a EXCEPT
     !.fault = "stopped"]

\* stop(): every caller invalidates.  The homing phase is left as it is.
Stop(a) ==
  LET halted == StopPulses(a)
  IN  [IF a.moving THEN Untrust(halted, "stopped") ELSE halted EXCEPT
         !.fault = "stopped"]

EmergencyStop(a) == Fail(a, "emergency_stop", "emergency_stop")

\* set_enabled(false): the homing phase is left as it is here too.
Disable(a) ==
  [Untrust(StopPulses(a), "driver_disabled_during_motion") EXCEPT
     !.outputs = FALSE, !.enabled = FALSE, !.fault = "driver_disabled"]

SetEnabled(a, enabled) ==
  IF ~enabled
    THEN [axis |-> Disable(a), ok |-> TRUE, fault |-> "driver_disabled"]
  ELSE IF a.status # "ok" \/ ~a.connected
    THEN Failed(a, "driver_critical", "driver_fault")
  ELSE Accept([a EXCEPT !.enabled = TRUE, !.outputs = TRUE])

ClearFault(a) ==
  IF a.status # "ok"
    THEN Refuse(a, "driver_critical")
    ELSE Accept([a EXCEPT !.phase = IF @ = "failed" THEN "idle" ELSE @])

\* The verified writes of SET_CURRENT and SET_MICROSTEPS: a failed one
\* disconnects the driver and drops EN behind the axis's back.
DriverWrite(a, result) ==
  IF a.connected /\ result = "lost"
    THEN [a EXCEPT !.connected = FALSE, !.outputs = FALSE]
    ELSE a

WriteAccepted(a, result) == ~a.moving /\ a.connected /\ result = "written"

\* Bug: the registers of a moving driver are written.
SetCurrentWhileMoving(a, result) ==
  IF a.connected /\ result = "written"
    THEN Accept(a)
    ELSE Refuse(DriverWrite(a, result), "invalid_argument")

SetCurrent(a, result) ==
  IF WriteAccepted(a, result)
    THEN Accept(a)
    ELSE Refuse(IF a.moving THEN a ELSE DriverWrite(a, result),
                "invalid_argument")

SetMicrosteps(a, microsteps, result) ==
  IF WriteAccepted(a, result)
    THEN Accept(IF microsteps = a.microsteps
                  THEN a
                  ELSE [Untrust(a, "configuration_changed") EXCEPT
                          !.microsteps = microsteps])
    ELSE Refuse(IF a.moving THEN a ELSE DriverWrite(a, result),
                "invalid_argument")

-----------------------------------------------------------------------------
(* Time, and the power-on state *)

\* Bug: one past the duration.
OlderByOne(age, limit) == IF age <= limit THEN age + 1 ELSE age

Older(age, limit) == IF age < limit THEN age + 1 ELSE age

Age(a) ==
  [a EXCEPT !.switchAge = IF a.candidate # a.switchActive
                            THEN Older(@, Debounce) ELSE @,
            !.motionAge = IF a.moving THEN Older(@, MotionTimeout) ELSE @,
            !.homingAge = IF a.phase \in LivePhases
                            THEN Older(@, HomingTimeout) ELSE @]

\* initialize(): an axis that is ready, one whose driver never answered, one
\* whose configuration was not taken, one that reads a critical status; and an
\* axis that was never initialized, the GPIO map being refused before.
Startups == {"ready", "no_driver", "misconfigured", "critical", "unvisited"}

StartupFault(startup) ==
  CASE startup \in {"ready", "unvisited"} -> "none"
    [] startup = "no_driver"              -> "driver_communication"
    [] startup = "misconfigured"          -> "invalid_configuration"
    [] startup = "critical"               -> "driver_critical"

StartupAxis(startup, raw) ==
  [position |-> 0, target |-> 0, direction |-> 0,
   moving |-> FALSE, purpose |-> "none", activeId |-> 0, lastCompleted |-> 0,
   trusted |-> FALSE, homed |-> FALSE, lossReason |-> "startup",
   enabled |-> FALSE, fault |-> StartupFault(startup), phase |-> "idle",
   switchActive |-> raw, candidate |-> raw, switchAge |-> 0,
   motionAge |-> 0, homingAge |-> 0, microsteps |-> StartMicrosteps,
   connected |-> startup \in {"ready", "critical"}, outputs |-> FALSE,
   status |-> CASE startup = "ready" -> "ok"
                [] startup = "critical" -> "critical"
                [] OTHER -> "lost",
   armed |-> FALSE, stepHigh |-> FALSE, completed |-> 0, schedFault |-> FALSE]

=============================================================================
