------------------------- MODULE Operations_proofs -------------------------
(***************************************************************************)
(* Lemmas about the operations of one axis, and of the controller of both, *)
(* for every configuration ConfigAssumption admits.                        *)
(*                                                                         *)
(* Each operator of AxisOperations gets a lemma: from a record of          *)
(* AxisState that is Sane it makes another such record, and where that     *)
(* matters it leaves an axis at rest at rest (Resting).  AxisController's  *)
(* invariant is built on these.                                            *)
(*                                                                         *)
(* The second part says what a caller sees of one operation, the ground of *)
(* the proofs about PhysicalMotionController: an order is begun, done at   *)
(* once, refused without effect or ends with the axis switched off         *)
(* (Obeys); service() leaves the order alone, goes on homing or ends the   *)
(* order (Serves).  service() counts any number of pulses in one step:     *)
(* CreditPulsesKeeps carries what counting one pulse keeps over to all of  *)
(* them.                                                                   *)
(*                                                                         *)
(* The third part is about what the handlers for both axes are made of.    *)
(* The last one follows only the ids of an axis, for the tasks, where the  *)
(* emergency input's interrupt falls between any two operations: none      *)
(* begins an order it is not given (Onward), and an order that is accepted *)
(* is being carried out or has been (TakesUp).                             *)
(*                                                                         *)
(* Typing facts of records updated field by field are given to Zenon,      *)
(* facts about the fields themselves to SMT.                               *)
(***************************************************************************)
EXTENDS PhysicalOperations, WellFoundedInduction, TLAPS

-----------------------------------------------------------------------------
(* The parts of the inductive invariant that speak of the record alone *)

\* TrustIsExplained
TrustPart(a) ==
  /\ a.trusted <=> a.homed
  /\ a.trusted <=> a.lossReason = "none"
  /\ a.trusted => a.phase = "complete"

\* MovingIsPowered and EnabledUnlessLost, which needs it when a move starts
PowerPart(a) ==
  /\ a.moving => a.enabled /\ a.outputs /\ a.connected /\ a.status = "ok"
  /\ a.enabled /\ a.connected => a.outputs

\* PulsesOnlyWhileMoving
PulsePart(a) == a.armed \/ a.stepHigh => a.moving

\* TargetAhead
AheadPart(a) == a.moving => (a.target - a.position) * a.direction > 0

\* MoveIsDriven, with c pulses consumed and not yet counted
DrivenPart(a, c) ==
  HasScheduler /\ a.moving =>
    a.armed \/ a.completed > 0 \/ c > 0 \/ a.schedFault

Sane(a, c) ==
  /\ TrustPart(a)
  /\ PowerPart(a)
  /\ PulsePart(a)
  /\ AheadPart(a)
  /\ DrivenPart(a, c)

\* What an emergency stop leaves: no homing phase is left that could move on.
Resting(a) ==
  ~a.moving /\ ~a.outputs /\ ~a.trusted /\ a.phase \notin LivePhases

-----------------------------------------------------------------------------
(* Results, and the steps commands are made of *)

\* Every age can be put back to 0.
LEMMA Zeros ==
  0 \in 0 .. Debounce /\ 0 \in 0 .. MotionTimeout /\ 0 \in 0 .. HomingTimeout
BY ConfigAssumption

\* stop_pulse_generation() keeps the record well typed.
LEMMA StopPulsesType ==
  ASSUME NEW a \in AxisState
  PROVE  StopPulses(a) \in AxisState
<1>1. a.position \in Int BY DEF AxisState
<1>2. "none" \in Purposes BY DEF Purposes
<1> QED BY <1>1, <1>2, Zeros, ZenonT(60) DEF AxisState, StopPulses

\* mark_position_untrusted() keeps the record well typed.
LEMMA UntrustType ==
  ASSUME NEW a \in AxisState, NEW reason \in TrustLosses
  PROVE  Untrust(a, reason) \in AxisState
BY ZenonT(60) DEF AxisState, Untrust

\* fail() keeps the record well typed.
LEMMA FailType ==
  ASSUME NEW a \in AxisState, NEW fault \in AxisFaults,
      NEW reason \in TrustLosses
  PROVE  Fail(a, fault, reason) \in AxisState
<1> DEFINE b == Untrust(StopPulses(a), reason)
<1>1. b \in AxisState BY StopPulsesType, UntrustType
<1>2. "failed" \in Phases BY DEF Phases
<1> HIDE DEF b
<1>3. [b EXCEPT !.fault = fault, !.phase = "failed", !.homingAge = 0,
                !.outputs = FALSE, !.enabled = FALSE] \in AxisState
  BY <1>1, <1>2, Zeros, ZenonT(60) DEF AxisState
<1> QED BY <1>3 DEF Fail, b

\* fail() makes any record sane, and the axis rests after it.
LEMMA FailSane ==
  ASSUME NEW a \in AxisState, NEW fault \in AxisFaults,
         NEW reason \in TrustLosses \ {"none"}, NEW c \in Nat
  PROVE  /\ Sane(Fail(a, fault, reason), c)
         /\ Resting(Fail(a, fault, reason))
<1> DEFINE b == Fail(a, fault, reason)
<1>1. /\ ~b.moving /\ ~b.armed /\ ~b.stepHigh
      /\ ~b.trusted /\ ~b.homed /\ b.lossReason = reason
      /\ ~b.outputs /\ ~b.enabled /\ b.phase = "failed"
  BY DEF Fail, Untrust, StopPulses, AxisState
<1> HIDE DEF b
<1> QED BY <1>1 DEF Sane, TrustPart, PowerPart, PulsePart, AheadPart,
    DrivenPart, Resting, LivePhases, b

\* The same of an operation that ends in fail().
LEMMA FailedSane ==
  ASSUME NEW a \in AxisState, NEW fault \in AxisFaults,
         NEW reason \in TrustLosses \ {"none"}, NEW c \in Nat
  PROVE  /\ Failed(a, fault, reason).axis \in AxisState
         /\ Sane(Failed(a, fault, reason).axis, c)
         /\ Resting(Failed(a, fault, reason).axis)
BY FailType, FailSane DEF Failed

\* succeed() only clears the fault.
LEMMA AcceptSane ==
  ASSUME NEW a \in AxisState, NEW c \in Nat, Sane(a, c)
  PROVE  /\ Accept(a).axis \in AxisState
         /\ Sane(Accept(a).axis, c)
         /\ Accept(a).ok
         /\ Resting(a) => Resting(Accept(a).axis)
<1> DEFINE b == [a EXCEPT !.fault = "none"]
<1>1. "none" \in AxisFaults BY DEF AxisFaults
<1>2. b \in AxisState BY <1>1, ZenonT(60) DEF AxisState
<1>3. Sane(b, c)
  BY DEF Sane, TrustPart, PowerPart, PulsePart, AheadPart, DrivenPart,
      AxisState
<1>4. Resting(a) => Resting(b) BY DEF Resting, AxisState
<1> QED BY <1>2, <1>3, <1>4 DEF Accept

\* stop_pulse_generation() needs neither a coherent timer nor a target
\* ahead to leave a sane record.
LEMMA StopPulsesSane ==
  ASSUME NEW a \in AxisState, NEW c \in Nat, TrustPart(a), PowerPart(a)
  PROVE  Sane(StopPulses(a), c)
BY DEF StopPulses, Sane, TrustPart, PowerPart, PulsePart, AheadPart,
    DrivenPart, AxisState

\* Debouncing the home switch keeps the record well typed.
LEMMA UpdateSwitchType ==
  ASSUME NEW a \in AxisState, NEW raw \in BOOLEAN
  PROVE  UpdateSwitch(a, raw) \in AxisState
<1> DEFINE stable == raw = a.candidate /\ a.switchAge = Debounce
           age == IF raw # a.candidate \/ stable THEN 0 ELSE a.switchAge
           active == IF stable THEN raw ELSE a.switchActive
           b == [a EXCEPT !.candidate = raw, !.switchAge = age,
               !.switchActive = active]
<1>1. age \in 0 .. Debounce BY Zeros DEF AxisState
<1>2. active \in BOOLEAN BY DEF AxisState
<1>3. UpdateSwitch(a, raw) = b BY ZenonT(60) DEF UpdateSwitch
<1> HIDE DEF stable, age, active
<1>4. b \in AxisState BY <1>1, <1>2, ZenonT(60) DEF AxisState
<1> QED BY <1>3, <1>4

\* Debouncing the home switch disturbs nothing else.
LEMMA UpdateSwitchSane ==
  ASSUME NEW a \in AxisState, NEW raw \in BOOLEAN, NEW c \in Nat, Sane(a, c)
  PROVE  /\ UpdateSwitch(a, raw) \in AxisState
         /\ Sane(UpdateSwitch(a, raw), c)
         /\ Resting(a) => Resting(UpdateSwitch(a, raw))
<1>1. UpdateSwitch(a, raw) \in AxisState BY UpdateSwitchType
<1>2. Sane(UpdateSwitch(a, raw), c)
  BY DEF UpdateSwitch, Sane, TrustPart, PowerPart, PulsePart, AheadPart,
      DrivenPart, AxisState
<1>3. Resting(a) => Resting(UpdateSwitch(a, raw))
  BY DEF UpdateSwitch, Resting, AxisState
<1> QED BY <1>1, <1>2, <1>3

\* Enabling the driver keeps the record well typed.
LEMMA PoweredType ==
  ASSUME NEW a \in AxisState
  PROVE  Powered(a) \in AxisState
<1> DEFINE out == IF a.enabled THEN a.outputs ELSE TRUE
<1>1. out \in BOOLEAN BY DEF AxisState
<1>2. Powered(a) = [a EXCEPT !.enabled = TRUE, !.outputs = out] BY ZenonT(60)
    DEF Powered
<1> HIDE DEF out
<1> QED BY <1>1, <1>2, ZenonT(60) DEF AxisState

\* Where the driver check of start_step_move() lets a move through, the axis
\* ends up powered: either it is enabled now, or ENABLED was set and then EN
\* is on, because the driver still answers.
LEMMA PoweredSane ==
  ASSUME NEW a \in AxisState, NEW c \in Nat, Sane(a, c),
         a.connected, a.status = "ok"
  PROVE  Sane(Powered(a), c) /\ Powered(a).outputs
BY DEF Powered, Sane, TrustPart, PowerPart, PulsePart, AheadPart, DrivenPart,
    AxisState

\* The move start_step_move() sets up is well typed.
LEMMA StartedType ==
  ASSUME NEW a \in AxisState, NEW target \in Int, NEW purpose \in Purposes,
         NEW id \in Nat
  PROVE  Started(a, target, purpose, id) \in AxisState
<1> DEFINE b == Powered(a)
           dir == IF target > a.position THEN 1 ELSE -1
<1>1. b \in AxisState BY PoweredType
<1>2. dir \in {-1, 0, 1} BY DEF AxisState
<1>3. Started(a, target, purpose, id) =
        [b EXCEPT !.target = target, !.moving = TRUE, !.purpose = purpose,
                  !.direction = dir, !.motionAge = 0, !.activeId = id]
  BY ZenonT(60) DEF Started
<1> HIDE DEF b, dir
<1> QED BY <1>1, <1>2, <1>3, Zeros, ZenonT(60) DEF AxisState

\* A timer that fails to arm keeps the record well typed.
LEMMA ArmFailedType ==
  ASSUME NEW a \in AxisState
  PROVE  ArmFailed(a) \in AxisState
<1>1. [a EXCEPT !.schedFault = TRUE] \in AxisState BY ZenonT(60) DEF AxisState
<1> QED BY <1>1, ZenonT(60) DEF ArmFailed

\* start_step_move() keeps the record sane.  Refused, it leaves an axis at
\* rest at rest; a homing or bench move of an axis that is not moving is
\* refused only by fail(), after which the axis rests.
LEMMA StartStepMoveSane ==
  ASSUME NEW a \in AxisState, NEW target \in Int, NEW speedOk \in BOOLEAN,
         NEW purpose \in Purposes, NEW id \in Nat,
             NEW requireTrust \in BOOLEAN,
         NEW armOk \in BOOLEAN, NEW c \in Nat, Sane(a, c)
  PROVE  LET out == StartStepMove(a, target, speedOk, purpose, id,
      requireTrust, armOk)
         IN  /\ out.axis \in AxisState
             /\ Sane(out.axis, c)
             /\ Resting(a) /\ ~out.ok => Resting(out.axis)
             /\ ~a.moving /\ speedOk /\ ~requireTrust /\ purpose # "normal" /\ ~out.ok
                  => Resting(out.axis)
<1> DEFINE out == StartStepMove(a, target, speedOk, purpose, id, requireTrust,
    armOk)
           started == Started(a, target, purpose, id)
           armed == [started EXCEPT !.armed = HasScheduler, !.stepHigh = FALSE]
           there == [Powered(a) EXCEPT !.target = target, !.lastCompleted = id]
<1> HIDE DEF started, armed, there
<1> SUFFICES /\ out.axis \in AxisState
             /\ Sane(out.axis, c)
             /\ Resting(a) /\ ~out.ok => Resting(out.axis)
             /\ ~a.moving /\ speedOk /\ ~requireTrust /\ purpose # "normal" /\ ~out.ok
                  => Resting(out.axis)
  OBVIOUS
<1> USE DEF AxisFaults, TrustLosses
<1>1. CASE a.moving \/ ~speedOk
  BY <1>1 DEF StartStepMove, Refuse
<1>2. CASE ~(a.moving \/ ~speedOk) /\ requireTrust /\ ~a.trusted
  BY <1>2 DEF StartStepMove, Refuse
<1>3. CASE /\ ~(a.moving \/ ~speedOk) /\ ~(requireTrust /\ ~a.trusted)
           /\ purpose = "normal" /\ target \notin SoftLimits(a)
  BY <1>3 DEF StartStepMove, Refuse
<1> DEFINE passed == /\ ~(a.moving \/ ~speedOk) /\ ~(requireTrust /\ ~a.trusted)
                     /\ ~(purpose = "normal" /\ target \notin SoftLimits(a))
<1>4. CASE passed /\ (~a.connected \/ a.status # "ok")
  <2>1. out = Failed(a, "driver_critical", "driver_fault")
    BY <1>4 DEF StartStepMove
  <2> QED BY <2>1, FailedSane
<1>5. CASE passed /\ a.connected /\ a.status = "ok" /\ target = a.position
  <2>1. out = Accept(there)
    BY <1>5, ZenonT(60) DEF StartStepMove, there
  <2> DEFINE b == Powered(a)
  <2>2. b \in AxisState /\ Sane(b, c) BY <1>5, PoweredType, PoweredSane
  <2>3. b.moving = a.moving BY DEF Powered, AxisState
  <2>4. there = [b EXCEPT !.target = target, !.lastCompleted = id] BY DEF there
  <2> HIDE DEF b
  <2>5. there \in AxisState BY <2>2, <2>4, ZenonT(60) DEF AxisState
  <2>6. Sane(there, c)
    BY <1>5, <2>2, <2>3, <2>4 DEF Sane, TrustPart, PowerPart, PulsePart,
        AheadPart, DrivenPart, AxisState
  <2> QED BY <2>1, <2>5, <2>6, AcceptSane
<1>6. CASE passed /\ a.connected /\ a.status = "ok" /\ target # a.position /\ ~CanArm(started, armOk)
  <2>0. CanArm(started, armOk) = CanArm(a, armOk)
    BY DEF started, CanArm, Started, Powered, AxisState
  <2>1. out = Failed(ArmFailed(started), "driver_communication",
      "driver_fault")
    BY <1>6, <2>0, ZenonT(60) DEF StartStepMove, started
  <2>2. ArmFailed(started) \in AxisState BY StartedType, ArmFailedType
      DEF started
  <2> QED BY <2>1, <2>2, FailedSane
<1>7. CASE passed /\ a.connected /\ a.status = "ok" /\ target # a.position /\ CanArm(started, armOk)
  <2>0. CanArm(started, armOk) = CanArm(a, armOk)
    BY DEF started, CanArm, Started, Powered, AxisState
  <2>1. out = Accept(armed)
    BY <1>7, <2>0, ZenonT(60) DEF StartStepMove, started, armed
  <2>2. started \in AxisState BY StartedType DEF started
  <2>5. armed \in AxisState BY <2>2, ConfigAssumption, ZenonT(60) DEF armed,
      AxisState
  <2>3. Powered(a) \in AxisState /\ Sane(Powered(a), c) /\ Powered(a).outputs
    BY <1>7, PoweredSane, PoweredType
  <2>4. Sane(armed, c)
    <3>1. /\ armed.moving /\ armed.enabled /\ armed.outputs /\ armed.connected
          /\ armed.status = "ok" /\ armed.armed = HasScheduler
          /\ armed.trusted = a.trusted /\ armed.homed = a.homed
          /\ armed.lossReason = a.lossReason /\ armed.phase = a.phase
          /\ armed.target = target /\ armed.position = a.position
          /\ armed.direction = IF target > a.position THEN 1 ELSE -1
      BY <1>7, <2>3 DEF armed, started, Started, Powered, AxisState
    <3>2. a.position \in Int BY DEF AxisState
    <3> QED BY <3>1, <3>2, <1>7 DEF Sane, TrustPart, PowerPart, PulsePart,
        AheadPart, DrivenPart
  <2> QED BY <2>1, <2>4, <2>5, AcceptSane
<1> QED BY <1>1, <1>2, <1>3, <1>4, <1>5, <1>6, <1>7

-----------------------------------------------------------------------------
(* Commands *)

\* degrees_to_steps() gives an integer.
LEMMA StepsType ==
  ASSUME NEW a \in AxisState, NEW angle \in Int
  PROVE  Steps(a, angle) \in Int
<1>1. a.microsteps \in MicrostepChoices BY DEF AxisState
<1>2. MicrostepChoices \subseteq Nat BY ConfigAssumption
<1>3. a.microsteps \in Nat BY <1>1, <1>2, ZenonT(60)
<1>4. a.microsteps \in Int BY <1>3, SMT
<1> QED BY <1>4 DEF Steps

\* The travel of the fast approach is an integer.
LEMMA HomingTravelType ==
  ASSUME NEW a \in AxisState
  PROVE  HomingTravel(a) \in Int
<1>1. Steps(a, MaxAngle) \in Int /\ Steps(a, MinAngle) \in Int
  BY StepsType, ConfigAssumption
<1> HIDE DEF Steps
<1> QED BY <1>1 DEF HomingTravel

\* The fast approach has some way to go.
LEMMA HomingTravelPositive ==
  ASSUME NEW a \in AxisState PROVE HomingTravel(a) \in Nat \ {0}
<1> DEFINE range == Steps(a, MaxAngle) - Steps(a, MinAngle)
<1>1. Steps(a, MaxAngle) \in Int /\ Steps(a, MinAngle) \in Int
  BY ConfigAssumption, StepsType
<1>2. range >= 0
  <2>1. a.microsteps \in Nat /\ MaxAngle \in Int /\ MinAngle \in Int
        /\ MinAngle < MaxAngle
    BY ConfigAssumption DEF AxisState
  <2>2. \A m \in Nat, x, y \in Int : x < y => x * m <= y * m
    OBVIOUS
  <2>3. MinAngle * a.microsteps <= MaxAngle * a.microsteps
    BY <2>1, <2>2
  <2> QED BY <1>1, <2>3 DEF Steps
<1>3. range \in Nat
  BY <1>1, <1>2
<1> HIDE DEF range
<1>4. range \div 10 \in Nat
  BY <1>3
<1>5. HomingTravel(a) = range + range \div 10 + 1
  BY DEF HomingTravel, range
<1> QED BY <1>3, <1>4, <1>5

\* Debouncing numbers nothing.
LEMMA UpdateSwitchNumbers ==
  ASSUME NEW a \in AxisState, NEW raw \in BOOLEAN
  PROVE  LET seen == UpdateSwitch(a, raw)
         IN  /\ seen.lastCompleted = a.lastCompleted
             /\ seen.activeId = a.activeId /\ seen.moving = a.moving
             /\ seen.target = a.target /\ seen.position = a.position
             /\ seen.phase = a.phase
BY DEF UpdateSwitch, AxisState

\* MOVE, MOVE_REL and MOTOR STEP keep the record sane.
LEMMA MovesSane ==
  ASSUME NEW a \in AxisState, NEW c \in Nat, Sane(a, c),
         NEW angle \in Int, NEW speedOk \in BOOLEAN, NEW id \in Nat,
         NEW armOk \in BOOLEAN,
         NEW out \in {MoveAbsolute(a, angle, speedOk, id, armOk),
                      MoveRelative(a, angle, speedOk, id, armOk),
                      BenchMove(a, angle, id, armOk)}
  PROVE  /\ out.axis \in AxisState
         /\ Sane(out.axis, c)
         /\ Resting(a) /\ ~out.ok => Resting(out.axis)
<1>1. a.position \in Int /\ Steps(a, angle) \in Int
  BY StepsType DEF AxisState
<1>2. "normal" \in Purposes /\ "bench" \in Purposes BY DEF Purposes
<1>3. CASE out = MoveAbsolute(a, angle, speedOk, id, armOk)
  BY <1>1, <1>2, <1>3, StartStepMoveSane DEF MoveAbsolute
<1>4. CASE out = MoveRelative(a, angle, speedOk, id, armOk)
  <2>1. a.position + Steps(a, angle) \in Int BY <1>1
  <2>2. CASE ~a.trusted BY <1>4, <2>2 DEF MoveRelative, Refuse
  <2>3. CASE a.trusted
    BY <1>2, <1>4, <2>1, <2>3, StartStepMoveSane DEF MoveRelative
  <2> QED BY <2>2, <2>3
<1>5. CASE out = BenchMove(a, angle, id, armOk)
  <2>1. a.position + angle \in Int BY <1>1
  <2>2. out = Refuse(a, "invalid_argument")
        \/ out = StartStepMove(a, a.position + angle, TRUE, "bench", id,
            FALSE, armOk)
    BY <1>5 DEF BenchMove
  <2>3. CASE out = Refuse(a, "invalid_argument") BY <2>3 DEF Refuse
  <2>4. CASE out = StartStepMove(a, a.position + angle, TRUE, "bench", id,
      FALSE, armOk)
    BY <1>2, <2>1, <2>4, StartStepMoveSane
  <2> QED BY <2>2, <2>3, <2>4
<1> QED BY <1>3, <1>4, <1>5

\* start_homing() keeps the record sane.
LEMMA StartHomingSane ==
  ASSUME NEW a \in AxisState, NEW c \in Nat, Sane(a, c),
         NEW raw \in BOOLEAN, NEW id \in Nat, NEW armOk \in BOOLEAN
  PROVE  LET out == StartHoming(a, raw, id, armOk)
         IN  /\ out.axis \in AxisState
             /\ Sane(out.axis, c)
             /\ Resting(a) /\ ~out.ok => Resting(out.axis)
<1> DEFINE out == StartHoming(a, raw, id, armOk)
           seen == UpdateSwitch(a, raw)
           begun == [Untrust(seen,
               "homing_failed") EXCEPT !.phase = "validate_switch"]
           approaching == [begun EXCEPT !.phase = "fast_approach",
               !.homingAge = 0]
           far == a.position + HomeSide * HomingTravel(a)
<1> SUFFICES /\ out.axis \in AxisState
             /\ Sane(out.axis, c)
             /\ Resting(a) /\ ~out.ok => Resting(out.axis)
  OBVIOUS
<1>1. seen \in AxisState /\ Sane(seen, c) BY UpdateSwitchSane
<1> HIDE DEF seen
<1>2. Untrust(seen, "homing_failed") \in AxisState
  BY <1>1, UntrustType DEF TrustLosses
<1>3. "validate_switch" \in Phases /\ "fast_approach" \in Phases
  BY DEF Phases, LivePhases
<1>4. begun \in AxisState BY <1>2, <1>3, ZenonT(60) DEF AxisState
<1>5. approaching \in AxisState
  <2> HIDE DEF begun
  <2> QED BY <1>3, <1>4, Zeros, ZenonT(60) DEF AxisState
<1>6. Sane(approaching, c) /\ ~approaching.trusted
  BY <1>1 DEF Untrust, Sane, TrustPart, PowerPart, PulsePart, AheadPart,
      DrivenPart, AxisState
<1>7. far \in Int
  <2>1. a.position \in Int BY DEF AxisState
  <2>2. HomeSide * HomingTravel(a) \in Int BY HomingTravelType,
      ConfigAssumption
  <2> QED BY <2>1, <2>2
<1>8. ~a.moving => ~approaching.moving
  BY <1>1 DEF seen, UpdateSwitch, Untrust, AxisState
<1>9. \/ out = Refuse(a, "invalid_configuration")
      \/ out = Refuse(a, "invalid_argument")
      \/ out = Failed(begun, "homing_stuck_switch", "homing_failed")
      \/ ~a.moving /\ out = StartStepMove(approaching, far, TRUE,
          "homing_fast", id, FALSE, armOk)
  BY ZenonT(60) DEF StartHoming, seen
<1> HIDE DEF out, begun, approaching, far
<1>10. CASE out = Failed(begun, "homing_stuck_switch", "homing_failed")
  BY <1>4, <1>10, FailedSane DEF AxisFaults, TrustLosses
<1>11. CASE ~a.moving /\ out = StartStepMove(approaching, far, TRUE,
    "homing_fast", id, FALSE, armOk)
  BY <1>5, <1>6, <1>7, <1>8, <1>11, StartStepMoveSane DEF Purposes
<1>12. CASE out = Refuse(a, "invalid_configuration") \/ out = Refuse(a,
    "invalid_argument")
  BY <1>12 DEF Refuse
<1> QED BY <1>9, <1>10, <1>11, <1>12

\* stop() keeps the record sane (it may leave a homing phase behind, so it
\* does not make the axis rest).
LEMMA StopSane ==
  ASSUME NEW a \in AxisState, NEW c \in Nat, Sane(a, c)
  PROVE  Stop(a) \in AxisState /\ Sane(Stop(a), c)
<1> DEFINE halted == StopPulses(a)
           b == IF a.moving THEN Untrust(halted, "stopped") ELSE halted
<1>1. halted \in AxisState /\ Sane(halted, c)
  BY StopPulsesType, StopPulsesSane DEF Sane
<1>2. ~halted.moving /\ ~halted.armed /\ ~halted.stepHigh
  BY DEF StopPulses, AxisState
<1> HIDE DEF halted
<1>3. b \in AxisState BY <1>1, UntrustType DEF TrustLosses
<1>4. Sane(b, c)
  BY <1>1, <1>2 DEF Untrust, Sane, TrustPart, PowerPart, PulsePart, AheadPart,
      DrivenPart, AxisState
<1>5. Stop(a) = [b EXCEPT !.fault = "stopped"] BY ZenonT(60) DEF Stop, halted
<1> HIDE DEF b
<1>6. "stopped" \in AxisFaults BY DEF AxisFaults
<1>7. [b EXCEPT !.fault = "stopped"] \in AxisState BY <1>3, <1>6, ZenonT(60)
    DEF AxisState
<1>8. Sane([b EXCEPT !.fault = "stopped"], c)
  BY <1>3, <1>4 DEF Sane, TrustPart, PowerPart, PulsePart, AheadPart,
      DrivenPart, AxisState
<1> QED BY <1>5, <1>7, <1>8

\* set_enabled(false) makes any record sane.
LEMMA DisableSane ==
  ASSUME NEW a \in AxisState, NEW c \in Nat
  PROVE  Disable(a) \in AxisState /\ Sane(Disable(a), c)
<1> DEFINE b == Untrust(StopPulses(a), "driver_disabled_during_motion")
<1>1. b \in AxisState BY StopPulsesType, UntrustType DEF TrustLosses
<1>2. /\ ~b.moving /\ ~b.armed /\ ~b.stepHigh /\ ~b.trusted /\ ~b.homed
      /\ b.lossReason = "driver_disabled_during_motion"
  BY DEF Untrust, StopPulses, AxisState
<1>3. Disable(a) = [b EXCEPT !.outputs = FALSE, !.enabled = FALSE,
                             !.fault = "driver_disabled"]
  BY ZenonT(60) DEF Disable
<1> HIDE DEF b
<1>4. "driver_disabled" \in AxisFaults BY DEF AxisFaults
<1>5. Disable(a) \in AxisState BY <1>1, <1>3, <1>4, ZenonT(60) DEF AxisState
<1>6. Sane(Disable(a), c)
  BY <1>1, <1>2, <1>3 DEF Sane, TrustPart, PowerPart, PulsePart, AheadPart,
      DrivenPart, AxisState
<1> QED BY <1>5, <1>6

\* set_enabled() keeps the record sane.
LEMMA SetEnabledSane ==
  ASSUME NEW a \in AxisState, NEW c \in Nat, Sane(a, c),
      NEW enabled \in BOOLEAN
  PROVE  LET out == SetEnabled(a, enabled)
         IN  /\ out.axis \in AxisState
             /\ Sane(out.axis, c)
             /\ Resting(a) /\ ~out.ok => Resting(out.axis)
<1> DEFINE b == [a EXCEPT !.enabled = TRUE, !.outputs = TRUE]
<1>1. CASE ~enabled BY <1>1, DisableSane DEF SetEnabled
<1>2. CASE enabled /\ (a.status # "ok" \/ ~a.connected)
  BY <1>2, FailedSane DEF SetEnabled, AxisFaults, TrustLosses
<1>3. CASE enabled /\ a.status = "ok" /\ a.connected
  <2>1. b \in AxisState BY ZenonT(60) DEF AxisState
  <2>2. Sane(b, c)
    BY <1>3 DEF Sane, TrustPart, PowerPart, PulsePart, AheadPart, DrivenPart,
        AxisState
  <2>3. SetEnabled(a, enabled) = Accept(b) BY <1>3, ZenonT(60) DEF SetEnabled
  <2> QED BY <2>1, <2>2, <2>3, AcceptSane
<1> QED BY <1>1, <1>2, <1>3

\* clear_fault() keeps the record sane and starts nothing.
LEMMA ClearFaultSane ==
  ASSUME NEW a \in AxisState, NEW c \in Nat, Sane(a, c)
  PROVE  LET out == ClearFault(a)
         IN  /\ out.axis \in AxisState
             /\ Sane(out.axis, c)
             /\ Resting(a) => Resting(out.axis)
<1> DEFINE phase == IF a.phase = "failed" THEN "idle" ELSE a.phase
           b == [a EXCEPT !.phase = phase]
<1>1. CASE a.status # "ok" BY <1>1 DEF ClearFault, Refuse
<1>2. CASE a.status = "ok"
  <2>1. phase \in Phases BY DEF AxisState, Phases
  <2>2. ClearFault(a) = Accept(b) BY <1>2, ZenonT(60) DEF ClearFault
  <2>3. b \in AxisState
    <3> HIDE DEF phase
    <3> QED BY <2>1, ZenonT(60) DEF AxisState
  <2>4. Sane(b, c)
    BY DEF Sane, TrustPart, PowerPart, PulsePart, AheadPart, DrivenPart,
        AxisState
  <2>5. Resting(a) => Resting(b) BY DEF Resting, AxisState, LivePhases
  <2> QED BY <2>2, <2>3, <2>4, <2>5, AcceptSane
<1> QED BY <1>1, <1>2

\* A failed verified write to the driver of an axis at rest keeps the record
\* sane: EN drops, but the driver is disconnected with it.
LEMMA DriverWriteSane ==
  ASSUME NEW a \in AxisState, NEW c \in Nat, Sane(a, c), ~a.moving,
         NEW result \in WriteResults
  PROVE  LET b == DriverWrite(a, result)
         IN  /\ b \in AxisState
             /\ Sane(b, c)
             /\ Resting(a) => Resting(b)
<1> DEFINE b == [a EXCEPT !.connected = FALSE, !.outputs = FALSE]
<1>1. b \in AxisState BY ZenonT(60) DEF AxisState
<1>2. Sane(b, c)
  BY DEF Sane, TrustPart, PowerPart, PulsePart, AheadPart, DrivenPart,
      AxisState
<1>3. Resting(a) => Resting(b) BY DEF Resting, AxisState
<1>4. DriverWrite(a, result) \in {a, b} BY ZenonT(60) DEF DriverWrite
<1> QED BY <1>1, <1>2, <1>3, <1>4

\* set_current() keeps the record sane: it refuses a moving axis.
LEMMA SetCurrentSane ==
  ASSUME NEW a \in AxisState, NEW c \in Nat, Sane(a, c),
         NEW result \in WriteResults
  PROVE  LET out == SetCurrent(a, result)
         IN  /\ out.axis \in AxisState
             /\ Sane(out.axis, c)
             /\ Resting(a) => Resting(out.axis)
<1>1. CASE WriteAccepted(a, result) BY <1>1, AcceptSane DEF SetCurrent
<1>2. CASE ~WriteAccepted(a, result)
  BY <1>2, DriverWriteSane DEF SetCurrent, Refuse
<1> QED BY <1>1, <1>2

\* set_microsteps() keeps the record sane: it refuses a moving axis.
LEMMA SetMicrostepsSane ==
  ASSUME NEW a \in AxisState, NEW c \in Nat, Sane(a, c),
         NEW microsteps \in MicrostepChoices, NEW result \in WriteResults
  PROVE  LET out == SetMicrosteps(a, microsteps, result)
         IN  /\ out.axis \in AxisState
             /\ Sane(out.axis, c)
             /\ Resting(a) => Resting(out.axis)
<1> DEFINE u == Untrust(a, "configuration_changed")
           b == [u EXCEPT !.microsteps = microsteps]
<1>1. CASE WriteAccepted(a, result)
  <2>1. u \in AxisState BY UntrustType DEF TrustLosses
  <2>2. b \in AxisState
    <3> HIDE DEF u
    <3> QED BY <2>1, ZenonT(60) DEF AxisState
  <2>3. Sane(b, c)
    BY DEF Untrust, Sane, TrustPart, PowerPart, PulsePart, AheadPart,
        DrivenPart, AxisState
  <2>4. Resting(a) => Resting(b) BY DEF Untrust, Resting, AxisState
  <2>5. SetMicrosteps(a, microsteps, result) \in {Accept(a), Accept(b)}
    BY <1>1, ZenonT(60) DEF SetMicrosteps
  <2> QED BY <2>2, <2>3, <2>4, <2>5, AcceptSane
<1>2. CASE ~WriteAccepted(a, result)
  BY <1>2, DriverWriteSane DEF SetMicrosteps, Refuse
<1> QED BY <1>1, <1>2

-----------------------------------------------------------------------------
(* Service *)

\* The checks at the head of service() keep the record sane, and when they
\* all pass there is no scheduler fault.
LEMMA ServiceEntrySane ==
  ASSUME NEW a \in AxisState, NEW c \in Nat, Sane(a, c), NEW raw \in BOOLEAN
  PROVE  LET b == ServiceEntry(a, raw)
         IN  /\ b \in AxisState
             /\ Sane(b, c)
             /\ Resting(a) => Resting(b)
             /\ b = UpdateSwitch(a, raw) => ~a.schedFault
<1> DEFINE seen == UpdateSwitch(a, raw)
           b == ServiceEntry(a, raw)
           late == Fail(seen, "motion_timeout", "motion_timeout")
           met == Fail(seen, "unexpected_home_switch", "suspected_missed_step")
           f == Fail(seen, "driver_communication", "driver_fault")
           broken == [f EXCEPT !.schedFault = FALSE]
<1> SUFFICES /\ b \in AxisState
             /\ Sane(b, c)
             /\ Resting(a) => Resting(b)
             /\ b = seen => ~a.schedFault
  OBVIOUS
<1>1. seen \in AxisState /\ Sane(seen, c) /\ (Resting(a) => Resting(seen))
  BY UpdateSwitchSane
<1>2. seen.schedFault = a.schedFault BY DEF UpdateSwitch, AxisState
<1>3. \/ seen.moving /\ b = late
      \/ seen.moving /\ b = met
      \/ seen.schedFault /\ b = broken
      \/ ~seen.schedFault /\ b = seen
  BY ZenonT(60) DEF ServiceEntry
<1> HIDE DEF seen, b
<1>4. CASE seen.moving /\ (b = late \/ b = met)
  <2>1. b \in AxisState /\ Sane(b, c) /\ Resting(b)
    BY <1>1, <1>4, FailType, FailSane DEF AxisFaults, TrustLosses
  <2>2. b # seen BY <1>4, <2>1 DEF Resting
  <2> QED BY <2>1, <2>2
<1>5. CASE seen.schedFault /\ b = broken
  <2>1. f \in AxisState /\ Sane(f, c) /\ Resting(f)
    BY <1>1, FailType, FailSane DEF AxisFaults, TrustLosses
  <2>2. ~f.moving BY <2>1 DEF Resting
  <2> HIDE DEF f
  <2>3. broken \in AxisState BY <2>1, ZenonT(60) DEF AxisState
  <2>4. Sane(broken, c) /\ Resting(broken)
    BY <2>1, <2>2 DEF Resting, Sane, TrustPart, PowerPart, PulsePart,
        AheadPart, DrivenPart, AxisState
  <2>5. ~broken.schedFault BY <2>1 DEF AxisState
  <2> QED BY <1>5, <2>3, <2>4, <2>5
<1>6. CASE ~seen.schedFault /\ b = seen
  BY <1>1, <1>2, <1>6
<1> QED BY <1>3, <1>4, <1>5, <1>6

\* finish_motion() keeps the record sane.
LEMMA FinishSane ==
  ASSUME NEW a \in AxisState, NEW c \in Nat, TrustPart(a), PowerPart(a)
  PROVE  Finish(a) \in AxisState /\ Sane(Finish(a), c)
<1> DEFINE b == StopPulses(a)
<1>1. b \in AxisState /\ Sane(b, c) BY StopPulsesType, StopPulsesSane
<1>2. a.activeId \in Nat BY DEF AxisState
<1>3. Finish(a) = [b EXCEPT !.lastCompleted = a.activeId] BY ZenonT(60) DEF Finish
<1> HIDE DEF b
<1>4. Finish(a) \in AxisState BY <1>1, <1>2, <1>3, ZenonT(60) DEF AxisState
<1>5. Sane(Finish(a), c)
  BY <1>1, <1>3 DEF Sane, TrustPart, PowerPart, PulsePart, AheadPart,
      DrivenPart, AxisState
<1> QED BY <1>4, <1>5

\* Counting a pulse keeps the target ahead, and leaves the move driven or over.
LEMMA CreditPulseSane ==
  ASSUME NEW a \in AxisState, NEW c \in Nat, NEW d \in Nat, Sane(a, c),
         a.moving, NEW armOk \in BOOLEAN
  PROVE  CreditPulse(a, armOk) \in AxisState /\ Sane(CreditPulse(a, armOk), d)
<1> DEFINE p == a.position + a.direction
           moved == [a EXCEPT !.position = p]
           next == [moved EXCEPT !.armed = HasScheduler, !.stepHigh = FALSE]
           lost == Fail(ArmFailed(moved), "driver_communication",
               "driver_fault")
<1>1. a.position \in Int /\ a.target \in Int /\ a.direction \in {-1, 0, 1}
  BY DEF AxisState
<1>2. p \in Int BY <1>1
<1>3. moved \in AxisState
  <2> HIDE DEF p
  <2> QED BY <1>2, ZenonT(60) DEF AxisState
<1>4. /\ moved.position = p /\ moved.target = a.target
      /\ moved.direction = a.direction /\ moved.moving
      /\ TrustPart(moved) /\ PowerPart(moved)
  BY DEF Sane, TrustPart, PowerPart, AxisState
<1>5. \/ CreditPulse(a, armOk) = Finish(moved)
      \/ p # a.target /\ CreditPulse(a, armOk) = next
      \/ CreditPulse(a, armOk) = lost
  <2>1. moved.position = p /\ moved.target = a.target BY <1>4
  <2> QED BY <2>1 DEF CreditPulse
<1> HIDE DEF moved
<1>6. CASE CreditPulse(a, armOk) = Finish(moved)
  BY <1>3, <1>4, <1>6, FinishSane
<1>7. CASE p # a.target /\ CreditPulse(a, armOk) = next
  <2>1. next \in AxisState BY <1>3, ConfigAssumption, ZenonT(60) DEF AxisState
  <2>2. TrustPart(next) /\ PowerPart(next)
    BY <1>3, <1>4 DEF TrustPart, PowerPart, AxisState
  <2>3. /\ next.moving /\ next.armed = HasScheduler /\ ~next.stepHigh
        /\ next.position = p /\ next.target = a.target /\ next.direction = a.direction
    BY <1>3, <1>4 DEF AxisState
  <2>4. (a.target - a.position) * a.direction > 0 BY DEF Sane, AheadPart
  <2>5. (a.target - p) * a.direction > 0
    <3>1. CASE a.direction = 1 BY <1>1, <1>7, <2>4, <3>1
    <3>2. CASE a.direction = -1 BY <1>1, <1>7, <2>4, <3>2
    <3>3. a.direction # 0 BY <1>1, <2>4
    <3> QED BY <1>1, <3>1, <3>2, <3>3
  <2>6. AheadPart(next) /\ PulsePart(next) /\ DrivenPart(next, d)
    BY <2>3, <2>5 DEF AheadPart, PulsePart, DrivenPart
  <2> QED BY <1>7, <2>1, <2>2, <2>6 DEF Sane
<1>8. CASE CreditPulse(a, armOk) = lost
  <2>1. ArmFailed(moved) \in AxisState BY <1>3, ArmFailedType
  <2> QED BY <1>8, <2>1, FailType, FailSane DEF AxisFaults, TrustLosses
<1> QED BY <1>5, <1>6, <1>7, <1>8

\* The moves homing starts keep the record of an untrusted axis sane.
LEMMA HomingMoveSane ==
  ASSUME NEW a \in AxisState, NEW c \in Nat, Sane(a, c), ~a.trusted,
         NEW phase \in LivePhases, NEW purpose \in Purposes, NEW steps \in Int,
         NEW armOk \in BOOLEAN
  PROVE  /\ HomingMove(a, phase, purpose, steps, armOk) \in AxisState
         /\ Sane(HomingMove(a, phase, purpose, steps, armOk), c)
<1> DEFINE b == [a EXCEPT !.phase = phase]
           far == a.position + HomeSide * steps
<1>1. phase \in Phases BY DEF Phases
<1>2. b \in AxisState BY <1>1, ZenonT(60) DEF AxisState
<1>3. Sane(b, c)
  BY DEF Sane, TrustPart, PowerPart, PulsePart, AheadPart, DrivenPart,
      AxisState
<1>4. a.position \in Int /\ a.activeId \in Nat BY DEF AxisState
<1>5. far \in Int BY <1>4, ConfigAssumption
<1>6. HomingMove(a, phase, purpose, steps, armOk) =
        StartStepMove(b, far, TRUE, purpose, a.activeId, FALSE, armOk).axis
  BY ZenonT(60) DEF HomingMove
<1>7. a.activeId \in Nat BY <1>4
<1> HIDE DEF b, far
<1>8. LET out == StartStepMove(b, far, TRUE, purpose, a.activeId, FALSE, armOk)
      IN  out.axis \in AxisState /\ Sane(out.axis, c)
  BY <1>2, <1>3, <1>5, <1>7, StartStepMoveSane
<1> QED BY <1>6, <1>8

\* The end of homing gives trust, its explanation and phase together.
LEMMA ApplyOffsetSane ==
  ASSUME NEW a \in AxisState, NEW c \in Nat, Sane(a, c)
  PROVE  ApplyOffset(a) \in AxisState /\ Sane(ApplyOffset(a), c)
<1> DEFINE b == StopPulses(a)
           home == Steps(a, HomeOffset)
<1>1. b \in AxisState /\ Sane(b, c) BY StopPulsesType, StopPulsesSane DEF Sane
<1>2. ~b.moving /\ ~b.armed /\ ~b.stepHigh BY DEF StopPulses, AxisState
<1>3. HomeOffset \in Int BY ConfigAssumption
<1>4. home \in Int BY <1>3, StepsType
<1>5. a.activeId \in Nat BY DEF AxisState
<1>6. "none" \in TrustLosses /\ "none" \in AxisFaults /\ "complete" \in Phases
  BY DEF TrustLosses, AxisFaults, Phases
<1>7. ApplyOffset(a) =
        [b EXCEPT !.position = home, !.target = home,
                  !.trusted = TRUE, !.homed = TRUE, !.lossReason = "none",
                  !.fault = "none", !.phase = "complete", !.homingAge = 0,
                  !.lastCompleted = a.activeId]
  BY ZenonT(60) DEF ApplyOffset
<1> HIDE DEF b, home
<1>8. ApplyOffset(a) \in AxisState
  <2> DEFINE d == [b EXCEPT !.position = home, !.target = home,
                            !.trusted = TRUE, !.homed = TRUE,
                                !.lossReason = "none"]
  <2>1. d \in AxisState BY <1>1, <1>4, <1>6, ZenonT(60) DEF AxisState
  <2>2. ApplyOffset(a) = [d EXCEPT !.fault = "none", !.phase = "complete",
                                   !.homingAge = 0,
                                       !.lastCompleted = a.activeId]
    BY <1>7
  <2> HIDE DEF d
  <2> QED BY <1>5, <1>6, <2>1, <2>2, Zeros, ZenonT(60) DEF AxisState
<1>9. Sane(ApplyOffset(a), c)
  BY <1>1, <1>2, <1>7 DEF Sane, TrustPart, PowerPart, PulsePart, AheadPart,
      DrivenPart, AxisState
<1> QED BY <1>8, <1>9

\* service_homing() keeps the record sane and starts nothing on an axis at rest.
LEMMA ServiceHomingSane ==
  ASSUME NEW a \in AxisState, NEW c \in Nat, Sane(a, c), NEW armOk \in BOOLEAN
  PROVE  LET b == ServiceHoming(a, armOk)
         IN  /\ b \in AxisState
             /\ Sane(b, c)
             /\ Resting(a) => Resting(b)
<1> DEFINE b == ServiceHoming(a, armOk)
           back == HomingMove(StopPulses(a), "backoff", "homing_backoff",
               -Steps(a, Backoff), armOk)
           slow == HomingMove(a, "slow_approach", "homing_slow", 2 * Steps(a,
               Backoff), armOk)
<1> SUFFICES b \in AxisState /\ Sane(b, c) /\ (Resting(a) => Resting(b))
  OBVIOUS
<1>1. CASE a.phase \notin LivePhases BY <1>1 DEF ServiceHoming
<1>2. CASE a.phase \in LivePhases
  <2>1. ~a.trusted BY <1>2 DEF Sane, TrustPart, LivePhases
  <2>2. ~Resting(a) BY <1>2 DEF Resting
  <2>3. Steps(a, Backoff) \in Int BY StepsType, ConfigAssumption
  <2>4. StopPulses(a) \in AxisState /\ Sane(StopPulses(a),
      c) /\ ~StopPulses(a).trusted
    BY <2>1, StopPulsesType, StopPulsesSane DEF Sane, StopPulses, AxisState
  <2>5. back \in AxisState /\ Sane(back, c)
    BY <2>3, <2>4, HomingMoveSane DEF LivePhases, Purposes
  <2>6. slow \in AxisState /\ Sane(slow, c)
    BY <2>1, <2>3, HomingMoveSane DEF LivePhases, Purposes
  <2>7. \/ \E fault \in AxisFaults : b = Fail(a, fault, "homing_failed")
        \/ b \in {back, slow, ApplyOffset(a), a}
    BY <1>2 DEF ServiceHoming, AxisFaults
  <2> HIDE DEF b, back, slow
  <2>8. CASE b \in {back, slow, ApplyOffset(a), a}
    BY <2>2, <2>5, <2>6, <2>8, ApplyOffsetSane
  <2>9. ASSUME NEW fault \in AxisFaults, b = Fail(a, fault, "homing_failed")
        PROVE  b \in AxisState /\ Sane(b, c)
    BY <2>9, FailType, FailSane DEF TrustLosses
  <2> QED BY <2>2, <2>7, <2>8, <2>9
<1> QED BY <1>1, <1>2

\* service_diagnostics() keeps the record sane: a bad reading drops ENABLED
\* together with EN, and a moving axis is not read.
LEMMA ServiceDiagnosticsSane ==
  ASSUME NEW a \in AxisState, NEW c \in Nat, Sane(a, c),
      NEW reading \in Readings
  PROVE  LET b == ServiceDiagnostics(a, reading)
         IN  /\ b \in AxisState
             /\ Sane(b, c)
             /\ Resting(a) => Resting(b)
<1> DEFINE b == ServiceDiagnostics(a, reading)
           result == IF a.connected THEN reading ELSE "lost"
           conn == result # "lost"
           out == a.outputs /\ result = "ok"
           read == [a EXCEPT !.status = result, !.connected = conn,
               !.outputs = out]
           fault == IF result = "critical" THEN "driver_critical" ELSE "driver_communication"
<1> SUFFICES b \in AxisState /\ Sane(b, c) /\ (Resting(a) => Resting(b))
  OBVIOUS
<1>1. result \in Readings /\ conn \in BOOLEAN /\ out \in BOOLEAN
  BY DEF AxisState, Readings
<1>2. read \in AxisState
  <2> HIDE DEF result, conn, out
  <2> QED BY <1>1, ZenonT(60) DEF AxisState
<1>3. CASE a.moving BY <1>3 DEF ServiceDiagnostics
<1>4. CASE ~a.moving /\ result = "ok"
  <2>1. b = read BY <1>4, ZenonT(60) DEF ServiceDiagnostics
  <2>2. Sane(read, c)
    BY <1>4 DEF Sane, TrustPart, PowerPart, PulsePart, AheadPart, DrivenPart,
        AxisState
  <2>3. Resting(a) => Resting(read) BY DEF Resting, AxisState
  <2> QED BY <1>2, <2>1, <2>2, <2>3
<1>5. CASE ~a.moving /\ result # "ok"
  <2>1. b = Fail(read, fault, "driver_fault")
    BY <1>5, ZenonT(60) DEF ServiceDiagnostics
  <2>2. fault \in AxisFaults /\ "driver_fault" \in TrustLosses \ {"none"}
    BY DEF AxisFaults, TrustLosses
  <2> HIDE DEF b, read, fault
  <2> QED BY <1>2, <2>1, <2>2, FailType, FailSane
<1> QED BY <1>3, <1>4, <1>5

\* The passing of time disturbs nothing else.
LEMMA AgeSane ==
  ASSUME NEW a \in AxisState, NEW c \in Nat, Sane(a, c)
  PROVE  /\ Age(a) \in AxisState
         /\ Sane(Age(a), c)
         /\ Resting(a) => Resting(Age(a))
<1> DEFINE s == IF a.candidate # a.switchActive THEN Older(a.switchAge,
    Debounce) ELSE a.switchAge
           m == IF a.moving THEN Older(a.motionAge,
               MotionTimeout) ELSE a.motionAge
           h == IF a.phase \in LivePhases THEN Older(a.homingAge,
               HomingTimeout) ELSE a.homingAge
<1>1. s \in 0 .. Debounce BY ConfigAssumption DEF AxisState, Older
<1>2. m \in 0 .. MotionTimeout BY ConfigAssumption DEF AxisState, Older
<1>3. h \in 0 .. HomingTimeout BY ConfigAssumption DEF AxisState, Older
<1>4. Age(a) = [a EXCEPT !.switchAge = s, !.motionAge = m, !.homingAge = h]
  BY ZenonT(60) DEF Age
<1> HIDE DEF s, m, h
<1>5. Age(a) \in AxisState BY <1>1, <1>2, <1>3, <1>4, ZenonT(60) DEF AxisState
<1>6. Sane(Age(a), c)
  BY <1>4 DEF Sane, TrustPart, PowerPart, PulsePart, AheadPart, DrivenPart,
      AxisState
<1>7. Resting(a) => Resting(Age(a)) BY <1>4 DEF Resting, AxisState
<1> QED BY <1>5, <1>6, <1>7

-----------------------------------------------------------------------------
(* What a caller sees of one operation *)

\* A normal move asks for trust, and nothing but its end takes that away.
NormalPart(a) == a.moving /\ a.purpose = "normal" => a.trusted

\* What an axis always is.  Whether a move is driven, the last part of Sane,
\* is of no concern here: with a pulse to be counted it says nothing.
Fit(a) == a \in AxisState /\ Sane(a, 1) /\ NormalPart(a)

Homing(a) == a.phase \in LivePhases

\* The ids of an axis stay as they are.
SameOrder(a, b) ==
  b.activeId = a.activeId /\ b.lastCompleted = a.lastCompleted

\* Nothing is to be seen of the operation,
Alike(a, b) ==
  /\ SameOrder(a, b)
  /\ b.moving = a.moving /\ b.trusted = a.trusted /\ b.enabled = a.enabled
  /\ Homing(b) = Homing(a)

\* the axis comes to rest, at the expense of its trust if it moved,
Halted(a, b) ==
  /\ SameOrder(a, b)
  /\ ~b.moving
  /\ b.trusted => a.trusted /\ ~a.moving
  /\ b.enabled => a.enabled
  /\ Homing(b) => Homing(a)

\* or it is switched off.
Broken(a, b) ==
  SameOrder(a, b) /\ ~b.moving /\ ~b.trusted /\ ~b.enabled /\ ~Homing(b)

\* It begins order id,
Begun(a, b, id) ==
  /\ ~a.moving /\ b.moving /\ b.enabled
  /\ b.activeId = id /\ b.lastCompleted = a.lastCompleted
  /\ b.trusted => a.trusted
  /\ Homing(b) => ~b.trusted

\* or has nothing to do for it.
DoneAtOnce(a, b, id) ==
  /\ ~a.moving /\ ~b.moving /\ b.enabled
  /\ b.activeId = a.activeId /\ b.lastCompleted = id
  /\ b.trusted => a.trusted
  /\ ~Homing(a) /\ ~Homing(b)

\* or fails to begin it, and is switched off.
LetGo(a, b, id) ==
  /\ ~a.moving /\ ~b.moving /\ ~b.trusted /\ ~b.enabled /\ ~Homing(b)
  /\ b.activeId \in {a.activeId, id} /\ b.lastCompleted = a.lastCompleted

\* The result of ordering a motion, as command id.
Obeys(a, out, id) ==
  /\ Fit(out.axis)
  /\ out.ok \in BOOLEAN
  /\ out.ok => Begun(a, out.axis, id) \/ DoneAtOnce(a, out.axis, id)
  /\ ~out.ok => out.axis = a \/ LetGo(a, out.axis, id)
  /\ ~out.ok => out.fault \in (AxisFaults \cup Refusals) \ {"none"}

\* What is left by fail().
LEMMA FailBreaks ==
  ASSUME NEW a \in AxisState, NEW fault \in AxisFaults,
         NEW reason \in TrustLosses \ {"none"}
  PROVE  /\ Fit(Fail(a, fault, reason))
         /\ Resting(Fail(a, fault, reason))
         /\ Broken(a, Fail(a, fault, reason))
         /\ Fail(a, fault, reason).fault = fault
<1> DEFINE b == Fail(a, fault, reason)
<1>1. b \in AxisState /\ Sane(b, 1) /\ Resting(b)
  BY FailType, FailSane
<1>2. /\ ~b.moving /\ ~b.trusted /\ ~b.enabled /\ b.phase = "failed"
      /\ b.activeId = a.activeId /\ b.lastCompleted = a.lastCompleted
      /\ b.fault = fault
  BY DEF Fail, Untrust, StopPulses, AxisState
<1> HIDE DEF b
<1>3. Fit(b) /\ Broken(a, b)
  BY <1>1, <1>2 DEF Fit, NormalPart, Broken, SameOrder, Homing, LivePhases
<1> QED BY <1>1, <1>2, <1>3 DEF b

\* start_step_move(), field by field: refused, failed, already there, begun.
LEMMA StartStepMoveFields ==
  ASSUME NEW a \in AxisState, NEW target \in Int, NEW speedOk \in BOOLEAN,
         NEW purpose \in Purposes, NEW id \in Nat,
         NEW requireTrust \in BOOLEAN, NEW armOk \in BOOLEAN
  PROVE  LET out == StartStepMove(a, target, speedOk, purpose, id,
                                  requireTrust, armOk)
             b == out.axis
         IN  \/ /\ ~out.ok /\ b = a
                /\ out.fault \in (AxisFaults \cup Refusals) \ {"none"}
                /\ \/ a.moving \/ ~speedOk \/ purpose = "normal"
                   \/ requireTrust /\ ~a.trusted
             \/ /\ ~out.ok /\ LetGo(a, b, id)
                /\ out.fault \in (AxisFaults \cup Refusals) \ {"none"}
             \/ /\ out.ok /\ ~a.moving /\ ~b.moving /\ target = a.position
                /\ b.enabled /\ b.trusted = a.trusted /\ b.phase = a.phase
                /\ b.activeId = a.activeId /\ b.lastCompleted = id
                /\ requireTrust => a.trusted
             \/ /\ out.ok /\ ~a.moving /\ b.moving /\ target # a.position
                /\ b.enabled /\ b.trusted = a.trusted /\ b.phase = a.phase
                /\ b.activeId = id /\ b.lastCompleted = a.lastCompleted
                /\ b.purpose = purpose
                /\ requireTrust => a.trusted
<1> DEFINE out == StartStepMove(a, target, speedOk, purpose, id, requireTrust,
                                armOk)
           began == Started(a, target, purpose, id)
           stay == [Powered(a) EXCEPT !.target = target, !.lastCompleted = id]
           go == [began EXCEPT !.armed = HasScheduler, !.stepHigh = FALSE]
           unarmed == ArmFailed(began)
<1>1. \/ /\ \/ out = Refuse(a, "invalid_argument") /\ (a.moving \/ ~speedOk)
            \/ out = Refuse(a, "not_homed") /\ requireTrust /\ ~a.trusted
            \/ out = Refuse(a, "limit_reached") /\ purpose = "normal"
      \/ ~a.moving /\ out = Failed(a, "driver_critical", "driver_fault")
      \/ /\ ~a.moving /\ (requireTrust => a.trusted)
         /\ \/ target = a.position /\ out = Accept(stay)
            \/ out = Failed(unarmed, "driver_communication", "driver_fault")
            \/ target # a.position /\ out = Accept(go)
  BY ZenonT(60) DEF StartStepMove
<1>2. began \in AxisState /\ unarmed \in AxisState
  BY StartedType, ArmFailedType
<1>3. /\ stay.moving = a.moving /\ stay.enabled /\ stay.trusted = a.trusted
      /\ stay.phase = a.phase /\ stay.activeId = a.activeId
      /\ stay.lastCompleted = id
  BY DEF Powered, AxisState
<1>4. /\ began.moving /\ began.enabled /\ began.trusted = a.trusted
      /\ began.phase = a.phase /\ began.activeId = id
      /\ began.lastCompleted = a.lastCompleted /\ began.purpose = purpose
  BY DEF Started, Powered, AxisState
<1> HIDE DEF out
<1>5. CASE \/ out = Refuse(a, "invalid_argument") /\ (a.moving \/ ~speedOk)
           \/ out = Refuse(a, "not_homed") /\ requireTrust /\ ~a.trusted
           \/ out = Refuse(a, "limit_reached") /\ purpose = "normal"
  BY <1>5 DEF Refuse, Refusals, out
<1>6. CASE ~a.moving /\ out = Failed(a, "driver_critical", "driver_fault")
  <2>1. Broken(a, Fail(a, "driver_critical", "driver_fault"))
    BY FailBreaks DEF AxisFaults, TrustLosses
  <2> QED BY <1>6, <2>1 DEF Failed, AxisFaults, Broken, SameOrder, LetGo, out
<1>7. CASE /\ ~a.moving /\ (requireTrust => a.trusted)
           /\ target = a.position /\ out = Accept(stay)
  <2>1. LET b == Accept(stay).axis
        IN  /\ Accept(stay).ok
            /\ b.moving = stay.moving /\ b.enabled = stay.enabled
            /\ b.trusted = stay.trusted /\ b.phase = stay.phase
            /\ b.activeId = stay.activeId
            /\ b.lastCompleted = stay.lastCompleted
    BY DEF Accept, Powered, AxisState
  <2> HIDE DEF stay
  <2> QED BY <1>3, <1>7, <2>1 DEF out
<1>8. CASE /\ ~a.moving
           /\ out = Failed(unarmed, "driver_communication", "driver_fault")
  <2> DEFINE b == Fail(unarmed, "driver_communication", "driver_fault")
  <2>1. Broken(unarmed, b)
    BY <1>2, FailBreaks DEF AxisFaults, TrustLosses
  <2>2. unarmed.activeId = id /\ unarmed.lastCompleted = a.lastCompleted
    BY <1>2, <1>4 DEF ArmFailed, AxisState
  <2> HIDE DEF b, unarmed
  <2>3. LetGo(a, b, id)
    BY <1>8, <2>1, <2>2 DEF Broken, SameOrder, LetGo
  <2> QED BY <1>8, <2>3 DEF Failed, AxisFaults, out, b
<1>9. CASE /\ ~a.moving /\ (requireTrust => a.trusted)
           /\ target # a.position /\ out = Accept(go)
  <2>1. LET b == Accept(go).axis
        IN  /\ Accept(go).ok
            /\ b.moving = began.moving /\ b.enabled = began.enabled
            /\ b.trusted = began.trusted /\ b.phase = began.phase
            /\ b.activeId = began.activeId /\ b.purpose = began.purpose
            /\ b.lastCompleted = began.lastCompleted
    BY <1>2 DEF Accept, AxisState
  <2> HIDE DEF go, began
  <2> QED BY <1>4, <1>9, <2>1 DEF out
<1> QED BY <1>1, <1>5, <1>6, <1>7, <1>8, <1>9

\* Its result is a yes or a no.
LEMMA StartStepMoveOk ==
  ASSUME NEW a, NEW target, NEW speedOk, NEW purpose, NEW id,
         NEW requireTrust, NEW armOk
  PROVE  StartStepMove(a, target, speedOk, purpose, id, requireTrust,
                       armOk).ok \in BOOLEAN
BY ZenonT(60) DEF StartStepMove, Refuse, Failed, Accept

\* MOVE, MOVE_REL and MOTOR STEP: a trusted axis is not homing, and a bench
\* move has some way to go.
LEMMA MovesObey ==
  ASSUME NEW a, Fit(a), NEW angle \in Int, NEW speedOk \in BOOLEAN,
         NEW id \in Nat, NEW armOk \in BOOLEAN,
         NEW out \in {MoveAbsolute(a, angle, speedOk, id, armOk),
                      MoveRelative(a, angle, speedOk, id, armOk),
                      BenchMove(a, angle, id, armOk)}
  PROVE  /\ Obeys(a, out, id)
         /\ Resting(a) /\ ~out.ok => Resting(out.axis)
<1>1. a \in AxisState /\ Sane(a, 1) /\ NormalPart(a)
  BY DEF Fit
<1>2. a.position \in Int /\ Steps(a, angle) \in Int
  BY <1>1, StepsType DEF AxisState
<1>3. /\ out.axis \in AxisState /\ Sane(out.axis, 1)
      /\ Resting(a) /\ ~out.ok => Resting(out.axis)
  BY <1>1, MovesSane
<1> SUFFICES Obeys(a, out, id)
  BY <1>3
<1>4. a.trusted => ~Homing(a)
  BY <1>1 DEF Sane, TrustPart, Homing, LivePhases
<1>5. /\ Homing(a) => ~a.trusted
      /\ a.moving => a.enabled
  BY <1>1, <1>4 DEF Sane, PowerPart
<1>6. ASSUME NEW target \in Int, NEW purpose \in Purposes,
             NEW requireTrust \in BOOLEAN, NEW speed \in BOOLEAN,
             purpose = "normal" => requireTrust,
             requireTrust \/ target # a.position,
             out = StartStepMove(a, target, speed, purpose, id, requireTrust,
                                 armOk)
      PROVE  Obeys(a, out, id)
  <2> DEFINE b == out.axis
  <2>0. \/ /\ ~out.ok /\ b = a
           /\ out.fault \in (AxisFaults \cup Refusals) \ {"none"}
        \/ /\ ~out.ok /\ LetGo(a, b, id)
           /\ out.fault \in (AxisFaults \cup Refusals) \ {"none"}
        \/ /\ out.ok /\ ~a.moving /\ b.enabled /\ b.trusted = a.trusted
           /\ b.phase = a.phase /\ (requireTrust => a.trusted)
           /\ \/ /\ ~b.moving /\ target = a.position
                 /\ b.activeId = a.activeId /\ b.lastCompleted = id
              \/ /\ b.moving /\ b.purpose = purpose
                 /\ b.activeId = id /\ b.lastCompleted = a.lastCompleted
    BY <1>1, <1>6, StartStepMoveFields
  <2>1. CASE ~out.ok
    <3>1. b = a \/ LetGo(a, b, id)
      BY <2>0, <2>1
    <3>2. NormalPart(b)
      BY <1>1, <3>1 DEF NormalPart, LetGo
    <3>3. out.fault \in (AxisFaults \cup Refusals) \ {"none"}
          /\ out.ok \in BOOLEAN
      BY <1>1, <1>6, <2>0, <2>1, StartStepMoveOk
    <3> QED BY <1>3, <2>1, <3>1, <3>2, <3>3 DEF Obeys, Fit
  <2>2. CASE out.ok
    <3>1. /\ ~a.moving /\ b.enabled /\ b.trusted = a.trusted
          /\ b.phase = a.phase /\ (requireTrust => a.trusted)
          /\ \/ /\ ~b.moving /\ target = a.position
                /\ b.activeId = a.activeId /\ b.lastCompleted = id
             \/ /\ b.moving /\ b.purpose = purpose
                /\ b.activeId = id /\ b.lastCompleted = a.lastCompleted
      BY <2>0, <2>2
    <3>2. out.ok \in BOOLEAN
      BY <1>1, <1>6, StartStepMoveOk
    <3>3. NormalPart(b)
      BY <1>6, <3>1 DEF NormalPart
    <3>4. Homing(b) = Homing(a)
      BY <3>1 DEF Homing
    <3>5. Begun(a, b, id) \/ DoneAtOnce(a, b, id)
      BY <1>4, <1>5, <1>6, <3>1, <3>4 DEF Begun, DoneAtOnce
    <3> QED BY <1>3, <2>2, <3>2, <3>3, <3>5 DEF Obeys, Fit
  <2> QED BY <2>1, <2>2
<1>7. ASSUME NEW fault \in Refusals, out = Refuse(a, fault)
      PROVE  Obeys(a, out, id)
  <2>1. out.axis = a /\ out.ok = FALSE /\ out.fault = fault
    BY <1>7 DEF Refuse
  <2>2. fault # "none"
    BY DEF Refusals
  <2> QED BY <2>1, <2>2 DEF Obeys
<1>8. "normal" \in Purposes /\ "bench" \in Purposes
  BY DEF Purposes
<1>9. CASE out = MoveAbsolute(a, angle, speedOk, id, armOk)
  BY <1>2, <1>6, <1>8, <1>9 DEF MoveAbsolute
<1>10. CASE out = MoveRelative(a, angle, speedOk, id, armOk)
  <2>1. a.position + Steps(a, angle) \in Int
    BY <1>2
  <2>2. out = Refuse(a, "not_homed")
        \/ out = StartStepMove(a, a.position + Steps(a, angle), speedOk,
                               "normal", id, TRUE, armOk)
    BY <1>10 DEF MoveRelative
  <2> HIDE DEF Steps
  <2> QED BY <1>6, <1>7, <1>8, <2>1, <2>2, Zenon DEF Refusals
<1>11. CASE out = BenchMove(a, angle, id, armOk)
  <2>1. a.position + angle \in Int /\ (angle # 0 => a.position + angle # a.position)
    BY <1>2
  <2>2. \/ out = Refuse(a, "invalid_argument")
        \/ /\ angle # 0
           /\ out = StartStepMove(a, a.position + angle, TRUE, "bench", id,
                                  FALSE, armOk)
    BY <1>11 DEF BenchMove
  <2>3. "bench" # "normal"
    OBVIOUS
  <2> QED BY <1>6, <1>7, <1>8, <2>1, <2>2, <2>3, Zenon DEF Refusals
<1> QED BY <1>9, <1>10, <1>11

\* A leg of a homing asks for no trust, and its speed is in order.
StartLeg(a, target, purpose, id, armOk) ==
  StartStepMove(a, target, TRUE, purpose, id, FALSE, armOk)

\* It begins, if it has some way to go, or fails.
LEMMA LegStarts ==
  ASSUME NEW a \in AxisState, ~a.moving, NEW target \in Int,
         target # a.position, NEW purpose \in Purposes, purpose # "normal",
         NEW id \in Nat, NEW armOk \in BOOLEAN
  PROVE  LET out == StartLeg(a, target, purpose, id, armOk)
             b == out.axis
         IN  \/ /\ ~out.ok /\ LetGo(a, b, id)
                /\ out.fault \in (AxisFaults \cup Refusals) \ {"none"}
             \/ /\ out.ok /\ b.moving /\ b.purpose = purpose
                /\ b.enabled /\ b.trusted = a.trusted /\ b.phase = a.phase
                /\ b.activeId = id /\ b.lastCompleted = a.lastCompleted
<1>1. \A speedOk, requireTrust \in BOOLEAN :
        LET o == StartStepMove(a, target, speedOk, purpose, id, requireTrust,
                               armOk)
            b == o.axis
        IN  \/ ~speedOk \/ requireTrust
            \/ /\ ~o.ok /\ LetGo(a, b, id)
               /\ o.fault \in (AxisFaults \cup Refusals) \ {"none"}
            \/ /\ o.ok /\ b.moving /\ b.purpose = purpose
               /\ b.enabled /\ b.trusted = a.trusted /\ b.phase = a.phase
               /\ b.activeId = id /\ b.lastCompleted = a.lastCompleted
  BY StartStepMoveFields
<1>2. TRUE \in BOOLEAN /\ FALSE \in BOOLEAN
  OBVIOUS
<1> QED BY <1>1, <1>2, Zenon DEF StartLeg

\* HOME: the fast approach has some way to go, and homing is not trusted.
LEMMA StartHomingObeys ==
  ASSUME NEW a, Fit(a), NEW raw \in BOOLEAN, NEW id \in Nat,
         NEW armOk \in BOOLEAN
  PROVE  LET out == StartHoming(a, raw, id, armOk)
         IN  /\ Obeys(a, out, id)
             /\ Resting(a) /\ ~out.ok => Resting(out.axis)
<1> DEFINE out == StartHoming(a, raw, id, armOk)
           b == out.axis
           seen == UpdateSwitch(a, raw)
           begun == [Untrust(seen, "homing_failed") EXCEPT
                       !.phase = "validate_switch"]
           approaching == [begun EXCEPT !.phase = "fast_approach",
                                        !.homingAge = 0]
           far == a.position + HomeSide * HomingTravel(a)
           failed == Failed(begun, "homing_stuck_switch", "homing_failed")
           went == StartLeg(approaching, far, "homing_fast", id, armOk)
           Same(x) == /\ x.lastCompleted = a.lastCompleted
                      /\ x.activeId = a.activeId /\ x.moving = a.moving
                      /\ x.position = a.position
<1> SUFFICES Obeys(a, out, id) /\ (Resting(a) /\ ~out.ok => Resting(out.axis))
  OBVIOUS
<1>1. a \in AxisState /\ Sane(a, 1) /\ NormalPart(a)
  BY DEF Fit
<1>2. /\ b \in AxisState /\ Sane(b, 1)
      /\ Resting(a) /\ ~out.ok => Resting(b)
  BY <1>1, StartHomingSane
<1>3. seen \in AxisState /\ Same(seen)
  BY <1>1, UpdateSwitchType, UpdateSwitchNumbers
<1>4. begun \in AxisState /\ approaching \in AxisState
  <2> HIDE DEF seen
  <2>1. Untrust(seen, "homing_failed") \in AxisState
    BY <1>3, UntrustType DEF TrustLosses
  <2>2. "validate_switch" \in Phases /\ "fast_approach" \in Phases
    BY DEF Phases, LivePhases
  <2>3. begun \in AxisState
    BY <2>1, <2>2, ZenonT(60) DEF AxisState
  <2> HIDE DEF begun
  <2> QED BY <2>2, <2>3, Zeros, ZenonT(60) DEF AxisState
<1>5. /\ Same(begun) /\ Same(approaching)
      /\ ~approaching.trusted /\ approaching.phase = "fast_approach"
  <2> HIDE DEF seen
  <2> QED BY <1>3 DEF Untrust, AxisState
<1>6. far \in Int /\ far # a.position
  <2>1. /\ a.position \in Int /\ HomingTravel(a) \in Nat \ {0}
        /\ HomeSide \in {-1, 1}
    BY <1>1, HomingTravelPositive, ConfigAssumption DEF AxisState
  <2> HIDE DEF HomingTravel
  <2> QED BY <2>1
<1>7. \/ out = Refuse(a, "invalid_configuration")
      \/ out = Refuse(a, "invalid_argument")
      \/ ~a.moving /\ (out = failed \/ out = went)
  BY ZenonT(60) DEF StartHoming, StartLeg
<1> HIDE DEF out, seen, begun, approaching, far, failed, went
<1>8. CASE \/ out = Refuse(a, "invalid_configuration")
           \/ out = Refuse(a, "invalid_argument")
  <2>1. out.axis = a /\ out.ok = FALSE
        /\ out.fault \in {"invalid_configuration", "invalid_argument"}
    BY <1>8 DEF Refuse
  <2> QED BY <1>2, <2>1 DEF Refusals, Obeys
<1>9. CASE ~a.moving /\ out = failed
  <2> DEFINE x == Fail(begun, "homing_stuck_switch", "homing_failed")
  <2>1. Fit(x) /\ Broken(begun, x)
    BY <1>4, FailBreaks DEF AxisFaults, TrustLosses
  <2>2. /\ out.axis = x /\ out.ok = FALSE
        /\ out.fault \in AxisFaults \ {"none"}
    BY <1>9 DEF failed, Failed, AxisFaults
  <2> HIDE DEF x
  <2>3. LetGo(a, x, id)
    BY <1>5, <1>9, <2>1 DEF Broken, SameOrder, LetGo
  <2> QED BY <1>2, <2>1, <2>2, <2>3 DEF Obeys
<1>10. CASE ~a.moving /\ out = went
  <2>1. /\ ~approaching.moving /\ far # approaching.position
        /\ "homing_fast" \in Purposes /\ "homing_fast" # "normal"
    BY <1>5, <1>6, <1>10 DEF Purposes
  <2>2. \/ /\ ~went.ok /\ LetGo(approaching, went.axis, id)
           /\ went.fault \in (AxisFaults \cup Refusals) \ {"none"}
        \/ /\ went.ok /\ went.axis.moving
           /\ went.axis.purpose = "homing_fast" /\ went.axis.enabled
           /\ went.axis.trusted = approaching.trusted
           /\ went.axis.phase = approaching.phase
           /\ went.axis.activeId = id
           /\ went.axis.lastCompleted = approaching.lastCompleted
    BY <1>4, <1>6, <2>1, LegStarts DEF went
  <2>3. went.ok \in BOOLEAN
    BY StartStepMoveOk DEF went, StartLeg
  <2>4. CASE ~went.ok
    <3>1. LetGo(a, went.axis, id)
      BY <1>5, <1>10, <2>2, <2>4 DEF LetGo
    <3>2. NormalPart(went.axis)
      BY <3>1 DEF NormalPart, LetGo
    <3> QED BY <1>2, <1>10, <2>2, <2>3, <2>4, <3>1, <3>2 DEF Obeys, Fit
  <2>5. CASE went.ok
    <3>1. Begun(a, went.axis, id)
      BY <1>5, <1>10, <2>2, <2>5 DEF Begun
    <3>2. NormalPart(went.axis)
      BY <2>2, <2>5 DEF NormalPart
    <3> QED BY <1>2, <1>10, <2>2, <2>3, <2>5, <3>1, <3>2 DEF Obeys, Fit
  <2> QED BY <2>4, <2>5
<1> QED BY <1>7, <1>8, <1>9, <1>10

-----------------------------------------------------------------------------
(* Stopping and configuring, as a caller sees it *)

\* Its motor is enabled,
TurnedOn(a, b) ==
  /\ SameOrder(a, b)
  /\ b.moving = a.moving /\ b.trusted = a.trusted /\ b.enabled
  /\ Homing(b) = Homing(a)

\* or an order id it was given is called off again.
CalledOff(a, b, id) ==
  /\ ~a.moving /\ ~b.moving
  /\ b.activeId \in {a.activeId, id} /\ b.lastCompleted \in {a.lastCompleted, id}
  /\ b.trusted => a.trusted
  /\ Homing(b) => /\ ~b.trusted /\ b.lastCompleted = a.lastCompleted
                  /\ b.activeId = id \/ (b.activeId = a.activeId /\ Homing(a))

\* stop() halts the axis.
LEMMA StopHalts ==
  ASSUME NEW a, Fit(a)
  PROVE  /\ Fit(Stop(a)) /\ Halted(a, Stop(a))
         /\ Stop(a).fault = "stopped"
         /\ Resting(a) => Resting(Stop(a))
<1> DEFINE b == Stop(a)
<1>1. a \in AxisState /\ Sane(a, 1)
  BY DEF Fit
<1>2. b \in AxisState /\ Sane(b, 1)
  BY <1>1, StopSane
<1>3. /\ ~b.moving /\ SameOrder(a, b) /\ b.fault = "stopped"
      /\ b.enabled = a.enabled /\ b.phase = a.phase /\ b.outputs = a.outputs
      /\ b.trusted = (a.trusted /\ ~a.moving)
  BY <1>1 DEF Stop, StopPulses, Untrust, SameOrder, AxisState
<1> HIDE DEF b
<1>4. Fit(b) /\ Halted(a, b) /\ (Resting(a) => Resting(b))
  BY <1>2, <1>3 DEF Fit, NormalPart, Halted, Homing, Resting
<1> QED BY <1>3, <1>4 DEF b

\* Stopped at once, an order that was accepted is called off.
LEMMA StopCallsOff ==
  ASSUME NEW a, NEW b, Fit(b), NEW id,
         Begun(a, b, id) \/ DoneAtOnce(a, b, id)
  PROVE  CalledOff(a, Stop(b), id)
<1>1. Halted(b, Stop(b))
  BY StopHalts
<1> QED BY <1>1 DEF Halted, SameOrder, Begun, DoneAtOnce, CalledOff

\* set_enabled() turns the motor on, halts the axis or breaks it off.
LEMMA SetEnabledTurns ==
  ASSUME NEW a, Fit(a), NEW enabled \in BOOLEAN
  PROVE  LET out == SetEnabled(a, enabled)
             b == out.axis
         IN  /\ Fit(b) /\ out.ok \in BOOLEAN
             /\ out.ok => Halted(a, b) \/ TurnedOn(a, b)
             /\ ~out.ok => Broken(a, b) /\ out.fault = "driver_critical"
<1> DEFINE out == SetEnabled(a, enabled)
           on == [a EXCEPT !.enabled = TRUE, !.outputs = TRUE]
<1>1. a \in AxisState /\ Sane(a, 1) /\ NormalPart(a)
  BY DEF Fit
<1>2. out.axis \in AxisState /\ Sane(out.axis, 1)
  BY <1>1, SetEnabledSane
<1>3. \/ out = [axis |-> Disable(a), ok |-> TRUE, fault |-> "driver_disabled"]
      \/ out = Failed(a, "driver_critical", "driver_fault")
      \/ out = Accept(on)
  BY ZenonT(60) DEF SetEnabled
<1> HIDE DEF out
<1> SUFFICES /\ Fit(out.axis) /\ out.ok \in BOOLEAN
             /\ out.ok => Halted(a, out.axis) \/ TurnedOn(a, out.axis)
             /\ ~out.ok => /\ Broken(a, out.axis)
                           /\ out.fault = "driver_critical"
  BY DEF out
<1>4. CASE out = [axis |-> Disable(a), ok |-> TRUE,
                  fault |-> "driver_disabled"]
  <2>1. /\ ~Disable(a).moving /\ SameOrder(a, Disable(a))
        /\ ~Disable(a).enabled /\ ~Disable(a).trusted
        /\ Disable(a).phase = a.phase
    BY <1>1 DEF Disable, StopPulses, Untrust, SameOrder, AxisState
  <2>2. out.axis = Disable(a) /\ out.ok
    BY <1>4
  <2> HIDE DEF Disable
  <2> QED BY <1>2, <2>1, <2>2 DEF Halted, Homing, Fit, NormalPart
<1>5. CASE out = Failed(a, "driver_critical", "driver_fault")
  <2> DEFINE f == Fail(a, "driver_critical", "driver_fault")
  <2>1. Fit(f) /\ Broken(a, f)
    BY <1>1, FailBreaks DEF AxisFaults, TrustLosses
  <2>2. out.axis = f /\ out.ok = FALSE /\ out.fault = "driver_critical"
    BY <1>5 DEF Failed
  <2> HIDE DEF f
  <2> QED BY <2>1, <2>2
<1>6. CASE out = Accept(on)
  <2>1. LET b == Accept(on).axis
        IN  /\ Accept(on).ok
            /\ SameOrder(a, b) /\ b.moving = a.moving
            /\ b.trusted = a.trusted /\ b.enabled /\ b.phase = a.phase
            /\ b.purpose = a.purpose
    BY <1>1 DEF Accept, SameOrder, AxisState
  <2> HIDE DEF on
  <2> QED BY <1>1, <1>2, <1>6, <2>1 DEF TurnedOn, Homing, Fit, NormalPart
<1> QED BY <1>3, <1>4, <1>5, <1>6

\* clear_fault() is not to be seen from outside.
LEMMA ClearFaultAlike ==
  ASSUME NEW a, Fit(a)
  PROVE  LET out == ClearFault(a)
             b == out.axis
         IN  /\ Fit(b) /\ Alike(a, b) /\ out.ok \in BOOLEAN
             /\ Resting(a) => Resting(b)
             /\ ~out.ok => out.fault = "driver_critical"
<1> DEFINE out == ClearFault(a)
           phase == IF a.phase = "failed" THEN "idle" ELSE a.phase
           calm == [a EXCEPT !.phase = phase]
<1>1. a \in AxisState /\ Sane(a, 1) /\ NormalPart(a)
  BY DEF Fit
<1>2. /\ out.axis \in AxisState /\ Sane(out.axis, 1)
      /\ Resting(a) => Resting(out.axis)
  BY <1>1, ClearFaultSane
<1>3. out = Refuse(a, "driver_critical") \/ out = Accept(calm)
  BY ZenonT(60) DEF ClearFault
<1> HIDE DEF out
<1> SUFFICES /\ Fit(out.axis) /\ Alike(a, out.axis) /\ out.ok \in BOOLEAN
             /\ ~out.ok => out.fault = "driver_critical"
  BY <1>2 DEF out
<1>4. CASE out = Refuse(a, "driver_critical")
  <2>1. out.axis = a /\ out.ok = FALSE /\ out.fault = "driver_critical"
    BY <1>4 DEF Refuse
  <2> QED BY <2>1 DEF Alike, SameOrder
<1>5. CASE out = Accept(calm)
  <2>1. LET b == Accept(calm).axis
        IN  /\ Accept(calm).ok
            /\ SameOrder(a, b) /\ b.moving = a.moving
            /\ b.trusted = a.trusted /\ b.enabled = a.enabled
            /\ b.phase = phase /\ b.purpose = a.purpose
    BY <1>1 DEF Accept, SameOrder, AxisState
  <2>2. phase \in LivePhases <=> a.phase \in LivePhases
    BY DEF LivePhases
  <2> HIDE DEF calm, phase
  <2> QED BY <1>1, <1>2, <1>5, <2>1, <2>2 DEF Alike, Homing, Fit, NormalPart
<1> QED BY <1>3, <1>4, <1>5

\* SET_CURRENT is not to be seen from outside either; SET_MICROSTEPS costs
\* the trust of an axis at rest.
LEMMA WritesHalt ==
  ASSUME NEW a, Fit(a), NEW microsteps \in MicrostepChoices,
         NEW result \in WriteResults,
         NEW out \in {SetCurrent(a, result),
                      SetMicrosteps(a, microsteps, result)}
  PROVE  LET b == out.axis
         IN  /\ Fit(b) /\ out.ok \in BOOLEAN
             /\ Alike(a, b) \/ (out.ok /\ Halted(a, b))
             /\ ~out.ok => out.fault = "invalid_argument"
<1> DEFINE other == [Untrust(a, "configuration_changed") EXCEPT
                       !.microsteps = microsteps]
           lost == [a EXCEPT !.connected = FALSE, !.outputs = FALSE]
<1>1. a \in AxisState /\ Sane(a, 1) /\ NormalPart(a)
  BY DEF Fit
<1>2. out.axis \in AxisState /\ Sane(out.axis, 1)
  BY <1>1, SetCurrentSane, SetMicrostepsSane
<1>3. \/ out = Accept(a)
      \/ ~a.moving /\ out = Accept(other)
      \/ out = Refuse(a, "invalid_argument")
      \/ out = Refuse(lost, "invalid_argument")
  BY ZenonT(60) DEF SetCurrent, SetMicrosteps, WriteAccepted, DriverWrite
<1> SUFFICES /\ Fit(out.axis) /\ out.ok \in BOOLEAN
             /\ Alike(a, out.axis) \/ (out.ok /\ Halted(a, out.axis))
             /\ ~out.ok => out.fault = "invalid_argument"
  OBVIOUS
<1>4. CASE out = Accept(a)
  <2>1. LET b == Accept(a).axis
        IN  /\ Accept(a).ok /\ SameOrder(a, b) /\ b.moving = a.moving
            /\ b.trusted = a.trusted /\ b.enabled = a.enabled
            /\ b.phase = a.phase /\ b.purpose = a.purpose
    BY <1>1 DEF Accept, SameOrder, AxisState
  <2> QED BY <1>1, <1>2, <1>4, <2>1 DEF Alike, Homing, Fit, NormalPart
<1>5. CASE ~a.moving /\ out = Accept(other)
  <2>1. LET b == Accept(other).axis
        IN  /\ Accept(other).ok /\ SameOrder(a, b) /\ b.moving = a.moving
            /\ ~b.trusted /\ b.enabled = a.enabled /\ b.phase = a.phase
    BY <1>1 DEF Accept, Untrust, SameOrder, AxisState
  <2> HIDE DEF other
  <2> QED BY <1>2, <1>5, <2>1 DEF Halted, Homing, Fit, NormalPart
<1>6. CASE out = Refuse(a, "invalid_argument")
  <2>1. out.axis = a /\ out.ok = FALSE /\ out.fault = "invalid_argument"
    BY <1>6 DEF Refuse
  <2> QED BY <2>1 DEF Alike, SameOrder
<1>7. CASE out = Refuse(lost, "invalid_argument")
  <2>1. out.axis = lost /\ out.ok = FALSE /\ out.fault = "invalid_argument"
    BY <1>7 DEF Refuse
  <2>2. /\ SameOrder(a, lost) /\ lost.moving = a.moving
        /\ lost.trusted = a.trusted /\ lost.enabled = a.enabled
        /\ lost.phase = a.phase /\ lost.purpose = a.purpose
    BY <1>1 DEF SameOrder, AxisState
  <2> HIDE DEF lost
  <2> QED BY <1>1, <1>2, <2>1, <2>2 DEF Alike, Homing, Fit, NormalPart
<1> QED BY <1>3, <1>4, <1>5, <1>6, <1>7

-----------------------------------------------------------------------------
(* Induction.  The library's rule takes a predicate as a parameter; this one *)
(* takes a set, and follows from < being well founded.                       *)

\* A set with 0 and with the successor of each of its members has every number.
LEMMA NatSetInduction ==
  ASSUME NEW S, 0 \in S, \A n \in Nat : n \in S => n + 1 \in S
  PROVE  \A n \in Nat : n \in S
<1> SUFFICES ASSUME Nat \ S # {} PROVE FALSE
  OBVIOUS
<1>1. PICK x \in Nat \ S : \A y \in Nat \ S : ~ (<<y, x>> \in OpToRel(<, Nat))
  <2> DEFINE T == Nat \ S
  <2>1. T \subseteq Nat /\ T # {}
    OBVIOUS
  <2> HIDE DEF T
  <2>2. \E x \in T : \A y \in T : ~ (<<y, x>> \in OpToRel(<, Nat))
    BY <2>1, WFMin, NatLessThanWellFounded
  <2> QED BY <2>2 DEF T
<1>2. \A y \in Nat \ S : ~ (y < x)
  BY <1>1 DEF OpToRel
<1>3. x # 0
  OBVIOUS
<1>4. x - 1 \in Nat /\ x - 1 < x
  BY <1>3
<1>5. x - 1 \in S
  BY <1>2, <1>4
<1>6. (x - 1) + 1 \in S
  BY <1>4, <1>5
<1> QED BY <1>6

\* g lists the values that step goes through, from c.
Iterated(g, step, c, n) ==
  g[0] = c /\ \A i \in 1 .. n : g[i] = step[g[i - 1]]

\* A step from V to V taken any number of times stays in V.
LEMMA Iterates ==
  ASSUME NEW V, NEW step \in [V -> V], NEW c \in V
  PROVE  \A n \in Nat : \E g \in [0 .. n -> V] : Iterated(g, step, c, n)
<1> USE DEF Iterated
<1> DEFINE Reached(n) == \E g \in [0 .. n -> V] :
                           g[0] = c /\ \A i \in 1 .. n : g[i] = step[g[i - 1]]
           S == {n \in Nat : Reached(n)}
<1>1. Reached(0)
  <2> DEFINE g == [i \in 0 .. 0 |-> c]
  <2>1. g \in [0 .. 0 -> V] /\ g[0] = c
    OBVIOUS
  <2>2. \A i \in 1 .. 0 : g[i] = step[g[i - 1]]
    OBVIOUS
  <2> HIDE DEF g
  <2> QED BY <2>1, <2>2
<1>2. ASSUME NEW n \in Nat, Reached(n)
      PROVE  Reached(n + 1)
  <2>1. PICK g \in [0 .. n -> V] :
          g[0] = c /\ \A i \in 1 .. n : g[i] = step[g[i - 1]]
    BY <1>2
  <2> DEFINE h == [i \in 0 .. n + 1 |-> IF i = n + 1 THEN step[g[n]] ELSE g[i]]
  <2>2. step[g[n]] \in V
    BY <2>1
  <2>3. h \in [0 .. n + 1 -> V]
    BY <2>2
  <2>4. h[0] = c
    BY <2>1
  <2>5. ASSUME NEW i \in 1 .. n + 1 PROVE h[i] = step[h[i - 1]]
    BY <2>1
  <2> HIDE DEF h
  <2> QED BY <2>3, <2>4, <2>5
<1> HIDE DEF Reached
<1>3. \A n \in Nat : n \in S
  <2>1. 0 \in S /\ \A n \in Nat : n \in S => n + 1 \in S
    BY <1>1, <1>2
  <2> HIDE DEF S
  <2> QED BY <2>1, NatSetInduction
<1> QED BY <1>3 DEF Reached

\* Counting pulses keeps whatever counting one pulse of a moving axis keeps.
LEMMA CreditPulsesKeeps ==
  ASSUME NEW V, NEW a, a.completed \in Nat, NEW armOk,
         [a EXCEPT !.completed = 0] \in V,
         \A v \in V : v.moving => CreditPulse(v, armOk) \in V
  PROVE  CreditPulses(a, armOk) \in V
<1> DEFINE c == [a EXCEPT !.completed = 0]
           N == a.completed
           step == [v \in V |-> IF v.moving THEN CreditPulse(v, armOk) ELSE v]
           Counts(f) == f = [n \in 0 .. N |->
                               IF n = 0 THEN c
                               ELSE IF f[n - 1].moving
                                 THEN CreditPulse(f[n - 1], armOk)
                               ELSE f[n - 1]]
           counted == CHOOSE f : Counts(f)
<1>1. CreditPulses(a, armOk) = counted[N]
  BY DEF CreditPulses
<1> HIDE DEF c, N
<1>2. step \in [V -> V]
  OBVIOUS
<1>3. N \in Nat /\ c \in V
  BY DEF N, c
<1>4. \E f : Counts(f)
  <2>1. PICK g \in [0 .. N -> V] :
          g[0] = c /\ \A i \in 1 .. N : g[i] = step[g[i - 1]]
    <3> HIDE DEF step
    <3>1. c \in V BY <1>3
    <3>2. step \in [V -> V] BY <1>2
    <3> HIDE <1>2, <1>3
    <3>3. \A n \in Nat : \E g \in [0 .. n -> V] : Iterated(g, step, c, n)
      BY <3>1, <3>2, Iterates
    <3>4. \E g \in [0 .. N -> V] : Iterated(g, step, c, N)
      BY <1>3, <3>3
    <3> QED BY <3>4 DEF Iterated
  <2>2. ASSUME NEW n \in 0 .. N
        PROVE  g[n] = IF n = 0 THEN c
                      ELSE IF g[n - 1].moving
                        THEN CreditPulse(g[n - 1], armOk)
                      ELSE g[n - 1]
    <3>1. CASE n = 0
      BY <2>1, <3>1
    <3>2. CASE n # 0
      <4>1. n \in 1 .. N /\ n - 1 \in 0 .. N
        BY <1>3, <3>2
      <4>2. g[n - 1] \in V /\ g[n] = step[g[n - 1]]
        BY <2>1, <4>1
      <4> QED BY <3>2, <4>2
    <3> QED BY <3>1, <3>2
  <2>3. Counts(g)
    BY <2>2
  <2> QED BY <2>3
<1>5. Counts(counted)
  <2> HIDE DEF Counts
  <2> QED BY <1>4
<1> HIDE DEF counted
<1> DEFINE S == {n \in Nat : n \in 0 .. N => counted[n] \in V}
<1>6. \A n \in 0 .. N : counted[n] = IF n = 0 THEN c
                      ELSE IF counted[n - 1].moving
                        THEN CreditPulse(counted[n - 1], armOk)
                      ELSE counted[n - 1]
  BY <1>5
<1>7. \A n \in Nat : n \in S
  <2>1. 0 \in S
    BY <1>3, <1>6
  <2>2. ASSUME NEW n \in Nat, n \in S PROVE n + 1 \in S
    <3>1. CASE n + 1 \in 0 .. N
      <4>1. n \in 0 .. N /\ counted[n] \in V
        BY <1>3, <2>2, <3>1
      <4>2. counted[n + 1] = IF counted[n].moving
                        THEN CreditPulse(counted[n], armOk)
                      ELSE counted[n]
        BY <1>6, <3>1
      <4> QED BY <4>1, <4>2
    <3>2. CASE n + 1 \notin 0 .. N
      BY <3>2
    <3> QED BY <3>1, <3>2
  <2> HIDE DEF S
  <2> QED BY <2>1, <2>2, NatSetInduction
<1> QED BY <1>1, <1>3, <1>7

\* service_diagnostics() leaves an axis at rest as it was, or breaks it off.
LEMMA DiagnosticsBreak ==
  ASSUME NEW a, Fit(a), ~a.moving, NEW reading \in Readings
  PROVE  LET b == ServiceDiagnostics(a, reading)
         IN  /\ Fit(b) /\ (Alike(a, b) \/ Broken(a, b))
             /\ Resting(a) => Resting(b)
<1> DEFINE b == ServiceDiagnostics(a, reading)
           result == IF a.connected THEN reading ELSE "lost"
           answers == result # "lost"
           out == a.outputs /\ result = "ok"
           read == [a EXCEPT !.status = result, !.connected = answers,
                             !.outputs = out]
           fault == IF result = "critical" THEN "driver_critical"
                                           ELSE "driver_communication"
<1>1. a \in AxisState /\ Sane(a, 1) /\ NormalPart(a)
  BY DEF Fit
<1>2. b \in AxisState /\ Sane(b, 1) /\ (Resting(a) => Resting(b))
  BY <1>1, ServiceDiagnosticsSane
<1>3. b = read \/ b = Fail(read, fault, "driver_fault")
  BY ZenonT(60) DEF ServiceDiagnostics
<1> HIDE DEF b
<1> SUFFICES Fit(b) /\ (Alike(a, b) \/ Broken(a, b))
  BY <1>2 DEF b
<1>4. /\ SameOrder(a, read) /\ ~read.moving /\ read.moving = a.moving
      /\ read.trusted = a.trusted
      /\ read.enabled = a.enabled /\ read.phase = a.phase
  BY <1>1 DEF SameOrder, AxisState
<1>5. read \in AxisState /\ fault \in AxisFaults
  <2>1. result \in Readings /\ answers \in BOOLEAN /\ out \in BOOLEAN
        /\ fault \in AxisFaults
    BY <1>1 DEF AxisState, Readings, AxisFaults
  <2> HIDE DEF result, answers, out
  <2> QED BY <1>1, <2>1, ZenonT(60) DEF AxisState
<1> HIDE DEF read, fault
<1>6. CASE b = read
  BY <1>1, <1>2, <1>4, <1>6 DEF Alike, Homing, Fit, NormalPart
<1>7. CASE b = Fail(read, fault, "driver_fault")
  <2>1. Fit(b) /\ Broken(read, b)
    BY <1>5, <1>7, FailBreaks DEF TrustLosses
  <2> QED BY <1>4, <2>1 DEF Broken, SameOrder
<1> QED BY <1>3, <1>6, <1>7

\* The passing of time is not to be seen.
LEMMA TimeAlike ==
  ASSUME NEW a, Fit(a)
  PROVE  /\ Fit(Age(a)) /\ Alike(a, Age(a)) /\ Age(a).fault = a.fault
         /\ Resting(a) => Resting(Age(a))
<1> DEFINE b == Age(a)
<1>1. a \in AxisState /\ Sane(a, 1) /\ NormalPart(a)
  BY DEF Fit
<1>2. b \in AxisState /\ Sane(b, 1) /\ (Resting(a) => Resting(b))
  BY <1>1, AgeSane
<1>3. /\ SameOrder(a, b) /\ b.moving = a.moving /\ b.trusted = a.trusted
      /\ b.enabled = a.enabled /\ b.phase = a.phase
      /\ b.purpose = a.purpose /\ b.fault = a.fault
  BY <1>1 DEF Age, SameOrder, AxisState
<1> HIDE DEF b
<1>4. Fit(b) /\ Alike(a, b)
  BY <1>1, <1>2, <1>3 DEF Alike, Homing, Fit, NormalPart
<1> QED BY <1>2, <1>3, <1>4 DEF b

\* Nor is the end of a pulse, well or badly, before service() looks at it.
LEMMA PulseAlike ==
  ASSUME NEW a, Fit(a), a.armed,
         NEW b \in {[a EXCEPT !.armed = FALSE, !.completed = a.completed + 1],
                    [a EXCEPT !.armed = FALSE, !.schedFault = TRUE]}
  PROVE  Fit(b) /\ Alike(a, b) /\ b.fault = a.fault /\ ~Resting(a)
<1>1. a \in AxisState /\ Sane(a, 1) /\ NormalPart(a)
  BY DEF Fit
<1>2. b \in AxisState
  <2>1. a.completed + 1 \in Nat
    BY <1>1 DEF AxisState
  <2>2. \A n \in Nat :
          /\ [a EXCEPT !.armed = FALSE, !.completed = n] \in AxisState
          /\ [a EXCEPT !.armed = FALSE, !.schedFault = TRUE] \in AxisState
    BY <1>1, ZenonT(60) DEF AxisState
  <2> QED BY <2>1, <2>2
<1>3. /\ SameOrder(a, b) /\ b.moving = a.moving /\ b.trusted = a.trusted
      /\ b.enabled = a.enabled /\ b.phase = a.phase
      /\ b.purpose = a.purpose /\ b.fault = a.fault
      /\ b.homed = a.homed /\ b.lossReason = a.lossReason
      /\ b.outputs = a.outputs /\ b.connected = a.connected
      /\ b.status = a.status /\ b.stepHigh = a.stepHigh
      /\ b.target = a.target /\ b.position = a.position
      /\ b.direction = a.direction
  <2>1. CASE b = [a EXCEPT !.armed = FALSE, !.completed = a.completed + 1]
    BY <1>1, <2>1 DEF SameOrder, AxisState
  <2>2. CASE b = [a EXCEPT !.armed = FALSE, !.schedFault = TRUE]
    BY <1>1, <2>2 DEF SameOrder, AxisState
  <2> QED BY <2>1, <2>2
<1>4. Sane(b, 1)
  <2>1. PulsePart(a) /\ a.armed
    BY <1>1 DEF Sane
  <2>2. a.moving /\ b.moving
    BY <1>3, <2>1 DEF PulsePart
  <2>3. TrustPart(b) /\ PowerPart(b)
    BY <1>1, <1>3, <2>2 DEF Sane, TrustPart, PowerPart
  <2>4. AheadPart(b)
    BY <1>1, <1>3, <2>2, Zenon DEF Sane, AheadPart
  <2> QED BY <2>2, <2>3, <2>4 DEF Sane, PulsePart, DrivenPart
<1>5. ~Resting(a)
  BY <1>1 DEF Sane, PulsePart, Resting
<1> QED BY <1>1, <1>2, <1>3, <1>4, <1>5
    DEF Alike, Homing, Fit, NormalPart

-----------------------------------------------------------------------------
(* service(), as a caller sees it *)

\* A homing goes on with its next part,
GoesOn(a, b) ==
  /\ Homing(a) /\ Homing(b) /\ b.moving /\ b.enabled /\ ~b.trusted
  /\ b.lastCompleted \in {a.lastCompleted, a.activeId}

\* or the axis is at rest at the end of it.
ComesToRest(a, b) ==
  /\ ~b.moving
  /\ \/ b.lastCompleted = a.lastCompleted
     \/ (a.moving \/ Homing(a)) /\ b.lastCompleted = a.activeId
  /\ Homing(b) => Homing(a) /\ ~b.trusted
  /\ b.enabled => a.enabled \/ Homing(a)
  /\ b.trusted => \/ a.trusted /\ (a.moving => b.lastCompleted = a.activeId)
                  \/ Homing(a) /\ ~Homing(b) /\ b.lastCompleted = a.activeId

\* What service() does to an axis.
Serves(a, b) ==
  /\ b.activeId = a.activeId
  /\ Alike(a, b) \/ GoesOn(a, b) \/ ComesToRest(a, b)

\* A normal move that ends short of its target has a fault to show for it.
ShortFaults == {"motion_timeout", "unexpected_home_switch",
                "driver_communication"}

Explained(a, b) ==
  a.moving /\ a.purpose = "normal" /\ ~b.moving /\ b.lastCompleted # a.activeId
    => b.fault \in ShortFaults

\* The part of service() up to the homing step.  What was under way goes on,
Continues(a, b) == Alike(a, b) /\ b.phase = a.phase /\ b.purpose = a.purpose

\* is done,
Fulfils(a, b) ==
  /\ a.moving /\ ~b.moving /\ b.activeId = a.activeId
  /\ b.lastCompleted = a.activeId /\ b.trusted = a.trusted
  /\ b.enabled = a.enabled /\ b.phase = a.phase

\* or has been broken off, the axis being switched off.
Counted(a, b) ==
  /\ Fit(b)
  /\ \/ Continues(a, b)
     \/ Fulfils(a, b)
     \/ /\ Broken(a, b) /\ b.fault \in ShortFaults
        /\ b.phase \notin LivePhases /\ Resting(b)

\* Counting one pulse.
LEMMA CreditPulseCounts ==
  ASSUME NEW a, Fit(a), a.moving, NEW armOk \in BOOLEAN
  PROVE  LET b == CreditPulse(a, armOk)
         IN  /\ Fit(b)
             /\ \/ Continues(a, b) \/ Fulfils(a, b)
                \/ Broken(a, b) /\ b.fault = "driver_communication"
                   /\ Resting(b)
<1> DEFINE b == CreditPulse(a, armOk)
           p == a.position + a.direction
           moved == [a EXCEPT !.position = p]
           next == [moved EXCEPT !.armed = HasScheduler, !.stepHigh = FALSE]
           lost == ArmFailed(moved)
<1>1. a \in AxisState /\ Sane(a, 1) /\ NormalPart(a)
  BY DEF Fit
<1>2. b \in AxisState /\ Sane(b, 1)
  BY <1>1, CreditPulseSane
<1>3. moved \in AxisState
  <2>1. p \in Int
    BY <1>1 DEF AxisState
  <2> HIDE DEF p
  <2> QED BY <1>1, <2>1, ZenonT(60) DEF AxisState
<1>4. /\ SameOrder(a, moved) /\ moved.moving = a.moving
      /\ moved.trusted = a.trusted /\ moved.enabled = a.enabled
      /\ moved.phase = a.phase /\ moved.purpose = a.purpose
  BY <1>1 DEF SameOrder, AxisState
<1>5. \/ b = Finish(moved) \/ b = next
      \/ b = Fail(lost, "driver_communication", "driver_fault")
  BY ZenonT(60) DEF CreditPulse
<1> HIDE DEF b, moved
<1> SUFFICES /\ Fit(b)
             /\ \/ Continues(a, b) \/ Fulfils(a, b)
                \/ Broken(a, b) /\ b.fault = "driver_communication"
                   /\ Resting(b)
  BY DEF b
<1>6. CASE b = Finish(moved)
  <2>1. /\ ~Finish(moved).moving /\ Finish(moved).activeId = moved.activeId
        /\ Finish(moved).lastCompleted = moved.activeId
        /\ Finish(moved).trusted = moved.trusted
        /\ Finish(moved).enabled = moved.enabled
        /\ Finish(moved).phase = moved.phase
    BY <1>3 DEF Finish, StopPulses, AxisState
  <2> QED BY <1>1, <1>2, <1>4, <1>6, <2>1
      DEF Fulfils, SameOrder, Fit, NormalPart
<1>7. CASE b = next
  <2>1. /\ SameOrder(moved, next) /\ next.moving = moved.moving
        /\ next.trusted = moved.trusted /\ next.enabled = moved.enabled
        /\ next.phase = moved.phase /\ next.purpose = moved.purpose
    BY <1>3 DEF SameOrder, AxisState
  <2> HIDE DEF next
  <2> QED BY <1>1, <1>2, <1>4, <1>7, <2>1
      DEF Continues, Alike, SameOrder, Homing, Fit, NormalPart
<1>8. CASE b = Fail(lost, "driver_communication", "driver_fault")
  <2>1. lost \in AxisState /\ SameOrder(moved, lost)
    BY <1>3, ArmFailedType DEF ArmFailed, SameOrder, AxisState
  <2> HIDE DEF lost
  <2>2. /\ Fit(b) /\ Resting(b) /\ Broken(lost, b)
        /\ b.fault = "driver_communication"
    BY <1>8, <2>1, FailBreaks DEF AxisFaults, TrustLosses
  <2> QED BY <1>4, <2>1, <2>2 DEF Broken, SameOrder
<1> QED BY <1>5, <1>6, <1>7, <1>8

\* The part of service() before the pulses are counted.
LEMMA ServiceEntryCounts ==
  ASSUME NEW a, Fit(a), NEW raw \in BOOLEAN
  PROVE  /\ Counted(a, ServiceEntry(a, raw))
         /\ Resting(a) => Resting(ServiceEntry(a, raw))
<1> DEFINE seen == UpdateSwitch(a, raw)
           b == ServiceEntry(a, raw)
           late == Fail(seen, "motion_timeout", "motion_timeout")
           met == Fail(seen, "unexpected_home_switch", "suspected_missed_step")
           f == Fail(seen, "driver_communication", "driver_fault")
           broken == [f EXCEPT !.schedFault = FALSE]
<1>1. a \in AxisState /\ Sane(a, 1) /\ NormalPart(a)
  BY DEF Fit
<1>2. b \in AxisState /\ Sane(b, 1) /\ (Resting(a) => Resting(b))
  BY <1>1, ServiceEntrySane
<1>3. b = late \/ b = met \/ b = broken \/ b = seen
  BY ZenonT(60) DEF ServiceEntry
<1>4. /\ seen \in AxisState /\ SameOrder(a, seen)
      /\ seen.moving = a.moving /\ seen.trusted = a.trusted
      /\ seen.enabled = a.enabled /\ seen.phase = a.phase
      /\ seen.purpose = a.purpose
  <2>1. seen \in AxisState
    BY <1>1, UpdateSwitchType
  <2>2. /\ SameOrder(a, seen) /\ seen.moving = a.moving
        /\ seen.trusted = a.trusted /\ seen.enabled = a.enabled
        /\ seen.phase = a.phase /\ seen.purpose = a.purpose
    BY <1>1 DEF UpdateSwitch, SameOrder, AxisState
  <2> QED BY <2>1, <2>2
<1> HIDE DEF b, seen
<1>5. /\ Fit(late) /\ Resting(late) /\ Broken(seen, late)
      /\ late.fault = "motion_timeout"
      /\ Fit(met) /\ Resting(met) /\ Broken(seen, met)
      /\ met.fault = "unexpected_home_switch"
      /\ Fit(f) /\ Resting(f) /\ Broken(seen, f)
      /\ f.fault = "driver_communication"
  BY <1>4, FailBreaks DEF AxisFaults, TrustLosses
<1> HIDE DEF late, met, f
<1>6. /\ Resting(broken) /\ Broken(seen, broken)
      /\ broken.fault = "driver_communication"
  <2>1. /\ SameOrder(f, broken) /\ broken.moving = f.moving
        /\ broken.trusted = f.trusted /\ broken.enabled = f.enabled
        /\ broken.phase = f.phase /\ broken.outputs = f.outputs
        /\ broken.fault = f.fault
    BY <1>5 DEF Fit, AxisState, SameOrder
  <2> HIDE DEF broken
  <2> QED BY <1>5, <2>1 DEF Resting, Broken, SameOrder, Homing
<1> HIDE DEF broken
<1>7. CASE b = seen
  BY <1>1, <1>2, <1>4, <1>7
     DEF Counted, Continues, Alike, Homing, Fit, NormalPart, b
<1>8. CASE b = late \/ b = met \/ b = broken
  <2>1. /\ Resting(b) /\ Broken(seen, b) /\ b.fault \in ShortFaults
    BY <1>5, <1>6, <1>8 DEF ShortFaults
  <2>2. Broken(a, b)
    BY <1>4, <2>1 DEF Broken, SameOrder
  <2>3. b.phase \notin LivePhases /\ NormalPart(b)
    BY <2>1 DEF Resting, NormalPart
  <2> QED BY <1>2, <2>1, <2>2, <2>3 DEF Counted, Fit, b
<1> QED BY <1>3, <1>7, <1>8

\* Counting all the pulses there are.
LEMMA CreditPulsesCounts ==
  ASSUME NEW a, Fit(a), NEW armOk \in BOOLEAN
  PROVE  /\ Counted(a, CreditPulses(a, armOk))
         /\ Resting(a) => Resting(CreditPulses(a, armOk))
<1> DEFINE V == {v \in AxisState : /\ Counted(a, v)
                                   /\ Resting(a) => Resting(v)}
           c == [a EXCEPT !.completed = 0]
<1>1. a \in AxisState /\ Sane(a, 1) /\ NormalPart(a) /\ a.completed \in Nat
  BY DEF Fit, AxisState
<1>2. c \in V
  <2>1. c \in AxisState
    BY <1>1, ZenonT(60) DEF AxisState
  <2>2. Sane(c, 1)
    <3>1. TrustPart(c) /\ PowerPart(c) /\ PulsePart(c) /\ DrivenPart(c, 1)
      BY <1>1 DEF Sane, TrustPart, PowerPart, PulsePart, DrivenPart, AxisState
    <3>2. /\ c.moving = a.moving /\ c.target = a.target
          /\ c.position = a.position /\ c.direction = a.direction
      BY <1>1 DEF AxisState
    <3> HIDE DEF c
    <3>3. AheadPart(c)
      BY <1>1, <3>2, Zenon DEF Sane, AheadPart
    <3> QED BY <3>1, <3>3 DEF Sane
  <2>3. /\ SameOrder(a, c) /\ c.moving = a.moving /\ c.trusted = a.trusted
        /\ c.enabled = a.enabled /\ c.phase = a.phase
        /\ c.purpose = a.purpose /\ c.outputs = a.outputs
    BY <1>1 DEF SameOrder, AxisState
  <2> HIDE DEF c
  <2> QED BY <1>1, <2>1, <2>2, <2>3
          DEF Counted, Continues, Alike, Homing, Fit, NormalPart, Resting
<1>3. ASSUME NEW v \in V, v.moving
      PROVE  CreditPulse(v, armOk) \in V
  <2> DEFINE w == CreditPulse(v, armOk)
  <2>1. Fit(v) /\ Continues(a, v) /\ ~Resting(a)
    BY <1>3 DEF Counted, Fulfils, Broken, Resting, Continues, Alike
  <2>2. /\ Fit(w)
        /\ \/ Continues(v, w) \/ Fulfils(v, w)
           \/ Broken(v, w) /\ w.fault = "driver_communication" /\ Resting(w)
    BY <1>3, <2>1, CreditPulseCounts
  <2> HIDE DEF w
  <2>3. w \in AxisState
    BY <2>2 DEF Fit
  <2>4. Counted(a, w)
    <3>1. CASE Continues(v, w)
      BY <2>1, <2>2, <3>1 DEF Counted, Continues, Alike, SameOrder
    <3>2. CASE Fulfils(v, w)
      BY <1>3, <2>1, <2>2, <3>2
         DEF Counted, Continues, Fulfils, Alike, SameOrder
    <3>3. CASE /\ Broken(v, w) /\ w.fault = "driver_communication"
               /\ Resting(w)
      BY <2>1, <2>2, <3>3
         DEF Counted, Continues, Broken, Alike, SameOrder, Resting, ShortFaults
    <3> QED BY <2>2, <3>1, <3>2, <3>3
  <2> QED BY <2>1, <2>3, <2>4 DEF w
<1>4. CreditPulses(a, armOk) \in V
  <2> HIDE DEF V
  <2> QED BY <1>1, <1>2, <1>3, CreditPulsesKeeps
<1> QED BY <1>4

\* The homing step begins the next leg,
LegBegun(a, b) ==
  /\ Homing(b) /\ b.moving /\ b.enabled /\ ~b.trusted
  /\ b.purpose # "normal"
  /\ b.activeId = a.activeId /\ b.lastCompleted = a.lastCompleted

\* fails to,
LegFailed(a, b) ==
  /\ ~b.moving /\ ~b.trusted /\ ~b.enabled /\ ~Homing(b)
  /\ b.activeId = a.activeId /\ b.lastCompleted = a.lastCompleted

\* or is the last.
Arrived(a, b) ==
  /\ ~b.moving /\ ~Homing(b) /\ b.enabled = a.enabled
  /\ b.activeId = a.activeId /\ b.lastCompleted = a.activeId

\* A leg begins, or its failure switches the axis off.
LEMMA HomingMoveLeg ==
  ASSUME NEW a \in AxisState, ~a.moving, ~a.trusted,
         NEW phase \in LivePhases, NEW purpose \in Purposes,
         purpose # "normal", NEW steps \in Int, steps # 0, NEW armOk \in BOOLEAN
  PROVE  LET b == HomingMove(a, phase, purpose, steps, armOk)
         IN  LegBegun(a, b) \/ LegFailed(a, b)
<1> DEFINE s == [a EXCEPT !.phase = phase]
           far == a.position + HomeSide * steps
           out == StartLeg(s, far, purpose, a.activeId, armOk)
<1>1. /\ s.moving = a.moving /\ s.trusted = a.trusted /\ s.phase = phase
      /\ SameOrder(a, s) /\ s.position = a.position
  BY DEF SameOrder, AxisState
<1>2. s \in AxisState
  <2>1. phase \in Phases
    BY DEF Phases
  <2> QED BY <2>1, ZenonT(60) DEF AxisState
<1>3. far \in Int /\ far # a.position
  BY ConfigAssumption DEF AxisState
<1>4. HomingMove(a, phase, purpose, steps, armOk) = out.axis
  BY ZenonT(60) DEF HomingMove, StartLeg
<1>5. a.activeId \in Nat
  BY DEF AxisState
<1> HIDE DEF s, far
<1>6. \/ LetGo(s, out.axis, a.activeId)
      \/ /\ out.axis.moving /\ out.axis.purpose = purpose
         /\ out.axis.enabled /\ out.axis.trusted = s.trusted
         /\ out.axis.phase = s.phase /\ out.axis.activeId = a.activeId
         /\ out.axis.lastCompleted = s.lastCompleted
  BY <1>1, <1>2, <1>3, <1>5, LegStarts
<1> QED BY <1>1, <1>4, <1>6
        DEF LegBegun, LegFailed, LetGo, SameOrder, Homing

\* service_homing() does one of the three or nothing, and nothing outside a
\* homing.
LEMMA ServiceHomingLegs ==
  ASSUME NEW a, Fit(a), NEW armOk \in BOOLEAN
  PROVE  LET b == ServiceHoming(a, armOk)
         IN  /\ Fit(b)
             /\ ~Homing(a) => b = a
             /\ b = a \/ LegBegun(a, b) \/ LegFailed(a, b) \/ Arrived(a, b)
<1> DEFINE b == ServiceHoming(a, armOk)
           halted == StopPulses(a)
           back == HomingMove(halted, "backoff", "homing_backoff",
                              -Steps(a, Backoff), armOk)
           slow == HomingMove(a, "slow_approach", "homing_slow",
                              2 * Steps(a, Backoff), armOk)
<1>1. a \in AxisState /\ Sane(a, 1) /\ NormalPart(a)
  BY DEF Fit
<1>2. b \in AxisState /\ Sane(b, 1)
  BY <1>1, ServiceHomingSane
<1>3. ~Homing(a) => b = a
  BY DEF ServiceHoming, Homing
<1>4. CASE b = a
  BY <1>4
<1>5. CASE Homing(a)
  <2>1. ~a.trusted
    BY <1>1, <1>5 DEF Sane, TrustPart, Homing, LivePhases
  <2>2. Steps(a, Backoff) \in Nat \ {0}
    <3>1. a.microsteps \in Nat \ {0} /\ Backoff \in Nat \ {0}
      BY <1>1, ConfigAssumption DEF AxisState
    <3>2. \A x, y \in Nat \ {0} : x * y \in Nat \ {0}
      OBVIOUS
    <3> QED BY <3>1, <3>2 DEF Steps
  <2>3. /\ halted \in AxisState /\ ~halted.moving /\ ~halted.trusted
        /\ SameOrder(a, halted)
    <3>1. halted \in AxisState
      BY <1>1, StopPulsesType
    <3>2. /\ ~halted.moving /\ halted.trusted = a.trusted
          /\ SameOrder(a, halted)
      BY <1>1 DEF StopPulses, SameOrder, AxisState
    <3> QED BY <2>1, <3>1, <3>2
  <2>4. \/ \E fault \in AxisFaults : b = Fail(a, fault, "homing_failed")
        \/ b = back
        \/ ~a.moving /\ b = slow
        \/ b = ApplyOffset(a)
        \/ b = a
    BY <1>5 DEF ServiceHoming, AxisFaults, Homing
  <2> HIDE DEF b, halted
  <2> SUFFICES b = a \/ LegBegun(a, b) \/ LegFailed(a, b) \/ Arrived(a, b)
    BY <1>1, <1>2, <1>3
       DEF Fit, NormalPart, LegBegun, LegFailed, Arrived, b
  <2>5. ASSUME NEW fault \in AxisFaults, b = Fail(a, fault, "homing_failed")
        PROVE  LegFailed(a, b)
    <3>1. Broken(a, b)
      BY <1>1, <2>5, FailBreaks DEF TrustLosses
    <3> QED BY <3>1 DEF Broken, SameOrder, LegFailed
  <2>6. CASE b = back
    <3>1. -Steps(a, Backoff) \in Int /\ -Steps(a, Backoff) # 0
      BY <2>2
    <3>2. "backoff" \in LivePhases /\ "homing_backoff" \in Purposes
      BY DEF LivePhases, Purposes
    <3> HIDE DEF Steps
    <3>3. LegBegun(halted, b) \/ LegFailed(halted, b)
      BY <2>3, <2>6, <3>1, <3>2, HomingMoveLeg
    <3> QED BY <2>3, <3>3 DEF SameOrder, LegBegun, LegFailed
  <2>7. CASE ~a.moving /\ b = slow
    <3>1. 2 * Steps(a, Backoff) \in Int /\ 2 * Steps(a, Backoff) # 0
      BY <2>2
    <3>2. "slow_approach" \in LivePhases /\ "homing_slow" \in Purposes
      BY DEF LivePhases, Purposes
    <3> HIDE DEF Steps
    <3> QED BY <1>1, <2>1, <2>7, <3>1, <3>2, HomingMoveLeg
  <2>8. CASE b = ApplyOffset(a)
    <3>1. LET x == ApplyOffset(a)
          IN  /\ ~x.moving /\ x.phase = "complete" /\ x.enabled = a.enabled
              /\ x.activeId = a.activeId /\ x.lastCompleted = a.activeId
      BY <1>1 DEF ApplyOffset, StopPulses, AxisState
    <3> QED BY <2>8, <3>1 DEF Arrived, Homing, LivePhases
  <2> QED BY <2>4, <2>5, <2>6, <2>7, <2>8
<1> QED BY <1>3, <1>4, <1>5

\* The whole of service().
LEMMA ServiceServes ==
  ASSUME NEW a, Fit(a), NEW raw \in BOOLEAN, NEW armOk \in BOOLEAN
  PROVE  LET b == Service(a, raw, armOk)
         IN  /\ Fit(b) /\ Serves(a, b) /\ Explained(a, b)
             /\ Resting(a) => Resting(b)
<1> DEFINE b == Service(a, raw, armOk)
           checked == ServiceEntry(a, raw)
           m == IF checked = UpdateSwitch(a, raw)
                  THEN CreditPulses(checked, armOk) ELSE checked
<1>1. b = ServiceHoming(m, armOk)
  BY ZenonT(60) DEF Service
<1>2. Counted(a, checked) /\ (Resting(a) => Resting(checked))
  BY ServiceEntryCounts
<1> HIDE DEF checked
<1>3. Counted(a, m) /\ (Resting(a) => Resting(m))
  <2>1. CASE checked # UpdateSwitch(a, raw)
    BY <1>2, <2>1
  <2>2. CASE checked = UpdateSwitch(a, raw)
    <3> DEFINE n == CreditPulses(checked, armOk)
    <3>1. m = n
      BY <2>2
    <3>2. Fit(checked)
      BY <1>2 DEF Counted
    <3>3. Counted(checked, n) /\ (Resting(checked) => Resting(n))
      BY <3>2, CreditPulsesCounts
    <3> HIDE DEF n, m
    <3>4. /\ checked.moving = a.moving /\ checked.trusted = a.trusted
          /\ checked.enabled = a.enabled /\ checked.phase = a.phase
          /\ checked.purpose = a.purpose /\ SameOrder(a, checked)
      <4>1. a \in AxisState
        BY DEF Fit
      <4>2. a.moving = UpdateSwitch(a, raw).moving
            /\ a.trusted = UpdateSwitch(a, raw).trusted
            /\ a.enabled = UpdateSwitch(a, raw).enabled
            /\ a.phase = UpdateSwitch(a, raw).phase
            /\ a.purpose = UpdateSwitch(a, raw).purpose
            /\ SameOrder(a, UpdateSwitch(a, raw))
        BY <4>1 DEF UpdateSwitch, SameOrder, AxisState
      <4> QED BY <2>2, <4>2
    <3>5. Counted(a, n)
      BY <3>3, <3>4 DEF Counted, Continues, Fulfils, Broken, Alike,
         SameOrder, Homing
    <3> QED BY <1>2, <3>1, <3>3, <3>5
  <2> QED BY <2>1, <2>2
<1> HIDE DEF m
<1>4. /\ Fit(b)
      /\ ~Homing(m) => b = m
      /\ b = m \/ LegBegun(m, b) \/ LegFailed(m, b) \/ Arrived(m, b)
  BY <1>1, <1>3, ServiceHomingLegs DEF Counted
<1>5. Resting(a) => Resting(b)
  BY <1>3, <1>4 DEF Resting, Homing
<1>6. a \in AxisState /\ Sane(a, 1) /\ NormalPart(a)
  BY DEF Fit
<1> HIDE DEF b
<1> SUFFICES Serves(a, b) /\ Explained(a, b)
  BY <1>4, <1>5 DEF b
<1>7. (a.trusted => ~Homing(a)) /\ (a.moving => a.enabled)
  BY <1>6 DEF Sane, TrustPart, PowerPart, Homing, LivePhases
<1>8. CASE Continues(a, m)
  <2>1. Serves(a, b)
    BY <1>4, <1>7, <1>8 DEF Continues, Alike, SameOrder, Serves, GoesOn,
       ComesToRest, LegBegun, LegFailed, Arrived
  <2>2. Explained(a, b)
    BY <1>4, <1>6, <1>7, <1>8 DEF Continues, Alike, Explained, NormalPart
  <2> QED BY <2>1, <2>2
<1>9. CASE Fulfils(a, m)
  <2>0. Homing(m) = Homing(a)
    BY <1>9 DEF Fulfils, Homing
  <2>1. Serves(a, b)
    BY <1>4, <1>7, <1>9, <2>0 DEF Fulfils, Serves, GoesOn,
       ComesToRest, LegBegun, LegFailed, Arrived
  <2>2. Explained(a, b)
    BY <1>4, <1>6, <1>7, <1>9, <2>0 DEF Fulfils, Explained, NormalPart
  <2> QED BY <2>1, <2>2
<1>10. CASE Broken(a, m) /\ m.fault \in ShortFaults
  <2>1. b = m
    BY <1>4, <1>10 DEF Broken
  <2> QED BY <1>10, <2>1 DEF Broken, SameOrder, Serves, ComesToRest, Explained
<1> QED BY <1>3, <1>8, <1>9, <1>10 DEF Counted

-----------------------------------------------------------------------------
(* What the handlers for both axes are made of *)

\* MotionIsReported and AxisFaultIsReported
Honest(c) ==
  \A ax \in Axes : /\ c.axes[ax].moving => c.state.axes[ax].moving
                   /\ c.axes[ax].fault # "none" => c.state.fault # "none"

\* What synchronize_state() copied is what there is.
Current(c) ==
  /\ c.latched => c.state.fault = "emergency_stop"
  /\ \A ax \in Axes : c.state.axes[ax] = Seen(c.axes[ax])

\* The fields of a controller have their types.
LEMMA Fields ==
  ASSUME NEW c \in ControllerState
  PROVE  /\ c.axes \in [Axes -> AxisState]
         /\ c.initialized \in BOOLEAN /\ c.coordinated \in BOOLEAN
         /\ c.latched \in BOOLEAN /\ c.input \in Input
         /\ c.state \in Reported
BY Zenon DEF ControllerState

\* Putting an axis in its place changes that axis alone.
LEMMA WithAxisFields ==
  ASSUME NEW c \in ControllerState, NEW ax \in Axes, NEW a \in AxisState
  PROVE  LET d == WithAxis(c, ax, a)
         IN  /\ d \in ControllerState
             /\ d.axes = [c.axes EXCEPT ![ax] = a]
             /\ d.initialized = c.initialized /\ d.coordinated = c.coordinated
             /\ d.latched = c.latched /\ d.input = c.input
             /\ d.state = c.state
<1> DEFINE axes == [c.axes EXCEPT ![ax] = a]
           d == [c EXCEPT !.axes = axes]
<1>1. axes \in [Axes -> AxisState]
  BY Fields
<1>2. WithAxis(c, ax, a) = d
  BY DEF WithAxis
<1>3. d \in ControllerState
  <2> HIDE DEF axes
  <2> QED BY <1>1, ZenonT(60) DEF ControllerState
<1>4. /\ d.axes = axes
      /\ d.initialized = c.initialized /\ d.coordinated = c.coordinated
      /\ d.latched = c.latched /\ d.input = c.input /\ d.state = c.state
  <2> HIDE DEF axes
  <2> QED BY DEF ControllerState
<1> HIDE DEF d
<1> QED BY <1>2, <1>3, <1>4

\* report_fault() changes the fault of state_ alone.
LEMMA ReportFaultFields ==
  ASSUME NEW c \in ControllerState, NEW fault \in Faults
  PROVE  LET d == ReportFault(c, fault)
         IN  /\ d \in ControllerState
             /\ d.axes = c.axes
             /\ d.initialized = c.initialized /\ d.coordinated = c.coordinated
             /\ d.latched = c.latched /\ d.input = c.input
             /\ d.state.axes = c.state.axes /\ d.state.fault = fault
             /\ d.state.estop = c.state.estop
<1> DEFINE state == [c.state EXCEPT !.fault = fault]
           d == [c EXCEPT !.state = state]
<1>1. state \in Reported
  <2>1. c.state \in Reported
    BY Fields
  <2> QED BY <2>1, ZenonT(60) DEF Reported
<1>2. ReportFault(c, fault) = d
  BY DEF ReportFault
<1>3. d \in ControllerState
  <2> HIDE DEF state
  <2> QED BY <1>1, ZenonT(60) DEF ControllerState
<1>4. /\ d.axes = c.axes /\ d.state = state
      /\ d.initialized = c.initialized /\ d.coordinated = c.coordinated
      /\ d.latched = c.latched /\ d.input = c.input
  <2> HIDE DEF state
  <2> QED BY DEF ControllerState
<1>5. /\ state.axes = c.state.axes /\ state.fault = fault
      /\ state.estop = c.state.estop
  <2>1. c.state \in Reported
    BY Fields
  <2> QED BY <2>1 DEF Reported
<1> HIDE DEF d, state
<1> QED BY <1>2, <1>3, <1>4, <1>5

\* synchronize_state() changes state_ alone, and makes it honest.
LEMMA SynchronizeFields ==
  ASSUME NEW c \in ControllerState
  PROVE  LET d == Synchronize(c)
         IN  /\ d \in ControllerState /\ Honest(d) /\ Current(d)
             /\ d.axes = c.axes
             /\ d.initialized = c.initialized /\ d.coordinated = c.coordinated
             /\ d.latched = c.latched /\ d.input = c.input
             /\ d.state.estop = c.latched
<1> DEFINE fault == IF c.latched THEN "emergency_stop"
                    ELSE IF ActiveAxisFault(c) # "none" THEN ActiveAxisFault(c)
                    ELSE c.state.fault
           shown == [ax \in Axes |-> Seen(c.axes[ax])]
           still == c.latched \/ (~AnyMoving(c) /\ fault = "stopped")
           state == [axes |-> shown, fault |-> fault, stopped |-> still,
                     estop |-> c.latched]
           d == [c EXCEPT !.state = state]
<1>1. /\ c.axes \in [Axes -> AxisState] /\ c.latched \in BOOLEAN
      /\ c.state.fault \in Faults
  <2>1. c.state \in Reported
    BY Fields
  <2> QED BY <2>1, Fields DEF Reported
<1>2. ActiveAxisFault(c) \in Faults
  BY <1>1 DEF ActiveAxisFault, Axes, AxisState, Faults
<1>3. fault \in Faults
  <2>1. "emergency_stop" \in Faults
    BY DEF Faults, AxisFaults
  <2> HIDE DEF ActiveAxisFault
  <2> QED BY <1>1, <1>2, <2>1
<1>4. shown \in [Axes -> SeenAxis]
  <2>1. ASSUME NEW a \in AxisState PROVE Seen(a) \in SeenAxis
    BY ZenonT(60) DEF Seen, SeenAxis, AxisState
  <2> QED BY <1>1, <2>1
<1>5. state \in Reported
  <2>1. still \in BOOLEAN
    BY <1>1
  <2> HIDE DEF shown, fault, still
  <2> QED BY <1>1, <1>3, <1>4, <2>1, Zenon DEF Reported
<1>6. Synchronize(c) = d
  BY ZenonT(60) DEF Synchronize
<1>7. d \in ControllerState
  <2> HIDE DEF state
  <2> QED BY <1>5, ZenonT(60) DEF ControllerState
<1>8. /\ d.axes = c.axes /\ d.state = state
      /\ d.initialized = c.initialized /\ d.coordinated = c.coordinated
      /\ d.latched = c.latched /\ d.input = c.input
  <2> HIDE DEF state
  <2> QED BY DEF ControllerState
<1>9. state.axes = shown /\ state.fault = fault /\ state.estop = c.latched
  <2> HIDE DEF shown, fault, still
  <2> QED OBVIOUS
<1>10. ASSUME NEW ax \in Axes
       PROVE  /\ shown[ax].moving = c.axes[ax].moving
              /\ c.axes[ax].fault # "none" => fault # "none"
  <2>1. shown[ax].moving = c.axes[ax].moving
    BY DEF Seen
  <2>2. c.axes[ax].fault # "none" => ActiveAxisFault(c) # "none"
    BY DEF ActiveAxisFault, Axes
  <2> QED BY <2>1, <2>2
<1>11. c.latched => fault = "emergency_stop"
  OBVIOUS
<1>12. \A ax \in Axes : shown[ax] = Seen(c.axes[ax])
  OBVIOUS
<1> HIDE DEF d, state, shown, fault
<1>13. Honest(d) /\ Current(d)
  BY <1>8, <1>9, <1>10, <1>11, <1>12 DEF Honest, Current
<1> QED BY <1>6, <1>7, <1>8, <1>9, <1>13

\* update_emergency_input() changes the input alone.
LEMMA UpdateEmergencyFields ==
  ASSUME NEW c \in ControllerState, NEW raw \in BOOLEAN
  PROVE  LET d == UpdateEmergency(c, raw)
         IN  /\ d \in ControllerState
             /\ d.axes = c.axes
             /\ d.initialized = c.initialized /\ d.coordinated = c.coordinated
             /\ d.latched = c.latched /\ d.state = c.state
             /\ d.input.stable \in BOOLEAN
             /\ ~c.input.known => d.input.stable = raw
<1> DEFINE in == c.input
           settled == ~in.known
                      \/ (raw = in.candidate /\ in.age = EmergencyDebounce)
           stable == IF settled THEN raw ELSE in.stable
           age == IF raw # in.candidate \/ settled THEN 0 ELSE in.age
           input == [known |-> TRUE, candidate |-> raw, stable |-> stable,
                     age |-> age]
           d == [c EXCEPT !.input = input]
<1>1. in \in Input
  BY Fields
<1>2. /\ stable \in BOOLEAN /\ age \in 0 .. EmergencyDebounce
      /\ ~c.input.known => stable = raw
  BY <1>1, EmergencyAssumption DEF Input
<1>3. UpdateEmergency(c, raw) = d
  BY ZenonT(60) DEF UpdateEmergency
<1> HIDE DEF stable, age
<1>4. input \in Input /\ input.stable = stable
  BY <1>2, Zenon DEF Input
<1> HIDE DEF input
<1>5. d \in ControllerState
  BY <1>4, ZenonT(60) DEF ControllerState
<1>6. /\ d.axes = c.axes /\ d.state = c.state
      /\ d.initialized = c.initialized /\ d.coordinated = c.coordinated
      /\ d.latched = c.latched /\ d.input = input
  BY DEF ControllerState
<1> HIDE DEF d
<1> QED BY <1>2, <1>3, <1>4, <1>5, <1>6

\* A handler may end what the axes were doing together, and lock them.
Parted(c, axes, fault) ==
  [c EXCEPT !.axes = axes, !.coordinated = FALSE, !.state.fault = fault]

Locked(c, latched, axes, fault) ==
  [c EXCEPT !.latched = latched, !.coordinated = FALSE, !.axes = axes,
            !.state.fault = fault]

\* Then the axes are no longer coordinated,
LEMMA PartedFields ==
  ASSUME NEW c \in ControllerState, NEW axes \in [Axes -> AxisState],
         NEW fault \in Faults, NEW d, d = Parted(c, axes, fault)
  PROVE  /\ d \in ControllerState /\ d.axes = axes /\ ~d.coordinated
         /\ d.initialized = c.initialized /\ d.latched = c.latched
<1> DEFINE state == [c.state EXCEPT !.fault = fault]
           e == [c EXCEPT !.axes = axes, !.coordinated = FALSE,
                          !.state = state]
<1>1. state \in Reported
  <2>1. c.state \in Reported
    BY Fields
  <2> QED BY <2>1, ZenonT(60) DEF Reported
<1>2. d = e
  BY DEF Parted, ControllerState
<1> HIDE DEF state
<1>3. e \in ControllerState
  BY <1>1, ZenonT(60) DEF ControllerState
<1>4. /\ e.axes = axes /\ ~e.coordinated
      /\ e.initialized = c.initialized /\ e.latched = c.latched
  BY DEF ControllerState
<1> HIDE DEF e
<1> QED BY <1>2, <1>3, <1>4

\* and locked if they are to be.
LEMMA LockedFields ==
  ASSUME NEW c \in ControllerState, NEW axes \in [Axes -> AxisState],
         NEW fault \in Faults, NEW latched \in BOOLEAN,
         NEW d, d = Locked(c, latched, axes, fault)
  PROVE  /\ d \in ControllerState /\ d.axes = axes /\ ~d.coordinated
         /\ d.initialized = c.initialized /\ d.latched = latched
<1> DEFINE state == [c.state EXCEPT !.fault = fault]
           e == [c EXCEPT !.latched = latched, !.coordinated = FALSE,
                          !.axes = axes, !.state = state]
<1>1. state \in Reported
  <2>1. c.state \in Reported
    BY Fields
  <2> QED BY <2>1, ZenonT(60) DEF Reported
<1>2. d = e
  BY DEF Locked, ControllerState
<1> HIDE DEF state
<1>3. e \in ControllerState
  BY <1>1, ZenonT(60) DEF ControllerState
<1>4. /\ e.axes = axes /\ ~e.coordinated
      /\ e.initialized = c.initialized /\ e.latched = latched
  BY DEF ControllerState
<1> HIDE DEF e
<1> QED BY <1>2, <1>3, <1>4

\* A fresh STATUS tells which axes move and what they have done.
LEMMA SeenFields ==
  ASSUME NEW c, NEW ax \in Axes, c.state.axes[ax] = Seen(c.axes[ax])
  PROVE  /\ c.state.axes[ax].moving = c.axes[ax].moving
         /\ c.state.axes[ax].lastCompleted = c.axes[ax].lastCompleted
BY DEF Seen

-----------------------------------------------------------------------------
(* The ids of an axis, whatever the interrupt of the emergency input does.   *)
(* It drops EN behind the axis's back, after which the axis is no longer     *)
(* Sane; its types and its ids are not touched.  The home switches stay      *)
(* open here: no homing gets past its fast approach.                         *)

Unmet(a) ==
  ~a.switchActive /\ ~a.candidate /\ a.phase \notin {"backoff", "slow_approach"}

\* An axis that knows no id above n.
AxisUpTo(n) ==
  {a \in AxisState : Unmet(a) /\ a.activeId <= n /\ a.lastCompleted <= n}

\* No order is begun: what moves goes on, completes or is broken off with a
\* fault, and what is at rest keeps its fault.
Onward(a, b) ==
  /\ b.activeId = a.activeId
  /\ b.lastCompleted \in {a.lastCompleted, a.activeId}
  /\ b.moving => a.moving
  /\ ~a.moving => /\ b.lastCompleted = a.lastCompleted
                  /\ a.fault # "none" => b.fault # "none"
  /\ a.moving /\ ~b.moving =>
       b.lastCompleted = a.activeId \/ b.fault # "none"

\* The axis is stopped with a fault,
CutShort(a, b) ==
  /\ SameOrder(a, b) /\ ~b.moving /\ b.fault # "none"
  /\ b.switchActive = a.switchActive /\ b.candidate = a.candidate
  /\ b.phase \in {a.phase, "failed"}

\* or its order is not touched.
Untouched(a, b) ==
  /\ SameOrder(a, b) /\ b.moving = a.moving /\ b.fault = a.fault
  /\ b.switchActive = a.switchActive /\ b.candidate = a.candidate
  /\ b.phase = a.phase

\* An accepted order is being carried out or has been already.
CarriesOut(b, id) ==
  b.fault = "none" /\ IF b.moving THEN b.activeId = id ELSE b.lastCompleted = id

\* The outcome of an operation that is given no order, and one that is.
Settles(out, n) ==
  out.axis \in AxisUpTo(n) /\ out.ok \in BOOLEAN /\ out.fault \in Faults

TakesUp(out, id) ==
  Settles(out, id) /\ (out.ok => CarriesOut(out.axis, id))

\* A larger bound admits more.
LEMMA AxisUpToMore ==
  ASSUME NEW n \in Nat, NEW m \in Nat, n <= m
  PROVE  AxisUpTo(n) \subseteq AxisUpTo(m)
BY DEF AxisUpTo, AxisState

LEMMA OnwardSame == \A a : Onward(a, a)
BY DEF Onward

LEMMA OnwardAgain ==
  ASSUME NEW a, NEW b, NEW c, Onward(a, b), Onward(b, c)
  PROVE  Onward(a, c)
BY DEF Onward

LEMMA CutShortOnward ==
  ASSUME NEW n \in Nat, NEW a \in AxisUpTo(n), NEW b \in AxisState,
         CutShort(a, b) \/ Untouched(a, b)
  PROVE  b \in AxisUpTo(n) /\ Onward(a, b)
BY DEF AxisUpTo, CutShort, Untouched, SameOrder, Unmet, Onward

\* fail(), stop() and set_enabled(false) cut short what is under way.
LEMMA FailCuts ==
  ASSUME NEW a \in AxisState, NEW fault \in AxisFaults \ {"none"},
         NEW reason \in TrustLosses
  PROVE  /\ Fail(a, fault, reason) \in AxisState
         /\ CutShort(a, Fail(a, fault, reason))
         /\ Fail(a, fault, reason).fault = fault
<1>1. Fail(a, fault, reason) \in AxisState
  BY FailType
<1>2. CutShort(a, Fail(a, fault, reason)) /\ Fail(a, fault, reason).fault = fault
  BY DEF Fail, Untrust, StopPulses, CutShort, SameOrder, AxisState
<1> QED BY <1>1, <1>2

LEMMA StopCuts ==
  ASSUME NEW a \in AxisState
  PROVE  Stop(a) \in AxisState /\ CutShort(a, Stop(a))
<1> DEFINE b == StopPulses(a)
           u == Untrust(b, "stopped")
<1>1. b \in AxisState /\ u \in AxisState
  BY StopPulsesType, UntrustType DEF TrustLosses
<1>2. \/ Stop(a) = [u EXCEPT !.fault = "stopped"]
      \/ Stop(a) = [b EXCEPT !.fault = "stopped"]
  BY ZenonT(60) DEF Stop
<1>3. \A x \in AxisState : [x EXCEPT !.fault = "stopped"] \in AxisState
  BY ZenonT(60) DEF AxisState, AxisFaults
<1>4. CutShort(a, Stop(a))
  BY DEF Stop, StopPulses, Untrust, CutShort, SameOrder, AxisState
<1> HIDE DEF b, u
<1>5. Stop(a) \in AxisState
  BY <1>1, <1>2, <1>3
<1> QED BY <1>4, <1>5

LEMMA DisableCuts ==
  ASSUME NEW a \in AxisState
  PROVE  Disable(a) \in AxisState /\ CutShort(a, Disable(a))
<1> DEFINE u == Untrust(StopPulses(a), "driver_disabled_during_motion")
<1>1. u \in AxisState
  BY StopPulsesType, UntrustType DEF TrustLosses
<1>2. Disable(a) = [u EXCEPT !.outputs = FALSE, !.enabled = FALSE,
                             !.fault = "driver_disabled"]
  BY ZenonT(60) DEF Disable
<1>3. CutShort(a, Disable(a))
  BY DEF Disable, StopPulses, Untrust, CutShort, SameOrder, AxisState
<1> HIDE DEF u
<1>4. "driver_disabled" \in AxisFaults
  BY DEF AxisFaults
<1>5. Disable(a) \in AxisState
  BY <1>1, <1>2, <1>4, ZenonT(60) DEF AxisState
<1> QED BY <1>3, <1>5

\* succeed() clears the fault alone.
LEMMA AcceptFields ==
  ASSUME NEW a \in AxisState
  PROVE  LET b == Accept(a).axis
         IN  /\ b \in AxisState /\ Accept(a).ok /\ Accept(a).fault = "none"
             /\ SameOrder(a, b) /\ b.moving = a.moving /\ b.fault = "none"
             /\ b.switchActive = a.switchActive /\ b.candidate = a.candidate
             /\ b.phase = a.phase
<1> DEFINE b == [a EXCEPT !.fault = "none"]
<1>1. b \in AxisState
  <2>1. "none" \in AxisFaults BY DEF AxisFaults
  <2> QED BY <2>1, ZenonT(60) DEF AxisState
<1>2. /\ SameOrder(a, b) /\ b.moving = a.moving /\ b.fault = "none"
      /\ b.switchActive = a.switchActive /\ b.candidate = a.candidate
      /\ b.phase = a.phase
  BY DEF SameOrder, AxisState
<1>3. Accept(a).axis = b /\ Accept(a).ok /\ Accept(a).fault = "none"
  BY DEF Accept
<1> HIDE DEF b
<1> QED BY <1>1, <1>2, <1>3

LEMMA AcceptSettles ==
  ASSUME NEW n, NEW a \in AxisUpTo(n)
  PROVE  Settles(Accept(a), n)
<1>1. a \in AxisState
  BY DEF AxisUpTo
<1> DEFINE out == Accept(a)
<1>2. /\ out.axis \in AxisState /\ out.ok = TRUE /\ out.fault = "none"
      /\ SameOrder(a, out.axis)
      /\ out.axis.switchActive = a.switchActive
      /\ out.axis.candidate = a.candidate /\ out.axis.phase = a.phase
  BY <1>1, AcceptFields DEF Accept
<1> HIDE DEF out
<1>3. Settles(out, n)
  BY <1>2 DEF AxisUpTo, Unmet, SameOrder, Settles, Faults, AxisFaults
<1> QED BY <1>3 DEF out

\* and return MotionResult{false, fault} changes nothing.
LEMMA RefuseSettles ==
  ASSUME NEW n, NEW a \in AxisUpTo(n), NEW fault \in Faults
  PROVE  Settles(Refuse(a, fault), n) /\ TakesUp(Refuse(a, fault), n)
BY DEF Refuse, Settles, TakesUp

\* An operation that ends in fail() settles.
LEMMA FailedSettles ==
  ASSUME NEW n \in Nat, NEW a \in AxisUpTo(n),
         NEW fault \in AxisFaults \ {"none"}, NEW reason \in TrustLosses
  PROVE  /\ Settles(Failed(a, fault, reason), n)
         /\ ~Failed(a, fault, reason).ok
<1>1. a \in AxisState
  BY DEF AxisUpTo
<1>2. Fail(a, fault, reason) \in AxisUpTo(n)
  BY <1>1, FailCuts, CutShortOnward
<1> QED BY <1>2 DEF Failed, Settles, Faults

\* An open home switch is seen as open.
LEMMA OpenSwitchUntouched ==
  ASSUME NEW a \in AxisState, Unmet(a)
  PROVE  /\ UpdateSwitch(a, FALSE) \in AxisState
         /\ Untouched(a, UpdateSwitch(a, FALSE))
<1>1. UpdateSwitch(a, FALSE) \in AxisState
  BY UpdateSwitchType
<1>2. Untouched(a, UpdateSwitch(a, FALSE))
  BY DEF UpdateSwitch, Untouched, SameOrder, Unmet, AxisState
<1> QED BY <1>1, <1>2

\* Counting one pulse.
LEMMA CreditPulseOnward ==
  ASSUME NEW n \in Nat, NEW a \in AxisUpTo(n), a.moving, NEW armOk \in BOOLEAN
  PROVE  /\ CreditPulse(a, armOk) \in AxisUpTo(n)
         /\ Onward(a, CreditPulse(a, armOk))
<1> DEFINE b == CreditPulse(a, armOk)
           p == a.position + a.direction
           moved == [a EXCEPT !.position = p]
           next == [moved EXCEPT !.armed = HasScheduler, !.stepHigh = FALSE]
           lost == ArmFailed(moved)
           halted == StopPulses(moved)
           done == [halted EXCEPT !.lastCompleted = moved.activeId]
<1>1. a \in AxisState
  BY DEF AxisUpTo
<1>2. moved \in AxisState
  <2>1. p \in Int
    BY <1>1 DEF AxisState
  <2> HIDE DEF p
  <2> QED BY <1>1, <2>1, ZenonT(60) DEF AxisState
<1>3. Untouched(a, moved)
  BY <1>1 DEF Untouched, SameOrder, AxisState
<1>4. b = done \/ b = next \/ b = Fail(lost, "driver_communication", "driver_fault")
  BY ZenonT(60) DEF CreditPulse, Finish
<1> HIDE DEF b, moved
<1>5. CASE b = done
  <2>1. halted \in AxisState
    BY <1>2, StopPulsesType
  <2>2. moved.activeId \in Nat
    BY <1>2 DEF AxisState
  <2>3. done \in AxisState
    <3> HIDE DEF halted
    <3> QED BY <2>1, <2>2, ZenonT(60) DEF AxisState
  <2>4. /\ ~done.moving /\ done.activeId = moved.activeId
        /\ done.lastCompleted = moved.activeId
        /\ done.switchActive = moved.switchActive
        /\ done.candidate = moved.candidate /\ done.phase = moved.phase
    BY <1>2 DEF StopPulses, AxisState
  <2> HIDE DEF done
  <2> QED BY <1>3, <1>5, <2>3, <2>4
          DEF Untouched, SameOrder, AxisUpTo, Unmet, Onward, b
<1>6. CASE b = next
  <2>1. next \in AxisState
    BY <1>2, ConfigAssumption, ZenonT(60) DEF AxisState
  <2>2. Untouched(moved, next)
    BY <1>2 DEF Untouched, SameOrder, AxisState
  <2> HIDE DEF next
  <2>3. Untouched(a, next)
    BY <1>3, <2>2 DEF Untouched, SameOrder
  <2> QED BY <1>6, <2>1, <2>3, CutShortOnward DEF b
<1>7. CASE b = Fail(lost, "driver_communication", "driver_fault")
  <2>1. lost \in AxisState /\ Untouched(moved, lost)
    BY <1>2, ArmFailedType DEF ArmFailed, Untouched, SameOrder, AxisState
  <2> HIDE DEF lost
  <2>2. b \in AxisState /\ CutShort(lost, b)
    BY <1>7, <2>1, FailCuts DEF AxisFaults, TrustLosses
  <2>3. CutShort(a, b)
    BY <1>3, <2>1, <2>2 DEF Untouched, CutShort, SameOrder
  <2> QED BY <2>2, <2>3, CutShortOnward DEF b
<1> QED BY <1>4, <1>5, <1>6, <1>7

\* All of service(), at an open home switch.
LEMMA ServiceOnward ==
  ASSUME NEW n \in Nat, NEW a \in AxisUpTo(n), NEW armOk \in BOOLEAN
  PROVE  /\ Service(a, FALSE, armOk) \in AxisUpTo(n)
         /\ Onward(a, Service(a, FALSE, armOk))
<1> DEFINE V == {v \in AxisUpTo(n) : Onward(a, v)}
           seen == UpdateSwitch(a, FALSE)
           checked == ServiceEntry(a, FALSE)
           zero == [seen EXCEPT !.completed = 0]
           m == IF checked = seen THEN CreditPulses(checked, armOk)
                                  ELSE checked
           f == Fail(seen, "driver_communication", "driver_fault")
           g == [f EXCEPT !.schedFault = FALSE]
<1>0. a \in AxisState /\ Unmet(a)
  BY DEF AxisUpTo
<1>1. seen \in AxisState /\ Untouched(a, seen)
  BY <1>0, OpenSwitchUntouched
<1>2. Service(a, FALSE, armOk) = ServiceHoming(m, armOk)
  BY ZenonT(60) DEF Service
<1>3. \/ checked = Fail(seen, "motion_timeout", "motion_timeout")
      \/ checked = Fail(seen, "unexpected_home_switch",
                        "suspected_missed_step")
      \/ checked = g
      \/ checked = seen
  BY ZenonT(60) DEF ServiceEntry
<1> HIDE DEF seen, checked
<1>4. ASSUME NEW v \in AxisState, CutShort(seen, v) \/ Untouched(seen, v)
      PROVE  v \in V
  <2>1. CutShort(a, v) \/ Untouched(a, v)
    BY <1>1, <1>4 DEF CutShort, Untouched, SameOrder
  <2> QED BY <2>1, CutShortOnward
<1>5. \A fault \in AxisFaults \ {"none"}, reason \in TrustLosses :
        Fail(seen, fault, reason) \in V
  BY <1>1, <1>4, FailCuts
<1>6. g \in V
  <2>1. f \in AxisState /\ CutShort(seen, f)
    BY <1>1, FailCuts DEF AxisFaults, TrustLosses
  <2> HIDE DEF f
  <2>2. g \in AxisState
    BY <2>1, ZenonT(60) DEF AxisState
  <2>3. Untouched(f, g)
    BY <2>1 DEF Untouched, SameOrder, AxisState
  <2> HIDE DEF g
  <2>4. CutShort(seen, g)
    BY <2>1, <2>3 DEF CutShort, Untouched, SameOrder
  <2> HIDE DEF V
  <2> QED BY <1>4, <2>2, <2>4
<1>7. checked \in V
  <2>1. Untouched(seen, seen)
    BY DEF Untouched, SameOrder
  <2>2. {"motion_timeout", "unexpected_home_switch"} \subseteq AxisFaults \ {"none"}
        /\ {"motion_timeout", "suspected_missed_step"} \subseteq TrustLosses
    BY DEF AxisFaults, TrustLosses
  <2> HIDE DEF V, g
  <2> QED BY <1>1, <1>3, <1>4, <1>5, <1>6, <2>1, <2>2
<1>8. m \in V
  <2>1. ASSUME checked = seen
        PROVE  CreditPulses(checked, armOk) \in V
    <3>1. zero \in AxisState
      BY <1>1, ZenonT(60) DEF AxisState
    <3>2. Untouched(seen, zero)
      BY <1>1 DEF Untouched, SameOrder, AxisState
    <3> HIDE DEF zero
    <3>3. zero \in V
      <4> HIDE DEF V
      <4> QED BY <1>4, <3>1, <3>2
    <3>4. ASSUME NEW v \in V, v.moving
          PROVE  CreditPulse(v, armOk) \in V
      <4>1. /\ CreditPulse(v, armOk) \in AxisUpTo(n)
            /\ Onward(v, CreditPulse(v, armOk))
        BY <3>4, CreditPulseOnward
      <4>2. Onward(a, CreditPulse(v, armOk))
        BY <4>1, OnwardAgain
      <4> QED BY <4>1, <4>2
    <3>5. seen.completed \in Nat
      BY <1>1 DEF AxisState
    <3>6. [seen EXCEPT !.completed = 0] \in V
      BY <3>3 DEF zero
    <3> HIDE DEF V
    <3> QED BY <2>1, <3>4, <3>5, <3>6, CreditPulsesKeeps
  <2> HIDE DEF V
  <2> QED BY <1>7, <2>1
<1> HIDE DEF m
<1>9. m \in AxisUpTo(n) /\ m \in AxisState /\ Unmet(m) /\ Onward(a, m)
  BY <1>8 DEF AxisUpTo
<1>10. \/ ServiceHoming(m, armOk) = m
       \/ \E fault \in AxisFaults \ {"none"} :
            ServiceHoming(m, armOk) = Fail(m, fault, "homing_failed")
  BY <1>9 DEF ServiceHoming, Unmet, AxisFaults
<1>11. ASSUME NEW fault \in AxisFaults \ {"none"}
       PROVE  /\ Fail(m, fault, "homing_failed") \in AxisUpTo(n)
              /\ Onward(m, Fail(m, fault, "homing_failed"))
  <2>1. "homing_failed" \in TrustLosses
    BY DEF TrustLosses
  <2> QED BY <1>9, <2>1, FailCuts, CutShortOnward
<1>12. ServiceHoming(m, armOk) \in AxisUpTo(n) /\ Onward(m, ServiceHoming(m, armOk))
  BY <1>9, <1>10, <1>11, OnwardSame
<1> QED BY <1>2, <1>9, <1>12, OnwardAgain

\* service_diagnostics()
LEMMA DiagnosticsOnward ==
  ASSUME NEW n \in Nat, NEW a \in AxisUpTo(n), NEW reading \in Readings
  PROVE  /\ ServiceDiagnostics(a, reading) \in AxisUpTo(n)
         /\ Onward(a, ServiceDiagnostics(a, reading))
<1> DEFINE b == ServiceDiagnostics(a, reading)
           result == IF a.connected THEN reading ELSE "lost"
           answers == result # "lost"
           out == a.outputs /\ result = "ok"
           read == [a EXCEPT !.status = result, !.connected = answers,
                             !.outputs = out]
           fault == IF result = "critical" THEN "driver_critical"
                                           ELSE "driver_communication"
<1>1. a \in AxisState
  BY DEF AxisUpTo
<1>2. b = a \/ b = read \/ b = Fail(read, fault, "driver_fault")
  BY ZenonT(60) DEF ServiceDiagnostics
<1>3. Untouched(a, read)
  BY <1>1 DEF Untouched, SameOrder, AxisState
<1>4. read \in AxisState /\ fault \in AxisFaults \ {"none"}
  <2>1. result \in Readings /\ answers \in BOOLEAN /\ out \in BOOLEAN
        /\ fault \in AxisFaults \ {"none"}
    BY <1>1 DEF AxisState, Readings, AxisFaults
  <2> HIDE DEF result, answers, out
  <2> QED BY <1>1, <2>1, ZenonT(60) DEF AxisState
<1> HIDE DEF b, read, fault
<1>5. CASE b = Fail(read, fault, "driver_fault")
  <2>1. b \in AxisState /\ CutShort(read, b)
    BY <1>4, <1>5, FailCuts DEF TrustLosses
  <2>2. CutShort(a, b)
    BY <1>3, <2>1 DEF CutShort, Untouched, SameOrder
  <2> QED BY <2>1, <2>2, CutShortOnward DEF b
<1> QED BY <1>2, <1>3, <1>4, <1>5, CutShortOnward, OnwardSame DEF b

\* Time, the interrupt of the emergency input and the end of a pulse.
LEMMA TimeOnward ==
  ASSUME NEW n \in Nat, NEW a \in AxisUpTo(n),
         NEW b \in {Age(a),
                    [a EXCEPT !.armed = FALSE, !.stepHigh = FALSE,
                              !.outputs = FALSE],
                    [a EXCEPT !.armed = FALSE, !.completed = a.completed + 1]}
  PROVE  b \in AxisUpTo(n) /\ Onward(a, b)
<1> DEFINE s == IF a.candidate # a.switchActive
                  THEN Older(a.switchAge, Debounce) ELSE a.switchAge
           m == IF a.moving THEN Older(a.motionAge, MotionTimeout)
                            ELSE a.motionAge
           h == IF a.phase \in LivePhases THEN Older(a.homingAge, HomingTimeout)
                                          ELSE a.homingAge
           k == a.completed + 1
<1>1. a \in AxisState
  BY DEF AxisUpTo
<1>2. s \in 0 .. Debounce BY <1>1, ConfigAssumption DEF AxisState, Older
<1>3. m \in 0 .. MotionTimeout BY <1>1, ConfigAssumption DEF AxisState, Older
<1>4. h \in 0 .. HomingTimeout BY <1>1, ConfigAssumption DEF AxisState, Older
<1>5. k \in Nat BY <1>1 DEF AxisState
<1>6. Age(a) = [a EXCEPT !.switchAge = s, !.motionAge = m, !.homingAge = h]
  BY ZenonT(60) DEF Age
<1>7. Untouched(a, b)
  <2>1. CASE b = Age(a)
    BY <1>1, <2>1 DEF Age, Untouched, SameOrder, AxisState
  <2>2. CASE b = [a EXCEPT !.armed = FALSE, !.stepHigh = FALSE,
                           !.outputs = FALSE]
    BY <1>1, <2>2 DEF Untouched, SameOrder, AxisState
  <2>3. CASE b = [a EXCEPT !.armed = FALSE, !.completed = a.completed + 1]
    BY <1>1, <2>3 DEF Untouched, SameOrder, AxisState
  <2> QED BY <2>1, <2>2, <2>3
<1> HIDE DEF s, m, h
<1>8. b \in AxisState
  <2>1. [a EXCEPT !.switchAge = s, !.motionAge = m, !.homingAge = h] \in AxisState
    BY <1>1, <1>2, <1>3, <1>4, ZenonT(60) DEF AxisState
  <2>2. [a EXCEPT !.armed = FALSE, !.stepHigh = FALSE, !.outputs = FALSE] \in AxisState
    BY <1>1, ZenonT(60) DEF AxisState
  <2>3. [a EXCEPT !.armed = FALSE, !.completed = k] \in AxisState
    <3> HIDE DEF k
    <3> QED BY <1>1, <1>5, ZenonT(60) DEF AxisState
  <2> QED BY <1>6, <2>1, <2>2, <2>3
<1> QED BY <1>7, <1>8, CutShortOnward

\* start_step_move(), given a new id.
LEMMA StartStepMoveTakesUp ==
  ASSUME NEW n \in Nat, NEW a \in AxisUpTo(n), NEW target \in Int,
         NEW speedOk \in BOOLEAN, NEW purpose \in Purposes, NEW id \in Nat,
         n <= id, NEW requireTrust \in BOOLEAN, NEW armOk \in BOOLEAN
  PROVE  TakesUp(StartStepMove(a, target, speedOk, purpose, id, requireTrust,
                               armOk), id)
<1> DEFINE out == StartStepMove(a, target, speedOk, purpose, id, requireTrust,
                                armOk)
           began == Started(a, target, purpose, id)
           stay == [Powered(a) EXCEPT !.target = target, !.lastCompleted = id]
           go == [began EXCEPT !.armed = HasScheduler, !.stepHigh = FALSE]
           unarmed == ArmFailed(began)
<1>1. a \in AxisState /\ a \in AxisUpTo(id) /\ Unmet(a)
  BY AxisUpToMore DEF AxisUpTo
<1>2. \/ \E fault \in Refusals : out = Refuse(a, fault)
      \/ out = Failed(a, "driver_critical", "driver_fault")
      \/ ~a.moving /\ out = Accept(stay)
      \/ out = Failed(unarmed, "driver_communication", "driver_fault")
      \/ out = Accept(go)
  BY ZenonT(60) DEF StartStepMove, Refusals
<1> SUFFICES TakesUp(out, id)
  OBVIOUS
<1> HIDE DEF out
<1>3. stay \in AxisState
  <2> DEFINE p == Powered(a)
  <2>1. p \in AxisState
    BY <1>1, PoweredType
  <2> HIDE DEF p
  <2>2. [p EXCEPT !.target = target, !.lastCompleted = id] \in AxisState
    BY <2>1, ZenonT(60) DEF AxisState
  <2> QED BY <2>2 DEF p
<1>4. began \in AxisState /\ unarmed \in AxisState
  BY <1>1, StartedType, ArmFailedType
<1>5. go \in AxisState
  <2> HIDE DEF began
  <2> QED BY <1>4, ConfigAssumption, ZenonT(60) DEF AxisState
<1>6. /\ stay.moving = a.moving /\ stay.activeId = a.activeId
      /\ stay.lastCompleted = id /\ stay.switchActive = a.switchActive
      /\ stay.candidate = a.candidate /\ stay.phase = a.phase
  BY <1>1 DEF Powered, AxisState
<1>7. /\ began.moving /\ began.activeId = id
      /\ began.lastCompleted = a.lastCompleted
      /\ began.switchActive = a.switchActive
      /\ began.candidate = a.candidate /\ began.phase = a.phase
  BY <1>1 DEF Started, Powered, AxisState
<1> HIDE DEF stay, began
<1>8. /\ go.moving /\ go.activeId = id /\ go.lastCompleted = a.lastCompleted
      /\ go.switchActive = a.switchActive /\ go.candidate = a.candidate
      /\ go.phase = a.phase
  BY <1>4, <1>7 DEF AxisState
<1>9. Untouched(began, unarmed)
  BY <1>4 DEF ArmFailed, Untouched, SameOrder, AxisState
<1>10. /\ stay \in AxisUpTo(id) /\ go \in AxisUpTo(id)
       /\ unarmed \in AxisUpTo(id)
  <2>0. /\ a.activeId <= id /\ a.lastCompleted <= id /\ id <= id
        /\ ~a.switchActive /\ ~a.candidate
        /\ a.phase \notin {"backoff", "slow_approach"}
    BY <1>1 DEF AxisUpTo, Unmet
  <2>1. stay \in AxisUpTo(id)
    BY <1>3, <1>6, <2>0 DEF AxisUpTo, Unmet
  <2>2. go \in AxisUpTo(id)
    BY <1>5, <1>8, <2>0 DEF AxisUpTo, Unmet
  <2>3. unarmed \in AxisUpTo(id)
    BY <1>4, <1>7, <1>9, <2>0 DEF AxisUpTo, Unmet, Untouched, SameOrder
  <2> QED BY <2>1, <2>2, <2>3
<1> HIDE DEF go, unarmed
<1>11. ASSUME NEW fault \in Refusals, out = Refuse(a, fault)
       PROVE  TakesUp(out, id)
  BY <1>1, <1>11, RefuseSettles DEF Faults
<1>12. ASSUME NEW x \in AxisUpTo(id), NEW fault \in AxisFaults \ {"none"},
              out = Failed(x, fault, "driver_fault")
       PROVE  TakesUp(out, id)
  BY <1>12, FailedSettles DEF TakesUp, TrustLosses
<1>13. ASSUME NEW x \in AxisUpTo(id), out = Accept(x),
              IF x.moving THEN x.activeId = id ELSE x.lastCompleted = id
       PROVE  TakesUp(out, id)
  <2>1. x \in AxisState
    BY DEF AxisUpTo
  <2>2. /\ SameOrder(x, out.axis) /\ out.axis.moving = x.moving
        /\ out.axis.fault = "none"
    BY <1>13, <2>1, AcceptFields
  <2>3. Settles(out, id)
    BY <1>13, AcceptSettles
  <2> QED BY <1>13, <2>2, <2>3 DEF TakesUp, CarriesOut, SameOrder
<1>14. {"driver_critical", "driver_communication"} \subseteq AxisFaults \ {"none"}
  BY DEF AxisFaults
<1> QED BY <1>1, <1>2, <1>6, <1>8, <1>10, <1>11, <1>12, <1>13, <1>14

\* MOVE, MOVE_REL and MOTOR STEP.
LEMMA MovesTakeUp ==
  ASSUME NEW n \in Nat, NEW a \in AxisUpTo(n), NEW angle \in Int,
         NEW speedOk \in BOOLEAN, NEW id \in Nat, n <= id,
         NEW armOk \in BOOLEAN,
         NEW out \in {MoveAbsolute(a, angle, speedOk, id, armOk),
                      MoveRelative(a, angle, speedOk, id, armOk),
                      BenchMove(a, angle, id, armOk)}
  PROVE  TakesUp(out, id)
<1>1. a \in AxisState /\ a \in AxisUpTo(id)
  BY AxisUpToMore DEF AxisUpTo
<1>2. a.position \in Int /\ Steps(a, angle) \in Int
  BY <1>1, StepsType DEF AxisState
<1>3. a.position + Steps(a, angle) \in Int /\ a.position + angle \in Int
  BY <1>2
<1>4. \/ out = Refuse(a, "not_homed") \/ out = Refuse(a, "invalid_argument")
      \/ out = StartStepMove(a, Steps(a, angle), speedOk, "normal", id, TRUE,
                             armOk)
      \/ out = StartStepMove(a, a.position + Steps(a, angle), speedOk,
                             "normal", id, TRUE, armOk)
      \/ out = StartStepMove(a, a.position + angle, TRUE, "bench", id, FALSE,
                             armOk)
  BY DEF MoveAbsolute, MoveRelative, BenchMove
<1>5. {"not_homed", "invalid_argument"} \subseteq Faults
      /\ "normal" \in Purposes /\ "bench" \in Purposes
  BY DEF Faults, Refusals, Purposes
<1> HIDE DEF Steps
<1>6. CASE out = Refuse(a, "not_homed") \/ out = Refuse(a, "invalid_argument")
  BY <1>1, <1>5, <1>6, RefuseSettles
<1>7. ASSUME NEW target \in Int, NEW purpose \in Purposes,
             NEW requireTrust \in BOOLEAN, NEW speed \in BOOLEAN,
             out = StartStepMove(a, target, speed, purpose, id, requireTrust,
                                 armOk)
      PROVE  TakesUp(out, id)
  BY <1>7, StartStepMoveTakesUp
<1> QED BY <1>2, <1>3, <1>4, <1>5, <1>6, <1>7, Zenon

\* HOME, at an open home switch.
LEMMA StartHomingTakesUp ==
  ASSUME NEW n \in Nat, NEW a \in AxisUpTo(n), NEW id \in Nat, n <= id,
         NEW armOk \in BOOLEAN
  PROVE  TakesUp(StartHoming(a, FALSE, id, armOk), id)
<1> DEFINE out == StartHoming(a, FALSE, id, armOk)
           seen == UpdateSwitch(a, FALSE)
           lost == Untrust(seen, "homing_failed")
           begun == [lost EXCEPT !.phase = "validate_switch"]
           approaching == [begun EXCEPT !.phase = "fast_approach",
                                        !.homingAge = 0]
           far == a.position + HomeSide * HomingTravel(a)
<1>1. a \in AxisState /\ a \in AxisUpTo(id) /\ Unmet(a)
  BY AxisUpToMore DEF AxisUpTo
<1>2. seen \in AxisState /\ Untouched(a, seen)
  BY <1>1, OpenSwitchUntouched
<1>3. far \in Int
  <2>1. a.position \in Int /\ HomingTravel(a) \in Int /\ HomeSide \in {-1, 1}
    BY <1>1, HomingTravelType, ConfigAssumption DEF AxisState
  <2> HIDE DEF HomingTravel
  <2> QED BY <2>1
<1>4. \/ out = Refuse(a, "invalid_configuration")
      \/ out = Refuse(a, "invalid_argument")
      \/ seen.switchActive
      \/ out = StartStepMove(approaching, far, TRUE, "homing_fast", id, FALSE,
                             armOk)
  BY ZenonT(60) DEF StartHoming
<1>5. ~seen.switchActive
  BY <1>1, <1>2 DEF Untouched, Unmet
<1> HIDE DEF seen, far, out
<1>6. lost \in AxisState /\ "fast_approach" \in Phases
      /\ "validate_switch" \in Phases
  BY <1>2, UntrustType DEF TrustLosses, Phases, LivePhases
<1>7. /\ lost.activeId = seen.activeId
      /\ lost.lastCompleted = seen.lastCompleted
      /\ lost.switchActive = seen.switchActive
      /\ lost.candidate = seen.candidate
  BY <1>2 DEF Untrust, AxisState
<1> HIDE DEF lost
<1>8. begun \in AxisState /\ approaching \in AxisState
  <2>1. begun \in AxisState
    BY <1>6, ZenonT(60) DEF AxisState
  <2> HIDE DEF begun
  <2>2. approaching \in AxisState
    BY <1>6, <2>1, Zeros, ZenonT(60) DEF AxisState
  <2> QED BY <2>1, <2>2
<1>9. /\ approaching.activeId = lost.activeId
      /\ approaching.lastCompleted = lost.lastCompleted
      /\ approaching.switchActive = lost.switchActive
      /\ approaching.candidate = lost.candidate
      /\ approaching.phase = "fast_approach"
  BY <1>6 DEF AxisState
<1> HIDE DEF approaching
<1>10. approaching \in AxisUpTo(n)
  BY <1>1, <1>2, <1>7, <1>8, <1>9 DEF AxisUpTo, Unmet, Untouched, SameOrder
<1>11. CASE out = StartStepMove(approaching, far, TRUE, "homing_fast", id,
                                FALSE, armOk)
  <2>1. "homing_fast" \in Purposes
    BY DEF Purposes
  <2>2. TakesUp(StartStepMove(approaching, far, TRUE, "homing_fast", id, FALSE, armOk), id)
    BY <1>3, <1>10, <2>1, StartStepMoveTakesUp
  <2> QED BY <1>11, <2>2 DEF out
<1>12. CASE \/ out = Refuse(a, "invalid_configuration")
            \/ out = Refuse(a, "invalid_argument")
  BY <1>1, <1>12, RefuseSettles DEF Faults, Refusals, out
<1> QED BY <1>4, <1>5, <1>11, <1>12

\* ENABLE 1 and 0,
LEMMA SetEnabledSettles ==
  ASSUME NEW n \in Nat, NEW a \in AxisUpTo(n), NEW enabled \in BOOLEAN
  PROVE  Settles(SetEnabled(a, enabled), n)
<1> DEFINE out == SetEnabled(a, enabled)
           on == [a EXCEPT !.enabled = TRUE, !.outputs = TRUE]
           off == [axis |-> Disable(a), ok |-> TRUE,
                   fault |-> "driver_disabled"]
<1>1. a \in AxisState
  BY DEF AxisUpTo
<1>2. out = off \/ out = Failed(a, "driver_critical", "driver_fault")
      \/ out = Accept(on)
  BY ZenonT(60) DEF SetEnabled
<1> SUFFICES Settles(out, n)
  OBVIOUS
<1> HIDE DEF out
<1>3. CASE out = off
  <2>1. Disable(a) \in AxisUpTo(n)
    BY <1>1, DisableCuts, CutShortOnward
  <2> HIDE DEF Disable
  <2> QED BY <1>3, <2>1 DEF Settles, Faults, AxisFaults
<1>4. CASE out = Failed(a, "driver_critical", "driver_fault")
  BY <1>4, FailedSettles DEF AxisFaults, TrustLosses
<1>5. CASE out = Accept(on)
  <2>1. on \in AxisState
    BY <1>1, ZenonT(60) DEF AxisState
  <2>2. Untouched(a, on)
    BY <1>1 DEF Untouched, SameOrder, AxisState
  <2> HIDE DEF on
  <2>3. on \in AxisUpTo(n)
    BY <2>1, <2>2, CutShortOnward
  <2> QED BY <1>5, <2>3, AcceptSettles
<1> QED BY <1>2, <1>3, <1>4, <1>5

\* CLEAR_FAULT,
LEMMA ClearFaultSettles ==
  ASSUME NEW n \in Nat, NEW a \in AxisUpTo(n)
  PROVE  Settles(ClearFault(a), n)
<1> DEFINE out == ClearFault(a)
           phase == IF a.phase = "failed" THEN "idle" ELSE a.phase
           calm == [a EXCEPT !.phase = phase]
<1>1. a \in AxisState
  BY DEF AxisUpTo
<1>2. out = Refuse(a, "driver_critical") \/ out = Accept(calm)
  BY ZenonT(60) DEF ClearFault
<1> SUFFICES Settles(out, n)
  OBVIOUS
<1> HIDE DEF out
<1>3. CASE out = Refuse(a, "driver_critical")
  BY <1>3, RefuseSettles DEF Faults, Refusals
<1>4. CASE out = Accept(calm)
  <2>1. phase \in Phases /\ (phase = a.phase \/ phase = "idle")
    BY <1>1 DEF AxisState, Phases
  <2> HIDE DEF phase
  <2>2. calm \in AxisState
    BY <1>1, <2>1, ZenonT(60) DEF AxisState
  <2>3. /\ SameOrder(a, calm) /\ calm.switchActive = a.switchActive
        /\ calm.candidate = a.candidate /\ calm.phase = phase
    BY <1>1 DEF SameOrder, AxisState
  <2> HIDE DEF calm
  <2>4. calm \in AxisUpTo(n)
    BY <2>1, <2>2, <2>3 DEF AxisUpTo, Unmet, SameOrder
  <2> QED BY <1>4, <2>4, AcceptSettles
<1> QED BY <1>2, <1>3, <1>4

\* SET_CURRENT and SET_MICROSTEPS.
LEMMA WritesSettle ==
  ASSUME NEW n \in Nat, NEW a \in AxisUpTo(n),
         NEW microsteps \in MicrostepChoices, NEW result \in WriteResults,
         NEW out \in {SetCurrent(a, result),
                      SetMicrosteps(a, microsteps, result)}
  PROVE  Settles(out, n)
<1> DEFINE untrusted == Untrust(a, "configuration_changed")
           other == [untrusted EXCEPT !.microsteps = microsteps]
           lost == [a EXCEPT !.connected = FALSE, !.outputs = FALSE]
<1>1. a \in AxisState
  BY DEF AxisUpTo
<1>2. \/ out = Accept(a) \/ out = Accept(other)
      \/ out = Refuse(a, "invalid_argument")
      \/ out = Refuse(lost, "invalid_argument")
  BY ZenonT(60) DEF SetCurrent, SetMicrosteps, WriteAccepted, DriverWrite
<1>3. lost \in AxisState /\ Untouched(a, lost)
  <2>1. lost \in AxisState
    BY <1>1, ZenonT(60) DEF AxisState
  <2>2. Untouched(a, lost)
    BY <1>1 DEF Untouched, SameOrder, AxisState
  <2> QED BY <2>1, <2>2
<1>4. other \in AxisState /\ Untouched(a, other)
  <2>1. untrusted \in AxisState
    BY <1>1, UntrustType DEF TrustLosses
  <2>2. Untouched(a, other)
    BY <1>1 DEF Untrust, Untouched, SameOrder, AxisState
  <2> HIDE DEF untrusted
  <2>3. [untrusted EXCEPT !.microsteps = microsteps] \in AxisState
    BY <2>1, ZenonT(60) DEF AxisState
  <2> QED BY <2>2, <2>3
<1> HIDE DEF lost, other
<1>5. lost \in AxisUpTo(n) /\ other \in AxisUpTo(n)
  BY <1>3, <1>4, CutShortOnward
<1>6. "invalid_argument" \in Faults
  BY DEF Faults, Refusals
<1> QED BY <1>2, <1>5, <1>6, AcceptSettles, RefuseSettles
=============================================================================
