----------------------- MODULE AxisController_proofs -----------------------
(***************************************************************************)
(* Proofs about AxisController, for every configuration ConfigAssumption   *)
(* admits and every set of commands CommandAssumption admits.              *)
(*                                                                         *)
(* The inductive invariant IInv has a part over the axis record alone,     *)
(* Sane, which every operator keeps (Operations_proofs), and parts     *)
(* that tie it to service() and to the last order.  The step lemmas go     *)
(* through the actions of AxisController, which only compose operators.    *)
(*                                                                         *)
(* Four results go beyond the invariant.  That a position drifts only at   *)
(* the expense of left-over pulses follows step by step: most operations   *)
(* are Quiet, they neither count nor make a pulse of a trusted axis, and   *)
(* what remains are the counting of a pulse and the two alarms.  Without a *)
(* scheduler CoopInv makes that an invariant.  That completions advance,   *)
(* and on target, rests on a second invariant, Numbered, kept by           *)
(* operations that are InOrder.                                            *)
(*                                                                         *)
(* Typing facts of records updated field by field are given to Zenon,      *)
(* facts about the fields themselves to SMT.                               *)
(***************************************************************************)
EXTENDS AxisController, Operations_proofs

-----------------------------------------------------------------------------
(* The inductive invariant *)

\* Pulses are only held over within service(), and the last order being an
\* emergency stop, the axis rests.
IInv ==
  /\ TypeOK
  /\ Sane(axis, credit)
  /\ HasScheduler /\ pc # "pulses" => credit = 0
  /\ standing = "estop" => Resting(axis)

\* The power-on state of a ready axis satisfies the invariant.
LEMMA InitIInv == Init => IInv
<1> SUFFICES ASSUME Init PROVE IInv
  OBVIOUS
<1>1. PICK raw \in BOOLEAN : axis = StartupAxis("ready", raw) BY DEF Init
<1>2. StartMicrosteps \in MicrostepChoices BY ConfigAssumption
<1>3. axis \in AxisState
  BY <1>1, <1>2, Zeros DEF StartupAxis, StartupFault, AxisState, Purposes,
      TrustLosses, AxisFaults, Phases, Readings
<1>4. Sane(axis, 0) BY <1>1 DEF StartupAxis, Sane, TrustPart, PowerPart,
    PulsePart, AheadPart, DrivenPart
<1> QED BY <1>3, <1>4 DEF Init, IInv, TypeOK, Orders

\* A step that gives the axis a sane record keeps the invariant, whatever the
\* shaft did.
LEMMA BecomesIInv ==
  ASSUME IInv, NEW next \in AxisState, NEW moved \in Int, AxisBecomes(next,
      moved),
         pc' \in {"idle", "pulses", "homing"}, credit' \in Nat,
             issued' \in Nat,
         standing' \in Orders,
         Sane(next, credit'), HasScheduler /\ pc' # "pulses" => credit' = 0,
         standing' = "estop" => Resting(next)
  PROVE  IInv'
<1>1. axis' = next BY DEF AxisBecomes
<1>2. axis.position \in Int /\ next.position \in Int /\ drift \in Int
  BY DEF IInv, TypeOK, AxisState
<1>3. drift' \in Int BY <1>2 DEF AxisBecomes
<1> QED BY <1>1, <1>3 DEF IInv, TypeOK

\* A command keeps the invariant if its outcome is a sane record, and if it
\* leaves the axis at rest wherever the last order was an emergency stop.
LEMMA CommandIInv ==
  ASSUME IInv, NEW out, NEW order \in Orders, Command(out, order),
         out.axis \in AxisState, Sane(out.axis, credit),
         Resting(axis) /\ ~out.ok => Resting(out.axis),
         out.ok /\ order = "estop" => Resting(out.axis)
  PROVE  IInv'
<1>1. /\ AxisBecomes(out.axis, 0) /\ issued' = issued + 1
      /\ pc' = pc /\ credit' = credit
      /\ standing' = IF out.ok THEN order ELSE standing
  BY DEF Command
<1>2. standing' = "estop" => Resting(out.axis) BY <1>1 DEF IInv
<1>3. /\ pc' \in {"idle", "pulses", "homing"} /\ credit' \in Nat
      /\ issued' \in Nat /\ standing' \in Orders
  BY <1>1 DEF IInv, TypeOK
<1> QED BY <1>1, <1>2, <1>3, BecomesIInv DEF IInv

\* Every command keeps the invariant.
LEMMA CommandsIInv == IInv /\ Commands => IInv'
<1> SUFFICES ASSUME IInv, Commands PROVE IInv'
  OBVIOUS
<1>1. axis \in AxisState /\ credit \in Nat /\ Sane(axis, credit)
      /\ issued + 1 \in Nat /\ standing \in Orders
      /\ (standing = "estop" => Resting(axis))
  BY DEF IInv, TypeOK
<1>2. SwitchLevels \subseteq BOOLEAN BY DEF SwitchLevels
<1>3. CASE MoveAbsoluteDegrees
  <2>1. PICK angle \in MoveAngles, speedOk \in BOOLEAN, armOk \in BOOLEAN :
          Command(MoveAbsolute(axis, angle, speedOk, issued + 1, armOk),
              "move")
    BY <1>3 DEF MoveAbsoluteDegrees
  <2>2. angle \in Int BY CommandAssumption
  <2> QED BY <1>1, <2>1, <2>2, MovesSane, CommandIInv DEF Orders
<1>4. CASE MoveRelativeDegrees
  <2>1. PICK delta \in MoveDeltas, speedOk \in BOOLEAN, armOk \in BOOLEAN :
          Command(MoveRelative(axis, delta, speedOk, issued + 1, armOk),
              "move")
    BY <1>4 DEF MoveRelativeDegrees
  <2>2. delta \in Int BY CommandAssumption
  <2> QED BY <1>1, <2>1, <2>2, MovesSane, CommandIInv DEF Orders
<1>5. CASE BenchMoveSteps
  <2>1. PICK steps \in BenchMoves, armOk \in BOOLEAN :
          Command(BenchMove(axis, steps, issued + 1, armOk), "move")
    BY <1>5 DEF BenchMoveSteps
  <2>2. steps \in Int BY CommandAssumption
  <2> QED BY <1>1, <2>1, <2>2, MovesSane, CommandIInv DEF Orders
<1>6. CASE Home
  <2>1. PICK raw \in BOOLEAN, armOk \in BOOLEAN :
          Command(StartHoming(axis, raw, issued + 1, armOk), "move")
    BY <1>2, <1>6 DEF Home
  <2> QED BY <1>1, <2>1, StartHomingSane, CommandIInv DEF Orders
<1>7. CASE StopCommand
  BY <1>1, <1>7, StopSane, CommandIInv DEF StopCommand, Orders
<1>8. CASE EmergencyStopCommand
  <2>1. EmergencyStop(axis) \in AxisState /\ Sane(EmergencyStop(axis), credit)
        /\ Resting(EmergencyStop(axis))
    BY <1>1, FailType, FailSane DEF EmergencyStop, AxisFaults, TrustLosses
  <2> QED BY <1>8, <2>1, CommandIInv DEF EmergencyStopCommand, Orders
<1>9. CASE EnableCommand
  BY <1>1, <1>9, SetEnabledSane, CommandIInv DEF EnableCommand, Orders
<1>10. CASE DisableCommand
  BY <1>1, <1>10, SetEnabledSane, CommandIInv DEF DisableCommand, Orders
<1>11. CASE ClearFaultCommand
  BY <1>1, <1>11, ClearFaultSane, CommandIInv DEF ClearFaultCommand
<1>12. CASE SetCurrentCommand
  BY <1>1, <1>12, SetCurrentSane, CommandIInv DEF SetCurrentCommand
<1>13. CASE SetMicrostepsCommand
  BY <1>1, <1>13, SetMicrostepsSane, CommandIInv DEF SetMicrostepsCommand
<1> QED BY <1>3, <1>4, <1>5, <1>6, <1>7, <1>8, <1>9, <1>10, <1>11, <1>12,
    <1>13 DEF Commands

\* Every step of service() keeps the invariant.
LEMMA MotionTaskIInv == IInv /\ MotionTask => IInv'
<1> SUFFICES ASSUME IInv, MotionTask PROVE IInv'
  OBVIOUS
<1>1. /\ axis \in AxisState /\ credit \in Nat /\ Sane(axis, credit)
      /\ issued \in Nat /\ standing \in Orders
      /\ (standing = "estop" => Resting(axis))
      /\ (HasScheduler /\ pc # "pulses" => credit = 0)
  BY DEF IInv, TypeOK
<1>2. SwitchLevels \subseteq BOOLEAN BY DEF SwitchLevels
<1>3. CASE ServiceBegin
  <2>1. PICK raw \in BOOLEAN :
          LET checked == ServiceEntry(axis, raw)
              passed  == checked = UpdateSwitch(axis, raw)
          IN  /\ AxisBecomes([checked EXCEPT !.completed =
                                IF passed THEN 0 ELSE @], 0)
              /\ credit' = IF passed THEN axis.completed ELSE 0
              /\ pc' = IF passed THEN "pulses" ELSE "homing"
    BY <1>2, <1>3 DEF ServiceBegin
  <2> DEFINE checked == ServiceEntry(axis, raw)
             passed == checked = UpdateSwitch(axis, raw)
             kept == IF passed THEN 0 ELSE checked.completed
             next == [checked EXCEPT !.completed = kept]
  <2>2. /\ checked \in AxisState /\ Sane(checked, credit)
        /\ (Resting(axis) => Resting(checked))
        /\ (passed => ~axis.schedFault)
    BY <1>1, ServiceEntrySane
  <2>3. pc = "idle" /\ (HasScheduler => credit = 0) /\ UNCHANGED <<issued,
      standing>>
    BY <1>1, <1>3 DEF ServiceBegin
  <2>4. passed => checked.completed = axis.completed /\ checked.schedFault = axis.schedFault
    BY <1>1 DEF UpdateSwitch, AxisState
  <2>5. /\ AxisBecomes(next, 0)
        /\ credit' = (IF passed THEN axis.completed ELSE 0)
        /\ pc' = IF passed THEN "pulses" ELSE "homing"
    BY <2>1
  <2> HIDE DEF checked
  <2>6. kept \in Nat BY <2>2 DEF AxisState
  <2>7. next \in AxisState
    <3> HIDE DEF kept
    <3> QED BY <2>2, <2>6, ZenonT(60) DEF AxisState
  <2>8. Sane(next, credit')
    BY <1>1, <2>2, <2>3, <2>4, <2>5 DEF Sane, TrustPart, PowerPart, PulsePart,
        AheadPart, DrivenPart, AxisState
  <2>9. Resting(axis) => Resting(next) BY <2>2 DEF Resting, AxisState
  <2>10. credit' \in Nat /\ pc' \in {"idle", "pulses", "homing"}
         /\ (pc' # "pulses" => credit' = 0)
    BY <1>1, <2>5 DEF AxisState
  <2> HIDE DEF next, passed
  <2> QED BY <1>1, <2>3, <2>5, <2>7, <2>8, <2>9, <2>10, BecomesIInv
<1>4. CASE ServicePulse
  <2>1. PICK armOk \in BOOLEAN : AxisBecomes(CreditPulse(axis, armOk), 0)
    BY <1>4 DEF ServicePulse
  <2>2. /\ pc = "pulses" /\ credit > 0 /\ axis.moving /\ credit' = credit - 1
        /\ UNCHANGED <<pc, issued, standing>>
    BY <1>4 DEF ServicePulse
  <2>3. credit' \in Nat BY <1>1, <2>2
  <2>4. ~Resting(axis) BY <2>2 DEF Resting
  <2>5. CreditPulse(axis, armOk) \in AxisState /\ Sane(CreditPulse(axis,
      armOk), credit')
    BY <1>1, <2>2, <2>3, CreditPulseSane
  <2> QED BY <1>1, <2>1, <2>2, <2>3, <2>4, <2>5, BecomesIInv
<1>5. CASE CooperativeRise
  <2> DEFINE next == [axis EXCEPT !.stepHigh = TRUE]
  <2>1. /\ ~HasScheduler /\ axis.moving /\ AxisBecomes(next, ShaftStep)
        /\ pc' = "homing" /\ UNCHANGED <<credit, issued, standing>>
    BY <1>5 DEF CooperativeRise
  <2>2. ~Resting(axis) BY <2>1 DEF Resting
  <2>3. next \in AxisState BY <1>1, ZenonT(60) DEF AxisState
  <2>4. Sane(next, credit)
    BY <1>1, <2>1 DEF Sane, TrustPart, PowerPart, PulsePart, AheadPart,
        DrivenPart, AxisState
  <2>5. ShaftStep \in Int BY <1>1 DEF ShaftStep, AxisState
  <2> HIDE DEF next
  <2> QED BY <1>1, <2>1, <2>2, <2>3, <2>4, <2>5, BecomesIInv
<1>6. CASE CooperativeFall
  <2> DEFINE next == CreditPulse(axis, TRUE)
  <2>1. /\ ~HasScheduler /\ axis.moving /\ AxisBecomes(next, 0)
        /\ pc' = "homing" /\ UNCHANGED <<credit, issued, standing>>
    BY <1>6 DEF CooperativeFall
  <2>2. ~Resting(axis) BY <2>1 DEF Resting
  <2>3. next \in AxisState /\ Sane(next, credit)
    BY <1>1, <2>1, CreditPulseSane
  <2> HIDE DEF next
  <2> QED BY <1>1, <2>1, <2>2, <2>3, BecomesIInv
<1>7. CASE ServicePulsesDone
  <2>1. /\ credit = 0 \/ ~axis.moving
        /\ pc' = "homing" /\ credit' = 0
        /\ UNCHANGED <<axis, issued, drift, standing>>
    BY <1>7 DEF ServicePulsesDone
  <2>2. Sane(axis, 0) BY <1>1, <2>1 DEF Sane, DrivenPart
  <2>3. Sane(axis', credit') BY <2>1, <2>2
  <2>4. TypeOK' BY <2>1 DEF IInv, TypeOK
  <2>5. (standing = "estop" => Resting(axis))' BY <1>1, <2>1
  <2> QED BY <2>1, <2>3, <2>4, <2>5 DEF IInv
<1>8. CASE ServiceHomingStep
  <2>1. PICK armOk \in BOOLEAN : AxisBecomes(ServiceHoming(axis, armOk), 0)
    BY <1>8 DEF ServiceHomingStep
  <2>2. (HasScheduler => credit = 0) /\ pc' = "idle" /\ UNCHANGED <<credit,
      issued, standing>>
    BY <1>1, <1>8 DEF ServiceHomingStep
  <2> QED BY <1>1, <2>1, <2>2, ServiceHomingSane, BecomesIInv
<1> QED BY <1>3, <1>4, <1>5, <1>6, <1>7, <1>8 DEF MotionTask

\* Both alarms of the timer interrupt keep the invariant: a pulse is armed
\* only on a moving axis, and an alarm leaves the move driven.
LEMMA AlarmsIInv == IInv /\ TimerInterrupt => IInv'
<1> SUFFICES ASSUME IInv, TimerInterrupt PROVE IInv'
  OBVIOUS
<1>1. /\ axis \in AxisState /\ credit \in Nat /\ Sane(axis, credit)
      /\ (standing = "estop" => Resting(axis))
      /\ axis.armed
  BY DEF IInv, TypeOK, TimerInterrupt, AlarmRise, AlarmFall
<1>2. axis.moving /\ ~Resting(axis)
  BY <1>1 DEF Sane, PulsePart, Resting
<1>3. /\ UNCHANGED <<pc, credit, issued, standing>>
      /\ standing # "estop"
      /\ pc' \in {"idle", "pulses", "homing"} /\ credit' \in Nat
      /\ issued' \in Nat /\ standing' \in Orders /\ (HasScheduler /\ pc' # "pulses" => credit' = 0)
  BY <1>1, <1>2 DEF TimerInterrupt, AlarmRise, AlarmFall, IInv, TypeOK
<1>4. CASE AlarmRise
  <2> DEFINE high == [axis EXCEPT !.stepHigh = TRUE]
             lost == [axis EXCEPT !.armed = FALSE, !.schedFault = TRUE]
  <2>1. PICK next \in {high, lost} : AxisBecomes(next, ShaftStep)
    BY <1>4, ZenonT(60) DEF AlarmRise
  <2>2. high \in AxisState /\ lost \in AxisState BY <1>1, ZenonT(60) DEF AxisState
  <2>3. ShaftStep \in Int BY <1>1 DEF ShaftStep, AxisState
  <2>4. Sane(high, credit)
    BY <1>1, <1>2 DEF Sane, TrustPart, PowerPart, PulsePart, AheadPart,
        DrivenPart, AxisState
  <2>5. Sane(lost, credit)
    BY <1>1, <1>2 DEF Sane, TrustPart, PowerPart, PulsePart, AheadPart,
        DrivenPart, AxisState
  <2> QED BY <1>3, <2>1, <2>2, <2>3, <2>4, <2>5, BecomesIInv
<1>5. CASE AlarmFall
  <2> DEFINE n == axis.completed + 1
             next == [axis EXCEPT !.stepHigh = FALSE, !.armed = FALSE,
                 !.completed = n]
  <2>1. AxisBecomes(next, 0) BY <1>5, ZenonT(60) DEF AlarmFall
  <2>2. n \in Nat /\ n > 0 BY <1>1 DEF AxisState
  <2>3. next \in AxisState
    <3> HIDE DEF n
    <3> QED BY <1>1, <2>2, ZenonT(60) DEF AxisState
  <2>4. Sane(next, credit)
    <3> HIDE DEF n
    <3> QED BY <1>1, <1>2, <2>2 DEF Sane, TrustPart, PowerPart, PulsePart,
        AheadPart, DrivenPart, AxisState
  <2> QED BY <1>3, <2>1, <2>3, <2>4, BecomesIInv
<1> QED BY <1>4, <1>5 DEF TimerInterrupt

\* Every step keeps the invariant.
LEMMA StepIInv == IInv /\ [Next]_vars => IInv'
<1> SUFFICES ASSUME IInv, [Next]_vars PROVE IInv'
  OBVIOUS
<1>1. /\ axis \in AxisState /\ credit \in Nat /\ Sane(axis, credit)
      /\ (standing = "estop" => Resting(axis))
  BY DEF IInv, TypeOK
<1>2. CASE Commands BY <1>2, CommandsIInv
<1>3. CASE MotionTask BY <1>3, MotionTaskIInv
<1>4. CASE TimerInterrupt BY <1>4, AlarmsIInv
<1>5. CASE Diagnostics
  <2>1. PICK reading \in Readings : AxisBecomes(ServiceDiagnostics(axis,
      reading), 0)
    BY <1>5 DEF Diagnostics
  <2>2. UNCHANGED <<pc, credit, issued, standing>> BY <1>5 DEF Diagnostics
  <2> QED BY <1>1, <2>1, <2>2, ServiceDiagnosticsSane, BecomesIInv DEF IInv,
      TypeOK
<1>6. CASE Tick
  <2>1. AxisBecomes(Age(axis), 0) /\ UNCHANGED <<pc, credit, issued, standing>>
    BY <1>6 DEF Tick
  <2> QED BY <1>1, <2>1, AgeSane, BecomesIInv DEF IInv, TypeOK
<1>7. CASE UNCHANGED vars BY <1>7 DEF vars, IInv, TypeOK
<1> QED BY <1>2, <1>3, <1>4, <1>5, <1>6, <1>7 DEF Next

\* IInv is an invariant of the specification.
THEOREM Invariance == Spec => []IInv
BY InitIInv, StepIInv, PTL DEF Spec

-----------------------------------------------------------------------------
(* The theorems *)

\* Every state of the controller, its driver and its scheduler is well typed:
\* no count goes below zero, no age beyond its limit.
THEOREM TypeCorrectness == Spec => []TypeOK
<1>1. IInv => TypeOK BY DEF IInv, TypeOK
<1> QED BY <1>1, Invariance, PTL

\* Trust, HOMED, the loss reason and the completed homing always agree, through
\* every fault, stop and reconfiguration (mark_position_untrusted and
\* service_homing, the only writers).
THEOREM TrustExplained == Spec => []TrustIsExplained
<1>1. IInv => TrustIsExplained BY DEF IInv, Sane, TrustPart, TrustIsExplained
<1> QED BY <1>1, Invariance, PTL

\* An axis that moves is enabled, its outputs are on, its driver answers and its
\* last status is good (start_step_move, set_current, service_diagnostics).
THEOREM MovingPowered == Spec => []MovingIsPowered
<1>1. IInv => MovingIsPowered BY DEF IInv, Sane, PowerPart, MovingIsPowered
<1> QED BY <1>1, Invariance, PTL

\* ENABLED is reported of a driver with its outputs off only after that driver
\* was lost in a configuration write.
THEOREM EnabledMeansOutputs == Spec => []EnabledUnlessLost
<1>1. IInv => EnabledUnlessLost BY DEF IInv, Sane, PowerPart, EnabledUnlessLost
<1> QED BY <1>1, Invariance, PTL

\* The timer is never armed, nor STEP high, for an axis the controller takes to
\* be at rest (stop_pulse_generation).
THEOREM NoPulseAtRest == Spec => []PulsesOnlyWhileMoving
<1>1. IInv => PulsesOnlyWhileMoving BY DEF IInv, Sane, PulsePart,
    PulsesOnlyWhileMoving
<1> QED BY <1>1, Invariance, PTL

\* A move is never forgotten between the interrupt, which completes pulses, and
\* service(), which arms them (service_step_generator, handle_alarm).
THEOREM MoveDriven == Spec => []MoveIsDriven
<1>1. IInv => MoveIsDriven BY DEF IInv, Sane, DrivenPart, MoveIsDriven
<1> QED BY <1>1, Invariance, PTL

\* The position never passes the target of a move, for any number of pulses and
\* any timing of the interrupt.
THEOREM NoOvershoot == Spec => []TargetAhead
<1>1. IInv => TargetAhead BY DEF IInv, Sane, AheadPart, TargetAhead
<1> QED BY <1>1, Invariance, PTL

\* After an emergency stop the axis is at rest, unpowered and untrusted until an
\* order that moves or enables it is accepted: no phase of a homing, late pulse
\* or timer alarm brings it back (emergency_stop).
THEOREM EmergencyStopIsFinal == Spec => []EmergencyStopHolds
<1>1. IInv => EmergencyStopHolds BY DEF IInv, Resting, EmergencyStopHolds
<1> QED BY <1>1, Invariance, PTL

-----------------------------------------------------------------------------
(* Operations that leave the pulses alone *)

\* What an operation does to the pulses of a trusted axis, short of counting
\* or making one: nothing, or it starts a move.  Trust is gained at rest.
Steady(a, b) ==
  /\ b.armed => a.armed \/ HasScheduler
  /\ b.trusted => a.trusted \/ ~b.moving
  /\ a.trusted /\ b.trusted =>
       /\ b.position = a.position
       /\ \/ /\ b.moving = a.moving /\ b.direction = a.direction
             /\ b.armed = a.armed /\ b.stepHigh = a.stepHigh
          \/ /\ ~a.moving /\ b.moving /\ ~b.stepHigh
             /\ HasScheduler => b.armed

Quiet(a, b) == b.completed = a.completed /\ Steady(a, b)

\* Debouncing leaves all this alone.
LEMMA UpdateSwitchQuiet ==
  ASSUME NEW a \in AxisState, NEW raw \in BOOLEAN
  PROVE  LET seen == UpdateSwitch(a, raw)
         IN  /\ seen.completed = a.completed /\ seen.position = a.position
             /\ seen.moving = a.moving /\ seen.direction = a.direction
             /\ seen.armed = a.armed /\ seen.stepHigh = a.stepHigh
             /\ seen.trusted = a.trusted
BY DEF UpdateSwitch, AxisState

\* What unsettles an axis lets its pulses be, or its trust is over.
LEMMA FailQuiet ==
  ASSUME NEW a \in AxisState, NEW fault, NEW reason
  PROVE  Quiet(a, Fail(a, fault, reason))
BY DEF Quiet, Steady, Fail, Untrust, StopPulses, AxisState

\* A move starts from rest.
LEMMA StartStepMoveQuiet ==
  ASSUME NEW a \in AxisState, NEW target \in Int, NEW speedOk \in BOOLEAN,
         NEW purpose, NEW id, NEW requireTrust \in BOOLEAN,
         NEW armOk \in BOOLEAN
  PROVE  LET b == StartStepMove(a, target, speedOk, purpose, id, requireTrust,
                                armOk).axis
         IN  Quiet(a, b) /\ (b.trusted => a.trusted)
<1> DEFINE b == StartStepMove(a, target, speedOk, purpose, id, requireTrust,
                              armOk).axis
           began == Started(a, target, purpose, id)
           stay == [Powered(a) EXCEPT !.target = target, !.lastCompleted = id,
                                      !.fault = "none"]
           go == [began EXCEPT !.armed = HasScheduler, !.stepHigh = FALSE,
                               !.fault = "none"]
<1>1. \/ b = a
      \/ b = Fail(a, "driver_critical", "driver_fault")
      \/ b = stay
      \/ b = Fail(ArmFailed(began), "driver_communication", "driver_fault")
      \/ ~a.moving /\ b = go
  BY DEF StartStepMove, Refuse, Failed, Accept
<1>2. Quiet(a, a)
  BY DEF Quiet, Steady
<1>3. Quiet(a, stay)
  BY DEF Quiet, Steady, Powered, AxisState
<1>4. Quiet(a, Fail(ArmFailed(began), "driver_communication", "driver_fault"))
  BY DEF Quiet, Steady, Fail, Untrust, StopPulses, ArmFailed, Started, Powered,
     AxisState
<1>5. ~a.moving => Quiet(a, go)
  BY ConfigAssumption DEF Quiet, Steady, Started, Powered, AxisState
<1>6. b.trusted => a.trusted
  <2>1. /\ stay.trusted = a.trusted /\ go.trusted = a.trusted
        /\ ~Fail(a, "driver_critical", "driver_fault").trusted
        /\ ~Fail(ArmFailed(began), "driver_communication",
                 "driver_fault").trusted
    BY DEF Fail, Untrust, StopPulses, ArmFailed, Started, Powered, AxisState
  <2> QED BY <1>1, <2>1
<1> QED BY <1>1, <1>2, <1>3, <1>4, <1>5, <1>6, FailQuiet

LEMMA MovesQuiet ==
  ASSUME NEW a \in AxisState, NEW angle \in Int, NEW speedOk \in BOOLEAN,
         NEW id, NEW armOk \in BOOLEAN,
         NEW out \in {MoveAbsolute(a, angle, speedOk, id, armOk),
                      MoveRelative(a, angle, speedOk, id, armOk),
                      BenchMove(a, angle, id, armOk)}
  PROVE  Quiet(a, out.axis)
<1>1. a.position \in Int /\ Steps(a, angle) \in Int
  BY StepsType DEF AxisState
<1>2. Quiet(a, a)
  BY DEF Quiet, Steady
<1> HIDE DEF Steps
<1>3. a.position + Steps(a, angle) \in Int /\ a.position + angle \in Int
  BY <1>1
<1>4. Quiet(a, MoveAbsolute(a, angle, speedOk, id, armOk).axis)
  BY <1>1, StartStepMoveQuiet DEF MoveAbsolute
<1>5. Quiet(a, MoveRelative(a, angle, speedOk, id, armOk).axis)
  BY <1>2, <1>3, StartStepMoveQuiet DEF MoveRelative, Refuse
<1>6. Quiet(a, BenchMove(a, angle, id, armOk).axis)
  BY <1>2, <1>3, StartStepMoveQuiet DEF BenchMove, Refuse
<1> QED BY <1>4, <1>5, <1>6

\* Neither a homing that begins nor one that goes on is trusted.
LEMMA StartHomingQuiet ==
  ASSUME NEW a \in AxisState, NEW raw \in BOOLEAN, NEW id,
         NEW armOk \in BOOLEAN
  PROVE  Quiet(a, StartHoming(a, raw, id, armOk).axis)
<1> DEFINE seen == UpdateSwitch(a, raw)
           begun == [Untrust(seen, "homing_failed") EXCEPT
                       !.phase = "validate_switch"]
           approaching == [begun EXCEPT !.phase = "fast_approach",
                                        !.homingAge = 0]
           far == a.position + HomeSide * HomingTravel(a)
           went == StartStepMove(approaching, far, TRUE, "homing_fast", id,
                                 FALSE, armOk).axis
           b == StartHoming(a, raw, id, armOk).axis
<1>1. seen \in AxisState /\ seen.completed = a.completed
      /\ seen.armed = a.armed
  BY UpdateSwitchType, UpdateSwitchQuiet
<1>2. begun \in AxisState /\ approaching \in AxisState
  <2> HIDE DEF seen
  <2>1. Untrust(seen, "homing_failed") \in AxisState
    BY <1>1, UntrustType DEF TrustLosses
  <2>2. "validate_switch" \in Phases /\ "fast_approach" \in Phases
    BY DEF Phases, LivePhases
  <2>3. begun \in AxisState BY <2>1, <2>2, ZenonT(60) DEF AxisState
  <2> HIDE DEF begun
  <2> QED BY <2>2, <2>3, Zeros, ZenonT(60) DEF AxisState
<1>3. /\ approaching.completed = a.completed /\ begun.completed = a.completed
      /\ approaching.armed = a.armed /\ begun.armed = a.armed
      /\ ~approaching.trusted
  <2> HIDE DEF seen
  <2> QED BY <1>1 DEF Untrust, AxisState
<1>4. far \in Int
  <2>1. a.position \in Int /\ HomeSide * HomingTravel(a) \in Int
    BY HomingTravelType, ConfigAssumption DEF AxisState
  <2> QED BY <2>1
<1>5. b \in {a, Fail(begun, "homing_stuck_switch", "homing_failed"), went}
  BY ZenonT(60) DEF StartHoming, Refuse, Failed
<1> HIDE DEF approaching, begun, far
<1>6. Quiet(approaching, went) /\ ~went.trusted
  BY <1>2, <1>3, <1>4, StartStepMoveQuiet
<1>7. Quiet(a, went)
  BY <1>3, <1>6 DEF Quiet, Steady
<1>8. ~Fail(begun, "homing_stuck_switch", "homing_failed").trusted
  BY <1>2 DEF Fail, Untrust, StopPulses, AxisState
<1>9. Quiet(a, Fail(begun, "homing_stuck_switch", "homing_failed"))
  BY <1>2, <1>3, <1>8, FailQuiet DEF Quiet, Steady
<1>10. Quiet(a, a)
  BY DEF Quiet, Steady
<1> QED BY <1>5, <1>7, <1>9, <1>10

\* The other commands.
LEMMA CommandsQuiet ==
  ASSUME NEW a \in AxisState, PulsePart(a)
  PROVE  /\ Quiet(a, Stop(a))
         /\ Quiet(a, EmergencyStop(a))
         /\ \A enabled \in BOOLEAN : Quiet(a, SetEnabled(a, enabled).axis)
         /\ Quiet(a, ClearFault(a).axis)
         /\ \A result \in WriteResults :
              /\ Quiet(a, SetCurrent(a, result).axis)
              /\ \A microsteps \in MicrostepChoices :
                   Quiet(a, SetMicrosteps(a, microsteps, result).axis)
<1>0. Quiet(a, a)
  BY DEF Quiet, Steady
<1>1. Quiet(a, Stop(a))
  BY DEF Quiet, Steady, Stop, StopPulses, Untrust, AxisState, PulsePart
<1>2. Quiet(a, EmergencyStop(a))
  BY FailQuiet DEF EmergencyStop
<1>3. ASSUME NEW enabled \in BOOLEAN
      PROVE  Quiet(a, SetEnabled(a, enabled).axis)
  <2>1. Quiet(a, Disable(a))
    BY DEF Quiet, Steady, Disable, StopPulses, Untrust, AxisState
  <2>2. Quiet(a, [a EXCEPT !.enabled = TRUE, !.outputs = TRUE,
                           !.fault = "none"])
    BY DEF Quiet, Steady, AxisState
  <2> QED BY <2>1, <2>2, FailQuiet DEF SetEnabled, Failed, Accept
<1>4. Quiet(a, ClearFault(a).axis)
  BY <1>0 DEF Quiet, Steady, ClearFault, Refuse, Accept, AxisState
<1>5. ASSUME NEW result \in WriteResults
      PROVE  /\ Quiet(a, DriverWrite(a, result))
             /\ Quiet(a, Accept(a).axis)
  BY DEF Quiet, Steady, DriverWrite, Accept, AxisState
<1>6. ASSUME NEW result \in WriteResults
      PROVE  Quiet(a, SetCurrent(a, result).axis)
  BY <1>0, <1>5, <1>6 DEF SetCurrent, Refuse
<1>7. ASSUME NEW result \in WriteResults, NEW microsteps \in MicrostepChoices
      PROVE  Quiet(a, SetMicrosteps(a, microsteps, result).axis)
  <2> DEFINE changed == [Untrust(a, "configuration_changed") EXCEPT
                           !.microsteps = microsteps]
  <2>1. Quiet(a, Accept(changed).axis)
    BY DEF Quiet, Steady, Accept, Untrust, AxisState
  <2> QED BY <1>0, <1>5, <1>7, <2>1 DEF SetMicrosteps, Refuse
<1> QED BY <1>1, <1>2, <1>3, <1>4, <1>6, <1>7

\* The head of service(), diagnostics and the clock.
LEMMA ServiceQuiet ==
  ASSUME NEW a \in AxisState
  PROVE  /\ \A raw \in BOOLEAN : Quiet(a, ServiceEntry(a, raw))
         /\ \A reading \in Readings : Quiet(a, ServiceDiagnostics(a, reading))
         /\ Quiet(a, Age(a))
<1>1. ASSUME NEW raw \in BOOLEAN PROVE Quiet(a, ServiceEntry(a, raw))
  <2> DEFINE seen == UpdateSwitch(a, raw)
             b == ServiceEntry(a, raw)
  <2>1. seen \in AxisState /\ Quiet(a, seen)
    BY UpdateSwitchType, UpdateSwitchQuiet DEF Quiet, Steady
  <2>2. ASSUME NEW fault, NEW reason
        PROVE  /\ Quiet(a, Fail(seen, fault, reason))
               /\ Quiet(a, [Fail(seen, fault, reason) EXCEPT
                              !.schedFault = FALSE])
    <3> HIDE DEF seen
    <3> QED BY <2>1 DEF Quiet, Steady, Fail, Untrust, StopPulses, AxisState
  <2> DEFINE late == Fail(seen, "motion_timeout", "motion_timeout")
             met == Fail(seen, "unexpected_home_switch",
                         "suspected_missed_step")
             lost == [Fail(seen, "driver_communication", "driver_fault")
                        EXCEPT !.schedFault = FALSE]
  <2>3. b \in {seen, late, met, lost}
    BY ZenonT(60) DEF ServiceEntry
  <2>4. Quiet(a, late) /\ Quiet(a, met) /\ Quiet(a, lost)
    BY <2>2
  <2> HIDE DEF seen, late, met, lost, b
  <2>5. Quiet(a, b)
    BY <2>1, <2>3, <2>4
  <2> QED BY <2>5 DEF b
<1>2. ASSUME NEW reading \in Readings
      PROVE  Quiet(a, ServiceDiagnostics(a, reading))
  BY DEF Quiet, Steady, ServiceDiagnostics, Fail, Untrust, StopPulses, AxisState
<1>3. Quiet(a, Age(a))
  BY DEF Quiet, Steady, Age, AxisState
<1> QED BY <1>1, <1>2, <1>3

\* A homing in progress is not trusted: it gains trust only as it ends, at
\* rest.
LEMMA ServiceHomingQuiet ==
  ASSUME NEW a \in AxisState, TrustPart(a), NEW armOk \in BOOLEAN
  PROVE  Quiet(a, ServiceHoming(a, armOk))
<1>1. Quiet(a, a)
  BY DEF Quiet, Steady
<1>2. ASSUME NEW fault, NEW reason PROVE Quiet(a, Fail(a, fault, reason))
  BY FailQuiet
<1>3. ASSUME a.phase \in LivePhases PROVE ~a.trusted
  BY <1>3 DEF TrustPart, LivePhases
<1>4. ASSUME ~a.trusted, NEW phase \in Phases, NEW purpose, NEW steps \in Int,
             NEW x \in {a, StopPulses(a)}
      PROVE  Quiet(a, HomingMove(x, phase, purpose, steps, armOk))
  <2> DEFINE turned == [x EXCEPT !.phase = phase]
             b == StartStepMove(turned, x.position + HomeSide * steps, TRUE,
                                purpose, x.activeId, FALSE, armOk).axis
  <2>1. x \in AxisState
    BY StopPulsesType
  <2>2. turned \in AxisState
    BY <2>1, ZenonT(60) DEF AxisState
  <2>3. /\ turned.completed = a.completed /\ ~turned.trusted
        /\ turned.armed => a.armed
    BY <1>4 DEF StopPulses, AxisState
  <2>4. x.position + HomeSide * steps \in Int
    BY <2>1, ConfigAssumption DEF AxisState
  <2> HIDE DEF turned
  <2>5. Quiet(turned, b) /\ ~b.trusted
    BY <2>2, <2>3, <2>4, StartStepMoveQuiet
  <2>6. Quiet(a, b)
    BY <2>3, <2>5 DEF Quiet, Steady
  <2> QED BY <2>6 DEF HomingMove, turned
<1>5. ~a.trusted => Quiet(a, ApplyOffset(a))
  BY DEF Quiet, Steady, ApplyOffset, StopPulses, AxisState
<1>6. /\ "backoff" \in Phases /\ "slow_approach" \in Phases
      /\ -Steps(a, Backoff) \in Int /\ 2 * Steps(a, Backoff) \in Int
  <2>1. Steps(a, Backoff) \in Int
    BY ConfigAssumption, StepsType
  <2> HIDE DEF Steps
  <2> QED BY <2>1 DEF Phases, LivePhases
<1>7. CASE a.phase \notin LivePhases
  BY <1>1, <1>7 DEF ServiceHoming
<1>8. CASE a.phase \in LivePhases
  <2>1. ~a.trusted
    BY <1>3, <1>8
  <2> DEFINE back == HomingMove(StopPulses(a), "backoff", "homing_backoff",
                                -Steps(a, Backoff), armOk)
             slow == HomingMove(a, "slow_approach", "homing_slow",
                                2 * Steps(a, Backoff), armOk)
  <2>2. Quiet(a, back) /\ Quiet(a, slow)
    BY <1>4, <1>6, <2>1
  <2>3. \/ ServiceHoming(a, armOk) \in {a, back, slow, ApplyOffset(a)}
        \/ \E fault \in AxisFaults :
             ServiceHoming(a, armOk) = Fail(a, fault, "homing_failed")
    BY ZenonT(60) DEF ServiceHoming, AxisFaults
  <2> HIDE DEF back, slow
  <2> QED BY <1>1, <1>2, <1>5, <2>1, <2>2, <2>3
<1> QED BY <1>7, <1>8

\* The steps that neither count nor make a pulse.
QuietStep == AxisBecomes(axis', 0) /\ Quiet(axis, axis') /\ credit' = credit

\* Every command is one.
LEMMA CommandsStepQuietly == IInv /\ Commands => QuietStep
<1> SUFFICES ASSUME IInv, Commands PROVE QuietStep
  OBVIOUS
<1>1. axis \in AxisState /\ PulsePart(axis)
  BY DEF IInv, TypeOK, Sane
<1>2. ASSUME NEW out, NEW order, Command(out, order), Quiet(axis, out.axis)
      PROVE  QuietStep
  BY <1>2 DEF Command, AxisBecomes, QuietStep
<1>3. SwitchLevels \subseteq BOOLEAN
  BY DEF SwitchLevels
<1>4. CASE MoveAbsoluteDegrees
  <2>1. PICK angle \in MoveAngles, speedOk \in BOOLEAN, armOk \in BOOLEAN :
          Command(MoveAbsolute(axis, angle, speedOk, issued + 1, armOk),
                  "move")
    BY <1>4 DEF MoveAbsoluteDegrees
  <2>2. angle \in Int BY CommandAssumption
  <2> QED BY <1>1, <1>2, <2>1, <2>2, MovesQuiet
<1>5. CASE MoveRelativeDegrees
  <2>1. PICK delta \in MoveDeltas, speedOk \in BOOLEAN, armOk \in BOOLEAN :
          Command(MoveRelative(axis, delta, speedOk, issued + 1, armOk),
                  "move")
    BY <1>5 DEF MoveRelativeDegrees
  <2>2. delta \in Int BY CommandAssumption
  <2> QED BY <1>1, <1>2, <2>1, <2>2, MovesQuiet
<1>6. CASE BenchMoveSteps
  <2>1. PICK steps \in BenchMoves, armOk \in BOOLEAN :
          Command(BenchMove(axis, steps, issued + 1, armOk), "move")
    BY <1>6 DEF BenchMoveSteps
  <2>2. steps \in Int BY CommandAssumption
  <2> QED BY <1>1, <1>2, <2>1, <2>2, MovesQuiet
<1>7. CASE Home
  <2>1. PICK raw \in BOOLEAN, armOk \in BOOLEAN :
          Command(StartHoming(axis, raw, issued + 1, armOk), "move")
    BY <1>3, <1>7 DEF Home
  <2> QED BY <1>1, <1>2, <2>1, StartHomingQuiet
<1>8. CASE StopCommand
  BY <1>1, <1>2, <1>8, CommandsQuiet DEF StopCommand
<1>9. CASE EmergencyStopCommand
  BY <1>1, <1>2, <1>9, CommandsQuiet DEF EmergencyStopCommand
<1>10. CASE EnableCommand
  BY <1>1, <1>2, <1>10, CommandsQuiet DEF EnableCommand
<1>11. CASE DisableCommand
  BY <1>1, <1>2, <1>11, CommandsQuiet DEF DisableCommand
<1>12. CASE ClearFaultCommand
  BY <1>1, <1>2, <1>12, CommandsQuiet DEF ClearFaultCommand
<1>13. CASE SetCurrentCommand
  BY <1>1, <1>2, <1>13, CommandsQuiet DEF SetCurrentCommand
<1>14. CASE SetMicrostepsCommand
  BY <1>1, <1>2, <1>14, CommandsQuiet DEF SetMicrostepsCommand
<1> QED BY <1>4, <1>5, <1>6, <1>7, <1>8, <1>9, <1>10, <1>11, <1>12, <1>13,
           <1>14 DEF Commands

\* So are homing, diagnostics and the clock.
LEMMA OthersStepQuietly ==
  IInv /\ (ServiceHomingStep \/ Diagnostics \/ Tick) => QuietStep
<1>1. IInv => axis \in AxisState /\ TrustPart(axis)
  BY DEF IInv, TypeOK, Sane
<1>2. IInv /\ ServiceHomingStep => QuietStep
  BY <1>1, ServiceHomingQuiet DEF ServiceHomingStep, QuietStep, AxisBecomes
<1>3. IInv /\ Diagnostics => QuietStep
  BY <1>1, ServiceQuiet DEF Diagnostics, QuietStep, AxisBecomes
<1>4. IInv /\ Tick => QuietStep
  BY <1>1, ServiceQuiet DEF Tick, QuietStep, AxisBecomes
<1> QED BY <1>2, <1>3, <1>4

\* service() keeps or consumes the completed pulses and loses none.
LEMMA ServiceBeginSteadily ==
  IInv /\ ServiceBegin =>
    /\ AxisBecomes(axis', 0) /\ Steady(axis, axis')
    /\ axis'.completed \in Nat /\ credit' \in Nat
    /\ axis'.completed + credit' = axis.completed
<1> SUFFICES ASSUME IInv, ServiceBegin
             PROVE  /\ AxisBecomes(axis', 0) /\ Steady(axis, axis')
                    /\ axis'.completed \in Nat /\ credit' \in Nat
                    /\ axis'.completed + credit' = axis.completed
  OBVIOUS
<1>1. /\ axis \in AxisState /\ axis.completed \in Nat /\ credit \in Nat
      /\ Sane(axis, credit)
  BY DEF IInv, TypeOK, AxisState
<1>2. PICK raw \in BOOLEAN :
        LET checked == ServiceEntry(axis, raw)
            passed  == checked = UpdateSwitch(axis, raw)
        IN  /\ AxisBecomes([checked EXCEPT !.completed =
                              IF passed THEN 0 ELSE @], 0)
            /\ credit' = IF passed THEN axis.completed ELSE 0
  BY DEF ServiceBegin, SwitchLevels
<1> DEFINE checked == ServiceEntry(axis, raw)
           passed == checked = UpdateSwitch(axis, raw)
           kept == IF passed THEN 0 ELSE checked.completed
           next == [checked EXCEPT !.completed = kept]
<1>3. AxisBecomes(next, 0) /\ credit' = (IF passed THEN axis.completed ELSE 0)
  BY <1>2
<1>4. Quiet(axis, checked) /\ checked \in AxisState
  BY <1>1, ServiceQuiet, ServiceEntrySane
<1> HIDE DEF checked, passed
<1>5. Steady(axis, next) /\ next.completed = kept
  BY <1>4 DEF Quiet, Steady, AxisState
<1> HIDE DEF next
<1> QED BY <1>1, <1>3, <1>4, <1>5 DEF Quiet, AxisBecomes

-----------------------------------------------------------------------------
(* The position and the shaft *)

\* DriftIsPaidFor, of one step.
Paid ==
  HasScheduler /\ axis.trusted /\ axis'.trusted =>
    Magnitude(Astray') + LeftOver' <= Magnitude(Astray) + LeftOver

\* An operation that counts and makes no pulse costs nothing, even if it drops
\* some of the completed ones.
LEMMA SteadyPays ==
  ASSUME IInv, AxisBecomes(axis', 0), Steady(axis, axis'),
         axis'.completed \in Nat, credit' \in Nat,
         axis'.completed + credit' <= axis.completed + credit
  PROVE  Paid
<1> SUFFICES ASSUME HasScheduler, axis.trusted, axis'.trusted
             PROVE  Magnitude(Astray') + LeftOver' <= Magnitude(Astray) + LeftOver
  BY DEF Paid
<1>1. /\ axis \in AxisState /\ axis.completed \in Nat /\ credit \in Nat
      /\ drift \in Int /\ axis.direction \in Int /\ axis.position \in Int
      /\ PulsePart(axis)
  BY DEF IInv, TypeOK, Sane, AxisState
<1>2. drift' = drift
  BY <1>1 DEF AxisBecomes, Steady
<1>3. Astray' = Astray
  BY <1>1, <1>2 DEF Astray, Steady, PulsePart
<1>4. LeftOver' <= LeftOver
  BY <1>1 DEF LeftOver, Steady, PulsePart
<1>5. Magnitude(Astray) \in Int /\ LeftOver \in Int /\ LeftOver' \in Int
  BY <1>1 DEF Magnitude, Astray, LeftOver
<1> HIDE DEF Astray, LeftOver, Magnitude
<1> QED BY <1>3, <1>4, <1>5

\* Counting a pulse: one of the move's own puts the drift right, one left over
\* pays for the step the position is then off.
LEMMA CountingPays ==
  ASSUME IInv, NEW armOk \in BOOLEAN, axis.moving, credit > 0,
         AxisBecomes(CreditPulse(axis, armOk), 0), credit' = credit - 1
  PROVE  Paid
<1> DEFINE next == CreditPulse(axis, armOk)
<1> SUFFICES ASSUME HasScheduler, axis.trusted, next.trusted
             PROVE  Magnitude(Astray') + LeftOver' <= Magnitude(Astray) + LeftOver
  BY DEF Paid, AxisBecomes
<1>1. /\ axis' = next /\ axis \in AxisState
      /\ axis.completed \in Nat /\ credit \in Nat /\ drift \in Int
      /\ axis.direction \in {-1, 0, 1} /\ axis.position \in Int
  BY DEF AxisBecomes, IInv, TypeOK, AxisState
<1>2. /\ next.position = axis.position + axis.direction
      /\ next.completed = axis.completed
      /\ \/ ~next.moving /\ ~next.armed /\ ~next.stepHigh
         \/ /\ ~axis.armed
            /\ next.moving /\ next.armed /\ ~next.stepHigh
            /\ next.direction = axis.direction
  BY <1>1 DEF CreditPulse, Finish, StopPulses, CanArm, Fail, Untrust,
     AxisState
<1> HIDE DEF next
<1>3. drift' = drift + axis.direction
  BY <1>1, <1>2 DEF AxisBecomes
<1> QED BY <1>1, <1>2, <1>3 DEF Magnitude, Astray, LeftOver

\* The steps that count no pulse and make none.
LEMMA SteadySteps ==
  ASSUME IInv,
         QuietStep \/ ServiceBegin \/ ServicePulsesDone
  PROVE  Paid
<1>1. /\ axis \in AxisState /\ credit \in Nat /\ axis.completed \in Nat
      /\ (HasScheduler /\ pc # "pulses" => credit = 0)
  BY DEF IInv, TypeOK, AxisState
<1>2. CASE QuietStep
  BY <1>1, <1>2, SteadyPays DEF QuietStep, Quiet
<1>3. CASE ServiceBegin
  <2>1. HasScheduler => credit = 0
    BY <1>1, <1>3 DEF ServiceBegin
  <2>2. CASE HasScheduler
    BY <1>1, <1>3, <2>1, <2>2, ServiceBeginSteadily, SteadyPays
  <2> QED BY <2>2 DEF Paid
<1>4. CASE ServicePulsesDone
  <2>1. axis' = axis /\ drift' = drift /\ credit' = 0
    BY <1>4 DEF ServicePulsesDone
  <2>2. Astray' = Astray /\ LeftOver' <= LeftOver
    BY <1>1, <2>1 DEF Astray, LeftOver
  <2>3. Magnitude(Astray) \in Int /\ LeftOver \in Int /\ LeftOver' \in Int
    BY <1>1, <2>1 DEF Magnitude, Astray, LeftOver, IInv, TypeOK, AxisState
  <2> HIDE DEF Magnitude, Astray, LeftOver
  <2> QED BY <2>2, <2>3 DEF Paid
<1> QED BY <1>2, <1>3, <1>4

\* The interrupt makes what was armed: a pulse of the move's own becomes a
\* completed one, and one whose falling edge is lost is a step uncounted.
LEMMA AlarmsPay == IInv /\ TimerInterrupt => Paid
<1> SUFFICES ASSUME IInv, TimerInterrupt, HasScheduler, axis.trusted,
                    axis'.trusted
             PROVE  Magnitude(Astray') + LeftOver' <= Magnitude(Astray) + LeftOver
  BY DEF Paid
<1>1. /\ axis \in AxisState /\ axis.armed /\ axis.moving /\ axis.outputs
      /\ axis.completed \in Nat /\ credit \in Nat /\ drift \in Int
      /\ axis.direction \in Int /\ axis.position \in Int
      /\ credit' = credit
  BY DEF IInv, TypeOK, Sane, PulsePart, PowerPart, TimerInterrupt, AlarmRise,
     AlarmFall, AxisState
<1>2. CASE AlarmRise
  <2> DEFINE high == [axis EXCEPT !.stepHigh = TRUE]
             lost == [axis EXCEPT !.armed = FALSE, !.schedFault = TRUE]
  <2>1. PICK next \in {high, lost} : AxisBecomes(next, ShaftStep)
    BY <1>2, ZenonT(60) DEF AlarmRise
  <2>0. ~axis.stepHigh
    BY <1>2 DEF AlarmRise
  <2>2. /\ next.position = axis.position /\ next.completed = axis.completed
        /\ next.moving /\ next.direction = axis.direction
        /\ (next.armed /\ next.stepHigh) \/ ~next.armed
    BY <1>1 DEF AxisState
  <2> HIDE DEF high, lost
  <2>3. axis' = next /\ drift' = drift - axis.direction
    BY <1>1, <2>1, <2>2 DEF AxisBecomes, ShaftStep
  <2>4. Astray' = Astray
    BY <1>1, <2>0, <2>2, <2>3 DEF Astray
  <2>5. LeftOver' <= LeftOver
    BY <1>1, <2>2, <2>3 DEF LeftOver
  <2>6. Magnitude(Astray) \in Int /\ LeftOver \in Int /\ LeftOver' \in Int
    BY <1>1, <2>2, <2>3 DEF Magnitude, Astray, LeftOver
  <2> HIDE DEF Magnitude, Astray, LeftOver
  <2> QED BY <2>4, <2>5, <2>6
<1>3. CASE AlarmFall
  <2> DEFINE next == [axis EXCEPT !.stepHigh = FALSE, !.armed = FALSE,
                                  !.completed = axis.completed + 1]
  <2>1. AxisBecomes(next, 0)
    BY <1>3, ZenonT(60) DEF AlarmFall
  <2>0. axis.stepHigh
    BY <1>3 DEF AlarmFall
  <2>2. /\ next.position = axis.position
        /\ next.completed = axis.completed + 1
        /\ next.moving /\ next.direction = axis.direction
        /\ ~next.armed /\ ~next.stepHigh
    BY <1>1 DEF AxisState
  <2> HIDE DEF next
  <2>3. axis' = next /\ drift' = drift
    BY <1>1, <2>1, <2>2 DEF AxisBecomes
  <2>4. Astray' = Astray
    BY <1>1, <2>0, <2>2, <2>3 DEF Astray
  <2>5. LeftOver' <= LeftOver
    BY <1>1, <2>2, <2>3 DEF LeftOver
  <2>6. Magnitude(Astray) \in Int /\ LeftOver \in Int /\ LeftOver' \in Int
    BY <1>1, <2>2, <2>3 DEF Magnitude, Astray, LeftOver
  <2> HIDE DEF Magnitude, Astray, LeftOver
  <2> QED BY <2>4, <2>5, <2>6
<1> QED BY <1>2, <1>3 DEF TimerInterrupt

\* Nothing but pulses left over makes a trusted position lie.
THEOREM DriftPaidFor == Spec => DriftIsPaidFor
<1>1. IInv /\ [Next]_vars => [Paid]_vars
  <2> SUFFICES ASSUME IInv, Next PROVE Paid
    OBVIOUS
  <2>1. CASE ServicePulse
    BY <2>1, CountingPays DEF ServicePulse
  <2>2. CASE CooperativeRise \/ CooperativeFall
    BY <2>2 DEF Paid, CooperativeRise, CooperativeFall
  <2> QED BY <2>1, <2>2, CommandsStepQuietly, OthersStepQuietly, SteadySteps,
             AlarmsPay DEF Next, MotionTask
<1> QED BY <1>1, Invariance, PTL DEF Spec, DriftIsPaidFor, Paid

-----------------------------------------------------------------------------
(* Without a scheduler *)

\* The cooperative pulses: none is ever left over, and a trusted position is
\* behind the shaft by no more than the step whose STEP is still high.
CoopInv ==
  /\ axis.completed = 0 /\ credit = 0 /\ ~axis.armed
  /\ axis.trusted =>
       drift = IF axis.moving /\ axis.stepHigh THEN -axis.direction ELSE 0

\* What makes no pulse and counts none keeps it, trust gained included.
LEMMA SteadyKeepsCoop ==
  ASSUME ~HasScheduler, IInv, CoopInv, AxisBecomes(axis', 0),
         Steady(axis, axis'), axis'.completed = 0, credit' = 0,
         PulsePart(axis')
  PROVE  CoopInv'
<1>1. axis \in AxisState /\ PulsePart(axis)
  BY DEF IInv, TypeOK, Sane
<1>2. ~axis'.armed
  BY DEF Steady, CoopInv
<1>3. ASSUME axis'.trusted
      PROVE  drift' = IF axis'.moving /\ axis'.stepHigh
                        THEN -axis'.direction ELSE 0
  BY <1>1, <1>3 DEF AxisBecomes, Steady, CoopInv, PulsePart, AxisState
<1> QED BY <1>1, <1>2, <1>3 DEF CoopInv

\* A step is moved at the rising edge and counted at the falling one.
LEMMA EdgesKeepCoop ==
  ASSUME ~HasScheduler, IInv, CoopInv, CooperativeRise \/ CooperativeFall
  PROVE  CoopInv'
<1>1. /\ axis \in AxisState /\ axis.completed = 0 /\ credit = 0 /\ ~axis.armed
      /\ axis.direction \in Int /\ axis.position \in Int /\ drift \in Int
      /\ PowerPart(axis)
  BY DEF IInv, TypeOK, Sane, CoopInv, AxisState
<1>2. CASE CooperativeRise
  <2> DEFINE next == [axis EXCEPT !.stepHigh = TRUE]
  <2>1. /\ AxisBecomes(next, ShaftStep) /\ axis.moving /\ ~axis.stepHigh
        /\ credit' = credit
    BY <1>2 DEF CooperativeRise
  <2>2. /\ next.position = axis.position /\ next.completed = axis.completed
        /\ next.moving /\ next.direction = axis.direction /\ next.stepHigh
        /\ next.armed = axis.armed /\ next.trusted = axis.trusted
    BY <1>1, <2>1 DEF AxisState
  <2> HIDE DEF next
  <2> QED BY <1>1, <2>1, <2>2 DEF CoopInv, AxisBecomes, ShaftStep, PowerPart
<1>3. CASE CooperativeFall
  <2> DEFINE next == CreditPulse(axis, TRUE)
  <2>1. /\ AxisBecomes(next, 0) /\ axis.moving /\ axis.stepHigh
        /\ credit' = credit
    BY <1>3 DEF CooperativeFall
  <2>2. /\ next.position = axis.position + axis.direction
        /\ next.completed = axis.completed
        /\ ~next.armed /\ ~next.stepHigh /\ next.trusted = axis.trusted
    BY <1>1 DEF CreditPulse, Finish, StopPulses, CanArm, AxisState
  <2> HIDE DEF next
  <2> QED BY <1>1, <2>1, <2>2 DEF CoopInv, AxisBecomes
<1> QED BY <1>2, <1>3

\* Every step keeps it; the alarms, with nothing armed, never run.
LEMMA StepCoop ==
  ASSUME ~HasScheduler, IInv, CoopInv, [Next]_vars
  PROVE  CoopInv'
<1>1. /\ PulsePart(axis') /\ axis.completed = 0 /\ credit = 0 /\ ~axis.armed
  BY StepIInv DEF IInv, Sane, CoopInv
<1>2. CASE QuietStep
  BY <1>1, <1>2, SteadyKeepsCoop DEF QuietStep, Quiet
<1>3. CASE ServiceBegin
  <2>1. axis'.completed = 0 /\ credit' = 0
    BY <1>1, <1>3, ServiceBeginSteadily
  <2> QED BY <1>1, <1>3, <2>1, ServiceBeginSteadily, SteadyKeepsCoop
<1>4. CASE ServicePulsesDone \/ UNCHANGED vars
  BY <1>1, <1>4 DEF ServicePulsesDone, vars, CoopInv
<1>5. ~ServicePulse /\ ~TimerInterrupt
  BY <1>1 DEF ServicePulse, TimerInterrupt, AlarmRise, AlarmFall
<1> QED BY <1>2, <1>3, <1>4, <1>5, EdgesKeepCoop, CommandsStepQuietly,
           OthersStepQuietly DEF Next, MotionTask

\* Where service() makes the pulses itself, a trusted position at rest is
\* exact whatever happened before.
THEOREM CooperativeIsExact ==
  ASSUME ~HasScheduler PROVE Spec => []PositionMatchesPulses
<1>1. Init => CoopInv
  <2> SUFFICES ASSUME Init PROVE CoopInv
    OBVIOUS
  <2>1. PICK raw \in BOOLEAN : axis = StartupAxis("ready", raw)
    BY DEF Init
  <2>2. axis.completed = 0 /\ ~axis.armed /\ ~axis.trusted
    BY <2>1 DEF StartupAxis
  <2> QED BY <2>2 DEF Init, CoopInv
<1>2. IInv /\ CoopInv /\ [Next]_vars => CoopInv'
  BY StepCoop
<1>3. CoopInv => PositionMatchesPulses
  BY DEF CoopInv, PositionMatchesPulses
<1> QED BY <1>1, <1>2, <1>3, Invariance, PTL DEF Spec

-----------------------------------------------------------------------------
(* Completed commands *)

\* Up to command n: a command still to be completed is no older than the last
\* one completed, and an axis at rest is at its target.
Numbered(a, n) ==
  /\ a.lastCompleted \in 0 .. n /\ a.activeId \in 0 .. n
  /\ a.moving \/ a.phase \in LivePhases => a.lastCompleted <= a.activeId
  /\ ~a.moving => a.target = a.position

\* CompletionsAdvance and CompletedAtTarget, of one operation.
InOrder(a, b, n) ==
  /\ Numbered(b, n)
  /\ a.lastCompleted <= b.lastCompleted
  /\ b.lastCompleted # a.lastCompleted =>
       ~b.moving /\ (b.position = a.target \/ (b.trusted /\ ~a.trusted))

\* A failed axis has completed nothing and is to complete nothing.
LEMMA FailInOrder ==
  ASSUME NEW a \in AxisState, NEW n \in Nat, a.lastCompleted <= n,
         a.activeId <= n, NEW fault, NEW reason
  PROVE  InOrder(a, Fail(a, fault, reason), n)
BY DEF InOrder, Numbered, Fail, Untrust, StopPulses, LivePhases, AxisState

\* A command that asks for no trust never finds itself at its target: only a
\* trusted axis, which is not homing, completes a command at once.
LEMMA StartStepMoveInOrder ==
  ASSUME NEW a \in AxisState, NEW target \in Int, NEW speedOk \in BOOLEAN,
         NEW purpose, NEW id \in Nat, NEW requireTrust \in BOOLEAN,
         NEW armOk \in BOOLEAN, TrustPart(a),
         a.lastCompleted <= id, a.activeId <= id,
         ~a.moving => a.target = a.position,
         requireTrust \/ target # a.position,
         \/ Numbered(a, id)
         \/ ~a.moving /\ speedOk /\ ~requireTrust /\ purpose # "normal"
  PROVE  InOrder(a, StartStepMove(a, target, speedOk, purpose, id,
                                  requireTrust, armOk).axis, id)
<1> DEFINE b == StartStepMove(a, target, speedOk, purpose, id, requireTrust,
                              armOk).axis
           began == Started(a, target, purpose, id)
           stay == [Powered(a) EXCEPT !.target = target, !.lastCompleted = id,
                                      !.fault = "none"]
           go == [began EXCEPT !.armed = HasScheduler, !.stepHigh = FALSE,
                               !.fault = "none"]
<1>1. \/ b = a /\ Numbered(a, id)
      \/ b = Fail(a, "driver_critical", "driver_fault")
      \/ ~a.moving /\ target = a.position /\ a.trusted /\ b = stay
      \/ b = Fail(ArmFailed(began), "driver_communication", "driver_fault")
      \/ b = go
  BY DEF StartStepMove, Refuse, Failed, Accept
<1>2. /\ a.lastCompleted \in Nat /\ a.activeId \in Nat /\ a.position \in Int
      /\ a.phase = "complete" => a.phase \notin LivePhases
  BY DEF AxisState, LivePhases
<1>3. Numbered(a, id) => InOrder(a, a, id)
  BY <1>2 DEF InOrder
<1>4. ASSUME ~a.moving, target = a.position, a.trusted
      PROVE  InOrder(a, stay, id)
  <2>1. /\ stay.lastCompleted = id /\ stay.activeId = a.activeId
        /\ stay.moving = a.moving /\ stay.phase = a.phase
        /\ stay.target = target /\ stay.position = a.position
    BY DEF Powered, AxisState
  <2> HIDE DEF stay
  <2> QED BY <1>2, <1>4, <2>1 DEF InOrder, Numbered, TrustPart
<1>5. InOrder(a, Fail(ArmFailed(began), "driver_communication",
                      "driver_fault"), id)
  BY <1>2 DEF InOrder, Numbered, Fail, Untrust, StopPulses, ArmFailed,
     Started, Powered, LivePhases, AxisState
<1>6. InOrder(a, go, id)
  <2>1. /\ go.lastCompleted = a.lastCompleted /\ go.activeId = id /\ go.moving
    BY DEF Started, Powered, AxisState
  <2> HIDE DEF go
  <2> QED BY <1>2, <2>1 DEF InOrder, Numbered
<1> HIDE DEF b, stay, go, began
<1>7. InOrder(a, b, id)
  BY <1>1, <1>3, <1>4, <1>5, <1>6, FailInOrder
<1> QED BY <1>7 DEF b

\* The start of a leg of the homing completes nothing.
LEMMA LegCompletesNothing ==
  ASSUME NEW a \in AxisState, NEW target \in Int, NEW purpose,
         NEW id \in Nat, NEW armOk \in BOOLEAN, target # a.position
  PROVE  StartStepMove(a, target, TRUE, purpose, id, FALSE,
                       armOk).axis.lastCompleted = a.lastCompleted
<1> DEFINE b == StartStepMove(a, target, TRUE, purpose, id, FALSE, armOk).axis
           began == Started(a, target, purpose, id)
           go == [began EXCEPT !.armed = HasScheduler, !.stepHigh = FALSE,
                               !.fault = "none"]
           bad == Fail(a, "driver_critical", "driver_fault")
           unarmed == Fail(ArmFailed(began), "driver_communication",
                           "driver_fault")
<1>1. b \in {a, bad, unarmed, go}
  BY DEF StartStepMove, Refuse, Failed, Accept
<1>2. /\ go.lastCompleted = a.lastCompleted
      /\ bad.lastCompleted = a.lastCompleted
      /\ unarmed.lastCompleted = a.lastCompleted
  BY DEF Fail, Untrust, StopPulses, ArmFailed, Started, Powered, AxisState
<1> HIDE DEF b, go, bad, unarmed
<1>3. b.lastCompleted = a.lastCompleted
  BY <1>1, <1>2
<1> QED BY <1>3 DEF b

\* The moves of the host: a bench move is never of zero steps.
LEMMA MovesInOrder ==
  ASSUME NEW a \in AxisState, TrustPart(a), NEW angle \in Int,
         NEW speedOk \in BOOLEAN, NEW id \in Nat, Numbered(a, id),
         NEW armOk \in BOOLEAN,
         NEW out \in {MoveAbsolute(a, angle, speedOk, id, armOk),
                      MoveRelative(a, angle, speedOk, id, armOk),
                      BenchMove(a, angle, id, armOk)}
  PROVE  InOrder(a, out.axis, id)
<1>1. a.position \in Int /\ Steps(a, angle) \in Int
      /\ a.lastCompleted <= id /\ a.activeId <= id
      /\ (~a.moving => a.target = a.position)
  BY StepsType DEF AxisState, Numbered
<1>2. InOrder(a, a, id)
  BY DEF InOrder, AxisState
<1> HIDE DEF Steps
<1>3. a.position + Steps(a, angle) \in Int /\ a.position + angle \in Int
      /\ (angle # 0 => a.position + angle # a.position)
  BY <1>1
<1>4. InOrder(a, MoveAbsolute(a, angle, speedOk, id, armOk).axis, id)
  BY <1>1, StartStepMoveInOrder DEF MoveAbsolute
<1>5. InOrder(a, MoveRelative(a, angle, speedOk, id, armOk).axis, id)
  BY <1>1, <1>2, <1>3, StartStepMoveInOrder DEF MoveRelative, Refuse
<1>6. InOrder(a, BenchMove(a, angle, id, armOk).axis, id)
  <2>1. CASE angle = 0
    BY <1>2, <2>1 DEF BenchMove, Refuse
  <2>2. CASE angle # 0
    BY <1>1, <1>2, <1>3, <2>2, StartStepMoveInOrder DEF BenchMove, Refuse
  <2> QED BY <2>1, <2>2
<1> QED BY <1>4, <1>5, <1>6

\* A homing command starts its first leg or ends where it stands.
LEMMA StartHomingInOrder ==
  ASSUME NEW a \in AxisState, NEW raw \in BOOLEAN, NEW id \in Nat,
         Numbered(a, id), NEW armOk \in BOOLEAN
  PROVE  InOrder(a, StartHoming(a, raw, id, armOk).axis, id)
<1> DEFINE seen == UpdateSwitch(a, raw)
           begun == [Untrust(seen, "homing_failed") EXCEPT
                       !.phase = "validate_switch"]
           approaching == [begun EXCEPT !.phase = "fast_approach",
                                        !.homingAge = 0]
           far == a.position + HomeSide * HomingTravel(a)
           went == StartStepMove(approaching, far, TRUE, "homing_fast", id,
                                 FALSE, armOk).axis
           failed == Fail(begun, "homing_stuck_switch", "homing_failed")
           b == StartHoming(a, raw, id, armOk).axis
           SameNumbers(c) == /\ c.lastCompleted = a.lastCompleted
                             /\ c.activeId = a.activeId /\ c.moving = a.moving
                             /\ c.target = a.target /\ c.position = a.position
<1>1. seen \in AxisState /\ SameNumbers(seen)
  BY UpdateSwitchType, UpdateSwitchNumbers
<1>2. begun \in AxisState /\ approaching \in AxisState
  <2> HIDE DEF seen
  <2>1. Untrust(seen, "homing_failed") \in AxisState
    BY <1>1, UntrustType DEF TrustLosses
  <2>2. "validate_switch" \in Phases /\ "fast_approach" \in Phases
    BY DEF Phases, LivePhases
  <2>3. begun \in AxisState BY <2>1, <2>2, ZenonT(60) DEF AxisState
  <2> HIDE DEF begun
  <2> QED BY <2>2, <2>3, Zeros, ZenonT(60) DEF AxisState
<1>3. SameNumbers(begun) /\ SameNumbers(approaching) /\ TrustPart(approaching)
      /\ ~approaching.trusted
  <2> HIDE DEF seen
  <2>1. /\ SameNumbers(begun) /\ SameNumbers(approaching)
        /\ ~approaching.trusted /\ ~approaching.homed
        /\ approaching.lossReason = "homing_failed"
    BY <1>1 DEF Untrust, AxisState
  <2> QED BY <2>1 DEF TrustPart
<1>4. far \in Int /\ far # a.position
  <2>1. /\ a.position \in Int /\ HomingTravel(a) \in Nat \ {0}
        /\ HomeSide \in {-1, 1}
    BY HomingTravelPositive, ConfigAssumption DEF AxisState
  <2> HIDE DEF HomingTravel
  <2> QED BY <2>1
<1>5. b \in {a, failed} \/ (~a.moving /\ b = went)
  BY ZenonT(60) DEF StartHoming, Refuse, Failed
<1> HIDE DEF seen, begun, approaching, far
<1>6. ~a.moving => InOrder(approaching, went, id)
  <2>1. /\ approaching.lastCompleted <= id /\ approaching.activeId <= id
        /\ ~approaching.moving => approaching.target = approaching.position
        /\ far # approaching.position
        /\ approaching.moving = a.moving
    BY <1>3, <1>4 DEF Numbered
  <2> QED BY <1>2, <1>3, <1>4, <2>1, StartStepMoveInOrder
<1>7. ~a.moving => InOrder(a, went, id)
  <2>1. ~went.trusted
    BY <1>2, <1>3, <1>4, StartStepMoveQuiet
  <2> QED BY <1>3, <1>6, <2>1 DEF InOrder
<1>8. InOrder(begun, failed, id)
  BY <1>2, <1>3, FailInOrder DEF Numbered
<1>9. InOrder(a, failed, id)
  <2>1. ~failed.trusted
    BY <1>2 DEF Fail, Untrust, StopPulses, AxisState
  <2> QED BY <1>3, <1>8, <2>1 DEF InOrder
<1>10. InOrder(a, a, id)
  BY DEF InOrder, AxisState
<1> QED BY <1>5, <1>7, <1>9, <1>10

\* No other command completes anything.
LEMMA CommandsInOrder ==
  ASSUME NEW a \in AxisState, NEW n \in Nat, Numbered(a, n)
  PROVE  /\ InOrder(a, Stop(a), n)
         /\ InOrder(a, EmergencyStop(a), n)
         /\ \A enabled \in BOOLEAN : InOrder(a, SetEnabled(a, enabled).axis, n)
         /\ InOrder(a, ClearFault(a).axis, n)
         /\ \A result \in WriteResults :
              /\ InOrder(a, SetCurrent(a, result).axis, n)
              /\ \A microsteps \in MicrostepChoices :
                   InOrder(a, SetMicrosteps(a, microsteps, result).axis, n)
<1>0. /\ InOrder(a, a, n) /\ a.lastCompleted \in Nat
      /\ a.lastCompleted <= n /\ a.activeId <= n
  BY DEF InOrder, Numbered, AxisState
<1>1. InOrder(a, Stop(a), n)
  BY DEF InOrder, Numbered, Stop, StopPulses, Untrust, AxisState
<1>2. InOrder(a, EmergencyStop(a), n)
  BY <1>0, FailInOrder DEF EmergencyStop
<1>3. ASSUME NEW enabled \in BOOLEAN
      PROVE  InOrder(a, SetEnabled(a, enabled).axis, n)
  <2>1. InOrder(a, Disable(a), n)
    BY DEF InOrder, Numbered, Disable, StopPulses, Untrust, AxisState
  <2>2. InOrder(a, [a EXCEPT !.enabled = TRUE, !.outputs = TRUE,
                             !.fault = "none"], n)
    BY DEF InOrder, Numbered, AxisState
  <2> QED BY <1>0, <2>1, <2>2, FailInOrder DEF SetEnabled, Failed, Accept
<1>4. InOrder(a, ClearFault(a).axis, n)
  BY <1>0 DEF InOrder, Numbered, ClearFault, Refuse, Accept, LivePhases,
     AxisState
<1>5. ASSUME NEW result \in WriteResults
      PROVE  InOrder(a, DriverWrite(a, result), n)
             /\ InOrder(a, Accept(a).axis, n)
  BY DEF InOrder, Numbered, DriverWrite, Accept, AxisState
<1>6. ASSUME NEW result \in WriteResults
      PROVE  InOrder(a, SetCurrent(a, result).axis, n)
  BY <1>0, <1>5, <1>6 DEF SetCurrent, Refuse
<1>7. ASSUME NEW result \in WriteResults, NEW microsteps \in MicrostepChoices
      PROVE  InOrder(a, SetMicrosteps(a, microsteps, result).axis, n)
  <2> DEFINE changed == [Untrust(a, "configuration_changed") EXCEPT
                           !.microsteps = microsteps]
  <2>1. LET b == Accept(changed).axis
        IN  /\ b.lastCompleted = a.lastCompleted /\ b.activeId = a.activeId
            /\ b.moving = a.moving /\ b.phase = a.phase
            /\ b.target = a.target /\ b.position = a.position
    BY DEF Accept, Untrust, AxisState
  <2> HIDE DEF changed
  <2>2. InOrder(a, Accept(changed).axis, n)
    BY <1>0, <2>1 DEF InOrder, Numbered
  <2> QED BY <1>0, <1>5, <1>7, <2>2 DEF SetMicrosteps, Refuse, changed
<1> QED BY <1>1, <1>2, <1>3, <1>4, <1>6, <1>7

\* The head of service(), diagnostics and the clock complete nothing either.
LEMMA ServiceInOrder ==
  ASSUME NEW a \in AxisState, NEW n \in Nat, Numbered(a, n)
  PROVE  /\ \A raw \in BOOLEAN, kept \in Nat :
              InOrder(a, [ServiceEntry(a, raw) EXCEPT !.completed = kept], n)
         /\ \A reading \in Readings :
              InOrder(a, ServiceDiagnostics(a, reading), n)
         /\ InOrder(a, Age(a), n)
<1>1. ASSUME NEW raw \in BOOLEAN, NEW kept \in Nat
      PROVE  InOrder(a, [ServiceEntry(a, raw) EXCEPT !.completed = kept], n)
  <2> DEFINE seen == UpdateSwitch(a, raw)
             b == ServiceEntry(a, raw)
  <2>1. /\ seen \in AxisState /\ seen.lastCompleted = a.lastCompleted
        /\ seen.activeId = a.activeId /\ seen.moving = a.moving
        /\ seen.target = a.target /\ seen.position = a.position
        /\ seen.phase = a.phase
    BY UpdateSwitchType, UpdateSwitchNumbers
  <2> DEFINE late == Fail(seen, "motion_timeout", "motion_timeout")
             met == Fail(seen, "unexpected_home_switch",
                         "suspected_missed_step")
             lost == [Fail(seen, "driver_communication", "driver_fault")
                        EXCEPT !.schedFault = FALSE]
  <2>2. b \in {seen, late, met, lost}
    BY ZenonT(60) DEF ServiceEntry
  <2> HIDE DEF seen
  <2>3. ASSUME NEW c \in {seen, late, met, lost}
        PROVE  InOrder(a, [c EXCEPT !.completed = kept], n)
    <3>1. InOrder(a, [seen EXCEPT !.completed = kept], n)
      BY <2>1 DEF InOrder, Numbered, AxisState
    <3>2. ASSUME NEW fault, NEW reason
          PROVE  /\ InOrder(a, [Fail(seen, fault, reason) EXCEPT
                                  !.completed = kept], n)
                 /\ InOrder(a, [[Fail(seen, fault, reason) EXCEPT
                                   !.schedFault = FALSE] EXCEPT
                                  !.completed = kept], n)
      BY <2>1 DEF InOrder, Numbered, Fail, Untrust, StopPulses, LivePhases,
         AxisState
    <3> QED BY <3>1, <3>2
  <2> HIDE DEF late, met, lost, b
  <2>4. InOrder(a, [b EXCEPT !.completed = kept], n)
    BY <2>2, <2>3
  <2> QED BY <2>4 DEF b
<1>2. ASSUME NEW reading \in Readings
      PROVE  InOrder(a, ServiceDiagnostics(a, reading), n)
  BY DEF InOrder, Numbered, ServiceDiagnostics, Fail, Untrust, StopPulses,
     LivePhases, AxisState
<1>3. InOrder(a, Age(a), n)
  BY DEF InOrder, Numbered, Age, AxisState
<1> QED BY <1>1, <1>2, <1>3

\* Counting the last pulse of a move completes it, on its target.
LEMMA CreditPulseInOrder ==
  ASSUME NEW a \in AxisState, NEW n \in Nat, Numbered(a, n), a.moving,
         NEW armOk \in BOOLEAN
  PROVE  InOrder(a, CreditPulse(a, armOk), n)
BY DEF InOrder, Numbered, CreditPulse, Finish, CanArm, ArmFailed, Fail,
   Untrust, StopPulses, LivePhases, AxisState

\* A leg of the homing completes nothing; the end of it completes the homing,
\* as trust is gained.
LEMMA ServiceHomingInOrder ==
  ASSUME NEW a \in AxisState, TrustPart(a), NEW n \in Nat, Numbered(a, n),
         NEW armOk \in BOOLEAN
  PROVE  InOrder(a, ServiceHoming(a, armOk), n)
<1>1. InOrder(a, a, n)
  BY DEF InOrder, AxisState
<1>2. CASE a.phase \notin LivePhases
  BY <1>1, <1>2 DEF ServiceHoming
<1>3. CASE a.phase \in LivePhases
  <2>1. /\ ~a.trusted /\ a.lastCompleted <= a.activeId /\ a.activeId <= n
        /\ a.activeId \in Nat /\ a.lastCompleted \in Nat
    BY <1>3 DEF TrustPart, Numbered, LivePhases, AxisState
  <2>2. ASSUME NEW fault, NEW reason PROVE InOrder(a, Fail(a, fault, reason), n)
    BY FailInOrder DEF Numbered
  <2>3. ASSUME NEW phase \in Phases, NEW purpose, purpose # "normal",
               NEW steps \in Int \ {0}, NEW x \in {a, StopPulses(a)}
        PROVE  InOrder(a, HomingMove(x, phase, purpose, steps, armOk), n)
    <3> DEFINE turned == [x EXCEPT !.phase = phase]
               far == x.position + HomeSide * steps
               id == x.activeId
               b == StartStepMove(turned, far, TRUE, purpose, id, FALSE,
                                  armOk).axis
    <3>1. /\ x \in AxisState /\ x.activeId = a.activeId
          /\ x.lastCompleted = a.lastCompleted /\ x.trusted = a.trusted
          /\ x.homed = a.homed /\ x.lossReason = a.lossReason
          /\ ~x.moving => x.target = x.position
      <4>1. CASE x = a
        BY <4>1 DEF Numbered
      <4>2. CASE x = StopPulses(a)
        BY <4>2, StopPulsesType DEF StopPulses, AxisState
      <4> QED BY <4>1, <4>2
    <3>2. turned \in AxisState
      BY <3>1, ZenonT(60) DEF AxisState
    <3>3. /\ turned.lastCompleted = a.lastCompleted
          /\ turned.activeId = a.activeId
          /\ turned.position = x.position /\ ~turned.trusted
          /\ Numbered(turned, a.activeId) /\ TrustPart(turned)
      <4>1. /\ turned.lastCompleted = x.lastCompleted
            /\ turned.activeId = x.activeId /\ turned.moving = x.moving
            /\ turned.position = x.position /\ turned.target = x.target
            /\ turned.trusted = x.trusted /\ turned.homed = x.homed
            /\ turned.lossReason = x.lossReason
        BY <3>1 DEF AxisState
      <4> HIDE DEF turned
      <4> QED BY <2>1, <3>1, <4>1 DEF Numbered, TrustPart
    <3>4. far \in Int /\ far # turned.position
      BY <3>1, <3>3, ConfigAssumption DEF AxisState
    <3> HIDE DEF turned, far
    <3>5. /\ id \in Nat /\ Numbered(turned, id)
          /\ turned.lastCompleted <= id /\ turned.activeId <= id
          /\ ~turned.moving => turned.target = turned.position
      BY <2>1, <3>1, <3>3 DEF Numbered
    <3> HIDE DEF id
    <3>6. InOrder(turned, b, id) /\ b.lastCompleted = turned.lastCompleted
      <4>1. TRUE \in BOOLEAN /\ FALSE \in BOOLEAN
        OBVIOUS
      <4>2. InOrder(turned, b, id)
        BY <3>2, <3>3, <3>4, <3>5, <4>1, StartStepMoveInOrder, ZenonT(60)
      <4>3. b.lastCompleted = turned.lastCompleted
        BY <3>2, <3>4, <3>5, LegCompletesNothing, ZenonT(60)
      <4> QED BY <4>2, <4>3
    <3> HIDE DEF b
    <3>7. InOrder(a, b, n)
      BY <2>1, <3>1, <3>3, <3>6 DEF InOrder, Numbered, id
    <3> QED BY <3>7 DEF HomingMove, turned, far, id, b
  <2>4. InOrder(a, ApplyOffset(a), n)
    BY <2>1 DEF InOrder, Numbered, ApplyOffset, StopPulses, LivePhases,
       AxisState
  <2>5. /\ "backoff" \in Phases /\ "slow_approach" \in Phases
        /\ -Steps(a, Backoff) \in Int \ {0}
        /\ 2 * Steps(a, Backoff) \in Int \ {0}
    <3>1. a.microsteps \in Nat \ {0} /\ Backoff \in Nat \ {0}
      BY ConfigAssumption DEF AxisState
    <3>2. Backoff * a.microsteps \in Nat \ {0}
      BY <3>1
    <3> QED BY <3>2 DEF Steps, Phases, LivePhases
  <2> DEFINE back == HomingMove(StopPulses(a), "backoff", "homing_backoff",
                                -Steps(a, Backoff), armOk)
             slow == HomingMove(a, "slow_approach", "homing_slow",
                                2 * Steps(a, Backoff), armOk)
  <2>6. InOrder(a, back, n) /\ InOrder(a, slow, n)
    BY <2>3, <2>5
  <2>7. \/ ServiceHoming(a, armOk) \in {a, back, slow, ApplyOffset(a)}
        \/ \E fault \in AxisFaults :
             ServiceHoming(a, armOk) = Fail(a, fault, "homing_failed")
    BY ZenonT(60) DEF ServiceHoming, AxisFaults
  <2> HIDE DEF back, slow
  <2> QED BY <1>1, <2>2, <2>4, <2>6, <2>7
<1> QED BY <1>2, <1>3

\* Every command keeps the order, its own id being the newest.
LEMMA CommandsKeepOrder ==
  IInv /\ Numbered(axis, issued) /\ Commands => InOrder(axis, axis', issued')
<1> SUFFICES ASSUME IInv, Numbered(axis, issued), Commands
             PROVE  InOrder(axis, axis', issued')
  OBVIOUS
<1> DEFINE id == issued + 1
<1>1. /\ axis \in AxisState /\ TrustPart(axis) /\ id \in Nat
      /\ Numbered(axis, id) /\ SwitchLevels \subseteq BOOLEAN
  <2>1. axis \in AxisState /\ TrustPart(axis) /\ issued \in Nat
    BY DEF IInv, TypeOK, Sane
  <2>2. SwitchLevels \subseteq BOOLEAN
    BY DEF SwitchLevels
  <2>3. Numbered(axis, id)
    BY <2>1 DEF Numbered
  <2> QED BY <2>1, <2>2, <2>3
<1>2. ASSUME NEW out, NEW order, Command(out, order), InOrder(axis, out.axis, id)
      PROVE  InOrder(axis, axis', issued')
  BY <1>2 DEF Command, AxisBecomes
<1> HIDE DEF id
<1>3. CASE MoveAbsoluteDegrees
  <2>1. PICK angle \in MoveAngles, speedOk \in BOOLEAN, armOk \in BOOLEAN :
          Command(MoveAbsolute(axis, angle, speedOk, id, armOk), "move")
    BY <1>3 DEF MoveAbsoluteDegrees, id
  <2>2. angle \in Int BY CommandAssumption
  <2> QED BY <1>1, <1>2, <2>1, <2>2, MovesInOrder
<1>4. CASE MoveRelativeDegrees
  <2>1. PICK delta \in MoveDeltas, speedOk \in BOOLEAN, armOk \in BOOLEAN :
          Command(MoveRelative(axis, delta, speedOk, id, armOk), "move")
    BY <1>4 DEF MoveRelativeDegrees, id
  <2>2. delta \in Int BY CommandAssumption
  <2> QED BY <1>1, <1>2, <2>1, <2>2, MovesInOrder
<1>5. CASE BenchMoveSteps
  <2>1. PICK steps \in BenchMoves, armOk \in BOOLEAN :
          Command(BenchMove(axis, steps, id, armOk), "move")
    BY <1>5 DEF BenchMoveSteps, id
  <2>2. steps \in Int BY CommandAssumption
  <2> QED BY <1>1, <1>2, <2>1, <2>2, MovesInOrder
<1>6. CASE Home
  <2>1. PICK raw \in BOOLEAN, armOk \in BOOLEAN :
          Command(StartHoming(axis, raw, id, armOk), "move")
    BY <1>1, <1>6 DEF Home, id
  <2> QED BY <1>1, <1>2, <2>1, StartHomingInOrder
<1>7. CASE StopCommand
  BY <1>1, <1>2, <1>7, CommandsInOrder DEF StopCommand
<1>8. CASE EmergencyStopCommand
  BY <1>1, <1>2, <1>8, CommandsInOrder DEF EmergencyStopCommand
<1>9. CASE EnableCommand
  BY <1>1, <1>2, <1>9, CommandsInOrder DEF EnableCommand
<1>10. CASE DisableCommand
  BY <1>1, <1>2, <1>10, CommandsInOrder DEF DisableCommand
<1>11. CASE ClearFaultCommand
  BY <1>1, <1>2, <1>11, CommandsInOrder DEF ClearFaultCommand
<1>12. CASE SetCurrentCommand
  BY <1>1, <1>2, <1>12, CommandsInOrder DEF SetCurrentCommand
<1>13. CASE SetMicrostepsCommand
  BY <1>1, <1>2, <1>13, CommandsInOrder DEF SetMicrostepsCommand
<1> QED BY <1>3, <1>4, <1>5, <1>6, <1>7, <1>8, <1>9, <1>10, <1>11, <1>12,
           <1>13 DEF Commands

\* Every other step issues no command.
LEMMA OthersKeepOrder ==
  IInv /\ Numbered(axis, issued) /\ [MotionTask \/ Diagnostics
      \/ TimerInterrupt \/ Tick]_vars => InOrder(axis, axis', issued')
<1> SUFFICES ASSUME IInv, Numbered(axis, issued),
                    [MotionTask \/ Diagnostics \/ TimerInterrupt \/ Tick]_vars
             PROVE  InOrder(axis, axis', issued')
  OBVIOUS
<1>1. /\ axis \in AxisState /\ TrustPart(axis) /\ issued \in Nat
      /\ SwitchLevels \subseteq BOOLEAN
  BY DEF IInv, TypeOK, Sane, SwitchLevels
<1>2. issued' = issued
  BY DEF vars, MotionTask, ServiceBegin, ServicePulse, CooperativeRise,
     CooperativeFall, ServicePulsesDone, ServiceHomingStep, Diagnostics,
     TimerInterrupt, AlarmRise, AlarmFall, Tick
<1>3. CASE ServiceBegin
  <2>1. PICK raw \in BOOLEAN :
          LET checked == ServiceEntry(axis, raw)
              passed  == checked = UpdateSwitch(axis, raw)
          IN  AxisBecomes([checked EXCEPT !.completed =
                             IF passed THEN 0 ELSE @], 0)
    BY <1>1, <1>3 DEF ServiceBegin
  <2> DEFINE checked == ServiceEntry(axis, raw)
             kept == IF checked = UpdateSwitch(axis, raw)
                       THEN 0 ELSE checked.completed
  <2>2. AxisBecomes([checked EXCEPT !.completed = kept], 0)
    BY <2>1
  <2>3. checked \in AxisState
    BY <1>1, ServiceEntrySane DEF IInv, TypeOK
  <2>4. kept \in Nat
    <3> HIDE DEF checked
    <3> QED BY <2>3 DEF AxisState
  <2> HIDE DEF kept
  <2> QED BY <1>1, <1>2, <2>2, <2>4, ServiceInOrder DEF AxisBecomes
<1>4. CASE ServicePulse \/ CooperativeFall
  BY <1>1, <1>2, <1>4, CreditPulseInOrder DEF ServicePulse, CooperativeFall,
     AxisBecomes
<1>5. CASE CooperativeRise \/ TimerInterrupt
  <2>1. /\ axis'.lastCompleted = axis.lastCompleted
        /\ axis'.activeId = axis.activeId /\ axis'.moving = axis.moving
        /\ axis'.phase = axis.phase /\ axis'.target = axis.target
        /\ axis'.position = axis.position
    BY <1>1, <1>5 DEF CooperativeRise, TimerInterrupt, AlarmRise, AlarmFall,
       AxisBecomes, AxisState
  <2> QED BY <1>1, <1>2, <2>1 DEF InOrder, Numbered, AxisState
<1>6. CASE ServicePulsesDone \/ UNCHANGED vars
  BY <1>1, <1>6 DEF ServicePulsesDone, vars, InOrder, Numbered, AxisState
<1>7. CASE ServiceHomingStep
  BY <1>1, <1>2, <1>7, ServiceHomingInOrder DEF ServiceHomingStep, AxisBecomes
<1>8. CASE Diagnostics
  BY <1>1, <1>2, <1>8, ServiceInOrder DEF Diagnostics, AxisBecomes
<1>9. CASE Tick
  BY <1>1, <1>2, <1>9, ServiceInOrder DEF Tick, AxisBecomes
<1> QED BY <1>3, <1>4, <1>5, <1>6, <1>7, <1>8, <1>9 DEF MotionTask

\* The invariant and what follows for the steps.
LEMMA NumberedAlways == Spec => []Numbered(axis, issued)
<1>1. Init => Numbered(axis, issued)
  <2> SUFFICES ASSUME Init PROVE Numbered(axis, issued)
    OBVIOUS
  <2>1. PICK raw \in BOOLEAN : axis = StartupAxis("ready", raw)
    BY DEF Init
  <2>2. /\ axis.lastCompleted = 0 /\ axis.activeId = 0 /\ axis.target = 0
        /\ axis.position = 0
    BY <2>1 DEF StartupAxis
  <2> QED BY <2>2 DEF Init, Numbered
<1>2. IInv /\ Numbered(axis, issued) /\ [Next]_vars => Numbered(axis, issued)'
  BY CommandsKeepOrder, OthersKeepOrder DEF Next, InOrder, Numbered
<1> QED BY <1>1, <1>2, Invariance, PTL DEF Spec

\* LAST_COMMAND never goes back, interrupted homings included.
THEOREM CompletionsOnlyAdvance == Spec => CompletionsAdvance
<1>1. IInv /\ Numbered(axis, issued) /\ [Next]_vars
        => [axis'.lastCompleted >= axis.lastCompleted]_vars
  <2> SUFFICES ASSUME IInv, Numbered(axis, issued), [Next]_vars
               PROVE  axis'.lastCompleted >= axis.lastCompleted
    OBVIOUS
  <2>1. axis.lastCompleted \in Nat /\ axis'.lastCompleted \in Nat
    BY StepIInv DEF IInv, TypeOK, AxisState
  <2>2. axis.lastCompleted <= axis'.lastCompleted
    BY CommandsKeepOrder, OthersKeepOrder DEF Next, InOrder
  <2> QED BY <2>1, <2>2
<1> QED BY <1>1, Invariance, NumberedAlways, PTL DEF Spec, CompletionsAdvance

\* A command is complete only at rest, on its target or newly homed.
THEOREM CompletionIsAtTarget == Spec => CompletedAtTarget
<1> DEFINE Completion ==
             axis'.lastCompleted # axis.lastCompleted =>
               /\ ~axis'.moving
               /\ axis'.position = axis.target
                    \/ (axis'.trusted /\ ~axis.trusted)
<1>1. IInv /\ Numbered(axis, issued) /\ [Next]_vars => [Completion]_vars
  BY CommandsKeepOrder, OthersKeepOrder DEF Next, InOrder
<1> QED BY <1>1, Invariance, NumberedAlways, PTL DEF Spec, CompletedAtTarget

=============================================================================
