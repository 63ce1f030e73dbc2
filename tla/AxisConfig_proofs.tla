-------------------------- MODULE AxisConfig_proofs --------------------------
(***************************************************************************)
(* Proofs about three components that work out what a configuration says:  *)
(* SimulatedMotionController and HardwareStartup, which share AxisConfig,  *)
(* and ScanCoordinator, whose RasterScanConfig is the host's.  They have   *)
(* no variable in common.                                                  *)
(*                                                                         *)
(* The simulated controller, for any profile, any choice of microsteps and *)
(* any inputs: it keeps to its types, a known position belongs to a ready  *)
(* controller, and it implements MotionContract.  Every method is shown to *)
(* be Lawful: to leave the record Good and to change each axis in one of   *)
(* the ways the contract has for an axis that does all it does within a    *)
(* call.                                                                   *)
(*                                                                         *)
(* The startup, for any board, any set of pins and whichever steps fail.   *)
(* The two loops of validate_esp32_gpio() have their invariants: what they *)
(* have gone through is sound (LoopPart).  So an accepted map is sound     *)
(* (ValidPart, VerdictPart), and in a sound map no entry takes the line of *)
(* another: what safe_outputs() and the axis before did to a line is not   *)
(* undone by what comes after (OffPart, WiredPart).                        *)
(*                                                                         *)
(* The scan, for any ranges and steps and any budget: the points of        *)
(* RasterPoints and the pairs of angles wanted are in bijection, and the   *)
(* readings of a point add up (Capturing).                                 *)
(***************************************************************************)
EXTENDS SimulatedMotionController, HardwareStartup, ScanCoordinator,
        FiniteSetTheorems, TLAPS

-----------------------------------------------------------------------------
(* SimulatedMotionController *)

\* The record of the controller.
Sims == [axes : [Axes -> SimAxis], fault : SimFaults, stopped : BOOLEAN,
         estop : BOOLEAN, failing : [Axes -> Failures \cup {"none"}]]

\* Command ids: k is handed out after id.
Later(id, k) == id \in Nat /\ k \in Nat /\ id <= k

\* Of one axis, in a controller that is stopped or not, by command id.
AxisGood(a, stopped, id) ==
  /\ a \in SimAxis
  /\ a.trusted <=> a.homed
  /\ a.trusted <=> a.lossReason = "none"
  /\ a.trusted => a.enabled /\ ~stopped
  /\ a.done <= id

Good(s, id) ==
  /\ s \in Sims
  /\ \A ax \in Axes : AxisGood(s.axes[ax], s.stopped, id)
  /\ s.estop => s.stopped

\* From a to b in a command that is accepted or not.
Lives(a, b, id, ok) ==
  \/ b.trusted = a.trusted /\ b.enabled = a.enabled /\ b.done = a.done
  \/ ~b.trusted /\ (b.enabled => a.enabled) /\ b.done = a.done
  \/ ok /\ b.enabled /\ b.trusted = a.trusted /\ b.done = a.done
  \/ ok /\ b.enabled /\ b.done = id

Lawful(s, o, id) ==
  /\ Good(o.sim, id) /\ o.ok \in BOOLEAN
  /\ o.sim.estop = s.estop
  /\ \A ax \in Axes : Lives(s.axes[ax], o.sim.axes[ax], id, o.ok)

-----------------------------------------------------------------------------
(* What becomes of an axis *)

\* An axis that was Good by an older id.
LEMMA OlderGood ==
  ASSUME NEW a, NEW stopped \in BOOLEAN, NEW id, NEW k, Later(id, k),
         AxisGood(a, stopped, id)
  PROVE  AxisGood(a, stopped, k)
BY DEF Later, AxisGood, SimAxis

\* An axis that loses its trust is Good in any controller.
LEMMA InvalidateGood ==
  ASSUME NEW a, NEW stopped \in BOOLEAN, NEW id, NEW k, Later(id, k),
         AxisGood(a, stopped, id), NEW reason \in SimLosses \ {"none"},
         NEW now \in BOOLEAN, NEW ok \in BOOLEAN
  PROVE  LET b == Invalidate(a, reason)
         IN  AxisGood(b, now, id) /\ Lives(a, b, k, ok)
BY DEF Invalidate, AxisGood, SimAxis, Lives

\* Switched off, and perhaps with a fault, an axis is as one that is dead.
LEMMA SwitchedOffGood ==
  ASSUME NEW a, NEW stopped \in BOOLEAN, NEW id, NEW k, Later(id, k),
         AxisGood(a, stopped, id), NEW reason \in SimLosses \ {"none"},
         NEW now \in BOOLEAN, NEW ok \in BOOLEAN
  PROVE  LET b == SwitchedOff(a, reason)
         IN  /\ AxisGood(b, now, id) /\ Lives(a, b, k, ok)
             /\ ~b.trusted /\ ~b.enabled /\ b.done = a.done
BY DEF SwitchedOff, Invalidate, AxisGood, SimAxis, Lives

\* Switched off with a fault, likewise.
LEMMA FailedGood ==
  ASSUME NEW a, NEW stopped \in BOOLEAN, NEW id, NEW k, Later(id, k),
         AxisGood(a, stopped, id), NEW reason \in SimLosses \ {"none"},
         NEW fault \in SimFaults, NEW now \in BOOLEAN, NEW ok \in BOOLEAN
  PROVE  LET b == Failed(a, reason, fault)
         IN  /\ AxisGood(b, now, id) /\ Lives(a, b, k, ok)
             /\ ~b.trusted /\ ~b.enabled /\ b.done = a.done
BY DEF Failed, SwitchedOff, Invalidate, AxisGood, SimAxis, Lives

\* set_axis_enabled() of one axis.
LEMMA SwitchedGood ==
  ASSUME NEW a, NEW stopped \in BOOLEAN, NEW id, NEW k, Later(id, k),
         AxisGood(a, stopped, id), NEW enabled \in BOOLEAN
  PROVE  /\ AxisGood(Switched(a, enabled), stopped, id)
         /\ Lives(a, Switched(a, enabled), k, TRUE)
         /\ ~enabled => Lives(a, Switched(a, enabled), k, FALSE)
<1>1. CASE enabled
  BY <1>1 DEF Switched, AxisGood, SimAxis, Lives
<1>2. CASE ~enabled
  BY <1>2, SwitchedOffGood DEF Switched, SimLosses
<1> QED BY <1>1, <1>2

\* Orders carried out: what the new axis is made of comes first.
LEMMA HomedShape ==
  ASSUME NEW a \in SimAxis, NEW k, k \in Nat, NEW place, place \in Int
  PROVE  LET b == Homed(a, place, k)
         IN  /\ b \in SimAxis /\ b.trusted /\ b.homed
             /\ b.lossReason = "none" /\ b.enabled /\ b.done = k
<1>1. "none" \in SimLosses /\ 0 \in Int
  BY DEF SimLosses
<1>2. Homed(a, place, k) \in SimAxis
  BY <1>1, ZenonT(60) DEF Homed, SimAxis
<1> QED BY <1>2, Zenon DEF Homed, SimAxis

\* The same for the order to move.
LEMMA MovedShape ==
  ASSUME NEW a \in SimAxis, NEW k, k \in Nat, NEW place, place \in Int
  PROVE  LET b == Moved(a, place, k)
         IN  /\ b \in SimAxis /\ b.trusted = a.trusted /\ b.homed = a.homed
             /\ b.lossReason = a.lossReason /\ b.enabled = a.enabled
             /\ b.done = k
<1>1. Moved(a, place, k) \in SimAxis
  BY Zenon DEF Moved, SimAxis
<1> QED BY <1>1, Zenon DEF Moved, SimAxis

\* The same for a bench move.
LEMMA BenchedShape ==
  ASSUME NEW a \in SimAxis, NEW k, k \in Nat, NEW place, place \in Int,
         NEW steps, steps \in Int
  PROVE  LET b == Benched(a, place, steps, k)
         IN  /\ b \in SimAxis /\ b.trusted = a.trusted /\ b.homed = a.homed
             /\ b.lossReason = a.lossReason /\ b.enabled /\ b.done = k
<1>1. a.steps + steps \in Int
  BY DEF SimAxis
<1>2. Benched(a, place, steps, k) \in SimAxis
  BY <1>1, Zenon DEF Benched, SimAxis
<1> QED BY <1>2, Zenon DEF Benched, SimAxis

\* The trust of a Good axis that stays as trusted, and of one that is homed.
LEMMA StillGood ==
  ASSUME NEW a, NEW stopped, NEW id, AxisGood(a, stopped, id),
         NEW b \in SimAxis, NEW k, k \in Nat, b.done = k,
         \/ /\ b.trusted = a.trusted /\ b.homed = a.homed
            /\ b.lossReason = a.lossReason
         \/ b.trusted /\ b.homed /\ b.lossReason = "none" /\ ~stopped,
         b.enabled
  PROVE  AxisGood(b, stopped, k) /\ Lives(a, b, k, TRUE)
<1>1. b.done <= k
  OBVIOUS
<1> QED BY <1>1, Zenon DEF AxisGood, Lives

\* An axis that is homed.
LEMMA HomedGood ==
  ASSUME NEW a, NEW stopped \in BOOLEAN, NEW id, NEW k, Later(id, k),
         AxisGood(a, stopped, id), ~stopped, NEW place, place \in Int
  PROVE  /\ AxisGood(Homed(a, place, k), stopped, k)
         /\ Lives(a, Homed(a, place, k), k, TRUE)
<1>1. a \in SimAxis /\ k \in Nat
  BY DEF AxisGood, Later
<1> QED BY <1>1, HomedShape, StillGood, Zenon

\* An axis that is moved.
LEMMA MovedGood ==
  ASSUME NEW a, NEW stopped \in BOOLEAN, NEW id, NEW k, Later(id, k),
         AxisGood(a, stopped, id), a.enabled, NEW place, place \in Int
  PROVE  /\ AxisGood(Moved(a, place, k), stopped, k)
         /\ Lives(a, Moved(a, place, k), k, TRUE)
<1>1. a \in SimAxis /\ k \in Nat
  BY DEF AxisGood, Later
<1> QED BY <1>1, MovedShape, StillGood, Zenon

\* An axis that is moved on the bench.
LEMMA BenchedGood ==
  ASSUME NEW a, NEW stopped \in BOOLEAN, NEW id, NEW k, Later(id, k),
         AxisGood(a, stopped, id), NEW place, place \in Int,
         NEW steps, steps \in Int
  PROVE  /\ AxisGood(Benched(a, place, steps, k), stopped, k)
         /\ Lives(a, Benched(a, place, steps, k), k, TRUE)
<1>1. a \in SimAxis /\ k \in Nat
  BY DEF AxisGood, Later
<1> DEFINE new == Benched(a, place, steps, k)
<1>2. /\ new \in SimAxis /\ new.trusted = a.trusted /\ new.homed = a.homed
      /\ new.lossReason = a.lossReason /\ new.enabled /\ new.done = k
  BY <1>1, BenchedShape, ZenonT(30)
<1> HIDE DEF new
<1>3. AxisGood(new, stopped, k) /\ Lives(a, new, k, TRUE)
  BY <1>1, <1>2, StillGood, Zenon
<1> QED BY <1>3 DEF new

\* An axis whose microsteps are changed.
LEMMA ReconfiguredGood ==
  ASSUME NEW a, NEW stopped \in BOOLEAN, NEW id, NEW k, Later(id, k),
         AxisGood(a, stopped, id), NEW microsteps \in MicrostepChoices
  PROVE  /\ AxisGood(Reconfigured(a, microsteps), stopped, id)
         /\ Lives(a, Reconfigured(a, microsteps), k, TRUE)
BY DEF Reconfigured, Invalidate, AxisGood, SimAxis, Lives, SimLosses

-----------------------------------------------------------------------------
(* What becomes of the record *)

\* A refusal and a success that change the axes.
LEMMA FailShape ==
  ASSUME NEW s \in Sims, NEW f \in [Axes -> SimAxis], NEW fault \in SimFaults
  PROVE  LET o == FailWith([s EXCEPT !.axes = f], fault)
         IN  /\ o.sim \in Sims /\ o.sim.axes = f /\ o.sim.stopped = s.stopped
             /\ o.sim.estop = s.estop /\ o.ok = FALSE
BY DEF FailWith, Sims

\* The record of a success.
LEMMA SucceedShape ==
  ASSUME NEW s \in Sims, NEW f \in [Axes -> SimAxis]
  PROVE  LET o == Succeed([s EXCEPT !.axes = f])
         IN  /\ o.sim \in Sims /\ o.sim.axes = f /\ o.sim.stopped = s.stopped
             /\ o.sim.estop = s.estop /\ o.ok = TRUE
BY DEF Succeed, Sims, SimFaults

\* A change of the axes that is lawful for each makes a lawful refusal, or a
\* lawful success.
LEMMA FailedAxesLawful ==
  ASSUME NEW s, NEW id, NEW k, Later(id, k), Good(s, id),
         NEW f, f = [ax \in Axes |-> f[ax]],
         NEW fault \in SimFaults,
         \A ax \in Axes : /\ AxisGood(f[ax], s.stopped, k)
                          /\ Lives(s.axes[ax], f[ax], k, FALSE)
  PROVE  Lawful(s, FailWith([s EXCEPT !.axes = f], fault), k)
<1>1. s \in Sims /\ (s.estop => s.stopped)
  BY DEF Good
<1>2. f \in [Axes -> SimAxis]
  BY DEF AxisGood
<1> DEFINE o == FailWith([s EXCEPT !.axes = f], fault)
<1>3. /\ o.sim \in Sims /\ o.sim.axes = f /\ o.sim.stopped = s.stopped
      /\ o.sim.estop = s.estop /\ o.ok = FALSE
  BY <1>1, <1>2, FailShape
<1> HIDE DEF o
<1>4. Lawful(s, o, k)
  BY <1>1, <1>3 DEF Lawful, Good
<1> QED BY <1>4 DEF o

\* The same for a success.
LEMMA SucceededAxesLawful ==
  ASSUME NEW s, NEW id, NEW k, Later(id, k), Good(s, id),
         NEW f, f = [ax \in Axes |-> f[ax]],
         \A ax \in Axes : /\ AxisGood(f[ax], s.stopped, k)
                          /\ Lives(s.axes[ax], f[ax], k, TRUE)
  PROVE  Lawful(s, Succeed([s EXCEPT !.axes = f]), k)
<1>1. s \in Sims /\ (s.estop => s.stopped)
  BY DEF Good
<1>2. f \in [Axes -> SimAxis]
  BY DEF AxisGood
<1> DEFINE o == Succeed([s EXCEPT !.axes = f])
<1>3. /\ o.sim \in Sims /\ o.sim.axes = f /\ o.sim.stopped = s.stopped
      /\ o.sim.estop = s.estop /\ o.ok = TRUE
  BY <1>1, <1>2, SucceedShape
<1> HIDE DEF o
<1>4. Lawful(s, o, k)
  BY <1>1, <1>3 DEF Lawful, Good
<1> QED BY <1>4 DEF o

\* An axis that is left alone.
LEMMA SameGood ==
  ASSUME NEW s, NEW id, NEW k, Later(id, k), Good(s, id),
         NEW ax \in Axes, NEW ok \in BOOLEAN
  PROVE  /\ AxisGood(s.axes[ax], s.stopped, k)
         /\ Lives(s.axes[ax], s.axes[ax], k, ok)
BY DEF Later, Good, Sims, AxisGood, SimAxis, Lives

\* A refusal that changes nothing but the fault.
LEMMA FailLawful ==
  ASSUME NEW s, NEW id, NEW k, Later(id, k), Good(s, id),
         NEW fault \in SimFaults
  PROVE  Lawful(s, FailWith(s, fault), k)
<1> DEFINE o == FailWith(s, fault)
<1>1. /\ o.sim \in Sims /\ o.sim.axes = s.axes /\ o.sim.stopped = s.stopped
      /\ o.sim.estop = s.estop /\ o.ok = FALSE
  BY DEF FailWith, Sims, Good
<1> HIDE DEF o
<1>2. \A ax \in Axes : /\ AxisGood(o.sim.axes[ax], o.sim.stopped, k)
                       /\ Lives(s.axes[ax], o.sim.axes[ax], k, o.ok)
  BY <1>1, SameGood
<1>3. Lawful(s, o, k)
  BY <1>1, <1>2 DEF Lawful, Good
<1> QED BY <1>3 DEF o

-----------------------------------------------------------------------------
(* The methods *)

\* home()
LEMMA HomeLawful ==
  ASSUME NEW s, NEW id, NEW k, Later(id, k), Good(s, id),
         NEW selection \in Selections
  PROVE  Lawful(s, HomeTo(s, selection, k), k)
<1> DEFINE home == [ax \in Axes |->
             IF ax \in Selected(selection)
               THEN Homed(s.axes[ax], Profile[ax].offset, k)
               ELSE s.axes[ax]]
           failed(bx) == [s.axes EXCEPT
             ![bx] = Failed(@, "homing_failed", s.failing[bx])]
<1>1. ASSUME NEW bx \in Axes, s.failing[bx] # "none"
      PROVE  Lawful(s, FailWith([s EXCEPT !.axes = failed(bx)], s.failing[bx]), k)
  <2>1. s.failing[bx] \in SimFaults
    BY <1>1 DEF Good, Sims, SimFaults
  <2>2. ASSUME NEW ax \in Axes
        PROVE  /\ AxisGood(failed(bx)[ax], s.stopped, k)
               /\ Lives(s.axes[ax], failed(bx)[ax], k, FALSE)
    <3>1. AxisGood(s.axes[ax], s.stopped, id) /\ s.stopped \in BOOLEAN
      BY DEF Good, Sims
    <3>2. CASE ax = bx
      <4>1. failed(bx)[ax] = Failed(s.axes[ax], "homing_failed", s.failing[bx])
        BY <3>2 DEF Good, Sims
      <4>2. "homing_failed" \in SimLosses \ {"none"}
        BY DEF SimLosses
      <4> DEFINE new == Failed(s.axes[ax], "homing_failed", s.failing[bx])
      <4> HIDE DEF failed
      <4>3. AxisGood(new, s.stopped, id) /\ Lives(s.axes[ax], new, k, FALSE)
        BY <2>1, <3>1, <4>2, FailedGood, Zenon
      <4> HIDE DEF new
      <4>4. AxisGood(new, s.stopped, k)
        BY <3>1, <4>3, OlderGood, Zenon
      <4> QED BY <4>1, <4>3, <4>4, Zenon DEF new
    <3>3. CASE ax # bx
      <4>1. failed(bx)[ax] = s.axes[ax]
        BY <3>3 DEF Good, Sims
      <4> QED BY <4>1, SameGood
    <3> QED BY <3>2, <3>3
  <2>3. failed(bx) = [ax \in Axes |-> failed(bx)[ax]]
    BY DEF Good, Sims
  <2> HIDE DEF failed
  <2> QED BY <2>1, <2>2, <2>3, FailedAxesLawful
<1>2. ASSUME ~s.stopped
      PROVE  Lawful(s, Succeed([s EXCEPT !.axes = home]), k)
  <2>1. ASSUME NEW ax \in Axes
        PROVE  /\ AxisGood(home[ax], s.stopped, k)
               /\ Lives(s.axes[ax], home[ax], k, TRUE)
    <3>1. CASE ax \in Selected(selection)
      <4>1. AxisGood(s.axes[ax], s.stopped, id) /\ s.stopped \in BOOLEAN
        BY DEF Good, Sims
      <4>2. Profile[ax].offset \in Int
        BY SimulatorAssumption DEF Configs
      <4>3. home[ax] = Homed(s.axes[ax], Profile[ax].offset, k)
        BY <3>1
      <4> QED BY <1>2, <4>1, <4>2, <4>3, HomedGood
    <3>2. CASE ax \notin Selected(selection)
      BY <3>2, SameGood
    <3> QED BY <3>1, <3>2
  <2> QED BY <2>1, SucceededAxesLawful
<1>3. \A f \in {"invalid_configuration", "emergency_stop", "stopped"} :
        Lawful(s, FailWith(s, f), k)
  BY FailLawful DEF SimFaults
<1>4. \A bx \in Axes :
        [s EXCEPT !.axes[bx] = Failed(@, "homing_failed", s.failing[bx])]
          = [s EXCEPT !.axes = failed(bx)]
  OBVIOUS
<1> HIDE DEF failed
<1> QED
  BY <1>1, <1>2, <1>3, <1>4 DEF HomeTo, Ready, Axes

\* move_absolute()
LEMMA MoveLawful ==
  ASSUME NEW s, NEW id, NEW k, Later(id, k), Good(s, id),
         NEW angles \in [Axes -> Int], NEW speedOk \in BOOLEAN
  PROVE  Lawful(s, MoveTo(s, angles, speedOk, k), k)
<1> DEFINE moved == [ax \in Axes |-> Moved(s.axes[ax], angles[ax], k)]
<1>1. ASSUME \A ax \in Axes : s.axes[ax].enabled
      PROVE  Lawful(s, Succeed([s EXCEPT !.axes = moved]), k)
  <2>1. ASSUME NEW ax \in Axes
        PROVE  /\ AxisGood(moved[ax], s.stopped, k)
               /\ Lives(s.axes[ax], moved[ax], k, TRUE)
    <3>1. AxisGood(s.axes[ax], s.stopped, id) /\ s.stopped \in BOOLEAN
      BY DEF Good, Sims
    <3>2. s.axes[ax].enabled /\ angles[ax] \in Int
      BY <1>1
    <3>3. moved[ax] = Moved(s.axes[ax], angles[ax], k)
      OBVIOUS
    <3> HIDE DEF moved
    <3>4. /\ AxisGood(Moved(s.axes[ax], angles[ax], k), s.stopped, k)
          /\ Lives(s.axes[ax], Moved(s.axes[ax], angles[ax], k), k, TRUE)
      BY <3>1, <3>2, MovedGood, Zenon
    <3> QED BY <3>3, <3>4, Zenon
  <2> QED BY <2>1, SucceededAxesLawful
<1>2. \A f \in SimFaults : Lawful(s, FailWith(s, f), k)
  BY FailLawful
<1>3. {"invalid_configuration", "emergency_stop", "stopped", "not_homed",
       "position_untrusted", "driver_disabled", "invalid_argument",
       "limit_reached"} \subseteq SimFaults
  BY DEF SimFaults
<1> QED BY <1>1, <1>2, <1>3 DEF MoveTo, Ready

\* move_relative()
LEMMA MoveByLawful ==
  ASSUME NEW s, NEW id, NEW k, Later(id, k), Good(s, id),
         NEW selection \in Selections, NEW delta \in Int,
         NEW speedOk \in BOOLEAN
  PROVE  Lawful(s, MoveBy(s, selection, delta, speedOk, k), k)
<1>1. \A ax \in Axes : s.axes[ax].at \in Int
  BY DEF Good, AxisGood, SimAxis
<1> QED BY <1>1, MoveLawful DEF MoveBy

\* A number of steps for a turn is a number.
LEMMA TurnIsNat ==
  ASSUME NEW c \in Configs
  PROVE  StepsPerTurn(c) \in Nat
<1>1. /\ c.microsteps \in Nat /\ c.numerator \in Int
      /\ c.denominator \in Int /\ c.fullSteps \in Nat
  BY DEF Configs
<1>2. StepsPerFullStep(c) \in Nat
  <2>1. CASE /\ RatioIsValid(c)
             /\ (c.microsteps * c.numerator) % c.denominator = 0
    <3>1. c.numerator \in Nat /\ c.denominator \in Nat \ {0}
      BY <1>1, <2>1 DEF RatioIsValid
    <3>2. c.microsteps * c.numerator \in Nat
      BY <1>1, <3>1
    <3> QED BY <2>1, <3>1, <3>2 DEF StepsPerFullStep
  <2>2. CASE ~(/\ RatioIsValid(c)
               /\ (c.microsteps * c.numerator) % c.denominator = 0)
    BY <2>2 DEF StepsPerFullStep
  <2> QED BY <2>1, <2>2
<1> QED BY <1>1, <1>2 DEF StepsPerTurn

\* bench_move_steps()
LEMMA BenchLawful ==
  ASSUME NEW s, NEW id, NEW k, Later(id, k), Good(s, id),
         NEW selection \in Selections, NEW steps, steps \in Int
  PROVE  Lawful(s, BenchMove(s, selection, steps, k), k)
<1> DEFINE turn == StepsPerTurn(Config(s, selection))
           count == s.axes[selection].steps + steps
           angle == IF turn = 0 THEN Nowhere ELSE count * (Turn \div turn)
           benched == [ax \in Axes |->
             IF ax \in {selection}
               THEN Benched(s.axes[ax], angle, steps, k) ELSE s.axes[ax]]
<1>1. ASSUME selection \in Axes
      PROVE  Lawful(s, Succeed([s EXCEPT !.axes = benched]), k)
  <2>1. angle \in Int
    <3>1. /\ s.axes[selection] \in SimAxis
          /\ s.axes[selection].steps \in Int
          /\ s.axes[selection].microsteps \in Nat
      BY <1>1, SimulatorAssumption DEF Good, AxisGood, SimAxis
    <3>2. Config(s, selection) \in Configs
      BY <1>1, <3>1, SimulatorAssumption, Zenon DEF Config, Configured, Configs
    <3>3. turn \in Nat
      BY <3>2, TurnIsNat
    <3>4. count \in Int
      BY <3>1
    <3> HIDE DEF turn, count
    <3> QED BY <3>3, <3>4, SimulatorAssumption
  <2> HIDE DEF angle
  <2>2. ASSUME NEW ax \in Axes
        PROVE  /\ AxisGood(benched[ax], s.stopped, k)
               /\ Lives(s.axes[ax], benched[ax], k, TRUE)
    <3>1. CASE ax = selection
      <4>1. AxisGood(s.axes[ax], s.stopped, id) /\ s.stopped \in BOOLEAN
        BY DEF Good, Sims
      <4>2. benched[ax] = Benched(s.axes[ax], angle, steps, k)
        BY <3>1
      <4> HIDE DEF benched
      <4>3. /\ AxisGood(Benched(s.axes[ax], angle, steps, k), s.stopped, k)
            /\ Lives(s.axes[ax], Benched(s.axes[ax], angle, steps, k), k, TRUE)
        BY <2>1, <4>1, BenchedGood, Zenon
      <4> QED BY <4>2, <4>3, Zenon
    <3>2. CASE ax # selection
      BY <3>2, SameGood
    <3> QED BY <3>1, <3>2
  <2> HIDE DEF benched
  <2>3. benched = [ax \in Axes |-> benched[ax]]
    BY DEF benched
  <2> QED BY <2>2, <2>3, SucceededAxesLawful
<1>2. \A f \in {"invalid_argument", "limit_reached"} :
        Lawful(s, FailWith(s, f), k)
  BY FailLawful DEF SimFaults
<1> HIDE DEF turn
<1> QED
  BY <1>1, <1>2, Zenon DEF BenchMove, Change, Selections, turn

\* The stops: what they leave of the record.
LEMMA StopLawful ==
  ASSUME NEW s, NEW id, NEW k, Later(id, k), Good(s, id)
  PROVE  Lawful(s, StopAll(s), k)
<1> DEFINE f == [ax \in Axes |-> Invalidate(s.axes[ax], "stopped")]
           o == StopAll(s)
<1>1. "stopped" \in SimLosses \ {"none"} /\ "stopped" \in SimFaults
  BY DEF SimLosses, SimFaults
<1>2. ASSUME NEW ax \in Axes
      PROVE  AxisGood(f[ax], TRUE, k) /\ Lives(s.axes[ax], f[ax], k, FALSE)
  <2> DEFINE new == Invalidate(s.axes[ax], "stopped")
  <2>1. AxisGood(s.axes[ax], s.stopped, id) /\ s.stopped \in BOOLEAN
    BY DEF Good, Sims
  <2>2. AxisGood(new, TRUE, id) /\ Lives(s.axes[ax], new, k, FALSE)
    BY <1>1, <2>1, InvalidateGood
  <2> HIDE DEF new
  <2>3. AxisGood(new, TRUE, k)
    BY <2>2, OlderGood, Zenon
  <2> QED BY <2>2, <2>3 DEF new
<1>3. f \in [Axes -> SimAxis]
  BY <1>2 DEF AxisGood
<1>4. /\ o.sim \in Sims /\ o.sim.axes = f /\ o.sim.stopped = TRUE
      /\ o.sim.estop = s.estop /\ o.ok = FALSE
  BY <1>1, <1>3 DEF StopAll, Change, FailWith, Good, Sims
<1> HIDE DEF o, f
<1>5. Lawful(s, o, k)
  BY <1>2, <1>4 DEF Lawful, Good
<1> QED BY <1>5 DEF o

\* An answer that changes the fault alone, and the reset of the stop.
LEMMA ClearLawful ==
  ASSUME NEW s, NEW id, NEW k, Later(id, k), Good(s, id)
  PROVE  Lawful(s, ClearFault(s), k)
<1> DEFINE o == Succeed([s EXCEPT !.stopped = FALSE])
<1>1. CASE ~s.estop
  <2>1. /\ o.sim \in Sims /\ o.sim.axes = s.axes /\ o.sim.stopped = FALSE
        /\ o.sim.estop = s.estop /\ o.ok = TRUE
    BY DEF Succeed, Good, Sims, SimFaults
  <2>2. ASSUME NEW ax \in Axes
        PROVE  /\ AxisGood(s.axes[ax], FALSE, k)
               /\ Lives(s.axes[ax], s.axes[ax], k, TRUE)
    <3>1. /\ AxisGood(s.axes[ax], s.stopped, k)
          /\ Lives(s.axes[ax], s.axes[ax], k, TRUE)
      BY SameGood
    <3>2. AxisGood(s.axes[ax], FALSE, k)
      BY <3>1, Zenon DEF AxisGood
    <3> QED BY <3>1, <3>2
  <2> HIDE DEF o
  <2>3. Lawful(s, o, k)
    BY <1>1, <2>1, <2>2 DEF Lawful, Good
  <2> QED BY <1>1, <2>3 DEF o, ClearFault
<1>2. CASE s.estop
  BY <1>2, FailLawful DEF ClearFault, SimFaults
<1> QED BY <1>1, <1>2

\* set_axis_current()
LEMMA CurrentLawful ==
  ASSUME NEW s, NEW id, NEW k, Later(id, k), Good(s, id),
         NEW selection, NEW current
  PROVE  Lawful(s, SetAxisCurrent(s, selection, current), k)
<1> DEFINE o == Succeed(s)
<1>1. /\ o.sim \in Sims /\ o.sim.axes = s.axes /\ o.sim.stopped = s.stopped
      /\ o.sim.estop = s.estop /\ o.ok = TRUE
  BY DEF Succeed, Good, Sims, SimFaults
<1> HIDE DEF o
<1>2. \A ax \in Axes : /\ AxisGood(o.sim.axes[ax], o.sim.stopped, k)
                       /\ Lives(s.axes[ax], o.sim.axes[ax], k, o.ok)
  BY <1>1, SameGood
<1>3. Lawful(s, o, k)
  BY <1>1, <1>2 DEF Lawful, Good
<1> QED BY <1>3, FailLawful DEF o, SetAxisCurrent, SimFaults

\* stop_axis()
LEMMA StopAxisLawful ==
  ASSUME NEW s, NEW id, NEW k, Later(id, k), Good(s, id),
         NEW selection \in Selections
  PROVE  Lawful(s, StopAxis(s, selection), k)
<1> DEFINE f == [ax \in Axes |->
             IF ax \in Selected(selection)
               THEN Invalidate(s.axes[ax], "stopped") ELSE s.axes[ax]]
<1>1. "stopped" \in SimLosses \ {"none"}
  BY DEF SimLosses
<1>2. ASSUME NEW ax \in Axes
      PROVE  /\ AxisGood(f[ax], s.stopped, k)
             /\ Lives(s.axes[ax], f[ax], k, TRUE)
  <2>1. CASE ax \in Selected(selection)
    <3> DEFINE new == Invalidate(s.axes[ax], "stopped")
    <3>1. AxisGood(s.axes[ax], s.stopped, id) /\ s.stopped \in BOOLEAN
      BY DEF Good, Sims
    <3>2. AxisGood(new, s.stopped, id) /\ Lives(s.axes[ax], new, k, TRUE)
      BY <1>1, <3>1, InvalidateGood
    <3>3. f[ax] = new
      BY <2>1
    <3> HIDE DEF f, new
    <3>4. AxisGood(new, s.stopped, k)
      BY <3>1, <3>2, OlderGood, Zenon
    <3> QED BY <3>2, <3>3, <3>4, Zenon
  <2>2. CASE ax \notin Selected(selection)
    BY <2>2, SameGood
  <2> QED BY <2>1, <2>2
<1>3. Lawful(s, Succeed([s EXCEPT !.axes = f]), k)
  <2>1. f = [ax \in Axes |-> f[ax]]
    OBVIOUS
  <2> HIDE DEF f
  <2> QED BY <1>2, <2>1, SucceededAxesLawful
<1> QED BY <1>3 DEF StopAxis, Change

\* set_axis_enabled()
LEMMA EnableAxisLawful ==
  ASSUME NEW s, NEW id, NEW k, Later(id, k), Good(s, id),
         NEW selection \in Selections, NEW enabled \in BOOLEAN
  PROVE  Lawful(s, SetAxisEnabled(s, selection, enabled), k)
<1> DEFINE f == [ax \in Axes |->
             IF ax \in Selected(selection)
               THEN Switched(s.axes[ax], enabled) ELSE s.axes[ax]]
<1>2. ASSUME NEW ax \in Axes
      PROVE  /\ AxisGood(f[ax], s.stopped, k)
             /\ Lives(s.axes[ax], f[ax], k, TRUE)
  <2>1. CASE ax \in Selected(selection)
    <3> DEFINE new == Switched(s.axes[ax], enabled)
    <3>1. AxisGood(s.axes[ax], s.stopped, id) /\ s.stopped \in BOOLEAN
      BY DEF Good, Sims
    <3>2. AxisGood(new, s.stopped, id) /\ Lives(s.axes[ax], new, k, TRUE)
      BY <3>1, SwitchedGood
    <3>3. f[ax] = new
      BY <2>1
    <3> HIDE DEF f, new
    <3>4. AxisGood(new, s.stopped, k)
      BY <3>1, <3>2, OlderGood, Zenon
    <3> QED BY <3>2, <3>3, <3>4, Zenon
  <2>2. CASE ax \notin Selected(selection)
    BY <2>2, SameGood
  <2> QED BY <2>1, <2>2
<1>3. Lawful(s, Succeed([s EXCEPT !.axes = f]), k)
  <2>1. f = [ax \in Axes |-> f[ax]]
    OBVIOUS
  <2> HIDE DEF f
  <2> QED BY <1>2, <2>1, SucceededAxesLawful
<1> QED BY <1>3 DEF SetAxisEnabled, Change

\* set_axis_microsteps()
LEMMA MicrostepsLawful ==
  ASSUME NEW s, NEW id, NEW k, Later(id, k), Good(s, id),
         NEW selection \in Selections, NEW microsteps
  PROVE  Lawful(s, SetAxisMicrosteps(s, selection, microsteps), k)
<1> DEFINE f == [ax \in Axes |->
             IF ax \in {selection}
               THEN Reconfigured(s.axes[ax], microsteps) ELSE s.axes[ax]]
<1>1. CASE microsteps \in MicrostepChoices
  <2>2. ASSUME NEW ax \in Axes
        PROVE  /\ AxisGood(f[ax], s.stopped, k)
               /\ Lives(s.axes[ax], f[ax], k, TRUE)
    <3>1. CASE ax \in {selection}
      <4> DEFINE new == Reconfigured(s.axes[ax], microsteps)
      <4>1. AxisGood(s.axes[ax], s.stopped, id) /\ s.stopped \in BOOLEAN
        BY DEF Good, Sims
      <4>2. AxisGood(new, s.stopped, id) /\ Lives(s.axes[ax], new, k, TRUE)
        BY <1>1, <4>1, ReconfiguredGood
      <4>3. f[ax] = new
        BY <3>1
      <4> HIDE DEF f, new
      <4>4. AxisGood(new, s.stopped, k)
        BY <4>1, <4>2, OlderGood, Zenon
      <4> QED BY <4>2, <4>3, <4>4, Zenon
    <3>2. CASE ax \notin {selection}
      BY <3>2, SameGood
    <3> QED BY <3>1, <3>2
  <2>3. Lawful(s, Succeed([s EXCEPT !.axes = f]), k)
    <3>1. f = [ax \in Axes |-> f[ax]]
      OBVIOUS
    <3> HIDE DEF f
    <3> QED BY <2>2, <3>1, SucceededAxesLawful
  <2> QED BY <1>1, <2>3, FailLawful DEF SetAxisMicrosteps, Change, SimFaults
<1>2. CASE microsteps \notin MicrostepChoices
  BY <1>2, FailLawful DEF SetAxisMicrosteps, SimFaults
<1> QED BY <1>1, <1>2

\* set_enabled()
LEMMA EnableAllLawful ==
  ASSUME NEW s, NEW id, NEW k, Later(id, k), Good(s, id),
         NEW enabled \in BOOLEAN
  PROVE  Lawful(s, SetAllEnabled(s, enabled), k)
<1> DEFINE f == [ax \in Axes |-> Switched(s.axes[ax], enabled)]
<1>1. ASSUME NEW ax \in Axes
      PROVE  /\ AxisGood(f[ax], s.stopped, k)
             /\ Lives(s.axes[ax], f[ax], k, TRUE)
             /\ ~enabled => Lives(s.axes[ax], f[ax], k, FALSE)
  <2> DEFINE new == Switched(s.axes[ax], enabled)
  <2>1. AxisGood(s.axes[ax], s.stopped, id) /\ s.stopped \in BOOLEAN
    BY DEF Good, Sims
  <2>2. /\ AxisGood(new, s.stopped, id) /\ Lives(s.axes[ax], new, k, TRUE)
        /\ ~enabled => Lives(s.axes[ax], new, k, FALSE)
    BY <2>1, SwitchedGood
  <2> HIDE DEF new
  <2>3. AxisGood(new, s.stopped, k)
    BY <2>1, <2>2, OlderGood, Zenon
  <2> QED BY <2>2, <2>3 DEF new
<1>2. f = [ax \in Axes |-> f[ax]]
  OBVIOUS
<1>3. [s EXCEPT !.axes = f] = Change(s, Axes, LAMBDA a : Switched(a, enabled))
  BY DEF Change
<1> HIDE DEF f
<1>4. CASE enabled
  BY <1>1, <1>2, <1>3, <1>4, SucceededAxesLawful DEF SetAllEnabled
<1>5. CASE ~enabled
  <2>1. "driver_disabled" \in SimFaults
    BY DEF SimFaults
  <2>2. Lawful(s, FailWith([s EXCEPT !.axes = f], "driver_disabled"), k)
    BY <1>1, <1>2, <1>5, <2>1, FailedAxesLawful
  <2> QED BY <1>3, <1>5, <2>2 DEF SetAllEnabled
<1> QED BY <1>4, <1>5

\* Every axis of the record becomes one that is switched off.
LEMMA EmergencyDead ==
  ASSUME NEW s, NEW id, NEW k, Later(id, k), Good(s, id)
  PROVE  LET o == EmergencyStopAll(s)
         IN  /\ Good(o.sim, k) /\ o.ok = FALSE /\ o.sim.estop
             /\ \A ax \in Axes : /\ ~o.sim.axes[ax].trusted
                                /\ ~o.sim.axes[ax].enabled
                                /\ o.sim.axes[ax].done = s.axes[ax].done
<1> DEFINE f == [ax \in Axes |-> SwitchedOff(s.axes[ax], "emergency_stop")]
           o == EmergencyStopAll(s)
<1>1. /\ "emergency_stop" \in SimLosses \ {"none"}
      /\ "emergency_stop" \in SimFaults
  BY DEF SimLosses, SimFaults
<1>2. ASSUME NEW ax \in Axes
      PROVE  /\ AxisGood(f[ax], TRUE, k) /\ ~f[ax].trusted /\ ~f[ax].enabled
             /\ f[ax].done = s.axes[ax].done
  <2> DEFINE new == SwitchedOff(s.axes[ax], "emergency_stop")
  <2>1. AxisGood(s.axes[ax], s.stopped, id) /\ s.stopped \in BOOLEAN
    BY DEF Good, Sims
  <2>2. /\ AxisGood(new, TRUE, id) /\ ~new.trusted /\ ~new.enabled
        /\ new.done = s.axes[ax].done
    BY <1>1, <2>1, SwitchedOffGood
  <2> HIDE DEF new
  <2>3. AxisGood(new, TRUE, k)
    BY <2>2, OlderGood, Zenon
  <2> QED BY <2>2, <2>3 DEF new
<1>3. f \in [Axes -> SimAxis]
  BY <1>2 DEF AxisGood
<1>4. /\ o.sim \in Sims /\ o.sim.axes = f /\ o.sim.stopped = TRUE
      /\ o.sim.estop = TRUE /\ o.ok = FALSE
  BY <1>1, <1>3 DEF EmergencyStopAll, Change, FailWith, Good, Sims
<1> HIDE DEF o, f
<1>5. Good(o.sim, k)
  BY <1>2, <1>4 DEF Good
<1> QED BY <1>2, <1>4, <1>5 DEF o

-----------------------------------------------------------------------------
(* What happens by itself *)

\* Changes that leave the latch and the ids alone, axis by axis.
Silent(s, t, id) ==
  /\ Good(t, id) /\ t.estop = s.estop
  /\ \A ax \in Axes : Lives(s.axes[ax], t.axes[ax], id, FALSE)

\* A record whose axes are replaced by such.
LEMMA SilentAxes ==
  ASSUME NEW s, NEW id \in Nat, Good(s, id), NEW t \in Sims,
         t.stopped = s.stopped, t.estop = s.estop,
         \A ax \in Axes : /\ AxisGood(t.axes[ax], s.stopped, id)
                          /\ Lives(s.axes[ax], t.axes[ax], id, FALSE)
  PROVE  Silent(s, t, id)
BY DEF Silent, Good

\* service()
LEMMA ServeSilent ==
  ASSUME NEW s, NEW id \in Nat, Good(s, id)
  PROVE  Silent(s, ServeAll(s), id)
<1> DEFINE fault(a) == IF a.status = "critical" THEN "driver_critical"
                                                ELSE "driver_communication"
           f == [ax \in Axes |-> IF s.axes[ax].status = "ok" THEN s.axes[ax]
                   ELSE Failed(s.axes[ax], "driver_fault", fault(s.axes[ax]))]
           t == ServeAll(s)
<1>1. /\ "driver_fault" \in SimLosses \ {"none"}
      /\ \A a : fault(a) \in SimFaults
      /\ Later(id, id)
  BY DEF SimLosses, SimFaults, Later
<1>2. ASSUME NEW ax \in Axes
      PROVE  /\ AxisGood(f[ax], s.stopped, id)
             /\ Lives(s.axes[ax], f[ax], id, FALSE)
  <2>1. AxisGood(s.axes[ax], s.stopped, id) /\ s.stopped \in BOOLEAN
    BY DEF Good, Sims
  <2>2. CASE s.axes[ax].status = "ok"
    BY <1>1, <2>2, SameGood
  <2>3. CASE s.axes[ax].status # "ok"
    <3> DEFINE new == Failed(s.axes[ax], "driver_fault", fault(s.axes[ax]))
    <3>1. f[ax] = new
      BY <2>3
    <3> HIDE DEF f, fault
    <3>2. AxisGood(new, s.stopped, id) /\ Lives(s.axes[ax], new, id, FALSE)
      BY <1>1, <2>1, FailedGood
    <3> QED BY <3>1, <3>2, Zenon
  <2> QED BY <2>2, <2>3
<1>3. f \in [Axes -> SimAxis]
  BY <1>2 DEF AxisGood
<1>4. t = [s EXCEPT !.axes = f]
  BY DEF ServeAll, Change
<1> HIDE DEF f, t
<1>5. /\ t \in Sims /\ t.axes = f /\ t.stopped = s.stopped
      /\ t.estop = s.estop
  BY <1>3, <1>4 DEF Good, Sims
<1> QED BY <1>2, <1>5, SilentAxes DEF t

\* simulate_reset()
LEMMA ResetSilent ==
  ASSUME NEW s, NEW id \in Nat, Good(s, id), NEW selection \in Selections
  PROVE  Silent(s, SimulateReset(s, selection), id)
<1> DEFINE reason == "watchdog_reset_during_motion"
           fault == "driver_communication"
           f == [ax \in Axes |-> IF ax \in Selected(selection)
                   THEN Failed(s.axes[ax], reason, fault) ELSE s.axes[ax]]
           t == SimulateReset(s, selection)
<1>1. /\ reason \in SimLosses \ {"none"} /\ fault \in SimFaults
      /\ Later(id, id)
  BY DEF SimLosses, SimFaults, Later
<1>2. ASSUME NEW ax \in Axes
      PROVE  /\ AxisGood(f[ax], s.stopped, id)
             /\ Lives(s.axes[ax], f[ax], id, FALSE)
  <2>1. AxisGood(s.axes[ax], s.stopped, id) /\ s.stopped \in BOOLEAN
    BY DEF Good, Sims
  <2>2. CASE ax \notin Selected(selection)
    BY <1>1, <2>2, SameGood
  <2>3. CASE ax \in Selected(selection)
    <3> DEFINE new == Failed(s.axes[ax], reason, fault)
    <3>1. f[ax] = new
      BY <2>3
    <3> HIDE DEF f
    <3>2. AxisGood(new, s.stopped, id) /\ Lives(s.axes[ax], new, id, FALSE)
      BY <1>1, <2>1, FailedGood
    <3> QED BY <3>1, <3>2, Zenon
  <2> QED BY <2>2, <2>3
<1>3. f \in [Axes -> SimAxis]
  BY <1>2 DEF AxisGood
<1>4. t = [s EXCEPT !.axes = f, !.fault = fault]
  BY DEF SimulateReset, Change
<1> HIDE DEF f, t
<1>5. /\ t \in Sims /\ t.axes = f /\ t.stopped = s.stopped
      /\ t.estop = s.estop
  BY <1>1, <1>3, <1>4 DEF Good, Sims
<1> QED BY <1>2, <1>5, SilentAxes DEF t

\* What a test sets, and what the protocol reports.
LEMMA StatusSilent ==
  ASSUME NEW s, NEW id \in Nat, Good(s, id), NEW bx \in Axes,
         NEW status \in Statuses
  PROVE  Silent(s, [s EXCEPT !.axes[bx].status = status], id)
<1> DEFINE new == [s.axes[bx] EXCEPT !.status = status]
           t == [s EXCEPT !.axes[bx].status = status]
<1>1. AxisGood(s.axes[bx], s.stopped, id) /\ s.stopped \in BOOLEAN
  BY DEF Good, Sims
<1>2. AxisGood(new, s.stopped, id) /\ Lives(s.axes[bx], new, id, FALSE)
  BY <1>1 DEF AxisGood, SimAxis, Lives
<1>3. t = [s EXCEPT !.axes = [s.axes EXCEPT ![bx] = new]]
  OBVIOUS
<1> HIDE DEF new, t
<1>4. new \in SimAxis /\ s \in Sims /\ Later(id, id)
  BY <1>2 DEF AxisGood, Good, Later
<1>5. /\ t \in Sims /\ t.stopped = s.stopped /\ t.estop = s.estop
      /\ t.axes = [s.axes EXCEPT ![bx] = new]
  BY <1>3, <1>4 DEF Sims
<1>6. ASSUME NEW ax \in Axes
      PROVE  /\ AxisGood(t.axes[ax], s.stopped, id)
             /\ Lives(s.axes[ax], t.axes[ax], id, FALSE)
  <2>1. CASE ax = bx
    <3>1. t.axes[ax] = new
      BY <1>4, <1>5, <2>1 DEF Sims
    <3> QED BY <1>2, <2>1, <3>1, Zenon
  <2>2. CASE ax # bx
    <3>1. t.axes[ax] = s.axes[ax]
      BY <1>4, <1>5, <2>2 DEF Sims
    <3> QED BY <1>4, <3>1, SameGood
  <2> QED BY <2>1, <2>2
<1>7. Silent(s, t, id)
  BY <1>5, <1>6, SilentAxes
<1> QED BY <1>7 DEF t

\* A change that no axis sees.
LEMMA OtherSilent ==
  ASSUME NEW s, NEW id \in Nat, Good(s, id), NEW t \in Sims,
         t.axes = s.axes, t.stopped = s.stopped, t.estop = s.estop
  PROVE  Silent(s, t, id)
<1>1. Later(id, id)
  BY DEF Later
<1> QED BY <1>1, SameGood, SilentAxes

-----------------------------------------------------------------------------
(* The invariant *)

IInv == /\ Good(sim, issued) /\ issued \in Nat /\ accepted \in BOOLEAN
        /\ simulated \in Nat

\* The invariant holds at the start,
LEMMA InitGood == SimInit => IInv
<1> SUFFICES ASSUME SimInit PROVE IInv
  OBVIOUS
<1> DEFINE axis(ax) ==
        [at |-> 0, steps |-> 0, enabled |-> FALSE, homed |-> FALSE,
         trusted |-> FALSE, lossReason |-> "startup", fault |-> "none",
         done |-> 0, status |-> "ok", microsteps |-> Profile[ax].microsteps]
<1>1. ASSUME NEW ax \in Axes PROVE AxisGood(axis(ax), FALSE, 0)
  <2>1. /\ Profile[ax].microsteps \in MicrostepChoices /\ "ok" \in Statuses
        /\ "startup" \in SimLosses /\ "none" \in SimFaults
    BY SimulatorAssumption DEF SimLosses, SimFaults
  <2> QED BY <2>1 DEF AxisGood, SimAxis
<1>2. /\ sim.axes = [ax \in Axes |-> axis(ax)] /\ sim.stopped = FALSE
      /\ sim.estop = FALSE /\ issued = 0 /\ accepted = TRUE /\ simulated = 0
  BY DEF SimInit
<1>3. sim \in Sims
  <2>1. [ax \in Axes |-> axis(ax)] \in [Axes -> SimAxis]
    BY <1>1 DEF AxisGood
  <2> HIDE DEF axis
  <2> QED BY <2>1 DEF SimInit, Sims, SimFaults, axis
<1> HIDE DEF axis
<1> QED BY <1>1, <1>2, <1>3 DEF IInv, Good

\* What the steps do: an answered command, the emergency stop, or nothing
\* that a caller asked for.
Answered ==
  /\ issued' = issued + 1 /\ accepted' \in BOOLEAN
  /\ simulated' = simulated
  /\ Lawful(sim, [sim |-> sim', ok |-> accepted'], issued + 1)

StoppedDead ==
  /\ issued' = issued + 1 /\ accepted' = FALSE /\ simulated' = simulated
  /\ Good(sim', issued + 1) /\ sim'.estop
  /\ \A ax \in Axes : /\ ~sim'.axes[ax].trusted /\ ~sim'.axes[ax].enabled
                     /\ sim'.axes[ax].done = sim.axes[ax].done

Unasked ==
  /\ issued' = issued /\ accepted' = TRUE
  /\ simulated' \in {simulated, simulated + 1}
  /\ Silent(sim, sim', issued)

\* A lawful outcome is an answer.
LEMMA HandledAnswers ==
  ASSUME NEW o, Handle(o), Lawful(sim, o, issued + 1)
  PROVE  Answered
BY DEF Handle, Lawful, Answered

\* Every step is of one of these kinds.
LEMMA StepKinds ==
  ASSUME IInv, SimNext
  PROVE  Answered \/ StoppedDead \/ Unasked
<1> DEFINE k == issued + 1
<1>1. issued \in Nat /\ Good(sim, issued) /\ Later(issued, k)
  BY DEF IInv, Later
<1>2. CASE SimHome
  <2>1. PICK selection \in Selections : Handle(HomeTo(sim, selection, k))
    BY <1>2 DEF SimHome
  <2> HIDE DEF k
  <2>2. Lawful(sim, HomeTo(sim, selection, k), k)
    BY <1>1, HomeLawful
  <2> QED BY <2>1, <2>2, HandledAnswers DEF k
<1>3. CASE SimMoveAbsolute
  <2>1. PICK angles \in Positions, speedOk \in BOOLEAN :
          Handle(MoveTo(sim, angles, speedOk, k))
    BY <1>3 DEF SimMoveAbsolute
  <2>2. angles \in [Axes -> Int]
    BY SimulatorAssumption
  <2> HIDE DEF k
  <2>3. Lawful(sim, MoveTo(sim, angles, speedOk, k), k)
    BY <1>1, <2>2, MoveLawful
  <2> QED BY <2>1, <2>3, HandledAnswers DEF k
<1>4. CASE SimMoveRelative
  <2>1. PICK selection \in Selections, delta \in Deltas, speedOk \in BOOLEAN :
          Handle(MoveBy(sim, selection, delta, speedOk, k))
    BY <1>4 DEF SimMoveRelative
  <2>2. delta \in Int
    BY SimulatorAssumption
  <2> HIDE DEF k
  <2>3. Lawful(sim, MoveBy(sim, selection, delta, speedOk, k), k)
    BY <1>1, <2>2, MoveByLawful
  <2> QED BY <2>1, <2>3, HandledAnswers DEF k
<1>5. CASE SimBenchMove
  <2>1. PICK selection \in Selections, steps \in StepCounts :
          Handle(BenchMove(sim, selection, steps, k))
    BY <1>5 DEF SimBenchMove
  <2>2. steps \in Int
    BY SimulatorAssumption
  <2> HIDE DEF k
  <2>3. Lawful(sim, BenchMove(sim, selection, steps, k), k)
    BY <1>1, <2>2, BenchLawful
  <2> QED BY <2>1, <2>3, HandledAnswers DEF k
<1>6. CASE SimStop
  <2>1. Lawful(sim, StopAll(sim), k)
    BY <1>1, StopLawful
  <2>2. \A selection \in Selections : Lawful(sim, StopAxis(sim, selection), k)
    BY <1>1, StopAxisLawful
  <2> QED BY <1>6, <2>1, <2>2, HandledAnswers DEF SimStop
<1>7. CASE SimEmergencyStop
  BY <1>1, <1>7, EmergencyDead DEF SimEmergencyStop, Handle, StoppedDead
<1>8. CASE SimClearFault
  BY <1>1, <1>8, ClearLawful, HandledAnswers DEF SimClearFault
<1>9. CASE SimSetEnabled
  <2>1. \A enabled \in BOOLEAN : Lawful(sim, SetAllEnabled(sim, enabled), k)
    BY <1>1, EnableAllLawful
  <2>2. \A selection \in Selections, enabled \in BOOLEAN :
          Lawful(sim, SetAxisEnabled(sim, selection, enabled), k)
    BY <1>1, EnableAxisLawful
  <2> QED BY <1>9, <2>1, <2>2, HandledAnswers DEF SimSetEnabled
<1>10. CASE SimConfigure
  <2>1. \A selection, current : Lawful(sim, SetAxisCurrent(sim, selection, current), k)
    BY <1>1, CurrentLawful
  <2>2. \A selection \in Selections : \A microsteps :
          Lawful(sim, SetAxisMicrosteps(sim, selection, microsteps), k)
    BY <1>1, MicrostepsLawful
  <2> QED BY <1>10, <2>1, <2>2, HandledAnswers DEF SimConfigure
<1>11. CASE SimService
  BY <1>1, <1>11, ServeSilent DEF SimService, ByItself, Unasked
<1>12. CASE SimReportFault
  <2>1. PICK fault \in {"invalid_argument", "driver_communication"} :
          sim' = [sim EXCEPT !.fault = fault]
    BY <1>12 DEF SimReportFault
  <2>2. /\ sim' \in Sims /\ sim'.axes = sim.axes
        /\ sim'.stopped = sim.stopped /\ sim'.estop = sim.estop
    BY <1>1, <2>1 DEF Good, Sims, SimFaults
  <2> QED BY <1>1, <1>12, <2>2, OtherSilent DEF SimReportFault, ByItself, Unasked
<1>13. CASE Simulate
  <2>1. CASE \E ax \in Axes, status \in Statuses :
               sim' = [sim EXCEPT !.axes[ax].status = status]
    BY <1>1, <1>13, <2>1, StatusSilent DEF Simulate, ByItself, Unasked
  <2>2. CASE \E ax \in Axes, fault \in Failures \cup {"none"} :
               sim' = [sim EXCEPT !.failing[ax] = fault]
    <3>1. /\ sim' \in Sims /\ sim'.axes = sim.axes
          /\ sim'.stopped = sim.stopped /\ sim'.estop = sim.estop
      BY <1>1, <2>2 DEF Good, Sims
    <3> QED BY <1>1, <1>13, <3>1, OtherSilent DEF Simulate, ByItself, Unasked
  <2>3. CASE \E selection \in Selections : sim' = SimulateReset(sim, selection)
    BY <1>1, <1>13, <2>3, ResetSilent DEF Simulate, ByItself, Unasked
  <2> QED BY <1>13, <2>1, <2>2, <2>3 DEF Simulate
<1> QED
  BY <1>2, <1>3, <1>4, <1>5, <1>6, <1>7, <1>8, <1>9, <1>10, <1>11, <1>12,
     <1>13 DEF SimNext

\* and every step keeps it.
LEMMA StepGood == IInv /\ [SimNext]_simVars => IInv'
<1> SUFFICES ASSUME IInv, [SimNext]_simVars PROVE IInv'
  OBVIOUS
<1>1. CASE UNCHANGED simVars
  BY <1>1 DEF IInv, simVars
<1>2. CASE Answered
  BY <1>2 DEF IInv, Answered, Lawful
<1>3. CASE StoppedDead
  <2>1. issued' \in Nat /\ simulated' \in Nat
    BY <1>3 DEF IInv, StoppedDead
  <2>2. accepted' \in BOOLEAN
    BY <1>3, Zenon DEF StoppedDead
  <2>3. Good(sim', issued')
    BY <1>3, Zenon DEF StoppedDead
  <2> QED BY <2>1, <2>2, <2>3 DEF IInv
<1>4. CASE Unasked
  <2>1. simulated' \in Nat
    BY <1>4 DEF IInv, Unasked
  <2>2. Good(sim', issued')
    BY <1>4, Zenon DEF Unasked, Silent
  <2> QED BY <1>4, <2>1, <2>2 DEF IInv, Unasked
<1> QED BY <1>1, <1>2, <1>3, <1>4, StepKinds

-----------------------------------------------------------------------------
(* The theorems *)

\* The controller keeps to its types, whatever it is asked and whatever a
\* test makes happen.
THEOREM SimTypeCorrectness == SimSpec => []SimTypeOK
<1>1. IInv => SimTypeOK
  BY DEF IInv, Good, Sims, SimTypeOK
<1> QED BY <1>1, InitGood, StepGood, PTL DEF SimSpec

\* homed, position_trusted and the loss reason always agree, and a trusted
\* position belongs to an enabled axis of a controller that is not stopped:
\* move_absolute() never finds its later conditions violated.
THEOREM SimTrust == SimSpec => []SimTrustIsReady
<1>1. IInv => SimTrustIsReady
  BY DEF IInv, Good, AxisGood, SimTrustIsReady
<1> QED BY <1>1, InitGood, StepGood, PTL DEF SimSpec

\* What is seen of one axis.
Seen(a) == [working |-> FALSE, homing |-> FALSE, trusted |-> a.trusted,
            enabled |-> a.enabled, order |-> 0, done |-> a.done]

\* It is a Unit of the contract.
LEMMA SeenUnit ==
  ASSUME NEW a \in SimAxis
  PROVE  /\ Seen(a) \in SimContract!Unit
         /\ Seen(a).working = FALSE /\ Seen(a).homing = FALSE
         /\ Seen(a).trusted = a.trusted /\ Seen(a).enabled = a.enabled
         /\ Seen(a).order = 0 /\ Seen(a).done = a.done
BY DEF Seen, SimAxis, SimContract!Unit

\* A unit that differs in enabled alone.
LEMMA SwitchedUnit ==
  ASSUME NEW u \in SimContract!Unit, NEW v \in SimContract!Unit,
         v.working = u.working, v.homing = u.homing, v.trusted = u.trusted,
         v.enabled = TRUE, v.order = u.order, v.done = u.done
  PROVE  v = [u EXCEPT !.enabled = TRUE]
<1> DEFINE w == [u EXCEPT !.enabled = TRUE]
<1>1. /\ w \in SimContract!Unit /\ w.working = u.working
      /\ w.homing = u.homing /\ w.trusted = u.trusted /\ w.enabled = TRUE
      /\ w.order = u.order /\ w.done = u.done
  BY Zenon DEF SimContract!Unit
<1> HIDE DEF w
<1>2. v = w
  BY <1>1, SMT DEF SimContract!Unit
<1> QED BY <1>2 DEF w

\* Its changes are those the contract knows.
LEMMA SeenChanges ==
  ASSUME NEW a \in SimAxis, NEW b \in SimAxis, NEW id, NEW ok \in BOOLEAN,
         Lives(a, b, id, ok)
  PROVE  LET u == Seen(a)  v == Seen(b)
         IN  \/ v = u
             \/ SimContract!Rests(u, v) /\ SimContract!Ends(u, v)
                  /\ SimContract!Dead(v) /\ v.done = u.done
             \/ ok /\ SimContract!SwitchedOn(u, v)
             \/ ok /\ SimContract!DoesAtOnce(u, v, id)
<1>1. CASE b.trusted = a.trusted /\ b.enabled = a.enabled /\ b.done = a.done
  BY <1>1 DEF Seen
<1>2. CASE ~b.trusted /\ (b.enabled => a.enabled) /\ b.done = a.done
  BY <1>2, SeenUnit DEF SimContract!Rests, SimContract!Ends, SimContract!Dead,
                        SimContract!SameIds
<1>3. CASE ok /\ b.enabled /\ b.trusted = a.trusted /\ b.done = a.done
  <2>1. b.enabled = TRUE
    BY <1>3 DEF SimAxis
  <2>2. /\ Seen(b).enabled = TRUE /\ Seen(b).trusted = Seen(a).trusted
        /\ Seen(b).done = Seen(a).done /\ Seen(b).order = Seen(a).order
        /\ Seen(b).working = Seen(a).working
        /\ Seen(b).homing = Seen(a).homing
    BY <1>3, <2>1, SeenUnit
  <2>3. Seen(b) = [Seen(a) EXCEPT !.enabled = TRUE]
    BY <2>2, SeenUnit, SwitchedUnit
  <2> QED BY <1>3, <2>3, Zenon DEF SimContract!SwitchedOn
<1>4. CASE ok /\ b.enabled /\ b.done = id
  BY <1>4, SeenUnit DEF SimContract!DoesAtOnce
<1> QED BY <1>1, <1>2, <1>3, <1>4 DEF Lives

\* The start is one the contract allows,
LEMMA InitConsistent == SimInit => SimContract!Consistent
<1> SUFFICES ASSUME SimInit PROVE SimContract!Consistent
  OBVIOUS
<1>1. IInv
  BY InitGood
<1>2. ASSUME NEW ax \in Axes
      PROVE  /\ SimShown(ax) \in SimContract!Unit
             /\ SimContract!Coherent(SimShown(ax))
  <2>1. /\ sim.axes[ax] \in SimAxis /\ sim.axes[ax].done <= issued
        /\ issued \in Nat
    BY <1>1 DEF IInv, Good, AxisGood
  <2> DEFINE u == Seen(sim.axes[ax])
  <2>2. SimShown(ax) = u
    BY DEF SimShown, Seen
  <2>3. /\ u \in SimContract!Unit /\ u.working = FALSE /\ u.homing = FALSE
        /\ u.order = 0 /\ u.done <= issued
    BY <2>1, SeenUnit
  <2> HIDE DEF u
  <2>4. SimContract!Coherent(u)
    BY <2>1, <2>3 DEF SimContract!Coherent
  <2> QED BY <2>2, <2>3, <2>4, Zenon
<1>3. sim.estop = FALSE
  BY DEF SimInit
<1> QED BY <1>1, <1>2, <1>3 DEF SimContract!Consistent, IInv, Good, Sims

\* and every step is a step of the contract.
LEMMA StepHonours ==
  IInv /\ IInv' /\ [SimNext]_simVars
    => [SimContract!ContractNext]_(SimContract!contractVars)
<1> SUFFICES ASSUME IInv, IInv', SimNext
             PROVE  SimContract!ContractNext
  BY DEF simVars, SimContract!contractVars, SimShown
<1> DEFINE u == [ax \in Axes |-> SimShown(ax)]
           v == [ax \in Axes |-> SimShown(ax)']
<1>1. ASSUME NEW ax \in Axes
      PROVE  /\ u[ax] = Seen(sim.axes[ax]) /\ v[ax] = Seen(sim'.axes[ax])
             /\ sim.axes[ax] \in SimAxis /\ sim'.axes[ax] \in SimAxis
  BY DEF SimShown, Seen, IInv, Good, AxisGood
<1>2. v \in [Axes -> SimContract!Unit]
  BY <1>1, SeenUnit
<1> HIDE DEF u, v
<1>3. ASSUME NEW ax \in Axes
      PROVE  /\ ~v[ax].working /\ ~v[ax].homing
             /\ v[ax].trusted = sim'.axes[ax].trusted
             /\ v[ax].enabled = sim'.axes[ax].enabled
             /\ v[ax].order = u[ax].order
             /\ u[ax].done = sim.axes[ax].done
             /\ v[ax].done = sim'.axes[ax].done
  BY <1>1, SeenUnit
<1>4. CASE Answered
  <2>1. /\ issued' = issued + 1 /\ accepted' \in BOOLEAN
        /\ sim'.estop = sim.estop
        /\ \A ax \in Axes :
             Lives(sim.axes[ax], sim'.axes[ax], issued', accepted')
    BY <1>4 DEF Answered, Lawful
  <2>2. ASSUME NEW ax \in Axes
        PROVE  \/ v[ax] = u[ax]
               \/ SimContract!Rests(u[ax], v[ax])
               \/ accepted' /\ SimContract!SwitchedOn(u[ax], v[ax])
               \/ accepted' /\ SimContract!DoesAtOnce(u[ax], v[ax], issued')
    BY <1>1, <2>1, SeenChanges
  <2>3. CASE ~sim.estop /\ accepted'
    BY <1>2, <2>1, <2>2, <2>3
      DEF SimContract!ContractNext, SimContract!Accept, SimContract!Each, u, v
  <2>4. CASE ~sim.estop /\ ~accepted'
    BY <1>2, <2>1, <2>2, <2>4
      DEF SimContract!ContractNext, SimContract!Refuse, SimContract!Each, u, v
  <2>5. CASE sim.estop
    <3>1. ASSUME NEW ax \in Axes
          PROVE  v[ax] = u[ax] \/ (/\ SimContract!Dead(v[ax])
                                  /\ v[ax].order = u[ax].order
                                  /\ v[ax].done \in {u[ax].done, issued'})
      <4>1. ~sim'.axes[ax].trusted
        BY <2>1, <2>5 DEF IInv, Good, AxisGood
      <4>2. sim'.axes[ax].done \in {sim.axes[ax].done, issued'}
        BY <2>1 DEF Lives
      <4> QED BY <1>3, <4>1, <4>2, SeenUnit DEF SimContract!Dead
    <3>2. SimContract!StayLatched
      BY <1>2, <2>1, <2>5, <3>1, Zenon
        DEF SimContract!StayLatched, SimContract!Each, u, v
    <3> QED BY <3>2 DEF SimContract!ContractNext
  <2> QED BY <2>3, <2>4, <2>5
<1>5. CASE StoppedDead
  <2>1. ASSUME NEW ax \in Axes
        PROVE  /\ SimContract!Dead(v[ax]) /\ ~v[ax].enabled
               /\ SimContract!SameIds(u[ax], v[ax])
    BY <1>5, <1>3 DEF StoppedDead, SimContract!Dead, SimContract!SameIds
  <2>2. /\ sim'.estop = TRUE /\ issued' \in {issued, issued + 1}
        /\ accepted' \in BOOLEAN
    BY <1>5 DEF StoppedDead, IInv, Good, Sims
  <2>3. SimContract!EmergencyStop
    BY <1>2, <2>1, <2>2, Zenon
      DEF SimContract!EmergencyStop, SimContract!Each, u, v
  <2> QED BY <2>3 DEF SimContract!ContractNext
<1>6. CASE Unasked
  <2>1. /\ issued' = issued /\ accepted' = TRUE
        /\ sim'.estop = sim.estop
        /\ \A ax \in Axes :
             Lives(sim.axes[ax], sim'.axes[ax], issued, FALSE)
    BY <1>6 DEF Unasked, Silent
  <2>2. ASSUME NEW ax \in Axes
        PROVE  \/ v[ax] = u[ax]
               \/ SimContract!Ends(u[ax], v[ax]) /\ SimContract!Dead(v[ax])
                    /\ v[ax].order = u[ax].order /\ v[ax].done = u[ax].done
    <3>1. Lives(sim.axes[ax], sim'.axes[ax], issued, FALSE)
      BY <2>1
    <3>2. LET a == sim.axes[ax]  b == sim'.axes[ax]
          IN  \/ Seen(b) = Seen(a)
              \/ /\ SimContract!Ends(Seen(a), Seen(b))
                 /\ SimContract!Dead(Seen(b)) /\ Seen(b).done = Seen(a).done
      BY <1>1, <3>1, SeenChanges, Zenon
    <3> QED BY <1>1, <1>3, <3>2, Zenon
  <2>3. CASE ~sim.estop
    BY <1>2, <2>1, <2>2, <2>3
      DEF SimContract!ContractNext, SimContract!Serve, SimContract!Each, u, v
  <2>4. CASE sim.estop
    BY <1>2, <2>1, <2>2, <2>4
      DEF SimContract!ContractNext, SimContract!StayLatched, SimContract!Each, u, v
  <2> QED BY <2>3, <2>4
<1> QED BY <1>4, <1>5, <1>6, StepKinds

\* The simulated controller implements MotionContract: whatever it answers,
\* an axis changes only as MotionController's callers may expect.
THEOREM SimImplements == SimSpec => SimHonoursContract
<1> QED
  BY InitGood, StepGood, InitConsistent, StepHonours, PTL
    DEF SimSpec, SimHonoursContract, SimContract!ContractSpec

-----------------------------------------------------------------------------
(* HardwareStartup *)

Reports == [valid : BOOLEAN, duplicate : Int, invalid : Int,
            mask : SUBSET Bootstrapping]

Places == Axes \cup {"safe", "prepare", "examine", "outputs", "controller",
                     "initialized", "interrupts", "running"}

Modes == {"unused", "output", "input", "uart"}

TypePart ==
  /\ board \in Boards
  /\ at \in Places /\ n \in Roles
  /\ mode \in [Gpio -> Modes]
  /\ level \in [Gpio -> BOOLEAN]
  /\ report \in Reports
  /\ up \subseteq Axes /\ ready \in BOOLEAN

\* An entry that the first loop passes over.
Passed(role) == Pin(role) >= 0 => Pin(role) \in Gpio /\ ~Shared(role)

OutputRole(k) == IF k <= 4 THEN k ELSE k + 2

\* How far the loops are, and what they have found.
LoopPart ==
  /\ at \in {"safe", "prepare", "examine", "outputs"} =>
       ~report.valid /\ report.duplicate = None /\ report.invalid = None
  /\ at = "safe" => n <= 6
  /\ at = "prepare" => n = 1
  /\ at = "examine" => \A role \in 1 .. n - 1 : Passed(role)
  /\ at = "outputs" =>
       /\ n <= 8
       /\ \A role \in Roles : Passed(role)
       /\ \A k \in 1 .. n - 1 : Pin(OutputRole(k)) \notin InputOnly

\* Only an accepted map is wired up.
ValidPart ==
  /\ at \in Axes \cup {"initialized"} => report.valid
  /\ up # {} => report.valid
  /\ at \in {"controller", "AZ"} => up = {}
  /\ at = "EL" => up \subseteq {"AZ"}
  /\ report.valid => MapIsSound

\* The map of a board.
LEMMA PinsAreIntegers ==
  ASSUME TypePart
  PROVE  \A role \in Roles : Pin(role) \in Int
BY StartupAssumption DEF TypePart, Pin

\* The power-on state.
LEMMA InitTypes == StartupInit => TypePart /\ LoopPart /\ ValidPart
<1> SUFFICES ASSUME StartupInit PROVE TypePart /\ LoopPart /\ ValidPart
  OBVIOUS
<1>1. mode \in [Gpio -> Modes] /\ level \in [Gpio -> BOOLEAN]
  BY DEF StartupInit, Modes
<1>2. report \in Reports
  BY DEF StartupInit, Reports, None
<1>3. /\ board \in Boards /\ at \in Places /\ n \in Roles
      /\ up \subseteq Axes /\ ready \in BOOLEAN
  <2>1. /\ board \in Boards /\ at = "safe" /\ n = 1
        /\ up = {} /\ ready = FALSE
    BY DEF StartupInit
  <2>2. ready \in BOOLEAN
    BY <2>1, Zenon
  <2> QED BY <2>1, <2>2 DEF Places, Roles
<1>4. LoopPart /\ ValidPart
  BY DEF StartupInit, LoopPart, ValidPart, Axes
<1> QED BY <1>1, <1>2, <1>3, <1>4 DEF TypePart

\* The types are kept.
LEMMA StepTypes ==
  TypePart /\ LoopPart /\ [StartupNext]_startupVars => TypePart'
<1> SUFFICES ASSUME TypePart, LoopPart, [StartupNext]_startupVars
             PROVE  TypePart'
  OBVIOUS
<1>1. CASE SafeOutput
  <2>1. n <= 6 /\ n \in Roles /\ n' \in Roles /\ at' \in Places
    BY <1>1 DEF SafeOutput, TypePart, LoopPart, Roles, Places
  <2>2. mode' \in [Gpio -> Modes]
    BY <1>1 DEF SafeOutput, TypePart, Modes
  <2>3. \A role : SafeLevel(role) \in BOOLEAN
    BY Zenon DEF SafeLevel
  <2>4. level' \in [Gpio -> BOOLEAN]
    BY <1>1, <2>3 DEF SafeOutput, TypePart
  <2> QED BY <1>1, <2>1, <2>2, <2>4 DEF SafeOutput, TypePart
<1>2. CASE Prepare
  BY <1>2 DEF Prepare, TypePart, Places, Roles
<1>3. CASE Examine
  <2> DEFINE pin    == Pin(n)
             marked == IF pin \in Bootstrapping
                         THEN [report EXCEPT !.mask = @ \cup {pin}] ELSE report
  <2>1. pin \in Int /\ report \in Reports /\ n \in Roles
    BY PinsAreIntegers DEF TypePart
  <2>2. marked \in Reports
    BY <2>1 DEF Reports
  <2>3. /\ [report EXCEPT !.invalid = pin] \in Reports
        /\ [marked EXCEPT !.duplicate = pin] \in Reports
    <3> HIDE DEF pin, marked
    <3> QED BY <2>1, <2>2 DEF Reports
  <2>4. report' \in Reports /\ n' \in Roles /\ at' \in Places
    <3>1. \/ /\ report' \in {[report EXCEPT !.invalid = pin],
                              [marked EXCEPT !.duplicate = pin]}
             /\ at' = "controller" /\ n' = n
          \/ /\ report' \in {marked, report}
             /\ \/ n < 13 /\ n' = n + 1 /\ at' = at
                \/ n' = 1 /\ at' = "outputs"
      BY <1>3 DEF Examine, Reject
    <3> HIDE DEF pin, marked
    <3> QED BY <2>1, <2>2, <2>3, <3>1 DEF TypePart, Roles, Places
  <2> QED BY <1>3, <2>4 DEF Examine, TypePart
<1>4. CASE ExamineOutput
  <2> DEFINE pin == Pin(IF n <= 4 THEN n ELSE n + 2)
             valid == /\ board.named
                      /\ \A ax \in Axes : AxisIsValid(board.profile[ax])
  <2>1. n <= 8 /\ n \in Roles /\ report \in Reports
    BY <1>4 DEF ExamineOutput, TypePart, LoopPart
  <2>2. pin \in Int
    BY <2>1, PinsAreIntegers DEF Roles
  <2>3. valid \in BOOLEAN
    BY Zenon, StartupAssumption DEF TypePart
  <2>4. /\ [report EXCEPT !.invalid = pin] \in Reports
        /\ [report EXCEPT !.valid = valid] \in Reports
    <3> HIDE DEF pin, valid
    <3> QED BY <2>1, <2>2, <2>3 DEF Reports
  <2>5. \/ /\ report' \in {[report EXCEPT !.invalid = pin],
                            [report EXCEPT !.valid = valid]}
           /\ at' = "controller" /\ n' = n
        \/ report' = report /\ n' = n + 1 /\ at' = at /\ n < 8
    BY <1>4 DEF ExamineOutput, Reject
  <2>6. report' \in Reports /\ n' \in Roles /\ at' \in Places
    <3> HIDE DEF pin, valid
    <3> QED BY <2>1, <2>4, <2>5 DEF TypePart, Roles, Places
  <2> QED BY <1>4, <2>6 DEF ExamineOutput, TypePart
<1>5. CASE ConfigureStop
  BY <1>5 DEF ConfigureStop, TypePart, Places, Roles, Modes, Axes
<1>6. CASE \E ax \in Axes : InitializeAxis(ax)
  <2> SUFFICES ASSUME NEW ax \in Axes, InitializeAxis(ax) PROVE TypePart'
    BY <1>6
  <2>1. mode' \in [Gpio -> Modes]
    BY DEF InitializeAxis, TypePart, Modes
  <2>2. level' \in [Gpio -> BOOLEAN]
    BY StartupAssumption DEF InitializeAxis, TypePart
  <2>3. /\ up' = up \/ up' = up \cup {ax}
        /\ at' \in {"EL", "initialized"}
    BY DEF InitializeAxis
  <2>4. up' \subseteq Axes /\ at' \in Places
    BY <2>3 DEF TypePart, Places, Axes
  <2> QED BY <2>1, <2>2, <2>4 DEF InitializeAxis, TypePart
<1>7. CASE FinishController \/ ConfigureInterrupts
  BY <1>7 DEF FinishController, ConfigureInterrupts, TypePart, Places
<1>8. CASE UNCHANGED startupVars
  BY <1>8 DEF startupVars, TypePart
<1> QED BY <1>1, <1>2, <1>3, <1>4, <1>5, <1>6, <1>7, <1>8 DEF StartupNext

\* What the two loops have gone through is sound.
LEMMA PassedIsSound ==
  ASSUME \A role \in Roles : Passed(role),
         \A k \in 1 .. 8 : Pin(OutputRole(k)) \notin InputOnly
  PROVE  MapIsSound
<1>1. ASSUME NEW role \in Roles, Pin(role) >= 0
      PROVE  /\ Pin(role) \in Gpio
             /\ \A other \in Roles \ {role} : Pin(other) # Pin(role)
  <2>1. Pin(role) \in Gpio /\ ~Shared(role)
    BY <1>1 DEF Passed
  <2>2. ASSUME NEW other \in Roles \ {role} PROVE Pin(other) # Pin(role)
    <3>1. CASE other > role
      BY <2>1, <3>1 DEF Shared
    <3>2. CASE other < role
      <4> SUFFICES ASSUME Pin(other) = Pin(role) PROVE FALSE
        OBVIOUS
      <4>1. ~Shared(other)
        BY <1>1 DEF Passed
      <4> QED BY <3>2, <4>1 DEF Shared
    <3> QED BY <3>1, <3>2 DEF Roles
  <2> QED BY <2>1, <2>2
<1>2. ASSUME NEW role \in OutputRoles PROVE Pin(role) \notin InputOnly
  <2>1. role \in {1, 2, 3, 4, 7, 8, 9, 10}
    BY DEF OutputRoles, Axes, StepRole, DirectionRole, EnableRole, TxRole, First
  <2>2. PICK k \in 1 .. 8 : role = OutputRole(k)
    <3>1. CASE role <= 4
      BY <2>1, <3>1 DEF OutputRole
    <3>2. CASE role > 4
      <4>1. role - 2 \in 1 .. 8 /\ OutputRole(role - 2) = role
        BY <2>1, <3>2 DEF OutputRole
      <4> QED BY <4>1
    <3> QED BY <2>1, <3>1, <3>2
  <2> QED BY <2>2
<1> QED BY <1>1, <1>2 DEF MapIsSound

\* The second loop looks at outputs.
LEMMA OutputsAreOutputs ==
  \A k \in 1 .. 8 : OutputRole(k) \in OutputRoles /\ OutputRole(k) \in Roles
<1> SUFFICES ASSUME NEW k \in 1 .. 8
             PROVE  OutputRole(k) \in OutputRoles /\ OutputRole(k) \in Roles
  OBVIOUS
<1>1. "AZ" \in Axes /\ "EL" \in Axes
  BY DEF Axes
<1>2. OutputRole(k) \in {1, 2, 3, 4, 7, 8, 9, 10}
  BY DEF OutputRole
<1>3. {1, 2, 3, 4} \subseteq OutputRoles
  BY <1>1 DEF OutputRoles, StepRole, DirectionRole, EnableRole, TxRole, First
<1>4. {7, 8, 9, 10} \subseteq OutputRoles
  BY <1>1 DEF OutputRoles, StepRole, DirectionRole, EnableRole, TxRole, First
<1> QED BY <1>2, <1>3, <1>4 DEF Roles

\* The loops go through the map entry by entry.
LEMMA StepLoops ==
  TypePart /\ LoopPart /\ [StartupNext]_startupVars => LoopPart'
<1> SUFFICES ASSUME TypePart, LoopPart, [StartupNext]_startupVars
             PROVE  LoopPart'
  OBVIOUS
<1>1. CASE SafeOutput
  <2>1. n \in 1 .. 6 /\ report' = report
    BY <1>1 DEF SafeOutput, TypePart, LoopPart, Roles
  <2>2. \/ at' = "safe" /\ n' <= 6
        \/ at' = "prepare" /\ n' = 1
    BY <1>1, <2>1 DEF SafeOutput
  <2> QED BY <1>1, <2>1, <2>2 DEF SafeOutput, LoopPart
<1>2. CASE Prepare
  BY <1>2 DEF Prepare, LoopPart
<1>3. CASE Examine
  <2>1. /\ n \in Roles /\ at = "examine" /\ board' = board
        /\ \A role \in 1 .. n - 1 : Passed(role)
        /\ ~report.valid /\ report.duplicate = None /\ report.invalid = None
    BY <1>3 DEF Examine, TypePart, LoopPart
  <2>2. \A role \in Roles : Passed(role)' <=> Passed(role)
    BY <2>1 DEF Passed, Pin, Shared
  <2>3. CASE at' = "controller"
    BY <2>3 DEF LoopPart
  <2>4. CASE at' # "controller"
    <3>1. Passed(n)
      BY <1>3, <2>4 DEF Examine, Reject, Passed
    <3>2. \A role \in 1 .. n : Passed(role)
      BY <2>1, <3>1 DEF Roles
    <3>3. /\ ~report'.valid
          /\ report'.duplicate = None /\ report'.invalid = None
      BY <1>3, <2>1, <2>4 DEF Examine, Reject, TypePart, Reports
    <3>4. \/ n < 13 /\ n' = n + 1 /\ at' = "examine"
          \/ n = 13 /\ n' = 1 /\ at' = "outputs"
      BY <1>3, <2>1, <2>4 DEF Examine, Reject, Roles
    <3>5. CASE n < 13 /\ n' = n + 1 /\ at' = "examine"
      <4>1. \A role \in 1 .. n' - 1 : Passed(role)'
        BY <2>1, <2>2, <3>2, <3>5 DEF Roles
      <4> QED BY <3>3, <3>5, <4>1 DEF LoopPart
    <3>6. CASE n = 13 /\ n' = 1 /\ at' = "outputs"
      <4>1. \A role \in Roles : Passed(role)'
        BY <2>2, <3>2, <3>6 DEF Roles
      <4> QED BY <3>3, <3>6, <4>1 DEF LoopPart
    <3> QED BY <3>4, <3>5, <3>6
  <2> QED BY <2>3, <2>4
<1>4. CASE ExamineOutput
  <2>1. /\ n \in 1 .. 8 /\ at = "outputs" /\ board' = board
        /\ \A role \in Roles : Passed(role)
        /\ \A k \in 1 .. n - 1 : Pin(OutputRole(k)) \notin InputOnly
        /\ ~report.valid /\ report.duplicate = None /\ report.invalid = None
    BY <1>4 DEF ExamineOutput, TypePart, LoopPart, Roles
  <2>2. CASE at' = "controller"
    BY <2>2 DEF LoopPart
  <2>3. CASE at' # "controller"
    <3>1. /\ Pin(OutputRole(n)) \notin InputOnly
          /\ n < 8 /\ n' = n + 1 /\ at' = "outputs" /\ report' = report
      BY <1>4, <2>1, <2>3 DEF ExamineOutput, Reject, OutputRole
    <3>2. \A k \in 1 .. n' - 1 : Pin(OutputRole(k)) \notin InputOnly
      BY <2>1, <3>1
    <3>3. /\ \A role \in Roles : Passed(role)'
          /\ \A k \in 1 .. n' - 1 : (Pin(OutputRole(k)) \notin InputOnly)'
      BY <2>1, <3>2 DEF Passed, Pin, Shared, OutputRole
    <3> QED BY <2>1, <3>1, <3>3 DEF LoopPart
  <2> QED BY <2>2, <2>3
<1>5. CASE ConfigureStop
  BY <1>5 DEF ConfigureStop, LoopPart
<1>6. CASE \E ax \in Axes : InitializeAxis(ax)
  <2>1. at' \in {"EL", "initialized"}
    BY <1>6 DEF InitializeAxis
  <2> QED BY <2>1 DEF LoopPart
<1>7. CASE FinishController \/ ConfigureInterrupts
  BY <1>7 DEF FinishController, ConfigureInterrupts, LoopPart
<1>8. CASE UNCHANGED startupVars
  BY <1>8 DEF startupVars, LoopPart, Passed, Pin, Shared, OutputRole
<1> QED BY <1>1, <1>2, <1>3, <1>4, <1>5, <1>6, <1>7, <1>8 DEF StartupNext

\* What the validation has answered, once it has.
VerdictPart == AcceptsExactlySound

\* The validation ends by accepting a sound map or naming a pin of another.
LEMMA StepVerdict ==
  TypePart /\ LoopPart /\ ValidPart /\ VerdictPart /\ [StartupNext]_startupVars
    => ValidPart' /\ VerdictPart'
<1> SUFFICES ASSUME TypePart, LoopPart, ValidPart, VerdictPart,
                    [StartupNext]_startupVars
             PROVE  ValidPart' /\ VerdictPart'
  OBVIOUS
<1> DEFINE Usable == /\ board.named
                   /\ \A ax \in Axes : AxisIsValid(board.profile[ax])
           Names(r) == \/ \E role, other \in Roles :
                            role # other /\ Pin(role) = r.duplicate
                              /\ Pin(other) = r.duplicate
                       \/ \E role \in Roles :
                            Pin(role) = r.invalid /\ r.invalid # None
<1>0. /\ board' = board
      /\ MapIsSound' <=> MapIsSound
      /\ Usable' <=> Usable
      /\ Names(report)' <=> Names(report')
  <2>1. board' = board
    BY DEF StartupNext, startupVars, SafeOutput, Prepare, Examine,
           ExamineOutput, ConfigureStop, InitializeAxis, FinishController,
           ConfigureInterrupts
  <2>2. \A role : Pin(role)' = Pin(role)
    BY <2>1 DEF Pin
  <2> QED BY <2>1, <2>2 DEF MapIsSound
<1>1. VerdictPart' <=>
        (at' \in Validated => /\ report'.valid <=> MapIsSound /\ Usable
                              /\ ~MapIsSound => Names(report'))
  BY <1>0 DEF VerdictPart, AcceptsExactlySound
<1> HIDE DEF Usable, Names
<1>2. ValidPart' <=>
        /\ at' \in Axes \cup {"initialized"} => report'.valid
        /\ up' # {} => report'.valid
        /\ at' \in {"controller", "AZ"} => up' = {}
        /\ at' = "EL" => up' \subseteq {"AZ"}
        /\ report'.valid => MapIsSound
  BY <1>0 DEF ValidPart
<1>3. CASE at \in {"safe", "prepare"}
  <2>1. /\ report' = report /\ up' = up
        /\ at' \in {"safe", "prepare", "examine", "running"}
    BY <1>3 DEF StartupNext, startupVars, SafeOutput, Prepare, Examine, Axes,
            ExamineOutput, ConfigureStop, InitializeAxis, FinishController,
            ConfigureInterrupts
  <2>2. ~report.valid /\ up = {}
    BY <1>3 DEF LoopPart, ValidPart
  <2> QED BY <1>1, <1>2, <2>1, <2>2 DEF Validated, Axes
<1>4. CASE at = "examine"
  <2>1. ~report.valid /\ up = {} /\ report \in Reports /\ n \in Roles
    BY <1>4 DEF LoopPart, ValidPart, TypePart
  <2>2. CASE UNCHANGED startupVars
    BY <1>1, <1>2, <1>4, <2>1, <2>2 DEF startupVars, Validated, Axes
  <2>3. CASE Examine
    <3>1. CASE at' \in {"examine", "outputs"}
      <4>1. up' = up /\ ~report'.valid
        BY <2>1, <2>3 DEF Examine, Reject, Reports
      <4> QED BY <1>1, <1>2, <2>1, <3>1, <4>1 DEF Validated, Axes
    <3>2. CASE at' = "controller"
      <4>1. up' = up /\ ~report'.valid
        BY <2>1, <2>3 DEF Examine, Reject, Reports
      <4>2. \/ /\ Pin(n) >= 0 /\ Pin(n) \notin Gpio
               /\ report'.invalid = Pin(n)
            \/ /\ Pin(n) >= 0 /\ Shared(n)
               /\ report'.duplicate = Pin(n)
        BY <2>1, <2>3, <3>2, <1>4 DEF Examine, Reject, Reports
      <4>3. ~MapIsSound
        <5>1. CASE Pin(n) >= 0 /\ Pin(n) \notin Gpio
          BY <2>1, <5>1 DEF MapIsSound
        <5>2. CASE Pin(n) >= 0 /\ Shared(n)
          <6>1. PICK other \in Roles : other > n /\ Pin(other) = Pin(n)
            BY <5>2 DEF Shared
          <6>2. other \in Roles \ {n}
            BY <2>1, <6>1 DEF Roles
          <6> QED BY <2>1, <5>2, <6>1, <6>2 DEF MapIsSound
        <5> QED BY <4>2, <5>1, <5>2
      <4>4. Names(report')
        <5>1. CASE Pin(n) >= 0 /\ report'.invalid = Pin(n)
          BY <2>1, <5>1 DEF Names, None
        <5>2. CASE Shared(n) /\ report'.duplicate = Pin(n)
          <6>1. PICK other \in Roles : other > n /\ Pin(other) = Pin(n)
            BY <5>2 DEF Shared
          <6>2. other # n
            BY <2>1, <6>1 DEF Roles
          <6> QED BY <2>1, <5>2, <6>1, <6>2 DEF Names
        <5> QED BY <4>2, <5>1, <5>2
      <4> QED BY <1>1, <1>2, <2>1, <3>2, <4>1, <4>3, <4>4 DEF Axes
    <3> QED BY <1>4, <2>3, <3>1, <3>2 DEF Examine, Reject
  <2> QED BY <1>4, <2>2, <2>3
          DEF StartupNext, SafeOutput, Prepare, ExamineOutput, ConfigureStop,
              InitializeAxis, FinishController, ConfigureInterrupts, Axes
<1>5. CASE at = "outputs"
  <2>1. /\ ~report.valid /\ up = {} /\ report \in Reports /\ n \in 1 .. 8
        /\ \A role \in Roles : Passed(role)
        /\ \A k \in 1 .. n - 1 : Pin(OutputRole(k)) \notin InputOnly
    BY <1>5 DEF LoopPart, ValidPart, TypePart, Roles
  <2>2. CASE UNCHANGED startupVars
    BY <1>1, <1>2, <1>5, <2>1, <2>2 DEF startupVars, Validated, Axes
  <2>3. CASE ExamineOutput
    <3>1. up' = {}
      BY <2>1, <2>3 DEF ExamineOutput
    <3>2. \/ at' = "outputs" /\ report' = report
          \/ /\ at' = "controller"
             /\ Pin(OutputRole(n)) \in InputOnly
             /\ report' = [report EXCEPT !.invalid = Pin(OutputRole(n))]
          \/ /\ at' = "controller" /\ n >= 8
             /\ Pin(OutputRole(n)) \notin InputOnly
             /\ report' = [report EXCEPT !.valid = Usable]
      <4>1. n < 8 \/ n >= 8
        BY <2>1
      <4> QED BY <2>3, <4>1 DEF ExamineOutput, Reject, OutputRole, Usable
    <3>3. CASE at' = "outputs" /\ report' = report
      BY <1>1, <1>2, <2>1, <3>1, <3>3 DEF Validated, Axes
    <3>4. CASE /\ at' = "controller"
               /\ Pin(OutputRole(n)) \in InputOnly
               /\ report' = [report EXCEPT !.invalid = Pin(OutputRole(n))]
      <4>1. ~MapIsSound
        BY <2>1, <3>4, OutputsAreOutputs DEF MapIsSound
      <4>2. ~report'.valid /\ report'.invalid = Pin(OutputRole(n))
        BY <2>1, <3>4 DEF Reports
      <4>3. Pin(OutputRole(n)) # None
        BY <3>4, StartupAssumption DEF None, Gpio
      <4>4. Names(report')
        BY <2>1, <4>2, <4>3, OutputsAreOutputs DEF Names
      <4> QED BY <1>1, <1>2, <3>1, <3>4, <4>1, <4>2, <4>4 DEF Axes
    <3>5. CASE /\ at' = "controller" /\ n >= 8
               /\ Pin(OutputRole(n)) \notin InputOnly
               /\ report' = [report EXCEPT !.valid = Usable]
      <4>1. \A k \in 1 .. 8 : Pin(OutputRole(k)) \notin InputOnly
        BY <2>1, <3>5
      <4>2. MapIsSound
        BY <2>1, <4>1, PassedIsSound
      <4>3. report'.valid = Usable
        BY <2>1, <3>5 DEF Reports
      <4> QED BY <1>1, <1>2, <3>1, <3>5, <4>2, <4>3 DEF Axes
    <3> QED BY <3>2, <3>3, <3>4, <3>5
  <2> QED BY <1>5, <2>2, <2>3
          DEF StartupNext, SafeOutput, Prepare, Examine, ConfigureStop,
              InitializeAxis, FinishController, ConfigureInterrupts, Axes
<1>6. CASE at \in {"controller", "AZ", "EL", "initialized", "interrupts",
                   "running"}
  <2>1. report' = report
    BY <1>6 DEF StartupNext, startupVars, SafeOutput, Prepare, Examine,
            ExamineOutput, ConfigureStop, InitializeAxis, FinishController,
            ConfigureInterrupts
  <2>2. at' \in Validated => at \in Validated
    BY <1>6 DEF StartupNext, startupVars, SafeOutput, Prepare, Examine, Axes,
            ExamineOutput, ConfigureStop, InitializeAxis, FinishController,
            ConfigureInterrupts, Validated
  <2>3. VerdictPart'
    BY <1>1, <2>1, <2>2 DEF VerdictPart, AcceptsExactlySound, Usable, Names
  <2>4. CASE ConfigureStop
    BY <1>2, <2>1, <2>3, <2>4 DEF ConfigureStop, ValidPart, Axes
  <2>5. CASE \E ax \in Axes : InitializeAxis(ax)
    <3>1. PICK ax \in Axes : InitializeAxis(ax)
      BY <2>5
    <3>2. /\ at = ax /\ up' \subseteq up \cup {ax}
          /\ at' = IF ax = "AZ" THEN "EL" ELSE "initialized"
      BY <3>1 DEF InitializeAxis
    <3> QED BY <1>2, <2>1, <2>3, <3>2 DEF ValidPart, Axes
  <2>6. CASE FinishController \/ ConfigureInterrupts \/ UNCHANGED startupVars
    BY <1>2, <2>1, <2>3, <2>6
       DEF FinishController, ConfigureInterrupts, startupVars, ValidPart, Axes
  <2>7. ValidPart'
    BY <1>6, <2>4, <2>5, <2>6
       DEF StartupNext, SafeOutput, Prepare, Examine, ExamineOutput
  <2> QED BY <2>3, <2>7
<1> QED BY <1>3, <1>4, <1>5, <1>6 DEF TypePart, Places, Axes

\* The lines of an axis: each entry of the map is its own, and no entry of the
\* other axis or the stop input.
LEMMA RolesOfAxes ==
  ASSUME NEW ax \in Axes
  PROVE  /\ StepRole(ax) = First(ax) /\ DirectionRole(ax) = First(ax) + 1
         /\ EnableRole(ax) = First(ax) + 2 /\ TxRole(ax) = First(ax) + 3
         /\ RxRole(ax) = First(ax) + 4 /\ HomeRole(ax) = First(ax) + 5
         /\ First(ax) \in {1, 7}
         /\ First(ax) .. First(ax) + 5 \subseteq Roles
         /\ First(ax) .. First(ax) + 5 \subseteq Roles \ {StopRole}
         /\ \A other \in Axes \ {ax} :
              /\ First(other) \in {1, 7}
              /\ First(other) # First(ax)
BY DEF StepRole, DirectionRole, EnableRole, TxRole, RxRole, HomeRole, First,
       Axes, Roles, StopRole

\* What a sound map gives: a line of its own for each entry.
LEMMA SoundIsSeparate ==
  ASSUME TypePart, MapIsSound, NEW role \in Roles, Pin(role) >= 0
  PROVE  /\ Pin(role) \in Gpio
         /\ \A other \in Roles : other # role => Pin(other) # Pin(role)
BY DEF MapIsSound

\* What bringing up an axis, done parts of it, does to one pin.
AxisEffect(ax, done, p) ==
  /\ done > 1 => DriverIsWired(ax)
  /\ mode'[p] =
       IF done >= 1 /\ Pin(HomeRole(ax)) >= 0 /\ p = Pin(HomeRole(ax))
         THEN "input"
       ELSE IF \/ done >= 2 /\ Pin(StepRole(ax)) >= 0 /\ p = Pin(StepRole(ax))
               \/ /\ done >= 3 /\ Pin(DirectionRole(ax)) >= 0
                  /\ p = Pin(DirectionRole(ax))
               \/ /\ done >= 4 /\ Pin(EnableRole(ax)) >= 0
                  /\ p = Pin(EnableRole(ax))
         THEN "output"
       ELSE IF done >= 5 /\ p \in {Pin(TxRole(ax)), Pin(RxRole(ax))}
         THEN "uart"
       ELSE mode[p]
  /\ level'[p] =
       IF done >= 4 /\ p = Pin(StepRole(ax)) THEN FALSE
       ELSE IF done >= 4 /\ p = Pin(EnableRole(ax)) THEN EnableActiveLow
       ELSE level[p]
  /\ up' = IF done = 6 THEN up \cup {ax} ELSE up

LEMMA AxisActsByPin ==
  ASSUME NEW ax \in Axes, InitializeAxis(ax), NEW p \in Gpio
  PROVE  \E done \in 0 .. 6 : AxisEffect(ax, done, p)
BY DEF InitializeAxis, AxisEffect

\* Bringing up an axis configures its lines and touches no other.
LEMMA AxisTouchesItsOwn ==
  ASSUME TypePart, MapIsSound, NEW ax \in Axes, InitializeAxis(ax),
         NEW role \in Roles, Pin(role) >= 0
  PROVE  /\ role \notin First(ax) .. First(ax) + 5 =>
              /\ mode'[Pin(role)] = mode[Pin(role)]
              /\ level'[Pin(role)] = level[Pin(role)]
         /\ role = EnableRole(ax) =>
              /\ \/ mode'[Pin(role)] = "output"
                 \/ mode'[Pin(role)] = mode[Pin(role)]
              /\ \/ level'[Pin(role)] = EnableActiveLow
                 \/ level'[Pin(role)] = level[Pin(role)]
         /\ ax \in up' \ up =>
              /\ DriverIsWired(ax)
              /\ role \in StepRole(ax) .. EnableRole(ax) =>
                   mode'[Pin(role)] = "output"
              /\ role \in {TxRole(ax), RxRole(ax)} =>
                   mode'[Pin(role)] = "uart"
              /\ role = HomeRole(ax) => mode'[Pin(role)] = "input"
<1> DEFINE s == First(ax)
<1>1. /\ StepRole(ax) = s /\ DirectionRole(ax) = s + 1
      /\ EnableRole(ax) = s + 2 /\ TxRole(ax) = s + 3
      /\ RxRole(ax) = s + 4 /\ HomeRole(ax) = s + 5
      /\ s \in {1, 7} /\ s .. s + 5 \subseteq Roles
  BY RolesOfAxes
<1> HIDE DEF s
<1>2. /\ Pin(role) \in Gpio
      /\ \A other \in Roles : other # role => Pin(other) # Pin(role)
  BY SoundIsSeparate
<1>3. /\ s \in Roles /\ s + 1 \in Roles /\ s + 2 \in Roles /\ s + 3 \in Roles
      /\ s + 4 \in Roles /\ s + 5 \in Roles
      /\ role \in Nat
  BY <1>1 DEF Roles
<1>4. PICK done \in 0 .. 6 : AxisEffect(ax, done, Pin(role))
  BY <1>2, AxisActsByPin
<1>6. /\ Pin(role) = Pin(s) <=> role = s
      /\ Pin(role) = Pin(s + 1) <=> role = s + 1
      /\ Pin(role) = Pin(s + 2) <=> role = s + 2
      /\ Pin(role) = Pin(s + 3) <=> role = s + 3
      /\ Pin(role) = Pin(s + 4) <=> role = s + 4
      /\ Pin(role) = Pin(s + 5) <=> role = s + 5
  BY <1>2, <1>3
<1>7. ASSUME role \notin s .. s + 5
      PROVE  /\ mode'[Pin(role)] = mode[Pin(role)]
             /\ level'[Pin(role)] = level[Pin(role)]
  <2>1. /\ role # s /\ role # s + 1 /\ role # s + 2 /\ role # s + 3
        /\ role # s + 4 /\ role # s + 5
    BY <1>1, <1>3, <1>7
  <2> QED BY <1>1, <1>4, <1>6, <2>1 DEF AxisEffect
<1>8. ASSUME role = s + 2
      PROVE  /\ \/ mode'[Pin(role)] = "output"
                \/ mode'[Pin(role)] = mode[Pin(role)]
             /\ \/ level'[Pin(role)] = EnableActiveLow
                \/ level'[Pin(role)] = level[Pin(role)]
  <2>1. /\ role # s /\ role # s + 1 /\ role # s + 3
        /\ role # s + 4 /\ role # s + 5
    BY <1>1, <1>8
  <2>2. mode'[Pin(role)] = "output" \/ mode'[Pin(role)] = mode[Pin(role)]
    BY <1>1, <1>4, <1>6, <2>1 DEF AxisEffect
  <2>3. \/ level'[Pin(role)] = EnableActiveLow
        \/ level'[Pin(role)] = level[Pin(role)]
    BY <1>1, <1>4, <1>6, <2>1 DEF AxisEffect
  <2> QED BY <2>2, <2>3
<1>9. ASSUME ax \in up' \ up
      PROVE  /\ DriverIsWired(ax)
             /\ role \in s .. s + 2 => mode'[Pin(role)] = "output"
             /\ role \in {s + 3, s + 4} => mode'[Pin(role)] = "uart"
             /\ role = s + 5 => mode'[Pin(role)] = "input"
  <2>1. done = 6
    BY <1>4, <1>9 DEF AxisEffect
  <2>2. role \in s .. s + 2 <=> role \in {s, s + 1, s + 2}
    BY <1>1, <1>3
  <2> QED BY <1>1, <1>4, <1>6, <2>1, <2>2 DEF AxisEffect
<1> QED BY <1>1, <1>7, <1>8, <1>9 DEF s

\* The EN line of an axis holds its motor off.
Off(ax) ==
  Pin(EnableRole(ax)) >= 0 =>
    /\ mode[Pin(EnableRole(ax))] = "output"
    /\ level[Pin(EnableRole(ax))] = EnableActiveLow

\* While safe_outputs() is at work it has done the azimuth's EN before the
\* elevation's lines.
OffPart ==
  MapIsSound =>
    /\ at # "safe" => Off("AZ") /\ Off("EL")
    /\ at = "safe" /\ n > 3 => Off("AZ")

\* What is up has its lines configured.
WiredPart ==
  \A ax \in up :
    /\ DriverIsWired(ax)
    /\ \A role \in StepRole(ax) .. EnableRole(ax) : mode[Pin(role)] = "output"
    /\ \A role \in {TxRole(ax), RxRole(ax)} : mode[Pin(role)] = "uart"
    /\ Pin(HomeRole(ax)) >= 0 => mode[Pin(HomeRole(ax))] = "input"

\* No step changes the map.
LEMMA StepKeepsBoard ==
  ASSUME [StartupNext]_startupVars
  PROVE  /\ \A role : Pin(role)' = Pin(role)
         /\ MapIsSound' <=> MapIsSound
         /\ \A ax : DriverIsWired(ax)' <=> DriverIsWired(ax)
<1>1. board' = board
  BY DEF StartupNext, startupVars, SafeOutput, Prepare, Examine,
         ExamineOutput, ConfigureStop, InitializeAxis, FinishController,
         ConfigureInterrupts
<1>2. \A role : Pin(role)' = Pin(role)
  BY <1>1 DEF Pin
<1> QED BY <1>2 DEF MapIsSound, DriverIsWired

\* In a sound map, safe_outputs() puts the EN line it comes to off, and the
\* other lines it comes to are not EN lines.
LEMMA SafeOutputPutsOff ==
  ASSUME TypePart, LoopPart, MapIsSound, SafeOutput, OffPart
  PROVE  OffPart'
<1> DEFINE role == IF n <= 3 THEN n ELSE n + 3
<1>1. /\ n \in 1 .. 6 /\ at = "safe"
      /\ \A r : Pin(r)' = Pin(r)
      /\ MapIsSound' <=> MapIsSound
      /\ mode \in [Gpio -> Modes] /\ level \in [Gpio -> BOOLEAN]
  BY StepKeepsBoard DEF SafeOutput, TypePart, LoopPart, Roles, StartupNext
<1>2. role \in Roles /\ 3 \in Roles /\ 9 \in Roles /\ role \in Int
  BY <1>1 DEF Roles
<1>3. 3 \in OutputRoles /\ 9 \in OutputRoles
  <2>1. OutputRole(3) = 3 /\ OutputRole(7) = 9
    BY DEF OutputRole
  <2> QED BY <2>1, OutputsAreOutputs
<1>4. EnableRole("AZ") = 3 /\ EnableRole("EL") = 9
  BY DEF EnableRole, First
<1>5. SafeLevel(3) = EnableActiveLow /\ SafeLevel(9) = EnableActiveLow
  BY <1>4, StartupAssumption DEF SafeLevel, Axes
<1>6. ASSUME NEW en \in {3, 9}, Pin(en) >= 0, role = en
      PROVE  /\ mode'[Pin(en)] = "output"
             /\ level'[Pin(en)] = EnableActiveLow
  <2>1. Pin(en) \in Gpio /\ Pin(en) \notin InputOnly
    BY <1>2, <1>3, <1>6, SoundIsSeparate DEF MapIsSound
  <2>2. SafeLevel(role) = EnableActiveLow
    BY <1>5, <1>6
  <2> HIDE DEF role
  <2> QED BY <1>6, <2>1, <2>2 DEF SafeOutput, role
<1>7. ASSUME NEW en \in {3, 9}, Pin(en) >= 0, role # en
      PROVE  /\ mode'[Pin(en)] = mode[Pin(en)]
             /\ level'[Pin(en)] = level[Pin(en)]
  <2>1. Pin(en) \in Gpio /\ Pin(role) # Pin(en)
    BY <1>2, <1>7, SoundIsSeparate
  <2> QED BY <2>1 DEF SafeOutput
<1>8. CASE n < 6
  <2>1. at' = "safe" /\ n' = n + 1
    BY <1>8 DEF SafeOutput
  <2>2. n' > 3 => role = 3 \/ (role # 3 /\ n > 3)
    BY <1>1, <2>1
  <2>3. n' > 3 => Off("AZ")'
    BY <1>1, <1>4, <1>6, <1>7, <2>2 DEF Off, OffPart
  <2> QED BY <2>1, <2>3 DEF OffPart
<1>9. CASE n = 6
  <2>1. at' # "safe" /\ role = 9
    BY <1>9 DEF SafeOutput
  <2>2. Off("AZ")' /\ Off("EL")'
    BY <1>1, <1>4, <1>6, <1>7, <1>9, <2>1 DEF Off, OffPart
  <2> QED BY <2>1, <2>2 DEF OffPart
<1> QED BY <1>1, <1>8, <1>9

\* An EN line once put off stays off.
LEMMA StepOff ==
  TypePart /\ LoopPart /\ ValidPart /\ OffPart /\ [StartupNext]_startupVars
    => OffPart'
<1> SUFFICES ASSUME TypePart, LoopPart, ValidPart, OffPart, MapIsSound,
                    [StartupNext]_startupVars
             PROVE  OffPart'
  BY StepKeepsBoard DEF OffPart
<1>0. \A r : Pin(r)' = Pin(r)
  BY StepKeepsBoard
<1>a. EnableRole("AZ") = 3 /\ EnableRole("EL") = 9
  BY DEF EnableRole, First
<1>b. 3 \in Roles /\ 9 \in Roles /\ StopRole \in Roles /\ StopRole \notin {3, 9}
  BY DEF Roles, StopRole
<1>1. CASE SafeOutput
  BY <1>1, SafeOutputPutsOff
<1>2. ASSUME at # "safe", at' # "safe",
             ASSUME NEW en \in {3, 9}, Pin(en) >= 0,
                    mode[Pin(en)] = "output", level[Pin(en)] = EnableActiveLow
             PROVE  /\ mode'[Pin(en)] = "output"
                    /\ level'[Pin(en)] = EnableActiveLow
      PROVE  OffPart'
  <2>1. Off("AZ") /\ Off("EL")
    BY <1>2 DEF OffPart
  <2>2. Off("AZ")'
    <3>1. Pin(3) >= 0 => /\ mode[Pin(3)] = "output"
                         /\ level[Pin(3)] = EnableActiveLow
      BY <1>a, <2>1 DEF Off
    <3>2. Pin(3) >= 0 => /\ mode'[Pin(3)] = "output"
                         /\ level'[Pin(3)] = EnableActiveLow
      BY <1>2, <3>1
    <3> QED BY <1>0, <1>a, <3>2 DEF Off
  <2>3. Off("EL")'
    <3>1. Pin(9) >= 0 => /\ mode[Pin(9)] = "output"
                         /\ level[Pin(9)] = EnableActiveLow
      BY <1>a, <2>1 DEF Off
    <3>2. Pin(9) >= 0 => /\ mode'[Pin(9)] = "output"
                         /\ level'[Pin(9)] = EnableActiveLow
      BY <1>2, <3>1
    <3> QED BY <1>0, <1>a, <3>2 DEF Off
  <2> QED BY <1>2, <2>2, <2>3 DEF OffPart
<1>3. CASE UNCHANGED <<mode, level>> /\ at # "safe" /\ at' # "safe"
  BY <1>2, <1>3
<1>4. CASE Prepare \/ Examine \/ ExamineOutput \/ FinishController
             \/ ConfigureInterrupts
  BY <1>3, <1>4 DEF Prepare, Examine, ExamineOutput, Reject, FinishController,
     ConfigureInterrupts
<1>5. CASE ConfigureStop
  <2>1. at # "safe" /\ at' # "safe"
    BY <1>5 DEF ConfigureStop
  <2>2. ASSUME NEW en \in {3, 9}, Pin(en) >= 0,
               mode[Pin(en)] = "output", level[Pin(en)] = EnableActiveLow
        PROVE  /\ mode'[Pin(en)] = "output"
               /\ level'[Pin(en)] = EnableActiveLow
    <3>1. Pin(en) \in Gpio /\ Pin(StopRole) # Pin(en)
      BY <1>b, <2>2, SoundIsSeparate
    <3> QED BY <1>5, <2>2, <3>1 DEF ConfigureStop, TypePart
  <2> QED BY <1>2, <2>1, <2>2
<1>6. CASE \E ax \in Axes : InitializeAxis(ax)
  <2>0. PICK ax \in Axes : InitializeAxis(ax)
    BY <1>6
  <2>1. at # "safe" /\ at' # "safe"
    BY <2>0 DEF InitializeAxis, Axes
  <2>2. ASSUME NEW en \in {3, 9}, Pin(en) >= 0,
               mode[Pin(en)] = "output", level[Pin(en)] = EnableActiveLow
        PROVE  /\ mode'[Pin(en)] = "output"
               /\ level'[Pin(en)] = EnableActiveLow
    <3>1. \/ en = EnableRole(ax)
          \/ en \notin First(ax) .. First(ax) + 5
      BY DEF EnableRole, First, Axes
    <3>2. en \in Roles
      BY <1>b
    <3> QED BY <2>0, <2>2, <3>1, <3>2, AxisTouchesItsOwn
  <2> QED BY <1>2, <2>1, <2>2
<1>7. CASE UNCHANGED startupVars
  BY <1>0, <1>7 DEF startupVars, OffPart, Off, MapIsSound
<1> QED BY <1>1, <1>4, <1>5, <1>6, <1>7 DEF StartupNext

\* The lines of what is up stay as they were configured.
LEMMA StepWired ==
  TypePart /\ LoopPart /\ ValidPart /\ WiredPart /\ [StartupNext]_startupVars
    => WiredPart'
<1> SUFFICES ASSUME TypePart, LoopPart, ValidPart, WiredPart,
                    [StartupNext]_startupVars
             PROVE  WiredPart'
  OBVIOUS
<1>0. /\ \A r : Pin(r)' = Pin(r)
      /\ \A ax : DriverIsWired(ax)' <=> DriverIsWired(ax)
  BY StepKeepsBoard
<1>1. CASE SafeOutput \/ ConfigureStop
  <2>1. up = {} /\ up' = up
    BY <1>1 DEF SafeOutput, ConfigureStop, LoopPart, ValidPart
  <2> QED BY <2>1 DEF WiredPart
<1>2. CASE UNCHANGED <<mode, up>>
  BY <1>0, <1>2 DEF WiredPart
<1>3. CASE \E ax \in Axes : InitializeAxis(ax)
  <2>0. PICK ax \in Axes : InitializeAxis(ax)
    BY <1>3
  <2>1. MapIsSound /\ at = ax
    BY <2>0 DEF InitializeAxis, ValidPart
  <2>2. up' \subseteq up \cup {ax} /\ ax \notin up
    <3>1. up' \subseteq up \cup {ax}
      BY <2>0 DEF InitializeAxis
    <3>2. ax \notin up
      BY <2>1 DEF ValidPart, Axes
    <3> QED BY <3>1, <3>2
  <2>3. ASSUME NEW other \in up'
        PROVE  /\ DriverIsWired(other)
               /\ \A role \in StepRole(other) .. EnableRole(other) :
                    mode'[Pin(role)] = "output"
               /\ \A role \in {TxRole(other), RxRole(other)} :
                    mode'[Pin(role)] = "uart"
               /\ Pin(HomeRole(other)) >= 0 =>
                    mode'[Pin(HomeRole(other))] = "input"
    <3>0. /\ other \in Axes
          /\ StepRole(other) .. RxRole(other) \subseteq Roles
          /\ StepRole(other) .. EnableRole(other)
               \subseteq StepRole(other) .. RxRole(other)
          /\ {TxRole(other), RxRole(other)}
               \subseteq StepRole(other) .. RxRole(other)
          /\ HomeRole(other) \in Roles
      <4>1. other \in Axes
        BY <2>2 DEF TypePart
      <4> QED BY <4>1, RolesOfAxes
    <3>1. CASE other = ax
      <4>0. ax \in up' \ up
        BY <2>2, <3>1
      <4>1. DriverIsWired(ax)
        <5>1. PICK done \in 0 .. 6 :
                /\ done > 1 => DriverIsWired(ax)
                /\ up' = IF done = 6 THEN up \cup {ax} ELSE up
          BY <2>0 DEF InitializeAxis
        <5> QED BY <4>0, <5>1
      <4>2. \A role \in StepRole(ax) .. RxRole(ax) : Pin(role) >= 0
        BY <4>1 DEF DriverIsWired
      <4> QED BY <2>0, <2>1, <3>0, <3>1, <4>0, <4>1, <4>2, AxisTouchesItsOwn
    <3>2. CASE other # ax
      <4>0. other \in up
        BY <2>2, <3>2
      <4>1. \A role \in StepRole(other) .. RxRole(other) : Pin(role) >= 0
        BY <4>0 DEF WiredPart, DriverIsWired
      <4>2. \A role \in First(other) .. First(other) + 5 :
              role \in Roles /\ role \notin First(ax) .. First(ax) + 5
        BY <3>0, <3>2, RolesOfAxes
      <4>3. \A role \in First(other) .. First(other) + 5 :
              Pin(role) >= 0 => mode'[Pin(role)] = mode[Pin(role)]
        BY <2>0, <2>1, <4>2, AxisTouchesItsOwn
      <4>4. /\ StepRole(other) .. EnableRole(other)
                 \subseteq First(other) .. First(other) + 5
            /\ {TxRole(other), RxRole(other), HomeRole(other)}
                 \subseteq First(other) .. First(other) + 5
        BY <3>0, RolesOfAxes
      <4> QED BY <3>0, <4>0, <4>1, <4>3, <4>4 DEF WiredPart
    <3> QED BY <3>1, <3>2
  <2> QED BY <1>0, <2>3 DEF WiredPart
<1>4. CASE Prepare \/ Examine \/ ExamineOutput \/ FinishController
             \/ ConfigureInterrupts \/ UNCHANGED startupVars
  BY <1>2, <1>4 DEF Prepare, Examine, ExamineOutput, FinishController,
     ConfigureInterrupts, startupVars
<1> QED BY <1>1, <1>3, <1>4 DEF StartupNext

-----------------------------------------------------------------------------
(* The theorems *)

StartupInvariant ==
  TypePart /\ LoopPart /\ ValidPart /\ VerdictPart /\ OffPart /\ WiredPart

LEMMA StartupInvariance == StartupSpec => []StartupInvariant
<1>1. StartupInit => StartupInvariant
  <2> SUFFICES ASSUME StartupInit PROVE StartupInvariant
    OBVIOUS
  <2>1. at = "safe" /\ n = 1 /\ up = {}
    BY DEF StartupInit
  <2>2. VerdictPart /\ OffPart /\ WiredPart
    BY <2>1 DEF VerdictPart, AcceptsExactlySound, Validated, OffPart, WiredPart
  <2> QED BY <2>2, InitTypes DEF StartupInvariant
<1>2. StartupInvariant /\ [StartupNext]_startupVars => StartupInvariant'
  BY StepTypes, StepLoops, StepVerdict, StepOff, StepWired DEF StartupInvariant
<1> QED BY <1>1, <1>2, PTL DEF StartupSpec

\* The startup keeps to its types, whatever the board (hardware_config.hpp).
THEOREM StartupTypeCorrectness == StartupSpec => []StartupTypeOK
<1>1. StartupInvariant => StartupTypeOK
  BY DEF StartupInvariant, TypePart, StartupTypeOK, Places, Modes, Reports
<1> QED BY <1>1, StartupInvariance, PTL

\* validate_esp32_gpio() accepts the sound maps of valid configurations and no
\* other, and names a pin of those it rejects.
THEOREM ValidationIsExact == StartupSpec => []AcceptsExactlySound
<1>1. StartupInvariant => AcceptsExactlySound
  BY DEF StartupInvariant, VerdictPart
<1> QED BY <1>1, StartupInvariance, PTL

\* With a sound map no motor is powered during the startup, whichever step of
\* it fails (safe_outputs, initialize).
THEOREM StartupLeavesOff == StartupSpec => []StartsUnpowered
<1>1. StartupInvariant => StartsUnpowered
  BY DEF StartupInvariant, OffPart, Off, StartsUnpowered, Axes
<1> QED BY <1>1, StartupInvariance, PTL

\* An axis that came up has every line to itself and configured for it
\* (initialize, 128-155, with Tmc2209Driver::valid_config).
THEOREM UpIsWired == StartupSpec => []UpMeansWired
<1>1. StartupInvariant => UpMeansWired
  <2> SUFFICES ASSUME StartupInvariant, NEW ax \in up
               PROVE  /\ \A role \in StepRole(ax) .. RxRole(ax) :
                           /\ Pin(role) \in Gpio
                           /\ \A other \in Roles \ {role} :
                                Pin(other) # Pin(role)
                      /\ Pin(TxRole(ax)) \notin InputOnly
    BY DEF StartupInvariant, WiredPart, UpMeansWired
  <2>1. ax \in Axes /\ MapIsSound /\ DriverIsWired(ax)
    BY DEF StartupInvariant, TypePart, ValidPart, WiredPart
  <2>2. StepRole(ax) .. RxRole(ax) \subseteq Roles
    BY <2>1, RolesOfAxes
  <2>3. TxRole(ax) \in OutputRoles
    BY <2>1 DEF OutputRoles
  <2> QED BY <2>1, <2>2, <2>3 DEF MapIsSound, DriverIsWired
<1> QED BY <1>1, StartupInvariance, PTL

-----------------------------------------------------------------------------
(* ScanCoordinator *)

\* A range that AxisScan accepts.
ScanRange(axis) ==
  /\ axis.start \in Int /\ axis.stop \in Int /\ axis.step \in Nat \ {0}
  /\ axis.start <= axis.stop

\* What div and mod are of naturals,
LEMMA Division ==
  ASSUME NEW a \in Nat, NEW b \in Nat \ {0}
  PROVE  /\ a \div b \in Nat /\ a % b \in 0 .. b - 1
         /\ a = b * (a \div b) + (a % b)
  BY SMT

\* and that nothing else is.
LEMMA DivisionIsUnique ==
  ASSUME NEW b \in Nat \ {0}, NEW q \in Nat, NEW r \in 0 .. b - 1
  PROVE  (b * q + r) \div b = q /\ (b * q + r) % b = r
  BY SMT

\* _axis_values(): the angles wanted, ascending, none further than a step from
\* the one before.
LEMMA ValuesAscend ==
  ASSUME NEW axis, ScanRange(axis)
  PROVE  LET v == AxisValues(axis)
         IN  /\ v = [i \in 1 .. Len(v) |-> v[i]]
             /\ Len(v) \in Nat \ {0}
             /\ \A i \in 1 .. Len(v) : v[i] \in Wanted(axis)
             /\ \A angle \in Wanted(axis) : \E i \in 1 .. Len(v) : v[i] = angle
             /\ \A i, j \in 1 .. Len(v) : i < j => v[i] < v[j]
             /\ \A i \in 1 .. Len(v) - 1 : v[i + 1] <= v[i] + axis.step
<1> DEFINE start == axis.start
           stop == axis.stop
           step == axis.step
           count == (stop - start) \div step
           values == [i \in 1 .. count + 1 |-> start + (i - 1) * step]
           v == AxisValues(axis)
           left == (stop - start) % step
<1>1. /\ start \in Int /\ stop \in Int /\ step \in Nat \ {0} /\ start <= stop
      /\ count \in Nat /\ left \in 0 .. step - 1
      /\ stop - start = step * count + left
  <2>1. /\ start \in Int /\ stop \in Int /\ step \in Nat \ {0} /\ start <= stop
        /\ stop - start \in Nat
    BY DEF ScanRange
  <2> HIDE DEF start, stop, step
  <2> QED BY <2>1, Division
<1>2. v = IF stop > values[count + 1] THEN Append(values, stop) ELSE values
  BY DEF AxisValues
<1> HIDE DEF start, stop, step, count, left
<1>3. /\ values \in Seq(Int) /\ Len(values) = count + 1
      /\ \A i \in 1 .. count + 1 : values[i] = start + (i - 1) * step
  BY <1>1
<1>4. values[count + 1] = stop - left
  BY <1>1
<1> HIDE DEF values
<1>5. \A i, j \in 1 .. count + 1 : i < j => values[i] < values[j]
  <2> SUFFICES ASSUME NEW i \in 1 .. count + 1, NEW j \in 1 .. count + 1, i < j
               PROVE  values[i] < values[j]
    OBVIOUS
  <2>1. (j - i) * step > 0
    BY <1>1
  <2> QED BY <1>1, <1>3, <2>1
<1>6. \A i \in 1 .. count : values[i + 1] = values[i] + step
  BY <1>1, <1>3
<1>7. Wanted(axis) = {angle \in start .. stop :
                        angle = stop \/ (angle - start) % step = 0}
  BY DEF Wanted, start, stop, step
<1>8. \A i \in 1 .. count + 1 : values[i] \in Wanted(axis)
  <2> SUFFICES ASSUME NEW i \in 1 .. count + 1 PROVE values[i] \in Wanted(axis)
    OBVIOUS
  <2>1. values[i] \in start .. stop
    <3>1. (i - 1) * step >= 0 /\ (i - 1) * step <= count * step
      BY <1>1
    <3> QED BY <3>1, <1>1, <1>3
  <2>2. (values[i] - start) % step = 0
    <3>1. values[i] - start = step * (i - 1) + 0
      BY <1>1, <1>3
    <3> QED BY <1>1, <3>1, DivisionIsUnique
  <2> QED BY <1>7, <2>1, <2>2
<1>9. \A angle \in Wanted(axis) :
        angle = stop \/ \E i \in 1 .. count + 1 : values[i] = angle
  <2> SUFFICES ASSUME NEW angle \in Wanted(axis), angle # stop
               PROVE  \E i \in 1 .. count + 1 : values[i] = angle
    OBVIOUS
  <2> DEFINE q == (angle - start) \div step
  <2>1. /\ angle \in start .. stop /\ angle < stop
        /\ q \in Nat /\ angle - start = step * q
    <3>1. /\ angle \in start .. stop /\ angle < stop
          /\ angle - start \in Nat /\ (angle - start) % step = 0
      BY <1>1, <1>7
    <3>2. q \in Nat /\ angle - start = step * q + ((angle - start) % step)
      BY <1>1, <3>1, Division
    <3> HIDE DEF q
    <3> QED BY <1>1, <3>1, <3>2
  <2> HIDE DEF q
  <2>2. q <= count
    <3> SUFFICES ASSUME q >= count + 1 PROVE FALSE
      BY <1>1, <2>1
    <3>1. step * q >= step * (count + 1)
      BY <1>1, <2>1
    <3> QED BY <1>1, <2>1, <3>1
  <2>3. values[q + 1] = angle
    BY <1>1, <1>3, <2>1, <2>2
  <2> QED BY <1>1, <2>1, <2>2, <2>3
<1>10. CASE left = 0
  <2>1. v = values
    BY <1>1, <1>2, <1>4, <1>10
  <2>2. \A angle \in Wanted(axis) : \E i \in 1 .. count + 1 : values[i] = angle
    BY <1>1, <1>4, <1>9, <1>10
  <2>3. \A i \in 1 .. count : values[i + 1] <= values[i] + step
    BY <1>1, <1>3, <1>6
  <2> HIDE DEF v
  <2> QED BY <1>1, <1>3, <1>5, <1>8, <2>1, <2>2, <2>3 DEF v, step
<1>11. CASE left # 0
  <2>1. v = Append(values, stop)
    BY <1>1, <1>2, <1>4, <1>11
  <2>2. /\ v \in Seq(Int) /\ Len(v) = count + 2
        /\ \A i \in 1 .. count + 1 : v[i] = values[i]
        /\ v[count + 2] = stop
    BY <1>1, <1>3, <2>1
  <2>3. stop \in Wanted(axis)
    BY <1>1, <1>7
  <2> HIDE DEF v
  <2>4. \A i \in 1 .. count + 1 : values[i] <= values[count + 1]
    BY <1>1, <1>3, <1>5
  <2>5. \A i, j \in 1 .. Len(v) : i < j => v[i] < v[j]
    BY <1>1, <1>3, <1>4, <1>5, <1>11, <2>2, <2>4
  <2>6. \A i \in 1 .. Len(v) - 1 : v[i + 1] <= v[i] + step
    <3> SUFFICES ASSUME NEW i \in 1 .. count + 1
                 PROVE  v[i + 1] <= v[i] + step
      BY <1>1, <2>2
    <3>1. CASE i = count + 1
      BY <1>1, <1>3, <1>4, <2>2, <3>1
    <3>2. CASE i # count + 1
      <4>1. i \in 1 .. count /\ i + 1 \in 1 .. count + 1
        BY <1>1, <3>2
      <4>2. v[i + 1] = values[i + 1] /\ v[i] = values[i]
        BY <2>2, <4>1
      <4>3. values[i + 1] = values[i] + step /\ values[i] \in Int
        BY <1>1, <1>3, <1>6, <4>1
      <4> QED BY <1>1, <4>2, <4>3
    <3> QED BY <3>1, <3>2
  <2>7. \A i \in 1 .. Len(v) : v[i] \in Wanted(axis)
    BY <1>1, <1>8, <2>2, <2>3
  <2>8. \A angle \in Wanted(axis) : \E i \in 1 .. Len(v) : v[i] = angle
    BY <1>1, <1>9, <2>2
  <2> QED BY <1>1, <2>2, <2>5, <2>6, <2>7, <2>8 DEF v, step
<1> QED BY <1>1, <1>10, <1>11

\* What a scan is asked for.
LEMMA ScansAreSteps ==
  ASSUME NEW cfg \in ScanConfigs
  PROVE  /\ ScanRange(cfg.azimuth) /\ ScanRange(cfg.elevation)
         /\ cfg.reversed \in BOOLEAN
         /\ cfg.samples \in Nat \ {0} /\ cfg.retries \in Nat
  BY ScanAssumption DEF ScanConfigs, ScanRange

\* Point m is in row (m - 1) \div width, at place (m - 1) % width.
LEMMA Cells ==
  ASSUME NEW width \in Nat \ {0}, NEW height \in Nat \ {0}
  PROVE  /\ width * height \in Nat \ {0}
         /\ \A m \in 1 .. width * height :
              /\ (m - 1) \div width \in 0 .. height - 1
              /\ (m - 1) % width \in 0 .. width - 1
              /\ m = width * ((m - 1) \div width) + ((m - 1) % width) + 1
         /\ \A row \in 0 .. height - 1, place \in 0 .. width - 1 :
              LET m == width * row + place + 1
              IN  /\ m \in 1 .. width * height
                  /\ (m - 1) \div width = row /\ (m - 1) % width = place
<1>1. width * height \in Nat \ {0}
  BY SMT
<1>2. ASSUME NEW m \in 1 .. width * height
      PROVE  /\ (m - 1) \div width \in 0 .. height - 1
             /\ (m - 1) % width \in 0 .. width - 1
             /\ m = width * ((m - 1) \div width) + ((m - 1) % width) + 1
  <2> DEFINE row == (m - 1) \div width
             place == (m - 1) % width
  <2>1. m \in Int /\ m - 1 \in Nat /\ m - 1 < width * height
    BY <1>1
  <2>2. /\ row \in Nat /\ place \in 0 .. width - 1
        /\ m - 1 = width * row + place
    BY <2>1, Division
  <2> HIDE DEF row, place
  <2>3. row < height
    <3> SUFFICES ASSUME row >= height PROVE FALSE
      BY <2>2
    <3>1. width * row >= width * height
      BY <2>2
    <3> QED BY <2>1, <2>2, <3>1
  <2>4. row \in 0 .. height - 1 /\ m = width * row + place + 1
    BY <2>1, <2>2, <2>3
  <2> QED BY <2>2, <2>4 DEF row, place
<1>3. ASSUME NEW row \in 0 .. height - 1, NEW place \in 0 .. width - 1
      PROVE  LET m == width * row + place + 1
             IN  /\ m \in 1 .. width * height
                 /\ (m - 1) \div width = row /\ (m - 1) % width = place
  <2> DEFINE m == width * row + place + 1
  <2>1. width * row \in Nat /\ m - 1 = width * row + place /\ m \in Nat
    OBVIOUS
  <2>2. width * (row + 1) <= width * height
    OBVIOUS
  <2>3. width * (row + 1) = width * row + width
    OBVIOUS
  <2>4. m \in 1 .. width * height
    BY <1>1, <2>1, <2>2, <2>3
  <2>5. (m - 1) \div width = row /\ (m - 1) % width = place
    BY <2>1, DivisionIsUnique
  <2> QED BY <2>4, <2>5
<1> QED BY <1>1, <1>2, <1>3

\* The raster in terms of the two ranges: what RasterIsWalked needs of both.
LEMMA RasterWalked ==
  ASSUME NEW cfg \in ScanConfigs
  PROVE  LET p == RasterPoints(cfg)
             visits == [az : Wanted(cfg.azimuth), el : Wanted(cfg.elevation)]
         IN  /\ Len(p) \in Nat \ {0} /\ DOMAIN p = 1 .. Len(p)
             /\ Len(p) = Cardinality(visits)
             /\ {p[m] : m \in DOMAIN p} = visits
             /\ cfg.reversed =>
                  \A m \in 1 .. Len(p) - 1 :
                    \/ /\ p[m + 1].el - p[m].el = 0
                       /\ p[m + 1].az - p[m].az
                            \in -cfg.azimuth.step .. cfg.azimuth.step
                    \/ /\ p[m + 1].az - p[m].az = 0
                       /\ p[m + 1].el - p[m].el \in 1 .. cfg.elevation.step
<1> DEFINE az == AxisValues(cfg.azimuth)
           el == AxisValues(cfg.elevation)
           width == Len(az)
           height == Len(el)
           row(m) == (m - 1) \div width
           place(m) == (m - 1) % width
           p == RasterPoints(cfg)
           back(r) == cfg.reversed /\ r % 2 = 1
           index(r, i) == IF back(r) THEN width - i ELSE i + 1
           azimuths == Wanted(cfg.azimuth)
           elevations == Wanted(cfg.elevation)
           visits == [az : azimuths, el : elevations]
<1>1. /\ width \in Nat \ {0}
      /\ \A i \in 1 .. width : az[i] \in azimuths
      /\ \A a \in azimuths : \E i \in 1 .. width : az[i] = a
      /\ \A i, j \in 1 .. width : i < j => az[i] < az[j]
      /\ \A i \in 1 .. width - 1 : az[i + 1] <= az[i] + cfg.azimuth.step
  BY ScansAreSteps, ValuesAscend
<1>2. /\ height \in Nat \ {0}
      /\ \A i \in 1 .. height : el[i] \in elevations
      /\ \A e \in elevations : \E i \in 1 .. height : el[i] = e
      /\ \A i, j \in 1 .. height : i < j => el[i] < el[j]
      /\ \A i \in 1 .. height - 1 : el[i + 1] <= el[i] + cfg.elevation.step
  BY ScansAreSteps, ValuesAscend
<1>3. azimuths \subseteq Int /\ elevations \subseteq Int
      /\ cfg.azimuth.step \in Nat /\ cfg.elevation.step \in Nat
  BY ScansAreSteps DEF Wanted, ScanRange
<1>4. p = [m \in 1 .. width * height |->
             [az |-> az[index(row(m), place(m))], el |-> el[row(m) + 1]]]
  <2> DEFINE cell(m) == [az |-> Row(az, cfg.reversed, row(m), place(m) + 1),
                         el |-> el[row(m) + 1]]
  <2>1. p = [m \in 1 .. width * height |-> cell(m)]
    BY Zenon DEF RasterPoints
  <2>2. ASSUME NEW m \in 1 .. width * height
        PROVE  cell(m) = [az |-> az[index(row(m), place(m))],
                          el |-> el[row(m) + 1]]
    <3>1. place(m) \in Int /\ width \in Int
      BY <1>1, <1>2, Cells
    <3> HIDE DEF az, place, width
    <3>2. width + 1 - (place(m) + 1) = width - place(m)
      BY <3>1
    <3> QED BY <3>2 DEF Row, width
  <2> HIDE DEF p, cell
  <2> QED BY <2>1, <2>2
<1> HIDE DEF az, el, width, height, p, azimuths, elevations
<1>5. /\ width * height \in Nat \ {0}
      /\ \A m \in 1 .. width * height :
           /\ row(m) \in 0 .. height - 1 /\ place(m) \in 0 .. width - 1
           /\ m = width * row(m) + place(m) + 1
      /\ \A r \in 0 .. height - 1, i \in 0 .. width - 1 :
           /\ width * r + i + 1 \in 1 .. width * height
           /\ row(width * r + i + 1) = r /\ place(width * r + i + 1) = i
  BY <1>1, <1>2, Cells
<1> HIDE DEF row, place
<1>6. \A r \in 0 .. height - 1, i \in 0 .. width - 1 :
        index(r, i) \in 1 .. width
  BY <1>1, <1>2
<1>7. \A r \in 0 .. height - 1, i, j \in 0 .. width - 1 :
        index(r, i) = index(r, j) => i = j
  BY <1>1, <1>2
<1>8. \A r \in 0 .. height - 1, k \in 1 .. width :
        \E i \in 0 .. width - 1 : index(r, i) = k
  <2> SUFFICES ASSUME NEW r \in 0 .. height - 1, NEW k \in 1 .. width
               PROVE  \E i \in 0 .. width - 1 : index(r, i) = k
    OBVIOUS
  <2>1. CASE back(r)
    <3>1. width - k \in 0 .. width - 1 /\ index(r, width - k) = k
      BY <1>1, <2>1
    <3> QED BY <3>1
  <2>2. CASE ~back(r)
    <3>1. k - 1 \in 0 .. width - 1 /\ index(r, k - 1) = k
      BY <1>1, <2>2
    <3> QED BY <3>1
  <2> QED BY <2>1, <2>2
<1> HIDE DEF index
<1>9. \A m \in 1 .. width * height :
        p[m].az = az[index(row(m), place(m))] /\ p[m].el = el[row(m) + 1]
  BY <1>4
<1>10. /\ DOMAIN p = 1 .. width * height /\ Len(p) = width * height
       /\ \A m \in 1 .. width * height :
            p[m] = [az |-> p[m].az, el |-> p[m].el]
  BY <1>4, <1>5
<1>11. \A m \in DOMAIN p : p[m] \in visits
  <2> SUFFICES ASSUME NEW m \in 1 .. width * height PROVE p[m] \in visits
    BY <1>10
  <2>1. index(row(m), place(m)) \in 1 .. width /\ row(m) + 1 \in 1 .. height
    <3>1. row(m) \in 0 .. height - 1 /\ place(m) \in 0 .. width - 1
      BY <1>5
    <3> QED BY <1>2, <1>6, <3>1
  <2>2. p[m].az \in azimuths /\ p[m].el \in elevations
    BY <1>1, <1>2, <1>9, <2>1
  <2> QED BY <1>10, <2>2
<1>12. \A visit \in visits : \E m \in DOMAIN p : p[m] = visit
  <2> SUFFICES ASSUME NEW a \in azimuths, NEW e \in elevations
               PROVE  \E m \in DOMAIN p : p[m] = [az |-> a, el |-> e]
    OBVIOUS
  <2>1. PICK k \in 1 .. width : az[k] = a
    BY <1>1
  <2>2. PICK j \in 1 .. height : el[j] = e
    BY <1>2
  <2> DEFINE r == j - 1
  <2>3. r \in 0 .. height - 1 /\ r + 1 = j
    BY <1>2
  <2>4. PICK i \in 0 .. width - 1 : index(r, i) = k
    BY <1>8, <2>3
  <2> DEFINE m == width * r + i + 1
  <2>5. m \in 1 .. width * height /\ row(m) = r /\ place(m) = i
    BY <1>5, <2>3
  <2> HIDE DEF r, m
  <2>6. p[m].az = a /\ p[m].el = e
    BY <1>9, <2>1, <2>2, <2>3, <2>4, <2>5
  <2> QED BY <1>10, <2>5, <2>6
<1>13. \A m, q \in DOMAIN p : p[m] = p[q] => m = q
  <2> SUFFICES ASSUME NEW m \in 1 .. width * height,
                      NEW q \in 1 .. width * height,
                      p[m] = p[q]
               PROVE  m = q
    BY <1>10
  <2>1. /\ row(m) \in 0 .. height - 1 /\ row(q) \in 0 .. height - 1
        /\ place(m) \in 0 .. width - 1 /\ place(q) \in 0 .. width - 1
    BY <1>5
  <2>2. row(m) = row(q)
    <3>1. el[row(m) + 1] = el[row(q) + 1]
      BY <1>9
    <3>2. /\ row(m) + 1 \in 1 .. height /\ row(q) + 1 \in 1 .. height
          /\ el[row(m) + 1] \in Int /\ el[row(q) + 1] \in Int
      <4>1. row(m) + 1 \in 1 .. height /\ row(q) + 1 \in 1 .. height
        BY <1>2, <2>1
      <4>2. el[row(m) + 1] \in elevations /\ el[row(q) + 1] \in elevations
        BY <1>2, <4>1
      <4> QED BY <1>3, <4>1, <4>2
    <3> QED BY <1>2, <2>1, <3>1, <3>2
  <2>3. place(m) = place(q)
    <3> DEFINE i == index(row(m), place(m))
               j == index(row(q), place(q))
    <3>1. /\ i \in 1 .. width /\ j \in 1 .. width
          /\ az[i] \in Int /\ az[j] \in Int
      BY <1>1, <1>3, <1>6, <2>1
    <3>2. az[i] = az[j]
      BY <1>9
    <3> HIDE DEF i, j
    <3>3. i = j
      BY <1>1, <3>1, <3>2
    <3> QED BY <1>7, <2>1, <2>2, <3>3 DEF i, j
  <2> QED BY <1>5, <2>2, <2>3
<1>14. Cardinality(visits) = Len(p)
  <2>1. IsFiniteSet(1 .. Len(p)) /\ Cardinality(1 .. Len(p)) = Len(p)
    BY <1>5, <1>10, FS_Interval
  <2> DEFINE f == [m \in 1 .. Len(p) |-> p[m]]
  <2>2. f \in Bijection(1 .. Len(p), visits)
    BY <1>10, <1>11, <1>12, <1>13 DEF Bijection, Injection, Surjection, IsInjective
  <2>3. ExistsBijection(1 .. Len(p), visits)
    BY <2>2 DEF ExistsBijection
  <2> QED BY <2>1, <2>3, FS_Bijection
<1>15. ASSUME cfg.reversed, NEW m \in 1 .. Len(p) - 1
       PROVE  \/ /\ p[m + 1].el - p[m].el = 0
                 /\ p[m + 1].az - p[m].az
                      \in -cfg.azimuth.step .. cfg.azimuth.step
              \/ /\ p[m + 1].az - p[m].az = 0
                 /\ p[m + 1].el - p[m].el \in 1 .. cfg.elevation.step
  <2> DEFINE r == row(m)
             i == place(m)
  <2>1. /\ m \in 1 .. width * height /\ m + 1 \in 1 .. width * height
        /\ r \in 0 .. height - 1 /\ i \in 0 .. width - 1
        /\ m = width * r + i + 1
    BY <1>5, <1>10
  <2>2. CASE i < width - 1
    <3>1. row(m + 1) = r /\ place(m + 1) = i + 1
      <4>1. i + 1 \in 0 .. width - 1 /\ m + 1 = width * r + (i + 1) + 1
        BY <1>1, <2>1, <2>2
      <4> QED BY <1>5, <2>1, <4>1
    <3> HIDE DEF r, i
    <3>2. p[m + 1].el = p[m].el /\ p[m].el \in Int
      <4>1. r + 1 \in 1 .. height
        BY <1>2, <2>1
      <4>2. el[r + 1] \in Int
        BY <1>2, <1>3, <4>1
      <4> QED BY <1>9, <2>1, <3>1, <4>2 DEF r
    <3> DEFINE k == index(r, i)
               l == index(r, i + 1)
    <3>3. /\ k \in 1 .. width /\ l \in 1 .. width
          /\ az[k] \in Int /\ az[l] \in Int
      <4>1. i + 1 \in 0 .. width - 1
        BY <1>1, <2>1, <2>2
      <4>2. k \in 1 .. width /\ l \in 1 .. width
        BY <1>6, <2>1, <4>1
      <4>3. az[k] \in azimuths /\ az[l] \in azimuths
        BY <1>1, <4>2
      <4> QED BY <1>3, <4>2, <4>3
    <3>4. l = k + 1 \/ k = l + 1
      BY <1>1, <2>1, <2>2 DEF index
    <3>5. p[m].az = az[k] /\ p[m + 1].az = az[l]
      BY <1>9, <2>1, <3>1 DEF r, i
    <3> HIDE DEF k, l
    <3>6. \/ az[k] < az[l] /\ az[l] <= az[k] + cfg.azimuth.step
          \/ az[l] < az[k] /\ az[k] <= az[l] + cfg.azimuth.step
      BY <1>1, <3>3, <3>4
    <3>7. az[l] - az[k] \in -cfg.azimuth.step .. cfg.azimuth.step
      <4>1. cfg.azimuth.step \in Nat /\ az[k] \in Int /\ az[l] \in Int
        BY <1>3, <3>3
      <4> QED BY <3>6, <4>1
    <3> QED BY <3>2, <3>5, <3>7
  <2>3. CASE i = width - 1
    <3>1. row(m + 1) = r + 1 /\ place(m + 1) = 0 /\ r + 1 \in 0 .. height - 1
      <4>1. m + 1 = width * (r + 1) + 0 + 1
        BY <1>1, <1>2, <2>1, <2>3
      <4>2. r + 1 < height
        <5> SUFFICES ASSUME r + 1 >= height PROVE FALSE
          BY <1>2, <2>1
        <5>1. width * (r + 1) >= width * height
          BY <1>1, <1>2, <2>1
        <5>2. m + 1 \in Int /\ m + 1 <= width * height /\ width * height \in Nat
          BY <1>5, <2>1
        <5>3. width * (r + 1) \in Int
          BY <1>1, <2>1
        <5> HIDE DEF r
        <5> QED BY <4>1, <5>1, <5>2, <5>3
      <4>3. r + 1 \in 0 .. height - 1 /\ 0 \in 0 .. width - 1
        BY <1>1, <1>2, <2>1, <4>2
      <4> QED BY <1>5, <4>1, <4>3
    <3> HIDE DEF r, i
    <3>2. index(r, i) = index(r + 1, 0)
      <4>1. (r + 1) % 2 = 1 <=> r % 2 # 1
        BY <2>1
      <4>2. back(r + 1) <=> ~back(r)
        BY <1>15, <4>1
      <4> HIDE DEF back
      <4> QED BY <1>1, <2>1, <2>3, <4>2 DEF index
    <3>3. p[m + 1].az = p[m].az /\ p[m].az \in Int
      <4>1. az[index(r, i)] \in Int
        BY <1>1, <1>3, <1>6, <2>1
      <4>2. p[m].az = az[index(r, i)] /\ p[m + 1].az = az[index(r + 1, 0)]
        BY <1>9, <2>1, <3>1 DEF r, i
      <4> QED BY <3>2, <4>1, <4>2
    <3>4. p[m].el = el[r + 1] /\ p[m + 1].el = el[(r + 1) + 1]
      BY <1>9, <2>1, <3>1 DEF r
    <3>5. /\ r + 1 \in 1 .. height /\ (r + 1) + 1 \in 1 .. height
          /\ r + 1 \in 1 .. height - 1
      BY <1>2, <2>1, <3>1
    <3>6. /\ el[r + 1] \in Int /\ el[(r + 1) + 1] \in Int
          /\ el[r + 1] < el[(r + 1) + 1]
          /\ el[(r + 1) + 1] <= el[r + 1] + cfg.elevation.step
      <4>1. el[r + 1] \in elevations /\ el[(r + 1) + 1] \in elevations
        BY <1>2, <3>5
      <4>2. r + 1 < (r + 1) + 1
        BY <1>2, <3>5
      <4>3. el[(r + 1) + 1] <= el[r + 1] + cfg.elevation.step
        BY <1>2, <3>5
      <4> QED BY <1>2, <1>3, <3>5, <4>1, <4>2, <4>3
    <3> QED BY <1>3, <3>3, <3>4, <3>6
  <2> QED BY <1>1, <2>1, <2>2, <2>3
<1>16. {p[m] : m \in DOMAIN p} = visits
  BY <1>11, <1>12
<1>17. Len(p) \in Nat \ {0} /\ DOMAIN p = 1 .. Len(p)
  BY <1>5, <1>10
<1> QED BY <1>14, <1>15, <1>16, <1>17 DEF p, azimuths, elevations

\* The locals of capture_point() add up, at one of the points.
Capturing(s, samples, retries, length) ==
  /\ s \in [at : {"move", "settle", "measure", "aborted"}, n : Nat,
            accepted : Nat, rejected : Nat, left : Nat]
  /\ s.n \in 1 .. length + 1
  /\ s.at # "move" => s.n <= length
  /\ s.accepted <= samples
  /\ s.rejected <= samples + retries /\ s.left <= samples + retries
  /\ s.at = "measure" => s.accepted + s.rejected + s.left = samples + retries

\* The inductive invariant.
ScanInv ==
  /\ config \in ScanConfigs /\ points = RasterPoints(config)
  /\ Capturing(scan, config.samples, config.retries, Len(points))
  /\ captures \in Seq(BOOLEAN) /\ Len(captures) = scan.n - 1
  /\ silence \in 0 .. HostTimeout + 1 /\ trusted \in BOOLEAN

\* raster_points() yields one point at least.
LEMMA ScanStarts == ScanInit => ScanInv
<1> SUFFICES ASSUME ScanInit PROVE ScanInv
  OBVIOUS
<1>1. /\ config \in ScanConfigs /\ points = RasterPoints(config)
      /\ config.samples \in Nat /\ config.retries \in Nat
  BY ScansAreSteps DEF ScanInit
<1>2. Len(points) \in Nat \ {0}
  BY <1>1, RasterWalked
<1> QED BY <1>1, <1>2, ScanAssumption DEF ScanInit, ScanInv, Capturing

\* Each step of a scan keeps the invariant.
LEMMA ScanStep == ScanInv /\ [ScanNext]_scanVars => ScanInv'
<1> SUFFICES ASSUME ScanInv, [ScanNext]_scanVars PROVE ScanInv'
  OBVIOUS
<1> DEFINE S == config.samples
           R == config.retries
           L == Len(points)
<1>1. S \in Nat \ {0} /\ R \in Nat /\ L \in Nat \ {0} /\ HostTimeout \in Nat
  BY ScansAreSteps, RasterWalked, ScanAssumption DEF ScanInv
<1>2. /\ captures \in Seq(BOOLEAN) /\ Len(captures) = scan.n - 1
      /\ silence \in 0 .. HostTimeout + 1 /\ trusted \in BOOLEAN
  BY DEF ScanInv
<1>3. Capturing(scan, S, R, L)
  BY DEF ScanInv
<1>3a. /\ scan = [at |-> scan.at, n |-> scan.n, accepted |-> scan.accepted,
                 rejected |-> scan.rejected, left |-> scan.left]
      /\ scan.n \in Nat /\ scan.accepted \in Nat /\ scan.rejected \in Nat
      /\ scan.left \in Nat
  BY <1>3 DEF Capturing
<1>4. ASSUME UNCHANGED <<config, points>>, Capturing(scan', S, R, L),
             captures' \in Seq(BOOLEAN), Len(captures') = scan'.n - 1,
             silence' \in 0 .. HostTimeout + 1, trusted' \in BOOLEAN
      PROVE  ScanInv'
  BY <1>4 DEF ScanInv
<1> HIDE DEF S, R, L
<1>5. ASSUME NEW time \in Nat, Passes(time)
      PROVE  silence' \in 0 .. HostTimeout + 1
  BY <1>1, <1>2, <1>5 DEF Passes
<1>6. CASE Move
  <2>1. /\ UNCHANGED <<config, points, captures, trusted>> /\ silence' = 0
        /\ scan.at = "move" /\ scan.n <= L
        /\ \/ scan' = [scan EXCEPT !.at = "settle"]
           \/ scan' = [scan EXCEPT !.at = "aborted"]
    BY <1>6 DEF Move, L
  <2>2. Capturing(scan', S, R, L) /\ scan'.n = scan.n
    BY <1>3, <2>1 DEF Capturing
  <2> QED BY <1>1, <1>2, <1>4, <2>1, <2>2
<1>7. CASE Settle
  <2>1. /\ UNCHANGED <<config, points, captures, trusted>> /\ scan.at = "settle"
        /\ scan' = [scan EXCEPT !.at = "measure", !.accepted = 0,
                                !.rejected = 0, !.left = S + R]
    BY <1>7 DEF Settle, Attempts, S, R
  <2>2. silence' \in 0 .. HostTimeout + 1
    BY <1>5, <1>7, ScanAssumption DEF Settle
  <2>3. Capturing(scan', S, R, L) /\ scan'.n = scan.n
    <3>1. scan' = [at |-> "measure", n |-> scan.n, accepted |-> 0,
                   rejected |-> 0, left |-> S + R]
      BY <1>3a, <2>1
    <3> QED BY <1>1, <1>3a, <1>3, <2>1, <3>1 DEF Capturing
  <2> QED BY <1>2, <1>4, <2>1, <2>2, <2>3
<1>8. CASE Measure
  <2>1. /\ UNCHANGED <<config, points, captures, trusted>> /\ scan.at = "measure"
        /\ scan.accepted < S /\ scan.left > 0
        /\ \/ scan' = [scan EXCEPT !.accepted = @ + 1, !.left = @ - 1]
           \/ scan' = [scan EXCEPT !.rejected = @ + 1, !.left = @ - 1]
    BY <1>8 DEF Measure, Wanting, S
  <2>2. silence' \in 0 .. HostTimeout + 1
    <3>1. PICK time \in 1 .. MeasureTime : Passes(time)
      BY <1>8 DEF Measure
    <3> QED BY <1>5, <3>1, ScanAssumption
  <2>3. Capturing(scan', S, R, L) /\ scan'.n = scan.n
    <3>1. CASE scan' = [scan EXCEPT !.accepted = @ + 1, !.left = @ - 1]
      <4>1. scan' = [at |-> scan.at, n |-> scan.n, accepted |-> scan.accepted + 1,
                     rejected |-> scan.rejected, left |-> scan.left - 1]
        BY <1>3a, <3>1
      <4> QED BY <1>1, <1>3a, <1>3, <2>1, <4>1 DEF Capturing
    <3>2. CASE scan' = [scan EXCEPT !.rejected = @ + 1, !.left = @ - 1]
      <4>1. scan' = [at |-> scan.at, n |-> scan.n, accepted |-> scan.accepted,
                     rejected |-> scan.rejected + 1, left |-> scan.left - 1]
        BY <1>3a, <3>2
      <4> QED BY <1>1, <1>3a, <1>3, <2>1, <4>1 DEF Capturing
    <3> QED BY <2>1, <3>1, <3>2
  <2> QED BY <1>2, <1>4, <2>1, <2>2, <2>3
<1>9. CASE Return
  <2>1. /\ UNCHANGED <<config, points, silence, trusted>> /\ scan.at = "measure"
        /\ captures' = Append(captures, scan.accepted = S)
        /\ scan' = [scan EXCEPT !.at = "move", !.n = @ + 1]
    BY <1>9 DEF Return, S
  <2>2. /\ captures' \in Seq(BOOLEAN) /\ Len(captures') = Len(captures) + 1
        /\ Len(captures) \in Nat
    BY <1>2, <2>1
  <2>3. Capturing(scan', S, R, L) /\ scan'.n = scan.n + 1 /\ scan.n \in Nat
    <3>1. scan' = [at |-> "move", n |-> scan.n + 1, accepted |-> scan.accepted,
                   rejected |-> scan.rejected, left |-> scan.left]
      BY <1>3a, <2>1
    <3> QED BY <1>1, <1>3a, <1>3, <2>1, <3>1 DEF Capturing
  <2> QED BY <1>2, <1>4, <2>1, <2>2, <2>3
<1>10. CASE GivenUp
  BY <1>2, <1>3, <1>4, <1>10 DEF GivenUp
<1>11. CASE ScanOver \/ UNCHANGED scanVars
  BY <1>2, <1>3, <1>4, <1>11 DEF ScanOver, scanVars
<1> QED BY <1>6, <1>7, <1>8, <1>9, <1>10, <1>11 DEF ScanNext

\* A capture keeps to its budget of readings, and there are as many captures as
\* points gone by (capture_point, 164-221).
THEOREM ScanTypes == ScanSpec => []ScanTypeOK
<1>1. ScanInv => ScanTypeOK
  <2> SUFFICES ASSUME ScanInv PROVE ScanTypeOK
    OBVIOUS
  <2>1. config.samples \in Nat /\ config.retries \in Nat
    BY ScansAreSteps DEF ScanInv
  <2> QED BY <2>1 DEF ScanInv, Capturing, ScanTypeOK
<1> QED BY <1>1, ScanStarts, ScanStep, PTL DEF ScanSpec

\* Whatever the two ranges and steps are, the points are every pair of angles
\* wanted, each once, without a jump if rows are reversed (raster_points,
\* 134-147).
THEOREM EveryPointOnce == ScanSpec => []RasterIsWalked
<1>1. ScanInv => RasterIsWalked
  <2> SUFFICES ASSUME ScanInv PROVE RasterIsWalked
    OBVIOUS
  <2>1. config \in ScanConfigs /\ points = RasterPoints(config)
    BY DEF ScanInv
  <2>2. RasterIsComplete
    BY <2>1, RasterWalked DEF RasterIsComplete
  <2>3. MovesAreShort
    BY <2>1, RasterWalked DEF MovesAreShort
  <2> QED BY <2>2, <2>3 DEF RasterIsWalked
<1> QED BY <1>1, ScanStarts, ScanStep, PTL DEF ScanSpec

\* A point is returned without an aggregate only when more of its readings were
\* rejected than there are retries, for any budget (capture_point, 164-221).
THEOREM BudgetIsUsed == ScanSpec => RetriesAreUsed
<1>1. ScanInv /\ [ScanNext]_scanVars =>
        [Return => \/ captures'[scan.n]
                   \/ scan.rejected > config.retries]_scanVars
  <2> SUFFICES ASSUME ScanInv, Return, ~captures'[scan.n]
               PROVE  scan.rejected > config.retries
    OBVIOUS
  <2>1. config.samples \in Nat \ {0} /\ config.retries \in Nat
    BY ScansAreSteps DEF ScanInv
  <2>2. /\ captures \in Seq(BOOLEAN) /\ Len(captures) = scan.n - 1
        /\ scan.n \in Nat /\ scan.left \in Nat
        /\ scan.accepted \in 0 .. config.samples /\ scan.rejected \in Nat
        /\ scan.at = "measure" => scan.accepted + scan.rejected + scan.left
                                  = config.samples + config.retries
    BY <2>1 DEF ScanInv, Capturing
  <2>3. /\ scan.at = "measure" /\ ~(scan.accepted < config.samples /\ scan.left > 0)
        /\ captures' = Append(captures, scan.accepted = config.samples)
    BY DEF Return, Wanting
  <2>4. captures'[scan.n] = (scan.accepted = config.samples)
    BY <2>2, <2>3
  <2>5. scan.accepted # config.samples
    BY <2>4
  <2> QED BY <2>1, <2>2, <2>3, <2>5
<1> QED BY <1>1, ScanStarts, ScanStep, PTL DEF ScanSpec, RetriesAreUsed
=============================================================================
