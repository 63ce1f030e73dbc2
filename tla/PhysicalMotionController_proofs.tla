------------------- MODULE PhysicalMotionController_proofs -------------------
(***************************************************************************)
(* What is proved of PhysicalMotionController, for every configuration and *)
(* any number of commands: that it is off when locked out, that STATUS     *)
(* hides nothing, that a coordinated move ends for both axes, and that it  *)
(* implements MotionContract.                                              *)
(*                                                                         *)
(* First come lemmas about the handlers, one each.  A controller is Good   *)
(* when both axes are Fit, when an emergency stop or a failed start has    *)
(* left them at rest and off, and when state_ hides neither a motion nor a *)
(* fault.  Every handler keeps it Good, and what becomes of the two axes   *)
(* is one of the few things Obeyed and Served list.  The handlers are      *)
(* functions of the controller and of the id of the command, so that these *)
(* lemmas hold for whoever calls them, and ProtocolEngine_proofs takes     *)
(* them up.                                                                *)
(*                                                                         *)
(* The invariant is Good, together with what the contract promises of      *)
(* every state: that no order is newer than the last id handed out, and    *)
(* that an axis has done no more than it was told.                         *)
(***************************************************************************)
EXTENDS PhysicalSchedule, Operations_proofs

\* At rest, untrusted and switched off.
Dormant(a) == Resting(a) /\ ~a.enabled

\* The parts that speak of the axes and the flags.  A controller that is
\* locked out has its axes off.
Sound(c) ==
  /\ c \in ControllerState
  /\ \A ax \in Axes : Fit(c.axes[ax])
  /\ c.latched \/ ~c.initialized => \A ax \in Axes : Dormant(c.axes[ax])
  /\ c.latched => ~c.coordinated

\* Together with what state_ says of them.
Good(c) ==
  /\ Sound(c)
  /\ c.latched => c.state.estop
  /\ Honest(c)

-----------------------------------------------------------------------------
(* What becomes of the axes *)

\* What an accepted command may make of an axis.
Acceptance(a, b, id) ==
  \/ Alike(a, b) \/ Halted(a, b) \/ Broken(a, b) \/ TurnedOn(a, b)
  \/ Begun(a, b, id) \/ DoneAtOnce(a, b, id)

\* What a refused one may.
Refusal(a, b, id) ==
  \/ Alike(a, b) \/ Halted(a, b) \/ Broken(a, b) \/ CalledOff(a, b, id)

\* A result that is no success names a fault.
Answers(out) ==
  out.ok \in BOOLEAN /\ (~out.ok => out.fault \in Faults \ {"none"})

\* The result of command id.
Obeyed(c, out, id) ==
  LET d == out.ctl
  IN  /\ Good(d) /\ Answers(out)
      /\ d.initialized = c.initialized
      /\ \/ /\ ~c.latched /\ ~d.latched
            /\ \A ax \in Axes :
                 IF out.ok THEN Acceptance(c.axes[ax], d.axes[ax], id)
                           ELSE Refusal(c.axes[ax], d.axes[ax], id)
         \/ c.latched /\ \A ax \in Axes : Alike(c.axes[ax], d.axes[ax])
         \/ d.latched /\ \A ax \in Axes : Broken(c.axes[ax], d.axes[ax])

\* Whatever else happens.
Served(c, d) ==
  /\ Good(d)
  /\ d.initialized = c.initialized
  /\ \/ /\ ~c.latched /\ ~d.latched
        /\ \A ax \in Axes : Serves(c.axes[ax], d.axes[ax])
     \/ /\ c.latched /\ d.latched
        /\ \A ax \in Axes : Alike(c.axes[ax], d.axes[ax])
     \/ ~c.latched /\ d.latched /\ \A ax \in Axes : Broken(c.axes[ax], d.axes[ax])

\* An axis that is off stays off, unless it is given an order.
LEMMA StaysDormant ==
  ASSUME NEW a, NEW b, Fit(a), Fit(b), Dormant(a), Resting(b),
         Alike(a, b) \/ Halted(a, b) \/ Broken(a, b) \/ Serves(a, b)
  PROVE  Dormant(b) /\ Alike(a, b)
<1>1. /\ a.moving \in BOOLEAN /\ b.moving \in BOOLEAN
      /\ a.trusted \in BOOLEAN /\ b.trusted \in BOOLEAN
      /\ a.enabled \in BOOLEAN /\ b.enabled \in BOOLEAN
  BY DEF Fit, AxisState
<1> QED BY <1>1 DEF Dormant, Resting, Alike, Halted, Broken, Serves, GoesOn,
        ComesToRest, SameOrder, Homing

\* Nothing becomes of an axis that is left alone.
LEMMA NothingHappens ==
  ASSUME NEW a PROVE Alike(a, a)
BY DEF Alike, SameOrder

\* A handler that ends in synchronize_state().
LEMMA SynchronizeGood ==
  ASSUME NEW c, Sound(c)
  PROVE  LET d == Synchronize(c)
         IN  /\ Good(d) /\ Current(d) /\ d.axes = c.axes
             /\ d.initialized = c.initialized /\ d.latched = c.latched
             /\ d.coordinated = c.coordinated
<1> DEFINE d == Synchronize(c)
<1>1. c \in ControllerState
  BY DEF Sound
<1>2. /\ d \in ControllerState /\ Honest(d) /\ Current(d) /\ d.axes = c.axes
      /\ d.initialized = c.initialized /\ d.coordinated = c.coordinated
      /\ d.latched = c.latched /\ d.state.estop = c.latched
  BY <1>1, SynchronizeFields
<1> HIDE DEF d
<1>3. Good(d)
  BY <1>2 DEF Good, Sound
<1> QED BY <1>2, <1>3 DEF d

\* A handler that ends in reject(), having set nothing in motion.
LEMMA RejectGood ==
  ASSUME NEW c, Good(c), NEW d, Sound(d), d.state = c.state,
         d.latched => c.latched,
         \A ax \in Axes : d.axes[ax].moving => c.axes[ax].moving,
         NEW fault \in Faults \ {"none"}, NEW out, out = Reject(d, fault)
  PROVE  /\ Good(out.ctl) /\ out.ctl.axes = d.axes
         /\ Answers(out) /\ ~out.ok
         /\ out.ctl.initialized = d.initialized
         /\ out.ctl.latched = d.latched
<1> DEFINE e == ReportFault(d, fault)
<1>1. d \in ControllerState
  BY DEF Sound
<1>2. /\ e \in ControllerState /\ e.axes = d.axes
      /\ e.initialized = d.initialized /\ e.coordinated = d.coordinated
      /\ e.latched = d.latched
      /\ e.state.axes = d.state.axes /\ e.state.fault = fault
      /\ e.state.estop = d.state.estop
  BY <1>1, ReportFaultFields
<1>3. /\ Reject(d, fault).ctl = e /\ Reject(d, fault).ok = FALSE
      /\ Answers(out)
  BY DEF Reject, Answers
<1> HIDE DEF e
<1>4. Good(e)
  BY <1>2 DEF Good, Sound, Honest
<1> QED BY <1>2, <1>3, <1>4

\* The check the handlers begin with.
LEMMA GuardedObeyed ==
  ASSUME NEW c, Good(c), NEW out, NEW id,
         ~c.latched /\ c.initialized => Obeyed(c, out, id)
  PROVE  Obeyed(c, Guarded(c, out), id)
<1>1. \/ \E fault \in {"emergency_stop", "invalid_configuration"} :
           Guarded(c, out) = Reject(c, fault)
      \/ ~c.latched /\ c.initialized /\ Guarded(c, out) = out
  BY DEF Guarded
<1>2. ASSUME NEW fault \in {"emergency_stop", "invalid_configuration"}
      PROVE  Obeyed(c, Reject(c, fault), id)
  <2>1. fault \in Faults \ {"none"}
    BY DEF Faults, AxisFaults, Refusals
  <2>2. /\ Good(Reject(c, fault).ctl) /\ Reject(c, fault).ctl.axes = c.axes
        /\ Answers(Reject(c, fault)) /\ ~Reject(c, fault).ok
        /\ Reject(c, fault).ctl.initialized = c.initialized
        /\ Reject(c, fault).ctl.latched = c.latched
    BY <2>1, RejectGood DEF Good
  <2>3. \A ax \in Axes : Alike(c.axes[ax], c.axes[ax])
    BY NothingHappens
  <2> QED BY <2>2, <2>3 DEF Obeyed, Refusal
<1> QED BY <1>1, <1>2

\* An order for one axis.  d is c, but for state_.
LEMMA OneAxisObeyed ==
  ASSUME NEW c, Good(c), ~c.latched, c.initialized, NEW ax \in Axes, NEW id,
         NEW d \in ControllerState, d.axes = c.axes, d.initialized, ~d.latched,
         NEW out, Fit(out.axis), Answers(out),
         IF out.ok THEN Acceptance(c.axes[ax], out.axis, id)
                   ELSE Refusal(c.axes[ax], out.axis, id)
  PROVE  Obeyed(c, OneAxis(d, ax, out), id)
<1> DEFINE e == WithAxis(d, ax, out.axis)
           f == Synchronize(e)
           result == OneAxis(d, ax, out)
<1>1. /\ e \in ControllerState /\ e.axes = [c.axes EXCEPT ![ax] = out.axis]
      /\ e.initialized = d.initialized /\ e.latched = d.latched
  <2> DEFINE b == out.axis
             x == WithAxis(d, ax, b)
  <2> b \in AxisState
    BY DEF Fit
  <2> HIDE DEF b
  <2>2. x \in ControllerState
    BY WithAxisFields
  <2>3. x.initialized = d.initialized /\ x.latched = d.latched
    BY WithAxisFields
  <2>4. x.axes = [d.axes EXCEPT ![ax] = b]
    BY WithAxisFields
  <2> QED BY <2>2, <2>3, <2>4 DEF b
<1>2. result.ctl = f /\ result.ok = out.ok /\ result.fault = out.fault
  BY DEF OneAxis, Answer
<1>3. c.axes \in [Axes -> AxisState] /\ c.initialized \in BOOLEAN
      /\ d.initialized \in BOOLEAN /\ d.latched \in BOOLEAN
  BY Fields DEF Good, Sound
<1> HIDE DEF e, f, result
<1>4. Sound(e)
  BY <1>1, <1>3 DEF Good, Sound
<1>5. /\ Good(f) /\ f.axes = e.axes
      /\ f.initialized = e.initialized /\ f.latched = e.latched
  BY <1>4, SynchronizeGood DEF f
<1>6. ASSUME NEW x \in Axes
      PROVE  IF out.ok THEN Acceptance(c.axes[x], f.axes[x], id)
                       ELSE Refusal(c.axes[x], f.axes[x], id)
  <2>1. CASE x = ax
    BY <1>1, <1>3, <1>5, <2>1
  <2>2. CASE x # ax
    <3>1. f.axes[x] = c.axes[x]
      BY <1>1, <1>3, <1>5, <2>2
    <3> QED BY <3>1, NothingHappens DEF Acceptance, Refusal
  <2> QED BY <2>1, <2>2
<1> HIDE DEF OneAxis
<1>7. Obeyed(c, result, id)
  BY <1>1, <1>2, <1>3, <1>5, <1>6 DEF Obeyed, Answers
<1> QED BY <1>7 DEF result

\* An order for both.  Azimuth is called off when elevation refuses.
LEMMA BothAxesObeyed ==
  ASSUME NEW c, Good(c), ~c.latched, c.initialized, NEW id,
         NEW azimuth, Obeys(c.axes["AZ"], azimuth, id),
         NEW elevation, Obeys(c.axes["EL"], elevation, id),
         NEW evenIfStill \in BOOLEAN
  PROVE  Obeyed(c, BothAxes(c, azimuth, elevation, evenIfStill), id)
<1> DEFINE az == azimuth.axis
           el == elevation.axis
           back == Stop(az)
           azOnly == WithAxis(c, "AZ", az)
           started == WithAxis(azOnly, "EL", el)
           stopped == WithAxis(started, "AZ", back)
           together == evenIfStill \/ AnyMoving(started)
           joint == [started EXCEPT !.coordinated = together]
           out == BothAxes(c, azimuth, elevation, evenIfStill)
<1>1. /\ c \in ControllerState /\ c.axes \in [Axes -> AxisState]
      /\ "AZ" \in Axes /\ "EL" \in Axes
      /\ \A ax \in Axes : Fit(c.axes[ax])
  BY Fields DEF Good, Sound, Axes
<1>2. /\ Fit(az) /\ Fit(el) /\ az \in AxisState /\ el \in AxisState
      /\ azimuth.ok \in BOOLEAN /\ elevation.ok \in BOOLEAN
      /\ ~azimuth.ok => azimuth.fault \in Faults \ {"none"}
      /\ ~elevation.ok => elevation.fault \in Faults \ {"none"}
  BY DEF Obeys, Fit, Faults
<1>3. Fit(back) /\ back \in AxisState
  BY <1>2, StopHalts DEF Fit
<1>8. \/ ~azimuth.ok /\ out = Reject(azOnly, azimuth.fault)
      \/ /\ azimuth.ok /\ ~elevation.ok
         /\ out = Reject(stopped, elevation.fault)
      \/ azimuth.ok /\ elevation.ok /\ out = Answer(joint, TRUE, "none")
  BY ZenonT(60) DEF BothAxes
<1> SUFFICES Obeyed(c, out, id)
  OBVIOUS
<1> HIDE DEF out, az, el, back
<1>4. /\ azOnly \in ControllerState /\ azOnly.axes = [c.axes EXCEPT !["AZ"] = az]
      /\ azOnly.initialized = c.initialized /\ azOnly.latched = c.latched
      /\ azOnly.state = c.state
  <2>1. azOnly \in ControllerState
    BY <1>1, <1>2, WithAxisFields
  <2>2. azOnly.axes = [c.axes EXCEPT !["AZ"] = az]
    BY <1>1, <1>2, WithAxisFields
  <2>3. /\ azOnly.initialized = c.initialized /\ azOnly.latched = c.latched
        /\ azOnly.state = c.state
    BY <1>1, <1>2, WithAxisFields
  <2> QED BY <2>1, <2>2, <2>3
<1> HIDE DEF azOnly
<1>5. /\ started \in ControllerState
      /\ started.axes = [azOnly.axes EXCEPT !["EL"] = el]
      /\ started.initialized = azOnly.initialized
      /\ started.latched = azOnly.latched /\ started.state = azOnly.state
  <2> azOnly \in ControllerState /\ "EL" \in Axes /\ el \in AxisState
    BY <1>1, <1>2, <1>4
  <2>1. started \in ControllerState
    BY WithAxisFields
  <2>2. started.axes = [azOnly.axes EXCEPT !["EL"] = el]
    BY WithAxisFields
  <2>3. /\ started.initialized = azOnly.initialized
        /\ started.latched = azOnly.latched /\ started.state = azOnly.state
    BY WithAxisFields
  <2> QED BY <2>1, <2>2, <2>3
<1> HIDE DEF started
<1>6. /\ stopped \in ControllerState
      /\ stopped.axes = [started.axes EXCEPT !["AZ"] = back]
      /\ stopped.initialized = started.initialized
      /\ stopped.latched = started.latched /\ stopped.state = started.state
  <2> started \in ControllerState /\ "AZ" \in Axes /\ back \in AxisState
    BY <1>1, <1>3, <1>5
  <2>1. stopped \in ControllerState
    BY WithAxisFields
  <2>2. stopped.axes = [started.axes EXCEPT !["AZ"] = back]
    BY WithAxisFields
  <2>3. /\ stopped.initialized = started.initialized
        /\ stopped.latched = started.latched /\ stopped.state = started.state
    BY WithAxisFields
  <2> QED BY <2>1, <2>2, <2>3
<1>7. /\ joint \in ControllerState /\ joint.axes = started.axes
      /\ joint.initialized = started.initialized
      /\ joint.latched = started.latched
  <2>1. together \in BOOLEAN
    BY DEF AnyMoving
  <2> HIDE DEF together
  <2>2. joint \in ControllerState
    BY <1>5, <2>1, ZenonT(60) DEF ControllerState
  <2>3. /\ joint.axes = started.axes
        /\ joint.initialized = started.initialized
        /\ joint.latched = started.latched
    BY <1>5 DEF ControllerState
  <2> QED BY <2>2, <2>3
<1> HIDE DEF stopped, joint
<1>9. c.axes["AZ"] \in AxisState /\ c.axes["EL"] \in AxisState
  BY <1>1
<1>10. Axes = {"AZ", "EL"}
  BY DEF Axes
<1>11. CASE ~azimuth.ok /\ out = Reject(azOnly, azimuth.fault)
  <2>1. Refusal(c.axes["AZ"], az, id) /\ (az.moving => c.axes["AZ"].moving)
    BY <1>11, NothingHappens DEF Obeys, Refusal, LetGo, CalledOff, az
  <2>2. azOnly.axes["AZ"] = az /\ azOnly.axes["EL"] = c.axes["EL"]
    BY <1>1, <1>4
  <2>3. Sound(azOnly)
    BY <1>1, <1>2, <1>4, <1>10, <2>2 DEF Sound, Good
  <2>5. \A ax \in Axes : azOnly.axes[ax].moving => c.axes[ax].moving
    BY <1>10, <2>1, <2>2
  <2>6. azimuth.fault \in Faults \ {"none"}
    BY <1>2, <1>11
  <2>7. azOnly.state = c.state /\ azOnly.latched = c.latched
    BY <1>4
  <2>4. /\ Good(out.ctl) /\ out.ctl.axes = azOnly.axes
        /\ Answers(out) /\ ~out.ok
        /\ out.ctl.initialized = azOnly.initialized
        /\ out.ctl.latched = azOnly.latched
    BY <1>11, <2>3, <2>5, <2>6, <2>7, RejectGood
  <2> QED BY <1>4, <1>10, <2>1, <2>2, <2>4, NothingHappens
          DEF Obeyed, Refusal
<1>12. CASE /\ azimuth.ok /\ ~elevation.ok
            /\ out = Reject(stopped, elevation.fault)
  <2>1. Refusal(c.axes["EL"], el, id) /\ (el.moving => c.axes["EL"].moving)
    BY <1>12, NothingHappens DEF Obeys, Refusal, LetGo, CalledOff, el
  <2>2. Refusal(c.axes["AZ"], back, id) /\ ~back.moving
    <3>1. Begun(c.axes["AZ"], az, id) \/ DoneAtOnce(c.axes["AZ"], az, id)
      BY <1>12 DEF Obeys, az
    <3>2. CalledOff(c.axes["AZ"], back, id)
      BY <1>2, <3>1, StopCallsOff DEF back
    <3> QED BY <3>2 DEF Refusal, CalledOff
  <2>3. stopped.axes["AZ"] = back /\ stopped.axes["EL"] = el
    BY <1>1, <1>4, <1>5, <1>6
  <2>4. Sound(stopped)
    BY <1>2, <1>3, <1>4, <1>5, <1>6, <1>10, <2>3 DEF Sound
  <2>6. \A ax \in Axes : stopped.axes[ax].moving => c.axes[ax].moving
    BY <1>10, <2>1, <2>2, <2>3
  <2>7. elevation.fault \in Faults \ {"none"}
    BY <1>2, <1>12
  <2>8. stopped.state = c.state /\ stopped.latched = c.latched
    BY <1>4, <1>5, <1>6
  <2>5. /\ Good(out.ctl) /\ out.ctl.axes = stopped.axes
        /\ Answers(out) /\ ~out.ok
        /\ out.ctl.initialized = stopped.initialized
        /\ out.ctl.latched = stopped.latched
    BY <1>12, <2>4, <2>6, <2>7, <2>8, RejectGood
  <2> QED BY <1>4, <1>5, <1>6, <1>10, <2>1, <2>2, <2>3, <2>5 DEF Obeyed
<1>13. CASE azimuth.ok /\ elevation.ok /\ out = Answer(joint, TRUE, "none")
  <2>1. /\ Acceptance(c.axes["AZ"], az, id)
        /\ Acceptance(c.axes["EL"], el, id)
    BY <1>13 DEF Obeys, Acceptance, az, el
  <2>2. joint.axes["AZ"] = az /\ joint.axes["EL"] = el
    BY <1>1, <1>4, <1>5, <1>7
  <2>3. Sound(joint)
    BY <1>2, <1>4, <1>5, <1>7, <1>10, <2>2 DEF Sound
  <2>4. out.ctl = Synchronize(joint) /\ out.ok = TRUE
    BY <1>13 DEF Answer
  <2>5. /\ Good(out.ctl) /\ out.ctl.axes = joint.axes
        /\ out.ctl.initialized = joint.initialized
        /\ out.ctl.latched = joint.latched
    BY <2>3, <2>4, SynchronizeGood
  <2> QED BY <1>4, <1>5, <1>7, <1>10, <2>1, <2>2, <2>4, <2>5
          DEF Obeyed, Answers
<1> QED BY <1>8, <1>11, <1>12, <1>13

-----------------------------------------------------------------------------
(* The commands *)

\* The result of ordering a motion is one a controller knows to handle.
LEMMA ObeysKinds ==
  ASSUME NEW a, NEW id, NEW out, Obeys(a, out, id)
  PROVE  /\ Fit(out.axis) /\ Answers(out)
         /\ IF out.ok THEN Acceptance(a, out.axis, id)
                      ELSE Refusal(a, out.axis, id)
BY NothingHappens
   DEF Obeys, Acceptance, Refusal, LetGo, CalledOff, Answers, Faults

\* An order for one axis, as start_homing() and the moves give it.
LEMMA OrderObeyed ==
  ASSUME NEW c, Good(c), ~c.latched, c.initialized, NEW ax \in Axes, NEW id,
         NEW out, Obeys(c.axes[ax], out, id)
  PROVE  Obeyed(c, OneAxis(c, ax, out), id)
<1>1. /\ Fit(out.axis) /\ Answers(out)
      /\ IF out.ok THEN Acceptance(c.axes[ax], out.axis, id)
                   ELSE Refusal(c.axes[ax], out.axis, id)
  BY ObeysKinds
<1>2. c \in ControllerState
  BY DEF Good, Sound
<1> QED BY <1>1, <1>2, OneAxisObeyed

\* HOME
LEMMA HomeAxesObeyed ==
  ASSUME NEW c, Good(c), NEW selection \in Axes \cup {"BOTH"},
         NEW raw \in [Axes -> BOOLEAN], NEW id \in Nat,
         NEW armOk \in [Axes -> BOOLEAN]
  PROVE  Obeyed(c, HomeAxes(c, selection, raw, id, armOk), id)
<1> DEFINE homing(ax) == StartHoming(c.axes[ax], raw[ax], id, armOk[ax])
           both == BothAxes(c, homing("AZ"), homing("EL"), TRUE)
           one == OneAxis(c, selection, homing(selection))
           out == IF selection = "BOTH" THEN both ELSE one
<1>1. ASSUME NEW ax \in Axes PROVE Obeys(c.axes[ax], homing(ax), id)
  <2>1. Fit(c.axes[ax]) /\ raw[ax] \in BOOLEAN /\ armOk[ax] \in BOOLEAN
    BY DEF Good, Sound
  <2> QED BY <2>1, StartHomingObeys
<1>2. HomeAxes(c, selection, raw, id, armOk) = Guarded(c, out)
  BY DEF HomeAxes
<1> HIDE DEF homing
<1>3. ASSUME ~c.latched, c.initialized PROVE Obeyed(c, out, id)
  <2>1. CASE selection = "BOTH"
    <3>1. Obeys(c.axes["AZ"], homing("AZ"), id)
          /\ Obeys(c.axes["EL"], homing("EL"), id)
      BY <1>1 DEF Axes
    <3>2. \A even \in BOOLEAN :
            Obeyed(c, BothAxes(c, homing("AZ"), homing("EL"), even), id)
      BY <1>3, <3>1, BothAxesObeyed
    <3>3. TRUE \in BOOLEAN
      OBVIOUS
    <3>4. Obeyed(c, both, id)
      BY <3>2, <3>3, Zenon
    <3> QED BY <2>1, <3>4
  <2>2. CASE selection \in Axes
    <3>1. Obeyed(c, one, id)
      BY <1>1, <1>3, <2>2, OrderObeyed
    <3> QED BY <2>2, <3>1 DEF Axes
  <2> QED BY <2>1, <2>2
<1> HIDE DEF out
<1> QED BY <1>2, <1>3, GuardedObeyed

\* MOVE
LEMMA MoveToObeyed ==
  ASSUME NEW c, Good(c), NEW angles \in [Axes -> Int],
         NEW speedOk \in BOOLEAN, NEW id \in Nat,
         NEW armOk \in [Axes -> BOOLEAN]
  PROVE  Obeyed(c, MoveTo(c, angles, speedOk, id, armOk), id)
<1> DEFINE moving(ax) ==
             MoveAbsolute(c.axes[ax], angles[ax], speedOk, id, armOk[ax])
           out == BothAxes(c, moving("AZ"), moving("EL"), FALSE)
<1>1. ASSUME NEW ax \in Axes PROVE Obeys(c.axes[ax], moving(ax), id)
  <2>1. Fit(c.axes[ax]) /\ angles[ax] \in Int /\ armOk[ax] \in BOOLEAN
    BY DEF Good, Sound
  <2> QED BY <2>1, MovesObey
<1>2. MoveTo(c, angles, speedOk, id, armOk) = Guarded(c, out)
  BY DEF MoveTo
<1> HIDE DEF moving
<1>3. ASSUME ~c.latched, c.initialized PROVE Obeyed(c, out, id)
  <2>1. Obeys(c.axes["AZ"], moving("AZ"), id)
        /\ Obeys(c.axes["EL"], moving("EL"), id)
    BY <1>1 DEF Axes
  <2>2. \A even \in BOOLEAN :
          Obeyed(c, BothAxes(c, moving("AZ"), moving("EL"), even), id)
    BY <1>3, <2>1, BothAxesObeyed
  <2>3. FALSE \in BOOLEAN
    OBVIOUS
  <2> QED BY <2>2, <2>3, Zenon
<1> HIDE DEF out
<1> QED BY <1>2, <1>3, GuardedObeyed

\* MOVE_REL
LEMMA MoveByObeyed ==
  ASSUME NEW c, Good(c), NEW selection \in Axes \cup {"BOTH"},
         NEW delta \in Int, NEW speedOk \in BOOLEAN, NEW id \in Nat,
         NEW armOk \in [Axes -> BOOLEAN]
  PROVE  Obeyed(c, MoveBy(c, selection, delta, speedOk, id, armOk), id)
<1> DEFINE moving(ax) == MoveRelative(c.axes[ax], delta, speedOk, id, armOk[ax])
           both == BothAxes(c, moving("AZ"), moving("EL"), TRUE)
           one == OneAxis(c, selection, moving(selection))
           out == IF selection = "BOTH" THEN both ELSE one
<1>1. ASSUME NEW ax \in Axes PROVE Obeys(c.axes[ax], moving(ax), id)
  <2>1. Fit(c.axes[ax]) /\ armOk[ax] \in BOOLEAN
    BY DEF Good, Sound
  <2> QED BY <2>1, MovesObey
<1>2. MoveBy(c, selection, delta, speedOk, id, armOk) = Guarded(c, out)
  BY DEF MoveBy
<1> HIDE DEF moving
<1>3. ASSUME ~c.latched, c.initialized PROVE Obeyed(c, out, id)
  <2>1. CASE selection = "BOTH"
    <3>1. Obeys(c.axes["AZ"], moving("AZ"), id)
          /\ Obeys(c.axes["EL"], moving("EL"), id)
      BY <1>1 DEF Axes
    <3>2. \A even \in BOOLEAN :
            Obeyed(c, BothAxes(c, moving("AZ"), moving("EL"), even), id)
      BY <1>3, <3>1, BothAxesObeyed
    <3>3. TRUE \in BOOLEAN
      OBVIOUS
    <3>4. Obeyed(c, both, id)
      BY <3>2, <3>3, Zenon
    <3> QED BY <2>1, <3>4
  <2>2. CASE selection \in Axes
    <3>1. Obeyed(c, one, id)
      BY <1>1, <1>3, <2>2, OrderObeyed
    <3> QED BY <2>2, <3>1 DEF Axes
  <2> QED BY <2>1, <2>2
<1> HIDE DEF out
<1> QED BY <1>2, <1>3, GuardedObeyed

\* MOTOR STEP
LEMMA BenchAxisObeyed ==
  ASSUME NEW c, Good(c), NEW ax \in Axes, NEW steps \in Int, NEW id \in Nat,
         NEW armOk \in [Axes -> BOOLEAN]
  PROVE  Obeyed(c, BenchAxis(c, ax, steps, id, armOk), id)
<1> DEFINE order == BenchMove(c.axes[ax], steps, id, armOk[ax])
           out == OneAxis(c, ax, order)
<1>1. Obeys(c.axes[ax], order, id)
  <2>1. Fit(c.axes[ax]) /\ armOk[ax] \in BOOLEAN
    BY DEF Good, Sound
  <2>2. \A speedOk \in BOOLEAN : Obeys(c.axes[ax], order, id)
    BY <2>1, MovesObey
  <2> QED BY <2>2
<1>2. BenchAxis(c, ax, steps, id, armOk) = Guarded(c, out)
  BY DEF BenchAxis
<1> HIDE DEF order
<1>3. ASSUME ~c.latched, c.initialized PROVE Obeyed(c, out, id)
  BY <1>1, <1>3, OrderObeyed
<1> HIDE DEF out
<1> QED BY <1>2, <1>3, GuardedObeyed

\* MOTOR ENABLE, DISABLE, SET_CURRENT and SET_MICROSTEPS of one axis
LEMMA ConfiguredObeyed ==
  ASSUME NEW c, Good(c), NEW ax \in Axes, NEW id, NEW fault \in Faults,
         NEW out, Fit(out.axis), Answers(out),
         IF out.ok THEN Acceptance(c.axes[ax], out.axis, id)
                   ELSE Refusal(c.axes[ax], out.axis, id)
  PROVE  Obeyed(c, Configured(c, ax, out, fault), id)
<1> DEFINE d == IF out.ok THEN ReportFault(c, fault) ELSE c
           result == OneAxis(d, ax, out)
<1>1. Configured(c, ax, out, fault) = Guarded(c, result)
  BY DEF Configured
<1>2. /\ d \in ControllerState /\ d.axes = c.axes
      /\ d.initialized = c.initialized /\ d.latched = c.latched
  <2> c \in ControllerState
    BY DEF Good, Sound
  <2>1. LET e == ReportFault(c, fault)
        IN  /\ e \in ControllerState /\ e.axes = c.axes
            /\ e.initialized = c.initialized /\ e.latched = c.latched
    BY ReportFaultFields
  <2> QED BY <2>1
<1> HIDE DEF d
<1>3. ASSUME ~c.latched, c.initialized PROVE Obeyed(c, result, id)
  BY <1>2, <1>3, OneAxisObeyed
<1> HIDE DEF result
<1> QED BY <1>1, <1>3, GuardedObeyed

\* Each of the four does to its axis what the lemma before asks for.
LEMMA SetAxisObeyed ==
  ASSUME NEW c, Good(c), NEW ax \in Axes, NEW id, NEW enabled \in BOOLEAN,
         NEW microsteps \in MicrostepChoices, NEW write \in WriteResults
  PROVE  /\ Obeyed(c, SetAxisEnabled(c, ax, enabled), id)
         /\ Obeyed(c, SetAxisCurrent(c, ax, write), id)
         /\ Obeyed(c, SetAxisMicrosteps(c, ax, microsteps, write), id)
<1> DEFINE a == c.axes[ax]
<1>1. Fit(a)
  BY DEF Good, Sound
<1>2. Obeyed(c, SetAxisEnabled(c, ax, enabled), id)
  <2> DEFINE out == SetEnabled(a, enabled)
             fault == EnableFault(enabled)
  <2>1. /\ Fit(out.axis) /\ Answers(out)
        /\ IF out.ok THEN Acceptance(a, out.axis, id)
                     ELSE Refusal(a, out.axis, id)
    <3>1. /\ Fit(out.axis) /\ out.ok \in BOOLEAN
          /\ out.ok => Halted(a, out.axis) \/ TurnedOn(a, out.axis)
          /\ ~out.ok => Broken(a, out.axis) /\ out.fault = "driver_critical"
      BY <1>1, SetEnabledTurns
    <3>2. "driver_critical" \in Faults \ {"none"}
      BY DEF Faults, AxisFaults
    <3> QED BY <3>1, <3>2 DEF Acceptance, Refusal, Answers
  <2>2. fault \in Faults
    BY DEF EnableFault, Faults, AxisFaults
  <2>3. SetAxisEnabled(c, ax, enabled) = Configured(c, ax, out, fault)
    BY DEF SetAxisEnabled
  <2> HIDE DEF out, fault
  <2> QED BY <2>1, <2>2, <2>3, ConfiguredObeyed
<1>3. ASSUME NEW out \in {SetCurrent(a, write),
                          SetMicrosteps(a, microsteps, write)}
      PROVE  Obeyed(c, Configured(c, ax, out, "none"), id)
  <2>1. /\ Fit(out.axis) /\ Answers(out)
        /\ Alike(a, out.axis) \/ (out.ok /\ Halted(a, out.axis))
    <3>1. "invalid_argument" \in Faults \ {"none"}
      BY DEF Faults, AxisFaults, Refusals
    <3> QED BY <1>1, <1>3, <3>1, WritesHalt DEF Answers
  <2>2. "none" \in Faults
    BY DEF Faults, AxisFaults
  <2> HIDE <1>3
  <2>3. IF out.ok THEN Acceptance(a, out.axis, id) ELSE Refusal(a, out.axis, id)
    BY <2>1 DEF Acceptance, Refusal
  <2> QED BY <2>1, <2>2, <2>3, ConfiguredObeyed
<1> QED BY <1>2, <1>3 DEF SetAxisCurrent, SetAxisMicrosteps

\* STOP of one axis
LEMMA StopAxisObeyed ==
  ASSUME NEW c, Good(c), NEW ax \in Axes, NEW id
  PROVE  Obeyed(c, StopAxis(c, ax), id)
<1> DEFINE b == Stop(c.axes[ax])
           e == WithAxis(c, ax, b)
           d == [e EXCEPT !.coordinated = FALSE]
           out == StopAxis(c, ax)
<1>1. c \in ControllerState /\ c.axes \in [Axes -> AxisState]
      /\ \A x \in Axes : Fit(c.axes[x])
  BY Fields DEF Good, Sound
<1>2. /\ Fit(b) /\ Halted(c.axes[ax], b)
      /\ Resting(c.axes[ax]) => Resting(b)
  BY <1>1, StopHalts
<1>3. out.ctl = Synchronize(d) /\ out.ok = TRUE
  BY DEF StopAxis, Answer
<1> HIDE DEF b, out
<1>4. /\ e \in ControllerState /\ e.axes = [c.axes EXCEPT ![ax] = b]
      /\ e.initialized = c.initialized /\ e.latched = c.latched
  <2> b \in AxisState /\ c \in ControllerState
    BY <1>1, <1>2 DEF Fit
  <2>1. e \in ControllerState
    BY WithAxisFields
  <2>2. e.axes = [c.axes EXCEPT ![ax] = b]
    BY WithAxisFields
  <2>3. e.initialized = c.initialized /\ e.latched = c.latched
    BY WithAxisFields
  <2> QED BY <2>1, <2>2, <2>3
<1> HIDE DEF e
<1>5. /\ d \in ControllerState /\ d.axes = e.axes /\ ~d.coordinated
      /\ d.initialized = e.initialized /\ d.latched = e.latched
  <2>1. d \in ControllerState
    BY <1>4, ZenonT(60) DEF ControllerState
  <2> QED BY <1>4, <2>1 DEF ControllerState
<1> HIDE DEF d
<1>6. ASSUME NEW x \in Axes
      PROVE  /\ Fit(d.axes[x])
             /\ Dormant(c.axes[x]) =>
                  Dormant(d.axes[x]) /\ Alike(c.axes[x], d.axes[x])
             /\ Alike(c.axes[x], d.axes[x]) \/ Halted(c.axes[x], d.axes[x])
  <2>1. CASE x = ax
    <3>1. d.axes[x] = b
      BY <1>1, <1>4, <1>5, <2>1
    <3>2. Dormant(c.axes[ax]) => Dormant(b) /\ Alike(c.axes[ax], b)
      BY <1>1, <1>2, StaysDormant DEF Dormant
    <3> QED BY <1>2, <2>1, <3>1, <3>2
  <2>2. CASE x # ax
    <3>1. d.axes[x] = c.axes[x]
      BY <1>1, <1>4, <1>5, <2>2
    <3> QED BY <1>1, <3>1, NothingHappens
  <2> QED BY <2>1, <2>2
<1>7. Sound(d)
  BY <1>4, <1>5, <1>6 DEF Good, Sound
<1>8. /\ Good(out.ctl) /\ out.ctl.axes = d.axes
      /\ out.ctl.initialized = c.initialized /\ out.ctl.latched = c.latched
  BY <1>3, <1>4, <1>5, <1>7, SynchronizeGood
<1>9. CASE c.latched
  <2>1. \A x \in Axes : Alike(c.axes[x], d.axes[x])
    BY <1>6, <1>9 DEF Good, Sound
  <2> QED BY <1>3, <1>8, <1>9, <2>1 DEF Obeyed, Answers, out
<1>10. CASE ~c.latched
  BY <1>3, <1>6, <1>8, <1>10 DEF Obeyed, Acceptance, Answers, out
<1> QED BY <1>9, <1>10

\* STOP of both axes
LEMMA StopAllObeyed ==
  ASSUME NEW c, Good(c), NEW id
  PROVE  LET out == StopAll(c)
         IN  /\ Obeyed(c, out, id) /\ Current(out.ctl)
             /\ \A ax \in Axes : ~out.ctl.axes[ax].moving
<1> DEFINE axes == [ax \in Axes |-> Stop(c.axes[ax])]
           d == [c EXCEPT !.axes = axes, !.coordinated = FALSE,
                          !.state.fault = "stopped"]
           out == StopAll(c)
<1>1. c \in ControllerState /\ \A ax \in Axes : Fit(c.axes[ax])
  BY DEF Good, Sound
<1>2. ASSUME NEW ax \in Axes
      PROVE  /\ Fit(axes[ax]) /\ Halted(c.axes[ax], axes[ax])
             /\ Dormant(c.axes[ax]) =>
                  Dormant(axes[ax]) /\ Alike(c.axes[ax], axes[ax])
  <2>1. /\ Fit(axes[ax]) /\ Halted(c.axes[ax], axes[ax])
        /\ Resting(c.axes[ax]) => Resting(axes[ax])
    BY <1>1, StopHalts
  <2> HIDE DEF axes
  <2> QED BY <1>1, <2>1, StaysDormant DEF Dormant
<1>3. axes \in [Axes -> AxisState]
  BY <1>2 DEF Fit
<1>4. out.ctl = Synchronize(d) /\ out.ok = TRUE
  BY DEF StopAll, Answer
<1> SUFFICES /\ Obeyed(c, out, id) /\ Current(out.ctl)
             /\ \A ax \in Axes : ~out.ctl.axes[ax].moving
  OBVIOUS
<1> HIDE DEF axes, out
<1>5. /\ d \in ControllerState /\ d.axes = axes /\ ~d.coordinated
      /\ d.initialized = c.initialized /\ d.latched = c.latched
  <2> DEFINE fault == "stopped"
  <2>1. d = Parted(c, axes, fault)
    BY DEF Parted
  <2> fault \in Faults
    BY DEF Faults, AxisFaults
  <2> HIDE DEF fault, d
  <2>2. d \in ControllerState /\ d.axes = axes
    BY <1>1, <1>3, <2>1, PartedFields
  <2>3. ~d.coordinated
    BY <1>1, <1>3, <2>1, PartedFields
  <2>4. d.initialized = c.initialized /\ d.latched = c.latched
    BY <1>1, <1>3, <2>1, PartedFields
  <2> QED BY <2>2, <2>3, <2>4
<1> HIDE DEF d
<1>6. Sound(d)
  BY <1>2, <1>5 DEF Good, Sound
<1>7. /\ Good(out.ctl) /\ Current(out.ctl) /\ out.ctl.axes = axes
      /\ out.ctl.initialized = c.initialized /\ out.ctl.latched = c.latched
  BY <1>4, <1>5, <1>6, SynchronizeGood
<1>8. ASSUME c.latched PROVE Obeyed(c, out, id)
  <2>1. \A ax \in Axes : Alike(c.axes[ax], axes[ax])
    BY <1>2, <1>8 DEF Good, Sound
  <2> QED BY <1>4, <1>7, <1>8, <2>1 DEF Obeyed, Answers
<1>9. ASSUME ~c.latched PROVE Obeyed(c, out, id)
  BY <1>2, <1>4, <1>7, <1>9 DEF Obeyed, Acceptance, Answers
<1>10. \A ax \in Axes : ~out.ctl.axes[ax].moving
  BY <1>2, <1>7 DEF Halted
<1> QED BY <1>7, <1>8, <1>9, <1>10

\* The emergency stop leaves both axes off, whatever the controller was.
LEMMA EmergencyStopAllFields ==
  ASSUME NEW c, c \in ControllerState
  PROVE  LET out == EmergencyStopAll(c)
             d == out.ctl
         IN  /\ Good(d) /\ Current(d)
             /\ d.initialized = c.initialized /\ d.latched
             /\ \A ax \in Axes : Broken(c.axes[ax], d.axes[ax])
             /\ out.ok = TRUE
<1> DEFINE axes == [ax \in Axes |-> EmergencyStop(c.axes[ax])]
           d == [c EXCEPT !.latched = TRUE, !.coordinated = FALSE,
                          !.axes = axes, !.state.fault = "emergency_stop"]
           out == EmergencyStopAll(c)
<1>1. c.axes \in [Axes -> AxisState]
  BY Fields
<1>2. ASSUME NEW ax \in Axes
      PROVE  /\ Fit(axes[ax]) /\ Broken(c.axes[ax], axes[ax])
             /\ Dormant(axes[ax])
  <2> DEFINE b == Fail(c.axes[ax], "emergency_stop", "emergency_stop")
  <2>1. Fit(b) /\ Resting(b) /\ Broken(c.axes[ax], b)
    BY <1>1, FailBreaks DEF AxisFaults, TrustLosses
  <2>2. axes[ax] = b
    BY DEF EmergencyStop
  <2> HIDE DEF axes, b
  <2> QED BY <2>1, <2>2 DEF Dormant, Broken
<1>3. axes \in [Axes -> AxisState]
  BY <1>2 DEF Fit
<1>4. out.ctl = Synchronize(d) /\ out.ok = TRUE
  BY DEF EmergencyStopAll, Answer
<1> SUFFICES /\ Good(out.ctl) /\ Current(out.ctl)
             /\ out.ctl.initialized = c.initialized /\ out.ctl.latched
             /\ \A ax \in Axes : Broken(c.axes[ax], out.ctl.axes[ax])
  BY <1>4
<1> HIDE DEF axes, out
<1>5. /\ d \in ControllerState /\ d.axes = axes /\ ~d.coordinated
      /\ d.initialized = c.initialized /\ d.latched = TRUE
  <2> DEFINE fault == "emergency_stop"
             latched == TRUE
  <2>1. d = Locked(c, latched, axes, fault)
    BY DEF Locked
  <2> fault \in Faults /\ latched \in BOOLEAN
    BY DEF Faults, AxisFaults
  <2>2. latched = TRUE
    OBVIOUS
  <2> HIDE DEF fault, latched, d
  <2>3. d \in ControllerState /\ d.axes = axes
    BY <1>3, <2>1, LockedFields
  <2>4. ~d.coordinated /\ d.initialized = c.initialized
    BY <1>3, <2>1, LockedFields
  <2>5. d.latched = latched
    BY <1>3, <2>1, LockedFields
  <2> QED BY <2>2, <2>3, <2>4, <2>5
<1> HIDE DEF d
<1>6. Sound(d)
  BY <1>2, <1>5 DEF Sound
<1> QED BY <1>2, <1>4, <1>5, <1>6, SynchronizeGood

\* EMERGENCY_STOP
LEMMA EmergencyStopObeyed ==
  ASSUME NEW c, Good(c), NEW id
  PROVE  Obeyed(c, EmergencyStopAll(c), id)
<1>1. c \in ControllerState
  BY DEF Good, Sound
<1> QED BY <1>1, EmergencyStopAllFields DEF Obeyed, Answers

\* CLEAR_FAULT releases the latch, once the input is released, and is not
\* to be seen at the axes.
LEMMA ClearFaultsObeyed ==
  ASSUME NEW c, Good(c), NEW raw \in BOOLEAN, NEW id
  PROVE  /\ Obeyed(c, ClearFaults(c, raw), id)
         /\ ClearFaults(c, raw).ctl.latched => c.latched
<1> DEFINE seen == UpdateEmergency(c, raw)
           azimuth == ClearFault(c.axes["AZ"])
           elevation == ClearFault(c.axes["EL"])
           az == azimuth.axis
           el == elevation.axis
           azOnly == WithAxis(seen, "AZ", az)
           both == WithAxis(azOnly, "EL", el)
           cleared == [both EXCEPT !.latched = FALSE]
           calm == ReportFault(cleared, "none")
           refusal == FirstRefusal(azimuth, elevation)
           out == ClearFaults(c, raw)
<1>1. /\ c \in ControllerState /\ c.axes \in [Axes -> AxisState]
      /\ Axes = {"AZ", "EL"} /\ \A ax \in Axes : Fit(c.axes[ax])
  BY Fields DEF Good, Sound, Axes
<1>2. /\ seen \in ControllerState /\ seen.axes = c.axes
      /\ seen.initialized = c.initialized /\ seen.coordinated = c.coordinated
      /\ seen.latched = c.latched /\ seen.state = c.state
  <2>1. seen \in ControllerState /\ seen.axes = c.axes
    BY <1>1, UpdateEmergencyFields
  <2>2. /\ seen.initialized = c.initialized /\ seen.latched = c.latched
        /\ seen.coordinated = c.coordinated /\ seen.state = c.state
    BY <1>1, UpdateEmergencyFields
  <2> QED BY <2>1, <2>2
<1>3. /\ Fit(az) /\ Alike(c.axes["AZ"], az) /\ azimuth.ok \in BOOLEAN
      /\ Resting(c.axes["AZ"]) => Resting(az)
      /\ ~azimuth.ok => azimuth.fault = "driver_critical"
  BY <1>1, ClearFaultAlike
<1>4. /\ Fit(el) /\ Alike(c.axes["EL"], el) /\ elevation.ok \in BOOLEAN
      /\ Resting(c.axes["EL"]) => Resting(el)
      /\ ~elevation.ok => elevation.fault = "driver_critical"
  BY <1>1, ClearFaultAlike
<1>5. ~azimuth.ok \/ ~elevation.ok => refusal = "driver_critical"
  BY <1>3, <1>4 DEF FirstRefusal
<1>6. \/ out = Reject(seen, "emergency_stop")
      \/ /\ ~azimuth.ok \/ ~elevation.ok
         /\ out = Reject(cleared, refusal)
      \/ out = Answer(calm, TRUE, "none")
  BY ZenonT(60) DEF ClearFaults
<1> SUFFICES Obeyed(c, out, id) /\ (out.ctl.latched => c.latched)
  OBVIOUS
<1> HIDE DEF out, azimuth, elevation, az, el, seen, refusal
<1>7. /\ azOnly \in ControllerState /\ azOnly.axes = [c.axes EXCEPT !["AZ"] = az]
      /\ azOnly.initialized = c.initialized /\ azOnly.state = c.state
  <2> seen \in ControllerState /\ "AZ" \in Axes /\ az \in AxisState
    BY <1>1, <1>2, <1>3 DEF Fit
  <2>1. azOnly \in ControllerState
    BY WithAxisFields
  <2>2. azOnly.axes = [seen.axes EXCEPT !["AZ"] = az]
    BY WithAxisFields
  <2>3. azOnly.initialized = seen.initialized /\ azOnly.state = seen.state
    BY WithAxisFields
  <2> QED BY <1>2, <2>1, <2>2, <2>3
<1> HIDE DEF azOnly
<1>8. /\ both \in ControllerState /\ both.axes = [azOnly.axes EXCEPT !["EL"] = el]
      /\ both.initialized = c.initialized /\ both.state = c.state
  <2> azOnly \in ControllerState /\ "EL" \in Axes /\ el \in AxisState
    BY <1>1, <1>4, <1>7 DEF Fit
  <2>1. both \in ControllerState
    BY WithAxisFields
  <2>2. both.axes = [azOnly.axes EXCEPT !["EL"] = el]
    BY WithAxisFields
  <2>3. both.initialized = azOnly.initialized /\ both.state = azOnly.state
    BY WithAxisFields
  <2> QED BY <1>7, <2>1, <2>2, <2>3
<1> HIDE DEF both
<1>9. /\ cleared \in ControllerState /\ cleared.axes = both.axes
      /\ cleared.initialized = c.initialized /\ cleared.state = c.state
      /\ ~cleared.latched
  <2>1. cleared \in ControllerState
    BY <1>8, ZenonT(60) DEF ControllerState
  <2> QED BY <1>8, <2>1 DEF ControllerState
<1> HIDE DEF cleared
<1>10. cleared.axes["AZ"] = az /\ cleared.axes["EL"] = el
  BY <1>1, <1>7, <1>8, <1>9
<1>11. \A ax \in Axes : /\ Fit(cleared.axes[ax])
                        /\ Alike(c.axes[ax], cleared.axes[ax])
                        /\ Dormant(c.axes[ax]) => Dormant(cleared.axes[ax])
  BY <1>1, <1>3, <1>4, <1>10 DEF Dormant, Alike
<1>12. Sound(cleared)
  BY <1>9, <1>11 DEF Good, Sound
<1>13. CASE out = Reject(seen, "emergency_stop")
  <2>1. Sound(seen)
    BY <1>2 DEF Good, Sound
  <2>2. "emergency_stop" \in Faults \ {"none"}
    BY DEF Faults, AxisFaults
  <2>3. \A ax \in Axes : seen.axes[ax].moving => c.axes[ax].moving
    BY <1>2
  <2>4. seen.state = c.state /\ seen.latched = c.latched
    BY <1>2
  <2>5. /\ Good(out.ctl) /\ out.ctl.axes = seen.axes
        /\ Answers(out) /\ ~out.ok
        /\ out.ctl.initialized = seen.initialized
        /\ out.ctl.latched = seen.latched
    BY <1>13, <2>1, <2>2, <2>3, <2>4, RejectGood
  <2> QED BY <1>2, <2>5, NothingHappens DEF Obeyed, Refusal
<1>14. CASE /\ ~azimuth.ok \/ ~elevation.ok
            /\ out = Reject(cleared, refusal)
  <2>1. refusal \in Faults \ {"none"}
    BY <1>5, <1>14 DEF Faults, AxisFaults
  <2>2. \A ax \in Axes : cleared.axes[ax].moving => c.axes[ax].moving
    BY <1>11 DEF Alike
  <2>3. cleared.state = c.state /\ (cleared.latched => c.latched)
    BY <1>9
  <2>4. /\ Good(out.ctl) /\ out.ctl.axes = cleared.axes
        /\ Answers(out) /\ ~out.ok
        /\ out.ctl.initialized = cleared.initialized
        /\ out.ctl.latched = cleared.latched
    BY <1>12, <1>14, <2>1, <2>2, <2>3, RejectGood
  <2> QED BY <1>9, <1>11, <2>4 DEF Obeyed, Refusal
<1>15. CASE out = Answer(calm, TRUE, "none")
  <2>1. /\ calm \in ControllerState /\ calm.axes = cleared.axes
        /\ calm.initialized = cleared.initialized
        /\ calm.latched = cleared.latched
    <3> cleared \in ControllerState /\ "none" \in Faults
      BY <1>9 DEF Faults, AxisFaults
    <3>1. calm \in ControllerState /\ calm.axes = cleared.axes
      BY ReportFaultFields
    <3>2. /\ calm.initialized = cleared.initialized
          /\ calm.latched = cleared.latched
      BY ReportFaultFields
    <3> QED BY <3>1, <3>2
  <2>2. Sound(calm)
    BY <1>9, <1>12, <2>1 DEF Sound
  <2>3. out.ctl = Synchronize(calm) /\ out.ok = TRUE
    BY <1>15 DEF Answer
  <2> HIDE DEF calm
  <2>4. /\ Good(out.ctl) /\ out.ctl.axes = calm.axes
        /\ out.ctl.initialized = calm.initialized
        /\ out.ctl.latched = calm.latched
    BY <2>2, <2>3, SynchronizeGood
  <2> QED BY <1>9, <1>11, <2>1, <2>3, <2>4 DEF Obeyed, Acceptance, Answers
<1> QED BY <1>6, <1>13, <1>14, <1>15

\* ENABLE and DISABLE of both axes.  One that refuses does not keep the other
\* from being switched, which STATUS does not show.
LEMMA SetAllEnabledObeyed ==
  ASSUME NEW c, Good(c), NEW enabled \in BOOLEAN, NEW id
  PROVE  LET out == SetAllEnabled(c, enabled)
         IN  Obeyed(c, out, id) /\ (out.ok => Current(out.ctl))
<1> DEFINE azimuth == SetEnabled(c.axes["AZ"], enabled)
           elevation == SetEnabled(c.axes["EL"], enabled)
           az == azimuth.axis
           el == elevation.axis
           azOnly == WithAxis(c, "AZ", az)
           switched == WithAxis(azOnly, "EL", el)
           fault == EnableFault(enabled)
           calm == ReportFault(switched, fault)
           refusal == FirstRefusal(azimuth, elevation)
           out == IF ~azimuth.ok \/ ~elevation.ok
                    THEN Reject(switched, refusal)
                    ELSE Answer(calm, TRUE, fault)
<1>1. SetAllEnabled(c, enabled) = Guarded(c, out)
  BY ZenonT(60) DEF SetAllEnabled
<1>2. /\ c \in ControllerState /\ c.axes \in [Axes -> AxisState]
      /\ Axes = {"AZ", "EL"} /\ \A ax \in Axes : Fit(c.axes[ax])
  BY Fields DEF Good, Sound, Axes
<1>3. /\ Fit(az) /\ azimuth.ok \in BOOLEAN
      /\ azimuth.ok => Halted(c.axes["AZ"], az) \/ TurnedOn(c.axes["AZ"], az)
      /\ ~azimuth.ok => /\ Broken(c.axes["AZ"], az)
                        /\ azimuth.fault = "driver_critical"
  BY <1>2, SetEnabledTurns
<1>4. /\ Fit(el) /\ elevation.ok \in BOOLEAN
      /\ elevation.ok => Halted(c.axes["EL"], el) \/ TurnedOn(c.axes["EL"], el)
      /\ ~elevation.ok => /\ Broken(c.axes["EL"], el)
                          /\ elevation.fault = "driver_critical"
  BY <1>2, SetEnabledTurns
<1>5. ~azimuth.ok \/ ~elevation.ok => refusal = "driver_critical"
  BY <1>3, <1>4 DEF FirstRefusal
<1>6. /\ fault \in Faults
      /\ \/ (~azimuth.ok \/ ~elevation.ok) /\ out = Reject(switched, refusal)
         \/ azimuth.ok /\ elevation.ok /\ out = Answer(calm, TRUE, fault)
  BY DEF EnableFault, Faults, AxisFaults, Refusals
<1> SUFFICES ASSUME ~c.latched, c.initialized
             PROVE  Obeyed(c, out, id) /\ (out.ok => Current(out.ctl))
  <2>1. \/ ~c.latched /\ c.initialized /\ Guarded(c, out) = out
        \/ Guarded(c, out).ok = FALSE
    BY DEF Guarded, Reject
  <2> QED BY <1>1, <2>1, GuardedObeyed
<1> HIDE DEF out, azimuth, elevation, az, el, fault, refusal
<1>7. /\ azOnly \in ControllerState /\ azOnly.axes = [c.axes EXCEPT !["AZ"] = az]
      /\ azOnly.initialized = c.initialized /\ azOnly.latched = c.latched
      /\ azOnly.state = c.state
  <2> c \in ControllerState /\ "AZ" \in Axes /\ az \in AxisState
    BY <1>2, <1>3 DEF Fit
  <2>1. azOnly \in ControllerState
    BY WithAxisFields
  <2>2. azOnly.axes = [c.axes EXCEPT !["AZ"] = az]
    BY WithAxisFields
  <2>3. /\ azOnly.initialized = c.initialized /\ azOnly.latched = c.latched
        /\ azOnly.state = c.state
    BY WithAxisFields
  <2> QED BY <2>1, <2>2, <2>3
<1> HIDE DEF azOnly
<1>8. /\ switched \in ControllerState
      /\ switched.axes = [azOnly.axes EXCEPT !["EL"] = el]
      /\ switched.initialized = c.initialized /\ ~switched.latched
      /\ switched.state = c.state
  <2> azOnly \in ControllerState /\ "EL" \in Axes /\ el \in AxisState
    BY <1>2, <1>4, <1>7 DEF Fit
  <2>1. switched \in ControllerState
    BY WithAxisFields
  <2>2. switched.axes = [azOnly.axes EXCEPT !["EL"] = el]
    BY WithAxisFields
  <2>3. /\ switched.initialized = azOnly.initialized
        /\ switched.latched = azOnly.latched /\ switched.state = azOnly.state
    BY WithAxisFields
  <2> QED BY <1>7, <2>1, <2>2, <2>3
<1> HIDE DEF switched
<1>9. switched.axes["AZ"] = az /\ switched.axes["EL"] = el
  BY <1>2, <1>7, <1>8
<1>10. Sound(switched)
  BY <1>2, <1>3, <1>4, <1>8, <1>9 DEF Sound
<1>11. CASE /\ ~azimuth.ok \/ ~elevation.ok
            /\ out = Reject(switched, refusal)
  <2>1. refusal \in Faults \ {"none"}
    BY <1>5, <1>11 DEF Faults, AxisFaults
  <2>2. ASSUME NEW ax \in Axes, NEW b, Fit(b),
               \/ Halted(c.axes[ax], b)
               \/ TurnedOn(c.axes[ax], b)
               \/ Broken(c.axes[ax], b)
        PROVE  /\ Refusal(c.axes[ax], b, id)
               /\ b.moving => c.axes[ax].moving
    <3> DEFINE a == c.axes[ax]
    <3>1. /\ a.moving \in BOOLEAN /\ b.moving \in BOOLEAN
          /\ a.enabled \in BOOLEAN /\ b.enabled \in BOOLEAN
          /\ a.moving => a.enabled
          /\ Homing(b) => ~b.trusted
      BY <1>2, <2>2 DEF Fit, Sane, PowerPart, TrustPart, Homing, LivePhases,
            AxisState
    <3> HIDE DEF a
    <3>2. CASE TurnedOn(a, b) /\ a.moving
      BY <3>1, <3>2 DEF TurnedOn, Refusal, Alike, a
    <3>3. CASE TurnedOn(a, b) /\ ~a.moving
      BY <3>1, <3>3 DEF TurnedOn, Refusal, CalledOff, SameOrder, a
    <3>4. CASE Halted(a, b) \/ Broken(a, b)
      BY <3>4 DEF Refusal, Halted, Broken, a
    <3> QED BY <2>2, <3>2, <3>3, <3>4 DEF a
  <2>3. ASSUME NEW ax \in Axes
        PROVE  /\ Refusal(c.axes[ax], switched.axes[ax], id)
               /\ switched.axes[ax].moving => c.axes[ax].moving
    BY <1>2, <1>3, <1>4, <1>9, <2>2
  <2>4. switched.state = c.state /\ (switched.latched => c.latched)
    BY <1>8
  <2>5. /\ Good(out.ctl) /\ out.ctl.axes = switched.axes
        /\ Answers(out) /\ ~out.ok
        /\ out.ctl.initialized = switched.initialized
        /\ out.ctl.latched = switched.latched
    BY <1>10, <1>11, <2>1, <2>3, <2>4, RejectGood
  <2>6. Obeyed(c, out, id)
    BY <1>8, <2>3, <2>5 DEF Obeyed
  <2> QED BY <2>5, <2>6
<1>12. CASE azimuth.ok /\ elevation.ok /\ out = Answer(calm, TRUE, fault)
  <2>1. /\ calm \in ControllerState /\ calm.axes = switched.axes
        /\ calm.initialized = switched.initialized
        /\ calm.latched = switched.latched
    <3> switched \in ControllerState /\ fault \in Faults
      BY <1>6, <1>8
    <3>1. calm \in ControllerState /\ calm.axes = switched.axes
      BY ReportFaultFields
    <3>2. /\ calm.initialized = switched.initialized
          /\ calm.latched = switched.latched
      BY ReportFaultFields
    <3> QED BY <3>1, <3>2
  <2>2. Sound(calm)
    BY <1>8, <1>10, <2>1 DEF Sound
  <2>3. out.ctl = Synchronize(calm) /\ out.ok = TRUE
    BY <1>12 DEF Answer
  <2> HIDE DEF calm
  <2>4. /\ Good(out.ctl) /\ Current(out.ctl) /\ out.ctl.axes = calm.axes
        /\ out.ctl.initialized = calm.initialized
        /\ out.ctl.latched = calm.latched
    BY <2>2, <2>3, SynchronizeGood
  <2>5. \A ax \in Axes : Acceptance(c.axes[ax], out.ctl.axes[ax], id)
    BY <1>2, <1>3, <1>4, <1>9, <1>12, <2>1, <2>4 DEF Acceptance
  <2>6. Obeyed(c, out, id)
    BY <1>8, <2>1, <2>3, <2>4, <2>5 DEF Obeyed, Answers
  <2> QED BY <2>4, <2>6
<1> QED BY <1>6, <1>11, <1>12

\* The passing of time, and the end of a pulse.
LEMMA AgeAllServed ==
  ASSUME NEW c, Good(c)
  PROVE  /\ Served(c, AgeAll(c)) /\ AgeAll(c).latched = c.latched
         /\ \A ax \in Axes : Alike(c.axes[ax], AgeAll(c).axes[ax])
         /\ AgeAll(c).state = c.state
<1> DEFINE axes == [ax \in Axes |-> Age(c.axes[ax])]
           old == IF c.input.candidate # c.input.stable
                    THEN Older(c.input.age, EmergencyDebounce)
                    ELSE c.input.age
           input == [c.input EXCEPT !.age = old]
           d == [c EXCEPT !.axes = axes, !.input = input]
<1>1. /\ c \in ControllerState /\ c.axes \in [Axes -> AxisState]
      /\ \A ax \in Axes : Fit(c.axes[ax])
  BY Fields DEF Good, Sound
<1>2. ASSUME NEW ax \in Axes
      PROVE  /\ Fit(axes[ax]) /\ Alike(c.axes[ax], axes[ax])
             /\ axes[ax].fault = c.axes[ax].fault
             /\ Resting(c.axes[ax]) => Resting(axes[ax])
  BY <1>1, TimeAlike
<1>3. axes \in [Axes -> AxisState]
  BY <1>2 DEF Fit
<1>4. AgeAll(c) = d
  BY <1>1 DEF AgeAll, ControllerState
<1>5. input \in Input
  <2>1. c.input \in Input
    BY <1>1, Fields
  <2>2. old \in 0 .. EmergencyDebounce
    BY <2>1, EmergencyAssumption DEF Input, Older
  <2> HIDE DEF old
  <2> QED BY <2>1, <2>2, ZenonT(60) DEF Input
<1> HIDE DEF axes, input
<1>6. d \in ControllerState
  BY <1>1, <1>3, <1>5, ZenonT(60) DEF ControllerState
<1>7. /\ d.axes = axes /\ d.initialized = c.initialized
      /\ d.coordinated = c.coordinated /\ d.latched = c.latched
      /\ d.state = c.state
  BY <1>1 DEF ControllerState
<1> HIDE DEF d
<1>8. Good(d)
  <2>1. \A ax \in Axes : Dormant(c.axes[ax]) => Dormant(d.axes[ax])
    BY <1>2, <1>7 DEF Dormant, Alike
  <2>2. \A ax \in Axes : /\ d.axes[ax].moving = c.axes[ax].moving
                         /\ d.axes[ax].fault = c.axes[ax].fault
                         /\ Fit(d.axes[ax])
    BY <1>2, <1>7 DEF Alike
  <2> QED BY <1>6, <1>7, <2>1, <2>2 DEF Good, Sound, Honest
<1>9. \A ax \in Axes : /\ Alike(c.axes[ax], d.axes[ax])
                       /\ Serves(c.axes[ax], d.axes[ax])
  BY <1>2, <1>7 DEF Serves, Alike, SameOrder
<1>10. c.latched \in BOOLEAN
  BY <1>1, Fields
<1> QED BY <1>4, <1>7, <1>8, <1>9, <1>10 DEF Served

\* Both ends of a pulse.
Pulsed(c, ax) ==
  {[c EXCEPT !.axes[ax].armed = FALSE, !.axes[ax].completed = @ + 1],
   [c EXCEPT !.axes[ax].armed = FALSE, !.axes[ax].schedFault = TRUE]}

\* Neither is to be seen before service() has counted it.
LEMMA PulseServed ==
  ASSUME NEW c, Good(c), NEW ax \in Axes, c.axes[ax].armed,
         NEW d \in Pulsed(c, ax)
  PROVE  /\ Served(c, d) /\ d.latched = c.latched
         /\ \A x \in Axes : Alike(c.axes[x], d.axes[x])
         /\ d.state = c.state
<1> DEFINE a == c.axes[ax]
           done == [a EXCEPT !.armed = FALSE, !.completed = a.completed + 1]
           failed == [a EXCEPT !.armed = FALSE, !.schedFault = TRUE]
<1>1. /\ c \in ControllerState /\ c.axes \in [Axes -> AxisState]
      /\ \A x \in Axes : Fit(c.axes[x])
      /\ c.latched \in BOOLEAN
  BY Fields DEF Good, Sound
<1>2. PICK b \in {done, failed} : d = WithAxis(c, ax, b)
  <2>1. CASE d = [c EXCEPT !.axes[ax].armed = FALSE,
                           !.axes[ax].completed = @ + 1]
    <3>1. d = WithAxis(c, ax, done)
      BY <1>1, <2>1 DEF WithAxis, ControllerState, AxisState
    <3> QED BY <3>1
  <2>2. CASE d = [c EXCEPT !.axes[ax].armed = FALSE,
                           !.axes[ax].schedFault = TRUE]
    <3>1. d = WithAxis(c, ax, failed)
      BY <1>1, <2>2 DEF WithAxis, ControllerState, AxisState
    <3> QED BY <3>1
  <2> QED BY <2>1, <2>2 DEF Pulsed
<1>3. Fit(b) /\ Alike(a, b) /\ b.fault = a.fault /\ ~Resting(a)
  BY <1>1, <1>2, PulseAlike
<1> HIDE DEF a, done, failed
<1>4. /\ d \in ControllerState /\ d.axes = [c.axes EXCEPT ![ax] = b]
      /\ d.initialized = c.initialized /\ d.coordinated = c.coordinated
      /\ d.latched = c.latched /\ d.state = c.state
  <2> b \in AxisState /\ c \in ControllerState
    BY <1>1, <1>3 DEF Fit
  <2>1. d \in ControllerState
    BY <1>2, WithAxisFields
  <2>2. d.axes = [c.axes EXCEPT ![ax] = b]
    BY <1>2, WithAxisFields
  <2>3. d.initialized = c.initialized /\ d.coordinated = c.coordinated
    BY <1>2, WithAxisFields
  <2>4. d.latched = c.latched /\ d.state = c.state
    BY <1>2, WithAxisFields
  <2> QED BY <2>1, <2>2, <2>3, <2>4
<1>5. ASSUME NEW x \in Axes
      PROVE  /\ Fit(d.axes[x]) /\ Alike(c.axes[x], d.axes[x])
             /\ d.axes[x].fault = c.axes[x].fault
             /\ Dormant(c.axes[x]) => x # ax
             /\ x # ax => d.axes[x] = c.axes[x]
  <2>1. CASE x = ax
    <3>1. d.axes[x] = b
      BY <1>1, <1>4, <2>1
    <3> QED BY <1>3, <2>1, <3>1 DEF Dormant, a
  <2>2. CASE x # ax
    <3>1. d.axes[x] = c.axes[x]
      BY <1>1, <1>4, <2>2
    <3> QED BY <1>1, <2>2, <3>1, NothingHappens
  <2> QED BY <2>1, <2>2
<1>6. Good(d)
  <2>1. \A x \in Axes : d.axes[x].moving = c.axes[x].moving
    BY <1>5 DEF Alike
  <2>2. \A x \in Axes : Dormant(c.axes[x]) => Dormant(d.axes[x])
    BY <1>5
  <2> QED BY <1>4, <1>5, <2>1, <2>2 DEF Good, Sound, Honest
<1>7. \A x \in Axes : Serves(c.axes[x], d.axes[x])
  BY <1>5 DEF Serves, Alike, SameOrder
<1> QED BY <1>1, <1>4, <1>5, <1>6, <1>7 DEF Served

\* A coordinated move that one axis breaks off is at an end for both.
EndsTogether(c, d) ==
  \A ax \in Axes :
    /\ c.coordinated /\ c.axes[ax].purpose = "normal"
    /\ c.axes[ax].moving /\ ~d.axes[ax].moving
    /\ d.axes[ax].lastCompleted # c.axes[ax].activeId
    => ~AnyMoving(d)

\* service_diagnostics()
LEMMA DiagnoseAllServed ==
  ASSUME NEW c, Good(c), NEW readings \in [Axes -> Readings]
  PROVE  LET d == DiagnoseAll(c, readings)
         IN  /\ Served(c, d) /\ EndsTogether(c, d) /\ d.latched = c.latched
             /\ d.state = c.state \/ Current(d)
<1> DEFINE axes == [ax \in Axes |-> ServiceDiagnostics(c.axes[ax], readings[ax])]
           e == [c EXCEPT !.axes = axes]
           d == DiagnoseAll(c, readings)
<1>1. /\ c \in ControllerState /\ c.axes \in [Axes -> AxisState]
      /\ \A ax \in Axes : Fit(c.axes[ax])
      /\ c.latched \in BOOLEAN
  BY Fields DEF Good, Sound
<1>2. \/ d = c
      \/ /\ c.initialized /\ ~c.latched /\ ~AnyMoving(c)
         /\ d = Synchronize(e)
  BY DEF DiagnoseAll
<1> SUFFICES /\ Served(c, d) /\ EndsTogether(c, d) /\ d.latched = c.latched
             /\ d.state = c.state \/ Current(d)
  OBVIOUS
<1> HIDE DEF d
<1>3. CASE d = c
  <2>1. \A ax \in Axes : /\ Alike(c.axes[ax], d.axes[ax])
                         /\ Serves(c.axes[ax], d.axes[ax])
    BY <1>3, NothingHappens DEF Serves
  <2> QED BY <1>1, <1>3, <2>1 DEF Served, EndsTogether
<1>4. CASE /\ c.initialized /\ ~c.latched /\ ~AnyMoving(c)
           /\ d = Synchronize(e)
  <2>1. ASSUME NEW ax \in Axes
        PROVE  /\ ~c.axes[ax].moving /\ Fit(axes[ax])
               /\ Alike(c.axes[ax], axes[ax]) \/ Broken(c.axes[ax], axes[ax])
    <3>1. ~c.axes[ax].moving
      BY <1>4 DEF AnyMoving
    <3> QED BY <1>1, <3>1, DiagnosticsBreak
  <2>2. axes \in [Axes -> AxisState]
    BY <2>1 DEF Fit
  <2> HIDE DEF axes
  <2>3. e \in ControllerState
    BY <1>1, <2>2, ZenonT(60) DEF ControllerState
  <2>4. /\ e.axes = axes /\ e.initialized = c.initialized
        /\ e.latched = c.latched
    BY <1>1 DEF ControllerState
  <2> HIDE DEF e
  <2>5. Sound(e)
    BY <1>4, <2>1, <2>3, <2>4 DEF Sound
  <2>6. /\ Good(d) /\ Current(d) /\ d.axes = axes
        /\ d.initialized = c.initialized /\ d.latched = c.latched
    BY <1>4, <2>4, <2>5, SynchronizeGood
  <2>7. \A ax \in Axes : Serves(c.axes[ax], d.axes[ax])
    BY <2>1, <2>6 DEF Serves, Alike, Broken, SameOrder, ComesToRest
  <2> QED BY <1>4, <2>1, <2>6, <2>7 DEF Served, EndsTogether
<1> QED BY <1>2, <1>3, <1>4

\* The end of a coordinated move leaves an axis alone or halts it.  What is
\* not halted has not failed, if it was to be carried out together.
LEMMA CoordinateFields ==
  ASSUME NEW c \in ControllerState, \A ax \in Axes : Fit(c.axes[ax])
  PROVE  LET d == Coordinate(c)
         IN  /\ d \in ControllerState
             /\ d.initialized = c.initialized /\ d.latched = c.latched
             /\ c.latched /\ ~c.coordinated => d = c
             /\ \/ /\ d.axes = c.axes
                   /\ \/ ~c.coordinated \/ ~AnyMoving(c)
                      \/ \A ax \in Axes : c.axes[ax].fault \notin SharedFaults
                \/ d.axes = [ax \in Axes |-> Stop(c.axes[ax])]
<1> DEFINE halted == [ax \in Axes |-> Stop(c.axes[ax])]
           broken == Parted(c, halted, "driver_critical")
           ended == Parted(c, c.axes, "none")
           d == Coordinate(c)
<1>1. c.axes \in [Axes -> AxisState] /\ halted \in [Axes -> AxisState]
  <2>1. \A ax \in Axes : Stop(c.axes[ax]) \in AxisState
    BY StopHalts DEF Fit
  <2> QED BY <2>1, Fields
<1>2. \/ d = c /\ ~c.coordinated
      \/ c.coordinated /\ d = broken
      \/ c.coordinated /\ ~AnyMoving(c) /\ d = ended
      \/ /\ c.coordinated /\ d = c
         /\ \A ax \in Axes : c.axes[ax].fault \notin SharedFaults
  <2>1. [c EXCEPT !.axes = halted, !.state.fault = "driver_critical",
                  !.coordinated = FALSE] = broken
    <3> HIDE DEF halted
    <3> QED BY DEF Parted, ControllerState
  <2>2. [c EXCEPT !.state.fault = "none", !.coordinated = FALSE] = ended
    BY DEF Parted, ControllerState
  <2> HIDE DEF broken, ended
  <2> QED BY <2>1, <2>2, Zenon DEF Coordinate
<1> SUFFICES
      /\ d \in ControllerState
      /\ d.initialized = c.initialized /\ d.latched = c.latched
      /\ c.latched /\ ~c.coordinated => d = c
      /\ \/ /\ d.axes = c.axes
            /\ \/ ~c.coordinated \/ ~AnyMoving(c)
               \/ \A ax \in Axes : c.axes[ax].fault \notin SharedFaults
         \/ d.axes = halted
  OBVIOUS
<1> HIDE DEF d, halted
<1>3. /\ broken \in ControllerState /\ broken.axes = halted
      /\ broken.initialized = c.initialized /\ broken.latched = c.latched
  <2> DEFINE fault == "driver_critical"
  <2>1. broken = Parted(c, halted, fault)
    OBVIOUS
  <2> fault \in Faults
    BY DEF Faults, AxisFaults
  <2> HIDE DEF fault, broken
  <2>2. broken \in ControllerState /\ broken.axes = halted
    BY <1>1, <2>1, PartedFields
  <2>3. broken.initialized = c.initialized /\ broken.latched = c.latched
    BY <1>1, <2>1, PartedFields
  <2> QED BY <2>2, <2>3
<1>4. /\ ended \in ControllerState /\ ended.axes = c.axes
      /\ ended.initialized = c.initialized /\ ended.latched = c.latched
  <2> DEFINE fault == "none"
             axes == c.axes
  <2>1. ended = Parted(c, axes, fault)
    OBVIOUS
  <2> fault \in Faults /\ axes \in [Axes -> AxisState]
    BY <1>1 DEF Faults, AxisFaults
  <2> HIDE DEF fault, ended, axes
  <2>2. ended \in ControllerState /\ ended.axes = axes
    BY <2>1, PartedFields
  <2>3. ended.initialized = c.initialized /\ ended.latched = c.latched
    BY <2>1, PartedFields
  <2> QED BY <2>2, <2>3 DEF axes
<1> HIDE DEF broken, ended
<1> QED BY <1>2, <1>3, <1>4

\* service()
LEMMA ServiceAllServed ==
  ASSUME NEW c, Good(c), NEW pushed \in BOOLEAN,
         NEW raw \in [Axes -> BOOLEAN], NEW armOk \in [Axes -> BOOLEAN]
  PROVE  LET d == ServiceAll(c, pushed, raw, armOk)
         IN  /\ Served(c, d) /\ EndsTogether(c, d) /\ Current(d)
             /\ c.latched => d.latched
<1> DEFINE seen == UpdateEmergency(c, pushed)
           axes == [ax \in Axes |-> Service(c.axes[ax], raw[ax], armOk[ax])]
           e == [seen EXCEPT !.axes = axes]
           f == Coordinate(e)
           d == ServiceAll(c, pushed, raw, armOk)
<1>1. /\ c \in ControllerState /\ c.axes \in [Axes -> AxisState]
      /\ \A ax \in Axes : Fit(c.axes[ax])
      /\ c.latched \in BOOLEAN /\ c.coordinated \in BOOLEAN
      /\ c.initialized \in BOOLEAN
  BY Fields DEF Good, Sound
<1>2. /\ seen \in ControllerState /\ seen.axes = c.axes
      /\ seen.initialized = c.initialized /\ seen.coordinated = c.coordinated
      /\ seen.latched = c.latched
  <2>1. seen \in ControllerState /\ seen.axes = c.axes
    BY <1>1, UpdateEmergencyFields
  <2>2. seen.initialized = c.initialized /\ seen.latched = c.latched
    BY <1>1, UpdateEmergencyFields
  <2>3. seen.coordinated = c.coordinated
    BY <1>1, UpdateEmergencyFields
  <2> QED BY <2>1, <2>2, <2>3
<1>3. ASSUME NEW ax \in Axes
      PROVE  /\ Fit(axes[ax])
             /\ Serves(c.axes[ax], axes[ax]) /\ Explained(c.axes[ax], axes[ax])
             /\ Dormant(c.axes[ax]) =>
                  Dormant(axes[ax]) /\ Alike(c.axes[ax], axes[ax])
  <2> DEFINE a == c.axes[ax]
             b == axes[ax]
  <2>1. /\ Fit(b) /\ Serves(a, b) /\ Explained(a, b)
        /\ Resting(a) => Resting(b)
    BY <1>1, ServiceServes
  <2>2. Fit(a)
    BY <1>1
  <2> HIDE DEF a, b
  <2>3. Dormant(a) => Dormant(b) /\ Alike(a, b)
    BY <2>1, <2>2, StaysDormant DEF Dormant
  <2> QED BY <2>1, <2>3 DEF a, b
<1>4. \/ seen.input.stable /\ ~c.latched /\ d = EmergencyStopAll(seen).ctl
      \/ d = Synchronize(f)
  BY ZenonT(60) DEF ServiceAll
<1> SUFFICES /\ Served(c, d) /\ EndsTogether(c, d) /\ Current(d)
             /\ c.latched => d.latched
  OBVIOUS
<1> HIDE DEF d, seen
<1>5. CASE ~c.latched /\ d = EmergencyStopAll(seen).ctl
  <2>1. /\ Good(d) /\ Current(d)
        /\ d.initialized = seen.initialized /\ d.latched
        /\ \A ax \in Axes : Broken(seen.axes[ax], d.axes[ax])
    BY <1>2, <1>5, EmergencyStopAllFields
  <2>2. ~AnyMoving(d)
    BY <2>1 DEF AnyMoving, Broken
  <2> QED BY <1>2, <1>5, <2>1, <2>2 DEF Served, EndsTogether
<1>6. CASE d = Synchronize(f)
  <2>1. axes \in [Axes -> AxisState]
    BY <1>3 DEF Fit
  <2> HIDE DEF axes
  <2>2. e \in ControllerState
    BY <1>2, <2>1, ZenonT(60) DEF ControllerState
  <2>3. /\ e.axes = axes /\ e.initialized = c.initialized
        /\ e.latched = c.latched /\ e.coordinated = c.coordinated
    BY <1>2 DEF ControllerState
  <2> HIDE DEF e
  <2>4. /\ f \in ControllerState
        /\ f.initialized = e.initialized /\ f.latched = e.latched
        /\ e.latched /\ ~e.coordinated => f = e
    BY <1>3, <2>2, <2>3, CoordinateFields
  <2>5. \/ /\ f.axes = axes
           /\ \/ ~c.coordinated \/ ~AnyMoving(e)
              \/ \A ax \in Axes : axes[ax].fault \notin SharedFaults
        \/ f.axes = [ax \in Axes |-> Stop(axes[ax])]
    <3>1. \/ /\ f.axes = e.axes
             /\ \/ ~e.coordinated \/ ~AnyMoving(e)
                \/ \A ax \in Axes : e.axes[ax].fault \notin SharedFaults
          \/ f.axes = [ax \in Axes |-> Stop(e.axes[ax])]
      BY <1>3, <2>2, <2>3, CoordinateFields
    <3> QED BY <2>3, <3>1
  <2> HIDE DEF f
  <2>6. ASSUME NEW ax \in Axes
        PROVE  /\ Fit(f.axes[ax]) /\ Serves(c.axes[ax], f.axes[ax])
               /\ Dormant(c.axes[ax]) =>
                    Dormant(f.axes[ax]) /\ Alike(c.axes[ax], f.axes[ax])
    <3> DEFINE a == c.axes[ax]
               b == axes[ax]
               x == Stop(b)
    <3>1. /\ Fit(b) /\ Serves(a, b)
          /\ Dormant(a) => Dormant(b) /\ Alike(a, b)
      BY <1>3
    <3>2. /\ Fit(x) /\ Halted(b, x)
          /\ Resting(b) => Resting(x)
      BY <3>1, StopHalts
    <3>3. f.axes[ax] = b \/ f.axes[ax] = x
      BY <2>5
    <3> HIDE DEF a, b, x
    <3>4. Dormant(b) => Dormant(x) /\ Alike(b, x)
      BY <3>1, <3>2, StaysDormant DEF Dormant
    <3>5. Serves(a, x)
      <4>1. Homing(x) => ~x.trusted
        BY <3>2 DEF Fit, Sane, TrustPart, Homing, LivePhases
      <4>2. CASE Alike(a, b)
        BY <3>2, <4>1, <4>2 DEF Serves, Halted, ComesToRest, Alike, SameOrder
      <4>3. CASE GoesOn(a, b) /\ b.activeId = a.activeId
        BY <3>2, <4>1, <4>3 DEF Serves, Halted, GoesOn, ComesToRest, SameOrder
      <4>4. CASE ComesToRest(a, b) /\ b.activeId = a.activeId
        BY <3>2, <4>1, <4>4 DEF Serves, Halted, ComesToRest, SameOrder
      <4> QED BY <3>1, <4>2, <4>3, <4>4 DEF Serves
    <3>6. Alike(a, b) /\ Alike(b, x) => Alike(a, x)
      BY DEF Alike, SameOrder
    <3> QED BY <3>1, <3>2, <3>3, <3>4, <3>5, <3>6 DEF a
  <2>7. Sound(f)
    <3>1. f.latched => ~f.coordinated
      BY <2>3, <2>4 DEF Good, Sound
    <3>2. f.latched \/ ~f.initialized => \A ax \in Axes : Dormant(f.axes[ax])
      BY <2>3, <2>4, <2>6 DEF Good, Sound
    <3> QED BY <2>4, <2>6, <3>1, <3>2 DEF Sound
  <2>8. /\ Good(d) /\ Current(d) /\ d.axes = f.axes
        /\ d.initialized = c.initialized /\ d.latched = c.latched
    BY <1>6, <2>3, <2>4, <2>7, SynchronizeGood
  <2>9. Served(c, d)
    <3>1. c.latched => \A ax \in Axes : Alike(c.axes[ax], d.axes[ax])
      BY <2>6, <2>8 DEF Good, Sound
    <3> QED BY <1>1, <2>6, <2>8, <3>1 DEF Served
  <2>10. EndsTogether(c, d)
    <3> SUFFICES ASSUME NEW ax \in Axes,
                        c.coordinated, c.axes[ax].purpose = "normal",
                        c.axes[ax].moving, ~d.axes[ax].moving,
                        d.axes[ax].lastCompleted # c.axes[ax].activeId
                 PROVE  ~AnyMoving(d)
      BY DEF EndsTogether
    <3>1. CASE f.axes = [x \in Axes |-> Stop(axes[x])]
      <4>1. \A x \in Axes : ~Stop(axes[x]).moving
        BY <1>3, StopHalts DEF Halted
      <4> QED BY <2>8, <3>1, <4>1 DEF AnyMoving
    <3>2. CASE f.axes = axes /\ ~AnyMoving(e)
      BY <2>3, <2>8, <3>2 DEF AnyMoving
    <3>3. CASE /\ f.axes = axes
               /\ \A x \in Axes : axes[x].fault \notin SharedFaults
      <4>1. axes[ax].fault \in ShortFaults
        BY <1>3, <2>8, <3>3 DEF Explained
      <4> QED BY <3>3, <4>1 DEF ShortFaults, SharedFaults
    <3> QED BY <2>5, <3>1, <3>2, <3>3
  <2> QED BY <2>8, <2>9, <2>10
<1> QED BY <1>4, <1>5, <1>6

-----------------------------------------------------------------------------
(* Power-on *)

\* An axis as initialize() leaves it.
LEMMA StartupAxisFit ==
  ASSUME NEW startup \in Startups, NEW raw \in BOOLEAN
  PROVE  LET a == StartupAxis(startup, raw)
         IN  /\ Fit(a) /\ Dormant(a) /\ ~a.moving
             /\ a.activeId = 0 /\ a.lastCompleted = 0
<1> DEFINE a == StartupAxis(startup, raw)
<1>1. StartMicrosteps \in MicrostepChoices
  BY ConfigAssumption
<1>2. StartupFault(startup) \in AxisFaults
  BY DEF StartupFault, Startups, AxisFaults
<1>3. a.status \in Readings
  BY DEF StartupAxis, Readings
<1>4. a \in AxisState
  BY <1>1, <1>2, <1>3, Zeros DEF StartupAxis, AxisState, Purposes,
     TrustLosses, Phases
<1>5. /\ ~a.moving /\ ~a.outputs /\ ~a.trusted /\ ~a.enabled /\ ~a.homed
      /\ a.phase = "idle" /\ a.lossReason = "startup"
      /\ ~a.armed /\ ~a.stepHigh
      /\ a.activeId = 0 /\ a.lastCompleted = 0
  BY DEF StartupAxis
<1> HIDE DEF a
<1>6. Fit(a)
  BY <1>4, <1>5 DEF Fit, Sane, TrustPart, PowerPart, PulsePart, AheadPart,
        DrivenPart, NormalPart
<1>7. Dormant(a)
  BY <1>5 DEF Dormant, Resting, LivePhases
<1> QED BY <1>5, <1>6, <1>7 DEF a

\* Both axes stand still, have done order n last, and STATUS is fresh.
AtRest(c, n) ==
  \A ax \in Axes : /\ c.axes[ax].activeId = n /\ c.axes[ax].lastCompleted = n
                   /\ ~c.axes[ax].moving /\ ~Homing(c.axes[ax])
                   /\ c.state.axes[ax] = Seen(c.axes[ax])

\* initialize(), however the axes come up and whatever the emergency input is.
LEMMA StartupGood ==
  ASSUME NEW startups \in [Axes -> Startups], NEW pushed \in BOOLEAN,
         NEW raw \in [Axes -> BOOLEAN]
  PROVE  LET d == StartupController(startups, pushed, raw)
         IN  /\ Good(d) /\ AtRest(d, 0)
             /\ (\A ax \in Axes : startups[ax] = "ready") /\ ~pushed
                  => d.initialized /\ ~d.latched
<1> DEFINE ready == \A ax \in Axes : startups[ax] = "ready"
           gpioOk == \A ax \in Axes : startups[ax] # "unvisited"
           axes == [ax \in Axes |-> StartupAxis(startups[ax], raw[ax])]
           input == [known |-> FALSE, candidate |-> FALSE, stable |-> FALSE,
                     age |-> 0]
           state == [axes |-> [ax \in Axes |-> Seen(axes[ax])],
                     fault |-> "none", stopped |-> FALSE, estop |-> FALSE]
           off == [axes |-> axes, initialized |-> ready,
                   coordinated |-> FALSE, latched |-> FALSE,
                   input |-> input, state |-> state]
           polled == UpdateEmergency(off, pushed)
           seen == Synchronize(polled)
           failed == ReportFault(seen, "driver_communication")
           up == IF ready THEN seen ELSE failed
           unmapped == ReportFault(off, "invalid_configuration")
           d == StartupController(startups, pushed, raw)
<1>1. ASSUME NEW ax \in Axes
      PROVE  /\ Fit(axes[ax]) /\ Dormant(axes[ax])
             /\ ~axes[ax].moving /\ ~Homing(axes[ax])
             /\ axes[ax].activeId = 0 /\ axes[ax].lastCompleted = 0
  BY StartupAxisFit DEF Dormant, Resting, Homing
<1>2. axes \in [Axes -> AxisState]
  BY <1>1 DEF Fit
<1>3. input \in Input /\ ~input.known
  BY EmergencyAssumption DEF Input
<1>4. state \in Reported
  <2> HIDE DEF axes
  <2>1. ASSUME NEW a \in AxisState PROVE Seen(a) \in SeenAxis
    BY ZenonT(60) DEF Seen, SeenAxis, AxisState
  <2>2. [ax \in Axes |-> Seen(axes[ax])] \in [Axes -> SeenAxis]
    BY <1>2, <2>1
  <2>3. "none" \in Faults
    BY DEF Faults, AxisFaults
  <2> QED BY <2>2, <2>3 DEF Reported
<1>5. d = IF ~gpioOk THEN unmapped
          ELSE IF up.input.stable THEN EmergencyStopAll(up).ctl
          ELSE up
  BY ZenonT(60) DEF StartupController
<1>0. state.axes = [ax \in Axes |-> Seen(axes[ax])]
  OBVIOUS
<1> SUFFICES /\ Good(d) /\ AtRest(d, 0)
             /\ ready /\ ~pushed => d.initialized /\ ~d.latched
  OBVIOUS
<1> HIDE DEF d, axes, input, state
<1>6. ready \in BOOLEAN /\ (ready => gpioOk)
  BY DEF Axes
<1> HIDE DEF ready, gpioOk
<1>7. /\ off \in ControllerState /\ off.axes = axes
      /\ off.initialized = ready /\ off.coordinated = FALSE
      /\ off.latched = FALSE /\ off.input = input /\ off.state = state
  <2>1. off \in ControllerState
    BY <1>2, <1>3, <1>4, <1>6, ZenonT(60) DEF ControllerState
  <2>2. /\ off.axes = axes /\ off.initialized = ready
        /\ off.coordinated = FALSE /\ off.latched = FALSE
        /\ off.input = input /\ off.state = state
    OBVIOUS
  <2> QED BY <2>1, <2>2
<1> HIDE DEF off
<1>8. CASE ~gpioOk
  <2> DEFINE fault == "invalid_configuration"
             x == ReportFault(off, fault)
  <2>1. fault \in Faults /\ fault # "none"
    BY DEF Faults, AxisFaults
  <2>2. d = x
    BY <1>5, <1>8
  <2> HIDE DEF fault
  <2> off \in ControllerState
    BY <1>7
  <2> fault \in Faults
    BY <2>1
  <2>3. x \in ControllerState /\ x.axes = off.axes
    BY ReportFaultFields
  <2>4. /\ x.initialized = off.initialized /\ x.latched = off.latched
        /\ x.coordinated = off.coordinated
    BY ReportFaultFields
  <2>5. x.state.fault = fault /\ x.state.axes = off.state.axes
    BY ReportFaultFields
  <2> HIDE DEF x
  <2>6. Good(x)
    BY <1>1, <1>7, <2>1, <2>3, <2>4, <2>5 DEF Good, Sound, Honest
  <2>7. AtRest(x, 0)
    BY <1>0, <1>1, <1>7, <2>3, <2>5 DEF AtRest
  <2> QED BY <1>1, <1>6, <1>7, <1>8, <2>2, <2>3, <2>6, <2>7
<1>9. /\ polled \in ControllerState /\ polled.axes = axes
      /\ polled.initialized = ready /\ polled.coordinated = FALSE
      /\ polled.latched = FALSE
      /\ polled.input.stable = pushed
  <2> off \in ControllerState
    BY <1>7
  <2>1. polled \in ControllerState /\ polled.axes = off.axes
    BY UpdateEmergencyFields
  <2>2. /\ polled.initialized = off.initialized
        /\ polled.coordinated = off.coordinated
        /\ polled.latched = off.latched
    BY UpdateEmergencyFields
  <2>3. ~off.input.known => polled.input.stable = pushed
    BY UpdateEmergencyFields
  <2> QED BY <1>3, <1>7, <2>1, <2>2, <2>3
<1> HIDE DEF polled
<1>10. /\ Good(seen) /\ Current(seen) /\ seen.axes = axes
       /\ seen.initialized = ready
       /\ seen.latched = FALSE
       /\ seen.input.stable = pushed
  <2>1. Sound(polled)
    BY <1>1, <1>9 DEF Sound
  <2>2. /\ Good(seen) /\ Current(seen) /\ seen.axes = polled.axes
        /\ seen.initialized = polled.initialized
        /\ seen.latched = polled.latched
    BY <2>1, SynchronizeGood
  <2>3. seen.input = polled.input
    BY <1>9, SynchronizeFields
  <2> QED BY <1>9, <2>2, <2>3
<1> HIDE DEF seen
<1>11. /\ Good(up) /\ up.axes = axes /\ up.state.axes = seen.state.axes
       /\ ready => up = seen
  <2> DEFINE fault == "driver_communication"
  <2>1. Reject(seen, fault).ctl = ReportFault(seen, fault)
    BY DEF Reject
  <2>2. fault \in Faults \ {"none"}
    BY DEF Faults, AxisFaults
  <2>3. up = seen \/ (~ready /\ up = ReportFault(seen, fault))
    OBVIOUS
  <2> HIDE DEF fault, up
  <2>4. Good(Reject(seen, fault).ctl) /\ Reject(seen, fault).ctl.axes = seen.axes
    <3>1. Sound(seen)
      BY <1>10 DEF Good
    <3> QED BY <1>10, <2>2, <3>1, RejectGood
  <2>5. ReportFault(seen, fault).state.axes = seen.state.axes
    <3>1. seen \in ControllerState /\ fault \in Faults
      BY <1>10, <2>2 DEF Good, Sound
    <3> QED BY <3>1, ReportFaultFields
  <2> QED BY <1>10, <2>1, <2>3, <2>4, <2>5
<1> HIDE DEF up
<1>12. CASE gpioOk /\ up.input.stable
  <2> DEFINE e == EmergencyStopAll(up).ctl
  <2>1. d = e
    BY <1>5, <1>12
  <2>2. up \in ControllerState
    BY <1>11 DEF Good, Sound
  <2>3. Good(e) /\ Current(e) /\ \A ax \in Axes : Broken(up.axes[ax], e.axes[ax])
    BY <2>2, EmergencyStopAllFields
  <2> HIDE DEF e
  <2>4. AtRest(e, 0)
    BY <1>1, <1>11, <2>3 DEF AtRest, Broken, SameOrder, Current
  <2> QED BY <1>10, <1>11, <1>12, <2>1, <2>3, <2>4
<1>13. CASE gpioOk /\ ~up.input.stable
  <2>1. d = up
    BY <1>5, <1>13
  <2>2. AtRest(up, 0)
    BY <1>1, <1>10, <1>11 DEF AtRest, Current
  <2> QED BY <1>10, <1>11, <2>1, <2>2
<1> QED BY <1>8, <1>12, <1>13

-----------------------------------------------------------------------------
(* The invariant *)

\* The inductive invariant.
IInv ==
  /\ TypeOK
  /\ Good(ctl)
  /\ Contract!Consistent

-----------------------------------------------------------------------------
(* What the contract sees of an axis *)

\* It is a Unit of the contract.
LEMMA ShownUnit ==
  ASSUME NEW a \in AxisState
  PROVE  LET u == Shown(a)
         IN  /\ u \in Contract!Unit
             /\ u.working = a.moving /\ u.homing = Homing(a)
             /\ u.trusted = a.trusted /\ u.enabled = a.enabled
             /\ u.order = a.activeId /\ u.done = a.lastCompleted
BY DEF Shown, Homing, AxisState, Contract!Unit

\* Two units that agree in all fields are the same.
LEMMA SameUnit ==
  ASSUME NEW u \in Contract!Unit, NEW v \in Contract!Unit,
         v.working = u.working, v.homing = u.homing, v.trusted = u.trusted,
         v.enabled = u.enabled, v.order = u.order, v.done = u.done
  PROVE  v = u
BY SMT DEF Contract!Unit

\* Nor does anything else tell apart two that agree but for enabled, once that
\* is set in both.
LEMMA EnabledUnit ==
  ASSUME NEW u \in Contract!Unit, NEW v \in Contract!Unit,
         v.working = u.working, v.homing = u.homing, v.trusted = u.trusted,
         v.enabled = TRUE, v.order = u.order, v.done = u.done
  PROVE  v = [u EXCEPT !.enabled = TRUE]
<1> DEFINE w == [u EXCEPT !.enabled = TRUE]
<1>1. /\ w \in Contract!Unit /\ w.working = u.working
      /\ w.homing = u.homing /\ w.trusted = u.trusted /\ w.enabled = TRUE
      /\ w.order = u.order /\ w.done = u.done
  BY Zenon DEF Contract!Unit
<1> HIDE DEF w
<1>2. v = w
  BY <1>1, SMT DEF Contract!Unit
<1> QED BY <1>2 DEF w

\* What an accepted command makes of an axis is what the contract allows,
LEMMA AcceptanceShown ==
  ASSUME NEW a \in AxisState, NEW b \in AxisState, NEW id,
         Acceptance(a, b, id)
  PROVE  LET u == Shown(a)  v == Shown(b)
         IN  \/ v = u
             \/ Contract!Rests(u, v)
             \/ Contract!SwitchedOn(u, v)
             \/ Contract!Begins(u, v, id)
             \/ Contract!DoesAtOnce(u, v, id)
<1> DEFINE u == Shown(a)
           v == Shown(b)
<1>1. /\ u \in Contract!Unit
      /\ u.working = a.moving /\ u.homing = Homing(a)
      /\ u.trusted = a.trusted /\ u.enabled = a.enabled
      /\ u.order = a.activeId /\ u.done = a.lastCompleted
  BY ShownUnit
<1>2. /\ v \in Contract!Unit
      /\ v.working = b.moving /\ v.homing = Homing(b)
      /\ v.trusted = b.trusted /\ v.enabled = b.enabled
      /\ v.order = b.activeId /\ v.done = b.lastCompleted
  BY ShownUnit
<1> SUFFICES \/ v = u
             \/ Contract!Rests(u, v)
             \/ Contract!SwitchedOn(u, v)
             \/ Contract!Begins(u, v, id)
             \/ Contract!DoesAtOnce(u, v, id)
  OBVIOUS
<1> HIDE DEF u, v
<1>3. CASE Alike(a, b)
  <2>1. v = u
    BY <1>1, <1>2, <1>3, SameUnit DEF Alike, SameOrder
  <2> QED BY <2>1
<1>4. CASE Halted(a, b) \/ Broken(a, b)
  BY <1>1, <1>2, <1>4
     DEF Halted, Broken, SameOrder, Contract!Rests, Contract!SameIds
<1>5. CASE TurnedOn(a, b)
  <2>1. v.enabled = TRUE
    BY <1>2, <1>5 DEF TurnedOn, Contract!Unit
  <2>2. /\ v.working = u.working /\ v.homing = u.homing
        /\ v.trusted = u.trusted /\ v.order = u.order /\ v.done = u.done
    BY <1>1, <1>2, <1>5 DEF TurnedOn, SameOrder
  <2>3. v = [u EXCEPT !.enabled = TRUE]
    BY <1>1, <1>2, <2>1, <2>2, EnabledUnit
  <2> QED BY <2>3, Zenon DEF Contract!SwitchedOn
<1>6. CASE Begun(a, b, id)
  BY <1>1, <1>2, <1>6 DEF Begun, Contract!Begins
<1>7. CASE DoneAtOnce(a, b, id)
  BY <1>1, <1>2, <1>7 DEF DoneAtOnce, Contract!DoesAtOnce
<1> QED BY <1>3, <1>4, <1>5, <1>6, <1>7 DEF Acceptance

\* so is what a refused one does: ids are handed out in order, and a homing
\* that is left to be gone on with has not done what it was told,
LEMMA RefusalShown ==
  ASSUME NEW a \in AxisState, NEW b \in AxisState, NEW id \in Nat,
         Refusal(a, b, id),
         Homing(a) => a.lastCompleted <= a.activeId, a.lastCompleted <= id
  PROVE  LET u == Shown(a)  v == Shown(b)
         IN  \/ v = u
             \/ Contract!Rests(u, v)
             \/ Contract!CalledOff(u, v, id)
<1> DEFINE u == Shown(a)
           v == Shown(b)
<1>1. /\ u \in Contract!Unit
      /\ u.working = a.moving /\ u.homing = Homing(a)
      /\ u.trusted = a.trusted /\ u.enabled = a.enabled
      /\ u.order = a.activeId /\ u.done = a.lastCompleted
  BY ShownUnit
<1>2. /\ v \in Contract!Unit
      /\ v.working = b.moving /\ v.homing = Homing(b)
      /\ v.trusted = b.trusted /\ v.enabled = b.enabled
      /\ v.order = b.activeId /\ v.done = b.lastCompleted
  BY ShownUnit
<1> SUFFICES \/ v = u
             \/ Contract!Rests(u, v)
             \/ Contract!CalledOff(u, v, id)
  OBVIOUS
<1> HIDE DEF u, v
<1>3. CASE Alike(a, b)
  <2>1. v = u
    BY <1>1, <1>2, <1>3, SameUnit DEF Alike, SameOrder
  <2> QED BY <2>1
<1>4. CASE Halted(a, b) \/ Broken(a, b)
  BY <1>1, <1>2, <1>4
     DEF Halted, Broken, SameOrder, Contract!Rests, Contract!SameIds
<1>5. CASE CalledOff(a, b, id)
  BY <1>1, <1>2, <1>5 DEF CalledOff, Contract!CalledOff
<1> QED BY <1>3, <1>4, <1>5 DEF Refusal

\* and so is what happens unasked.
LEMMA ServesShown ==
  ASSUME NEW a \in AxisState, NEW b \in AxisState, Serves(a, b)
  PROVE  LET u == Shown(a)  v == Shown(b)
         IN  \/ v = u
             \/ Contract!GoesOnHoming(u, v)
             \/ Contract!Ends(u, v)
<1> DEFINE u == Shown(a)
           v == Shown(b)
<1>1. /\ u \in Contract!Unit
      /\ u.working = a.moving /\ u.homing = Homing(a)
      /\ u.trusted = a.trusted /\ u.enabled = a.enabled
      /\ u.order = a.activeId /\ u.done = a.lastCompleted
  BY ShownUnit
<1>2. /\ v \in Contract!Unit
      /\ v.working = b.moving /\ v.homing = Homing(b)
      /\ v.trusted = b.trusted /\ v.enabled = b.enabled
      /\ v.order = b.activeId /\ v.done = b.lastCompleted
  BY ShownUnit
<1> SUFFICES \/ v = u
             \/ Contract!GoesOnHoming(u, v)
             \/ Contract!Ends(u, v)
  OBVIOUS
<1> HIDE DEF u, v
<1>3. CASE Alike(a, b)
  <2>1. v = u
    BY <1>1, <1>2, <1>3, SameUnit DEF Alike, SameOrder
  <2> QED BY <2>1
<1>4. CASE b.activeId = a.activeId /\ GoesOn(a, b)
  BY <1>1, <1>2, <1>4 DEF GoesOn, Contract!GoesOnHoming
<1>5. CASE b.activeId = a.activeId /\ ComesToRest(a, b)
  BY <1>1, <1>2, <1>5 DEF ComesToRest, Contract!Ends
<1> QED BY <1>3, <1>4, <1>5 DEF Serves

-----------------------------------------------------------------------------
(* The start *)

\* A good controller none of whose axes has an id beyond those handed out.
LEMMA StartConsistent ==
  ASSUME TypeOK, Good(ctl), AtRest(ctl, issued)
  PROVE  IInv
<1>1. /\ ctl.axes \in [Axes -> AxisState] /\ ctl.latched \in BOOLEAN
      /\ accepted \in BOOLEAN /\ issued \in Nat
  BY Fields DEF TypeOK
<1>2. ASSUME NEW ax \in Axes
      PROVE  /\ Shown(ctl.axes[ax]) \in Contract!Unit
             /\ Contract!Coherent(Shown(ctl.axes[ax]))
             /\ ctl.latched => /\ Contract!Dead(Shown(ctl.axes[ax]))
                               /\ ~Shown(ctl.axes[ax]).enabled
  <2> DEFINE a == ctl.axes[ax]
             u == Shown(a)
  <2>1. /\ u \in Contract!Unit
        /\ u.working = a.moving /\ u.homing = Homing(a)
        /\ u.trusted = a.trusted /\ u.enabled = a.enabled
        /\ u.order = a.activeId /\ u.done = a.lastCompleted
    BY <1>1, ShownUnit
  <2>2. /\ a.moving => a.enabled
        /\ Homing(a) => ~a.trusted
        /\ ctl.latched => Dormant(a)
    BY DEF Good, Sound, Fit, Sane, PowerPart, TrustPart, Homing, LivePhases
  <2>3. a.activeId = issued /\ a.lastCompleted = issued
    BY DEF AtRest
  <2> HIDE DEF a, u
  <2>4. Contract!Coherent(u)
    BY <1>1, <2>1, <2>2, <2>3 DEF Contract!Coherent
  <2>5. ctl.latched => Contract!Dead(u) /\ ~u.enabled
    BY <2>1, <2>2 DEF Dormant, Resting, Homing, Contract!Dead
  <2> QED BY <2>1, <2>4, <2>5 DEF u, a
<1> QED BY <1>1, <1>2 DEF IInv, Contract!Consistent

\* Power-on, and the state HOME BOTH leaves behind, are good and at rest.
LEMMA Starts ==
  ASSUME Init \/ HomedInit
  PROVE  TypeOK /\ Good(ctl) /\ AtRest(ctl, issued)
<1>1. ASSUME Init PROVE TypeOK /\ Good(ctl) /\ AtRest(ctl, issued)
  <2>1. PICK startups \in [Axes -> StartupKinds], raw \in SwitchLevels :
          ctl = StartupController(startups, pressed, raw)
    BY <1>1 DEF Init
  <2>2. /\ pressed \in BOOLEAN /\ startups \in [Axes -> Startups]
        /\ raw \in [Axes -> BOOLEAN]
    BY <1>1, CommandAssumption DEF Init
  <2>3. Good(ctl) /\ AtRest(ctl, 0)
    BY <2>1, <2>2, StartupGood
  <2>4. issued = 0 /\ accepted = TRUE
    BY <1>1 DEF Init
  <2>5. TypeOK
    BY <2>2, <2>3, <2>4 DEF TypeOK, Good, Sound
  <2> QED BY <2>3, <2>4, <2>5
<1>2. ASSUME HomedInit PROVE TypeOK /\ Good(ctl) /\ AtRest(ctl, issued)
  <2> DEFINE start == StartupAxis("ready", FALSE)
             home == HomeOffset * StartMicrosteps
             homed == HomedAxis
             axes == [ax \in Axes |-> homed]
             e == [Ready EXCEPT !.axes = axes]
  <2>1. Fit(start) /\ ~start.moving
    BY StartupAxisFit DEF Startups
  <2>2. home \in Int /\ HomeSide \in {-1, 0, 1}
    BY ConfigAssumption
  <2>3. homed = [start EXCEPT
                   !.position = home, !.target = home,
                   !.direction = HomeSide, !.activeId = 1,
                   !.lastCompleted = 1, !.trusted = TRUE, !.homed = TRUE,
                   !.lossReason = "none", !.enabled = TRUE,
                   !.outputs = TRUE, !.phase = "complete"]
    BY DEF HomedAxis
  <2> HIDE DEF homed, start, home
  <2>4. homed \in AxisState
    <3>1. start \in AxisState /\ "none" \in TrustLosses /\ "complete" \in Phases
      BY <2>1 DEF Fit, TrustLosses, Phases
    <3> QED BY <2>2, <2>3, <3>1, ZenonT(60) DEF AxisState
  <2>5. /\ ~homed.moving /\ homed.trusted /\ homed.homed
        /\ homed.lossReason = "none" /\ homed.enabled /\ homed.outputs
        /\ homed.phase = "complete" /\ homed.activeId = 1
        /\ homed.lastCompleted = 1
        /\ homed.armed = start.armed /\ homed.stepHigh = start.stepHigh
    <3>1. start \in AxisState
      BY <2>1 DEF Fit
    <3> QED BY <2>1, <2>3, <3>1, SMT DEF AxisState
  <2>6. Fit(homed)
    BY <2>1, <2>4, <2>5 DEF Fit, Sane, TrustPart, PowerPart, PulsePart,
          AheadPart, DrivenPart, NormalPart
  <2>7. Good(Ready) /\ Ready.initialized /\ ~Ready.latched
    <3> DEFINE startups == [ax \in Axes |-> "ready"]
               raw == [ax \in Axes |-> FALSE]
               pushed == FALSE
    <3>1. Ready = StartupController(startups, pushed, raw)
      BY DEF Ready
    <3>2. /\ startups \in [Axes -> Startups] /\ raw \in [Axes -> BOOLEAN]
          /\ \A ax \in Axes : startups[ax] = "ready"
          /\ pushed \in BOOLEAN /\ ~pushed
      BY DEF Startups
    <3> HIDE DEF startups, raw, pushed
    <3> QED BY <3>1, <3>2, StartupGood
  <2> HIDE DEF axes
  <2>8. axes \in [Axes -> AxisState] /\ \A ax \in Axes : axes[ax] = homed
    BY <2>4 DEF axes
  <2>9. /\ e \in ControllerState /\ e.axes = axes /\ e.initialized
        /\ ~e.latched
    <3>1. Ready \in ControllerState
      BY <2>7 DEF Good, Sound
    <3>2. e \in ControllerState
      BY <2>8, <3>1, ZenonT(60) DEF ControllerState
    <3> QED BY <2>7, <3>1, <3>2 DEF ControllerState
  <2>10. ctl = Synchronize(e) /\ pressed = FALSE /\ issued = 1
         /\ accepted = TRUE
    BY <1>2 DEF HomedInit, axes, homed
  <2> HIDE DEF e
  <2>11. Sound(e)
    BY <2>6, <2>8, <2>9 DEF Sound
  <2>12. Good(ctl) /\ Current(ctl) /\ ctl.axes = axes
    BY <2>9, <2>10, <2>11, SynchronizeGood
  <2>13. TypeOK
    BY <2>10, <2>12 DEF TypeOK, Good, Sound
  <2>14. \A ax \in Axes : ~Homing(ctl.axes[ax])
    BY <2>5, <2>8, <2>12 DEF Homing, LivePhases
  <2>15. AtRest(ctl, issued)
    BY <2>5, <2>8, <2>10, <2>12, <2>14 DEF AtRest, Current
  <2> QED BY <2>12, <2>13, <2>15
<1> QED BY <1>1, <1>2

\* So they satisfy the invariant.
LEMMA InitIInv == Init \/ HomedInit => IInv
BY Starts, StartConsistent

-----------------------------------------------------------------------------
(* The steps *)

\* A command that is handled as the lemmas about the handlers say.
LEMMA CommandStep ==
  ASSUME IInv, NEW outcome, Handle(outcome),
         Obeyed(ctl, outcome, issued + 1)
  PROVE  /\ TypeOK' /\ Good(ctl)'
         /\ Contract!ContractNext
<1> DEFINE u == [ax \in Axes |-> Shown(ctl.axes[ax])]
           v == [ax \in Axes |-> Shown(ctl'.axes[ax])]
<1>1. /\ issued' = issued + 1 /\ ctl' = outcome.ctl
      /\ accepted' = outcome.ok /\ pressed' = pressed
      /\ issued \in Nat /\ pressed \in BOOLEAN
  BY DEF Handle, IInv, TypeOK
<1>2. /\ Good(ctl') /\ ctl' \in ControllerState /\ accepted' \in BOOLEAN
  BY <1>1 DEF Obeyed, Answers, Good, Sound
<1>3. TypeOK' /\ Good(ctl)'
  BY <1>1, <1>2 DEF TypeOK
<1>4. ctl.axes \in [Axes -> AxisState] /\ ctl'.axes \in [Axes -> AxisState]
      /\ ctl.latched \in BOOLEAN /\ ctl'.latched \in BOOLEAN
  BY <1>2, Fields DEF IInv, TypeOK
<1>5. v \in [Axes -> Contract!Unit]
  BY <1>4, ShownUnit
<1>6. \/ /\ ~ctl.latched /\ ~ctl'.latched
         /\ \A ax \in Axes :
              IF accepted' THEN Acceptance(ctl.axes[ax], ctl'.axes[ax], issued')
                           ELSE Refusal(ctl.axes[ax], ctl'.axes[ax], issued')
      \/ ctl.latched /\ \A ax \in Axes : Alike(ctl.axes[ax], ctl'.axes[ax])
      \/ ctl'.latched /\ \A ax \in Axes : Broken(ctl.axes[ax], ctl'.axes[ax])
  BY <1>1 DEF Obeyed
<1>7. ASSUME NEW ax \in Axes
      PROVE  /\ Homing(ctl.axes[ax]) =>
                  ctl.axes[ax].lastCompleted <= ctl.axes[ax].activeId
             /\ ctl.axes[ax].lastCompleted <= issued'
  <2> DEFINE a == ctl.axes[ax]
             s == Shown(a)
  <2>1. Contract!Coherent(s)
    BY DEF IInv, Contract!Consistent
  <2>2. /\ s.homing = Homing(a) /\ s.order = a.activeId
        /\ s.done = a.lastCompleted
    BY <1>4, ShownUnit
  <2>3. a.lastCompleted \in Nat
    BY <1>4 DEF AxisState
  <2> HIDE DEF a, s
  <2>4. /\ Homing(a) => a.lastCompleted <= a.activeId
        /\ a.lastCompleted <= issued'
    BY <1>1, <2>1, <2>2, <2>3 DEF Contract!Coherent
  <2> QED BY <2>4 DEF a
<1>8. ASSUME NEW ax \in Axes
      PROVE  u[ax] = Shown(ctl.axes[ax]) /\ v[ax] = Shown(ctl'.axes[ax])
  OBVIOUS
<1> HIDE DEF u, v
<1>9. CASE /\ ~ctl.latched /\ ~ctl'.latched
           /\ \A ax \in Axes :
                IF accepted' THEN Acceptance(ctl.axes[ax], ctl'.axes[ax], issued')
                             ELSE Refusal(ctl.axes[ax], ctl'.axes[ax], issued')
  <2>1. CASE accepted'
    <3>1. ASSUME NEW ax \in Axes
          PROVE  \/ v[ax] = u[ax]
                 \/ Contract!Rests(u[ax], v[ax])
                 \/ Contract!SwitchedOn(u[ax], v[ax])
                 \/ Contract!Begins(u[ax], v[ax], issued')
                 \/ Contract!DoesAtOnce(u[ax], v[ax], issued')
      BY <1>4, <1>8, <1>9, <2>1, AcceptanceShown
    <3>2. /\ ~ctl.latched /\ ctl'.latched = ctl.latched /\ accepted' = TRUE
      BY <1>2, <1>4, <1>9, <2>1
    <3>3. Contract!Accept
      BY <1>1, <1>5, <3>1, <3>2, Zenon
         DEF Contract!Accept, Contract!Each, u, v
    <3> QED BY <1>3, <3>3 DEF Contract!ContractNext
  <2>2. CASE ~accepted'
    <3>1. ASSUME NEW ax \in Axes
          PROVE  \/ v[ax] = u[ax]
                 \/ Contract!Rests(u[ax], v[ax])
                 \/ Contract!CalledOff(u[ax], v[ax], issued')
      <4>1. issued' \in Nat /\ Refusal(ctl.axes[ax], ctl'.axes[ax], issued')
        BY <1>1, <1>9, <2>2
      <4> QED BY <1>4, <1>7, <1>8, <4>1, RefusalShown
    <3>2. /\ ~ctl.latched /\ ctl'.latched = ctl.latched /\ accepted' = FALSE
      BY <1>2, <1>4, <1>9, <2>2
    <3>3. Contract!Refuse
      BY <1>1, <1>5, <3>1, <3>2, Zenon
         DEF Contract!Refuse, Contract!Each, u, v
    <3> QED BY <1>3, <3>3 DEF Contract!ContractNext
  <2> QED BY <2>1, <2>2
<1>10. CASE ctl.latched /\ \A ax \in Axes : Alike(ctl.axes[ax], ctl'.axes[ax])
  <2>1. ASSUME NEW ax \in Axes PROVE v[ax] = u[ax]
    <3>1. Alike(ctl.axes[ax], ctl'.axes[ax])
      BY <1>10
    <3> QED BY <1>4, <1>8, <3>1, ShownUnit, SameUnit DEF Alike, SameOrder
  <2>2. v = u
    BY <2>1 DEF u, v
  <2>3. CASE ctl'.latched
    <3>1. ctl'.latched = ctl.latched /\ issued' \in {issued, issued + 1}
      BY <1>1, <1>4, <1>10, <2>3
    <3>2. Contract!StayLatched
      BY <1>2, <1>5, <1>10, <2>1, <3>1, Zenon
         DEF Contract!StayLatched, Contract!Each, u, v
    <3> QED BY <1>3, <3>2 DEF Contract!ContractNext
  <2>4. CASE ~ctl'.latched
    <3>1. ctl'.latched = FALSE
      BY <1>4, <2>4
    <3>2. Contract!Release
      BY <1>1, <1>2, <1>10, <2>2, <3>1, Zenon DEF Contract!Release, u, v
    <3> QED BY <1>3, <3>2 DEF Contract!ContractNext
  <2> QED BY <2>3, <2>4
<1>11. CASE ctl'.latched /\ \A ax \in Axes : Broken(ctl.axes[ax], ctl'.axes[ax])
  <2>1. ASSUME NEW ax \in Axes
        PROVE  /\ Contract!Dead(v[ax]) /\ ~v[ax].enabled
               /\ Contract!SameIds(u[ax], v[ax])
    <3>1. Broken(ctl.axes[ax], ctl'.axes[ax])
      BY <1>11
    <3> QED BY <1>4, <1>8, <3>1, ShownUnit
            DEF Broken, SameOrder, Contract!Dead, Contract!SameIds
  <2>2. ctl'.latched = TRUE /\ issued' \in {issued, issued + 1}
    BY <1>1, <1>4, <1>11
  <2>3. Contract!EmergencyStop
    BY <1>2, <1>5, <2>1, <2>2, Zenon
       DEF Contract!EmergencyStop, Contract!Each, u, v
  <2> QED BY <1>3, <2>3 DEF Contract!ContractNext
<1> QED BY <1>6, <1>9, <1>10, <1>11

\* What happens unasked.
LEMMA UnaskedStep ==
  ASSUME IInv, Unasked, Served(ctl, ctl')
  PROVE  Contract!ContractNext
<1> DEFINE u == [ax \in Axes |-> Shown(ctl.axes[ax])]
           v == [ax \in Axes |-> Shown(ctl'.axes[ax])]
<1>1. /\ issued' = issued /\ accepted' = TRUE /\ accepted' \in BOOLEAN
      /\ issued' \in {issued, issued + 1}
  BY DEF Unasked
<1>2. /\ ctl.axes \in [Axes -> AxisState] /\ ctl'.axes \in [Axes -> AxisState]
      /\ ctl.latched \in BOOLEAN /\ ctl'.latched \in BOOLEAN
  BY Fields DEF IInv, TypeOK, Served, Good, Sound
<1>3. v \in [Axes -> Contract!Unit]
  BY <1>2, ShownUnit
<1>4. ASSUME NEW ax \in Axes
      PROVE  u[ax] = Shown(ctl.axes[ax]) /\ v[ax] = Shown(ctl'.axes[ax])
  OBVIOUS
<1>5. \/ /\ ~ctl.latched /\ ~ctl'.latched
         /\ \A ax \in Axes : Serves(ctl.axes[ax], ctl'.axes[ax])
      \/ /\ ctl.latched /\ ctl'.latched
         /\ \A ax \in Axes : Alike(ctl.axes[ax], ctl'.axes[ax])
      \/ /\ ~ctl.latched /\ ctl'.latched
         /\ \A ax \in Axes : Broken(ctl.axes[ax], ctl'.axes[ax])
  BY DEF Served
<1> HIDE DEF u, v
<1>6. CASE /\ ~ctl.latched /\ ~ctl'.latched
           /\ \A ax \in Axes : Serves(ctl.axes[ax], ctl'.axes[ax])
  <2>1. ASSUME NEW ax \in Axes
        PROVE  \/ v[ax] = u[ax]
               \/ Contract!GoesOnHoming(u[ax], v[ax])
               \/ Contract!Ends(u[ax], v[ax])
    BY <1>2, <1>4, <1>6, ServesShown
  <2>2. ctl'.latched = ctl.latched
    BY <1>2, <1>6
  <2>3. Contract!Serve
    BY <1>1, <1>3, <1>6, <2>1, <2>2, Zenon
       DEF Contract!Serve, Contract!Each, u, v
  <2> QED BY <2>3 DEF Contract!ContractNext
<1>7. CASE /\ ctl.latched /\ ctl'.latched
           /\ \A ax \in Axes : Alike(ctl.axes[ax], ctl'.axes[ax])
  <2>1. ASSUME NEW ax \in Axes PROVE v[ax] = u[ax]
    <3>1. Alike(ctl.axes[ax], ctl'.axes[ax])
      BY <1>7
    <3> QED BY <1>2, <1>4, <3>1, ShownUnit, SameUnit DEF Alike, SameOrder
  <2>2. ctl'.latched = ctl.latched
    BY <1>2, <1>7
  <2>3. Contract!StayLatched
    BY <1>1, <1>3, <1>7, <2>1, <2>2, Zenon
       DEF Contract!StayLatched, Contract!Each, u, v
  <2> QED BY <2>3 DEF Contract!ContractNext
<1>8. CASE /\ ~ctl.latched /\ ctl'.latched
           /\ \A ax \in Axes : Broken(ctl.axes[ax], ctl'.axes[ax])
  <2>1. ASSUME NEW ax \in Axes
        PROVE  /\ Contract!Dead(v[ax]) /\ ~v[ax].enabled
               /\ Contract!SameIds(u[ax], v[ax])
    <3>1. Broken(ctl.axes[ax], ctl'.axes[ax])
      BY <1>8
    <3> QED BY <1>2, <1>4, <3>1, ShownUnit
            DEF Broken, SameOrder, Contract!Dead, Contract!SameIds
  <2>2. ctl'.latched = TRUE
    BY <1>2, <1>8
  <2>3. Contract!EmergencyStop
    BY <1>1, <1>3, <2>1, <2>2, Zenon
       DEF Contract!EmergencyStop, Contract!Each, u, v
  <2> QED BY <2>3 DEF Contract!ContractNext
<1> QED BY <1>5, <1>6, <1>7, <1>8

\* Every command is handled as the lemmas about the handlers say.
LEMMA CommandsObeyed ==
  ASSUME IInv, Commands
  PROVE  \E outcome : Handle(outcome) /\ Obeyed(ctl, outcome, issued + 1)
<1> DEFINE id == issued + 1
<1>1. Good(ctl) /\ id \in Nat /\ pressed \in BOOLEAN
  BY DEF IInv, TypeOK
<1>2. ArmChoices \subseteq [Axes -> BOOLEAN]
  BY DEF ArmChoices
<1>3. Selections = Axes \cup {"BOTH"}
  BY DEF Selections
<1> SUFFICES \E outcome : Handle(outcome) /\ Obeyed(ctl, outcome, id)
  OBVIOUS
<1> HIDE DEF id
<1>4. CASE HomeCommand
  <2>1. PICK selection \in Selections, raw \in SwitchLevels,
             armOk \in ArmChoices :
          Handle(HomeAxes(ctl, selection, raw, id, armOk))
    BY <1>4 DEF HomeCommand, id
  <2>2. raw \in [Axes -> BOOLEAN] /\ armOk \in [Axes -> BOOLEAN]
    BY <1>2, <2>1, CommandAssumption
  <2>3. Obeyed(ctl, HomeAxes(ctl, selection, raw, id, armOk), id)
    BY <1>1, <1>3, <2>1, <2>2, HomeAxesObeyed
  <2> QED BY <2>1, <2>3
<1>5. CASE MoveAbsoluteCommand
  <2>1. PICK angles \in Positions, speedOk \in BOOLEAN, armOk \in ArmChoices :
          Handle(MoveTo(ctl, angles, speedOk, id, armOk))
    BY <1>5 DEF MoveAbsoluteCommand, id
  <2>2. angles \in [Axes -> Int] /\ armOk \in [Axes -> BOOLEAN]
    BY <1>2, <2>1, CommandAssumption
  <2>3. Obeyed(ctl, MoveTo(ctl, angles, speedOk, id, armOk), id)
    BY <1>1, <2>1, <2>2, MoveToObeyed
  <2> QED BY <2>1, <2>3
<1>6. CASE MoveRelativeCommand
  <2>1. PICK selection \in Selections, delta \in Deltas,
             speedOk \in BOOLEAN, armOk \in ArmChoices :
          Handle(MoveBy(ctl, selection, delta, speedOk, id, armOk))
    BY <1>6 DEF MoveRelativeCommand, id
  <2>2. delta \in Int /\ armOk \in [Axes -> BOOLEAN]
    BY <1>2, <2>1, CommandAssumption
  <2>3. Obeyed(ctl, MoveBy(ctl, selection, delta, speedOk, id, armOk), id)
    BY <1>1, <1>3, <2>1, <2>2, MoveByObeyed
  <2> QED BY <2>1, <2>3
<1>7. CASE BenchCommand
  <2>1. PICK ax \in Axes, steps \in StepCounts, armOk \in ArmChoices :
          Handle(BenchAxis(ctl, ax, steps, id, armOk))
    BY <1>7 DEF BenchCommand, id
  <2>2. steps \in Int /\ armOk \in [Axes -> BOOLEAN]
    BY <1>2, <2>1, CommandAssumption
  <2>3. Obeyed(ctl, BenchAxis(ctl, ax, steps, id, armOk), id)
    BY <1>1, <2>1, <2>2, BenchAxisObeyed
  <2> QED BY <2>1, <2>3
<1>8. CASE StopAxisCommand
  BY <1>1, <1>8, StopAxisObeyed DEF StopAxisCommand
<1>9. CASE StopCommand
  BY <1>1, <1>9, StopAllObeyed DEF StopCommand
<1>10. CASE EmergencyStopCommand
  BY <1>1, <1>10, EmergencyStopObeyed DEF EmergencyStopCommand
<1>11. CASE ClearFaultCommand
  BY <1>1, <1>11, ClearFaultsObeyed DEF ClearFaultCommand
<1>12. CASE SetEnabledCommand
  BY <1>1, <1>12, SetAllEnabledObeyed DEF SetEnabledCommand
<1>13. CASE SetAxisEnabledCommand
  <2>1. PICK ax \in Axes, enabled \in BOOLEAN :
          Handle(SetAxisEnabled(ctl, ax, enabled))
    BY <1>13 DEF SetAxisEnabledCommand
  <2>2. StartMicrosteps \in MicrostepChoices /\ "lost" \in WriteResults
    BY ConfigAssumption DEF WriteResults
  <2>3. Obeyed(ctl, SetAxisEnabled(ctl, ax, enabled), id)
    BY <1>1, <2>1, <2>2, SetAxisObeyed
  <2> QED BY <2>1, <2>3
<1>14. CASE SetAxisCurrentCommand
  <2>1. PICK ax \in Axes, write \in WriteOutcomes :
          Handle(SetAxisCurrent(ctl, ax, write))
    BY <1>14 DEF SetAxisCurrentCommand
  <2>2. /\ StartMicrosteps \in MicrostepChoices /\ TRUE \in BOOLEAN
        /\ write \in WriteResults
    BY <2>1, ConfigAssumption, CommandAssumption
  <2>3. Obeyed(ctl, SetAxisCurrent(ctl, ax, write), id)
    BY <1>1, <2>1, <2>2, SetAxisObeyed
  <2> QED BY <2>1, <2>3
<1>15. CASE SetAxisMicrostepsCommand
  <2>1. PICK ax \in Axes, microsteps \in MicrostepChoices,
             write \in WriteOutcomes :
          Handle(SetAxisMicrosteps(ctl, ax, microsteps, write))
    BY <1>15 DEF SetAxisMicrostepsCommand
  <2>2. TRUE \in BOOLEAN /\ write \in WriteResults
    BY <2>1, CommandAssumption
  <2>3. Obeyed(ctl, SetAxisMicrosteps(ctl, ax, microsteps, write), id)
    BY <1>1, <2>1, <2>2, SetAxisObeyed
  <2> QED BY <2>1, <2>3
<1> QED BY <1>4, <1>5, <1>6, <1>7, <1>8, <1>9, <1>10, <1>11, <1>12, <1>13,
           <1>14, <1>15 DEF Commands

\* What happens unasked: service(), the diagnostics, the timers, the input and
\* time.  What state_ tells is then as before, or fresh.
LEMMA UnaskedServed ==
  ASSUME Good(ctl), pressed \in BOOLEAN,
         ServiceController \/ DiagnosticsTick \/ PulseDone \/ InputChanges
           \/ Tick
  PROVE  /\ Unasked /\ pressed' \in BOOLEAN
         /\ Served(ctl, ctl') /\ EndsTogether(ctl, ctl')
         /\ ctl'.state = ctl.state \/ Current(ctl')
<1>1. ctl \in ControllerState
  BY DEF Good, Sound
<1>2. ASSUME \A ax \in Axes : Alike(ctl.axes[ax], ctl'.axes[ax])
      PROVE  EndsTogether(ctl, ctl')
  BY <1>2 DEF EndsTogether, Alike
<1>3. CASE ServiceController
  <2>1. PICK raw \in SwitchLevels, armOk \in ArmChoices :
          ctl' = ServiceAll(ctl, pressed, raw, armOk)
    BY <1>3 DEF ServiceController
  <2>2. raw \in [Axes -> BOOLEAN] /\ armOk \in [Axes -> BOOLEAN]
    BY <2>1, CommandAssumption DEF ArmChoices
  <2>3. Served(ctl, ctl') /\ EndsTogether(ctl, ctl') /\ Current(ctl')
    BY <2>1, <2>2, ServiceAllServed
  <2>4. Unasked /\ pressed' = pressed
    BY <1>3 DEF ServiceController
  <2> QED BY <2>3, <2>4
<1>4. CASE DiagnosticsTick
  <2>1. PICK readings \in ReadingChoices : ctl' = DiagnoseAll(ctl, readings)
    BY <1>4 DEF DiagnosticsTick
  <2>2. readings \in [Axes -> Readings]
    BY <2>1 DEF ReadingChoices
  <2>3. /\ Served(ctl, ctl') /\ EndsTogether(ctl, ctl')
        /\ ctl'.state = ctl.state \/ Current(ctl')
    BY <2>1, <2>2, DiagnoseAllServed
  <2>4. Unasked /\ pressed' = pressed
    BY <1>4 DEF DiagnosticsTick
  <2> QED BY <2>3, <2>4
<1>5. CASE PulseDone
  <2>1. PICK ax \in Axes :
          ctl.axes[ax].armed /\ ctl' \in Pulsed(ctl, ax)
    BY <1>5 DEF PulseDone, Pulsed
  <2>2. /\ Served(ctl, ctl') /\ ctl'.state = ctl.state
        /\ \A x \in Axes : Alike(ctl.axes[x], ctl'.axes[x])
    BY <2>1, PulseServed
  <2>3. Unasked /\ pressed' = pressed
    BY <1>5 DEF PulseDone
  <2> QED BY <1>2, <2>2, <2>3
<1>6. CASE InputChanges
  <2>1. Unasked /\ ctl' = ctl /\ pressed' \in BOOLEAN
    BY <1>6, CommandAssumption DEF InputChanges
  <2>2. \A ax \in Axes : Alike(ctl.axes[ax], ctl'.axes[ax])
    BY <2>1, NothingHappens
  <2>3. ctl.latched \in BOOLEAN
    BY <1>1, Fields
  <2>4. Served(ctl, ctl')
    BY <2>1, <2>2, <2>3 DEF Served, Serves, Alike, SameOrder
  <2> QED BY <1>2, <2>1, <2>2, <2>4
<1>7. CASE Tick
  <2>1. Unasked /\ pressed' = pressed /\ ctl' = AgeAll(ctl)
    BY <1>7 DEF Tick
  <2>2. /\ Served(ctl, ctl') /\ ctl'.state = ctl.state
        /\ \A ax \in Axes : Alike(ctl.axes[ax], ctl'.axes[ax])
    BY <2>1, AgeAllServed
  <2> QED BY <1>2, <2>1, <2>2
<1> QED BY <1>3, <1>4, <1>5, <1>6, <1>7

\* Whatever happens keeps the controller good, is a step of the contract, and
\* ends a coordinated move for both axes or for none.
LEMMA NextKeeps ==
  ASSUME IInv, Next
  PROVE  /\ TypeOK' /\ Good(ctl)'
         /\ Contract!ContractNext
         /\ ByItself => EndsTogether(ctl, ctl')
<1>1. Good(ctl) /\ pressed \in BOOLEAN /\ issued \in Nat
  BY DEF IInv, TypeOK
<1>2. CASE Commands
  <2>1. PICK outcome : Handle(outcome) /\ Obeyed(ctl, outcome, issued + 1)
    BY <1>2, CommandsObeyed
  <2>2. TypeOK' /\ Good(ctl)' /\ Contract!ContractNext
    BY <2>1, CommandStep
  <2>3. ~ByItself
    BY <1>1, <2>1 DEF ByItself, Handle
  <2> QED BY <2>2, <2>3
<1>3. CASE ServiceController \/ DiagnosticsTick \/ PulseDone \/ InputChanges
             \/ Tick
  <2>1. /\ Unasked /\ pressed' \in BOOLEAN
        /\ Served(ctl, ctl') /\ EndsTogether(ctl, ctl')
    BY <1>1, <1>3, UnaskedServed
  <2>2. TypeOK' /\ Good(ctl)'
    BY <1>1, <2>1 DEF TypeOK, Unasked, Served, Good, Sound
  <2> QED BY <2>1, <2>2, UnaskedStep
<1> QED BY <1>2, <1>3 DEF Next

\* So every step keeps the invariant.
LEMMA StepIInv ==
  IInv /\ [Next]_vars
    => IInv' /\ [Contract!ContractNext]_(Contract!contractVars)
<1> SUFFICES ASSUME IInv, [Next]_vars
             PROVE  IInv' /\ [Contract!ContractNext]_(Contract!contractVars)
  OBVIOUS
<1>1. CASE Next
  <2>1. TypeOK' /\ Good(ctl)' /\ Contract!ContractNext
    BY <1>1, NextKeeps
  <2>2. Contract!Consistent'
    BY <2>1, Contract!StepConsistent DEF IInv
  <2> QED BY <2>1, <2>2 DEF IInv
<1>2. CASE UNCHANGED vars
  <2>1. /\ ctl' = ctl /\ pressed' = pressed /\ issued' = issued
        /\ accepted' = accepted
    BY <1>2 DEF vars
  <2>2. TypeOK' /\ Good(ctl)'
    BY <2>1 DEF IInv, TypeOK
  <2>3. UNCHANGED Contract!contractVars
    BY <2>1 DEF Contract!contractVars
  <2>4. Contract!Consistent'
    BY <2>3, Contract!StepConsistent DEF IInv
  <2> QED BY <2>2, <2>3, <2>4 DEF IInv
<1> QED BY <1>1, <1>2

-----------------------------------------------------------------------------
(* The theorems.  They hold from power-on and from the homed state, and for  *)
(* what the scheduled motion task does of either.                            *)

\* What the theorems are about.
Behaviours == Spec \/ HomedSpec \/ ScheduledSpec

\* All three start and go on like one of the first two.
LEMMA OneBehaviour == Behaviours => (Init \/ HomedInit) /\ [][Next]_vars
<1>1. ScheduledInit => Init \/ HomedInit
  BY DEF ScheduledInit
<1>2. [ScheduledNext]_<<vars, beat>> => [Next]_vars
  BY DEF ScheduledNext, Next, vars
<1> QED BY <1>1, <1>2, PTL DEF Behaviours, Spec, HomedSpec, ScheduledSpec

\* The axes, their copy in STATUS and the emergency input keep to their types,
\* whatever is asked of the controller (physical_motion_controller.hpp).
THEOREM TypeCorrectness == Behaviours => []TypeOK
<1>1. IInv => TypeOK
  BY DEF IInv
<1> QED BY <1>1, OneBehaviour, InitIInv, StepIInv, PTL

\* Locked out by the emergency stop or by a start that failed, both axes stay
\* off, and STATUS says that the stop is latched: no command, no homing under
\* way and no diagnostics tick wakes an axis (emergency_stop, 335-343).
THEOREM LockedOutIsOff == Behaviours => []OffWhenLockedOut
<1>1. IInv => OffWhenLockedOut
  BY DEF IInv, Good, Sound, Fit, Sane, PulsePart, Dormant, Resting,
     OffWhenLockedOut, LatchHolds, UninitializedStaysOff, Off
<1> QED BY <1>1, OneBehaviour, InitIInv, StepIInv, PTL

\* STATUS never shows at rest an axis that moves, nor a healthy controller
\* one of whose axes has a fault (synchronize_state, 101-116).
THEOREM StatusIsHonest == Behaviours => []StatusHidesNothing
<1>1. IInv => StatusHidesNothing
  BY DEF IInv, Good, Honest, StatusHidesNothing, MotionIsReported,
     AxisFaultIsReported
<1> QED BY <1>1, OneBehaviour, InitIInv, StepIInv, PTL

\* When one axis breaks off a coordinated move on its own, the other stops in
\* the same step, whatever the timers and the switches did (service, 171-190).
THEOREM BothOrNone == Behaviours => OneFailsBothStop
<1>1. IInv /\ [Next]_vars =>
        [\A ax \in Axes :
           ctl.coordinated /\ ctl.axes[ax].purpose = "normal"
             /\ EndedShort(ax) /\ ByItself
           => ~AnyMoving(ctl')]_vars
  BY NextKeeps DEF EndsTogether, EndedShort, Ended
<1> QED BY <1>1, OneBehaviour, InitIInv, StepIInv, PTL DEF OneFailsBothStop

\* The controller implements MotionContract: whatever it is asked and however
\* timers, switches, drivers and the emergency input behave, an axis changes
\* only as the callers of MotionController may expect.
THEOREM Implements == Behaviours => HonoursContract
<1>1. IInv => Contract!Consistent
  BY DEF IInv
<1> QED BY <1>1, OneBehaviour, InitIInv, StepIInv, PTL
        DEF HonoursContract, Contract!ContractSpec
=============================================================================
