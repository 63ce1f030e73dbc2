------------------------ MODULE ProtocolEngine_proofs ------------------------
(***************************************************************************)
(* What is proved of ProtocolEngine over PhysicalMotionController, for     *)
(* every configuration, any lines with any ids and any number of them:     *)
(* that a completion is true when it is announced, that no line moves an   *)
(* axis after a later one, and, of a host that numbers its lines, that no  *)
(* completion is announced after a later one or twice for one line.        *)
(*                                                                         *)
(* The lemmas about the handlers hold for whoever calls them: here with    *)
(* the id of the line, which may be missing, where PhysicalMotionController *)
(* has one for each command.  Of what they say of an axis, Given and       *)
(* Followed keep the ids.                                                  *)
(***************************************************************************)
EXTENDS ProtocolEngine, PhysicalMotionController_proofs

-----------------------------------------------------------------------------
(* The invariant *)

\* No axis has been told or has done what no line asked for.
IdsPart ==
  \A ax \in Axes : /\ ctl.axes[ax].activeId <= engine.lastId
                   /\ ctl.axes[ax].lastCompleted <= engine.lastId

\* An axis that works has not done anything later.
InOrder(a) == a.moving \/ Homing(a) => a.lastCompleted <= a.activeId

\* Both axes are at rest and STATUS says so.
Calm(c) ==
  \A ax \in Axes : /\ ~c.axes[ax].moving /\ ~Homing(c.axes[ax])
                   /\ ~c.state.axes[ax].moving

\* The last completion of both axes that was announced is still the last or
\* has been followed by another, and until the next line nothing moves.
AnnouncedPart ==
  /\ \A ax \in Axes : InOrder(ctl.axes[ax])
  /\ \E ax \in Axes : announced.id <= ctl.axes[ax].lastCompleted
  /\ announced.upTo <= issued
  /\ announced.upTo = issued => ~engine.moving /\ Calm(ctl)

\* The inductive invariant.
EngineInv ==
  /\ ProtocolTypeOK
  /\ Good(ctl)
  /\ IdsPart
  /\ ~WithoutIds => AnnouncedPart

-----------------------------------------------------------------------------
(* What becomes of the ids of an axis *)

\* A line with this id may make an axis begin it or have it done, and what
\* works afterwards works on it or on what it worked on before.
Given(a, b, id) ==
  /\ b.activeId \in {a.activeId, id} /\ b.lastCompleted \in {a.lastCompleted, id}
  /\ b.moving \/ Homing(b) =>
       \/ b.activeId = id /\ b.lastCompleted = a.lastCompleted
       \/ (a.moving \/ Homing(a)) /\ SameOrder(a, b)

\* Without a line an axis may have done what it worked on.
Followed(a, b) ==
  /\ b.activeId = a.activeId
  /\ \/ b.lastCompleted = a.lastCompleted
     \/ (a.moving \/ Homing(a)) /\ b.lastCompleted = a.activeId
  /\ b.moving \/ Homing(b) => a.moving \/ Homing(a)

\* Every handler gives an axis no other order than its own,
LEMMA ObeyedGiven ==
  ASSUME NEW c, NEW out, NEW id, Obeyed(c, out, id), NEW ax \in Axes
  PROVE  Given(c.axes[ax], out.ctl.axes[ax], id)
<1> DEFINE a == c.axes[ax]
           b == out.ctl.axes[ax]
<1>1. \/ Alike(a, b) \/ Halted(a, b) \/ Broken(a, b) \/ TurnedOn(a, b)
      \/ Begun(a, b, id) \/ DoneAtOnce(a, b, id) \/ CalledOff(a, b, id)
  BY DEF Obeyed, Acceptance, Refusal
<1> SUFFICES Given(a, b, id)
  OBVIOUS
<1> HIDE DEF a, b
<1>2. CASE Alike(a, b) \/ Halted(a, b) \/ Broken(a, b) \/ TurnedOn(a, b)
  BY <1>2 DEF Alike, Halted, Broken, TurnedOn, SameOrder, Given
<1>3. CASE Begun(a, b, id) \/ DoneAtOnce(a, b, id)
  BY <1>3 DEF Begun, DoneAtOnce, Given
<1>4. CASE CalledOff(a, b, id)
  BY <1>4 DEF CalledOff, SameOrder, Given
<1> QED BY <1>1, <1>2, <1>3, <1>4

\* and what happens unasked gives it none.
LEMMA ServedFollowed ==
  ASSUME NEW c, NEW d, Served(c, d), NEW ax \in Axes
  PROVE  Followed(c.axes[ax], d.axes[ax])
<1> DEFINE a == c.axes[ax]
           b == d.axes[ax]
<1>1. Alike(a, b) \/ Broken(a, b) \/ Serves(a, b)
  BY DEF Served
<1> SUFFICES Followed(a, b)
  OBVIOUS
<1> HIDE DEF a, b
<1>2. CASE Alike(a, b) \/ Broken(a, b)
  BY <1>2 DEF Alike, Broken, SameOrder, Followed
<1>3. CASE Serves(a, b)
  BY <1>3 DEF Serves, Alike, SameOrder, GoesOn, ComesToRest, Followed
<1> QED BY <1>1, <1>2, <1>3

-----------------------------------------------------------------------------
(* The lines *)

\* Every order is carried out as the lemmas about the handlers say.
LEMMA DispatchObeyed ==
  ASSUME NEW c, Good(c), NEW order \in Orders, NEW id \in Nat,
         NEW push \in BOOLEAN, NEW raw \in [Axes -> BOOLEAN],
         NEW armOk \in [Axes -> BOOLEAN], NEW write \in WriteResults
  PROVE  Obeyed(c, Dispatch(c, order, id, push, raw, armOk, write), id)
<1> DEFINE out == Dispatch(c, order, id, push, raw, armOk, write)
<1>1. Selections = Axes \cup {"BOTH"}
  BY DEF Selections
<1>2. StartMicrosteps \in MicrostepChoices /\ "lost" \in WriteResults
      /\ TRUE \in BOOLEAN
  BY ConfigAssumption DEF WriteResults
<1> SUFFICES Obeyed(c, out, id)
  OBVIOUS
<1>3. CASE order.op = "QUERY"
  <2>1. out = [ctl |-> c, ok |-> TRUE, fault |-> "none"]
    BY <1>3 DEF Dispatch
  <2> HIDE DEF out
  <2>2. out.ctl = c /\ out.ok = TRUE
    BY <2>1
  <2>3. \A ax \in Axes : Alike(c.axes[ax], c.axes[ax])
    BY NothingHappens
  <2>4. c.latched \in BOOLEAN
    BY Fields DEF Good, Sound
  <2> QED BY <2>2, <2>3, <2>4 DEF Obeyed, Answers, Acceptance
<1>4. CASE order.op = "MALFORMED"
  <2> DEFINE fault == "invalid_argument"
  <2>1. out = Reject(c, fault)
    BY <1>4 DEF Dispatch
  <2>2. fault \in Faults \ {"none"}
    BY DEF Faults, Refusals
  <2> HIDE DEF out, fault
  <2>3. Sound(c)
    BY DEF Good
  <2>4. /\ Good(out.ctl) /\ out.ctl.axes = c.axes
        /\ Answers(out) /\ ~out.ok
        /\ out.ctl.initialized = c.initialized
        /\ out.ctl.latched = c.latched
    BY <2>1, <2>2, <2>3, RejectGood
  <2>5. \A ax \in Axes : Alike(c.axes[ax], out.ctl.axes[ax])
    BY <2>4, NothingHappens
  <2>6. c.latched \in BOOLEAN
    BY Fields DEF Good, Sound
  <2> QED BY <2>4, <2>5, <2>6 DEF Obeyed, Refusal
<1>5. CASE order.op = "CLEAR_FAULT"
  <2>1. out = ClearFaults(c, push)
    BY <1>5 DEF Dispatch
  <2> QED BY <2>1, ClearFaultsObeyed
<1>6. CASE order.op = "STOP"
  <2>1. out = StopAll(c)
    BY <1>6 DEF Dispatch
  <2> QED BY <2>1, StopAllObeyed
<1>7. CASE order.op = "E_STOP"
  <2>1. out = EmergencyStopAll(c)
    BY <1>7 DEF Dispatch
  <2> QED BY <2>1, EmergencyStopObeyed
<1>8. CASE order.op = "ENABLE"
  <2>1. out = SetAllEnabled(c, order.on)
    BY <1>8 DEF Dispatch
  <2>2. order.on \in BOOLEAN
    BY <1>8 DEF Orders, OrdersFor
  <2> QED BY <2>1, <2>2, SetAllEnabledObeyed
<1>9. CASE order.op = "HOME"
  <2>1. out = HomeAxes(c, order.axis, raw, id, armOk)
    BY <1>9 DEF Dispatch
  <2>2. order.axis \in Selections
    BY <1>9 DEF Orders, OrdersFor
  <2> QED BY <1>1, <2>1, <2>2, HomeAxesObeyed
<1>10. CASE order.op = "MOVE"
  <2>1. out = MoveTo(c, order.to, order.speedOk, id, armOk)
    BY <1>10 DEF Dispatch
  <2>2. order.to \in Positions /\ order.speedOk \in BOOLEAN
    BY <1>10 DEF Orders, OrdersFor
  <2>3. order.to \in [Axes -> Int]
    BY <2>2, CommandAssumption
  <2> QED BY <2>1, <2>2, <2>3, MoveToObeyed
<1>11. CASE order.op = "MOVE_REL"
  <2>1. out = MoveBy(c, order.axis, order.by, order.speedOk, id, armOk)
    BY <1>11 DEF Dispatch
  <2>2. /\ order.axis \in Selections /\ order.by \in Deltas
        /\ order.speedOk \in BOOLEAN
    BY <1>11 DEF Orders, OrdersFor
  <2>3. order.by \in Int
    BY <2>2, CommandAssumption
  <2> QED BY <1>1, <2>1, <2>2, <2>3, MoveByObeyed
<1>12. CASE order.op = "MOTOR_ENABLE"
  <2>1. out = SetAxisEnabled(c, order.axis, order.on)
    BY <1>12 DEF Dispatch
  <2>2. order.axis \in Axes /\ order.on \in BOOLEAN
    BY <1>12 DEF Orders, OrdersFor
  <2> QED BY <1>2, <2>1, <2>2, SetAxisObeyed
<1>13. CASE order.op = "MOTOR_STOP"
  <2>1. out = StopAxis(c, order.axis)
    BY <1>13 DEF Dispatch
  <2>2. order.axis \in Axes
    BY <1>13 DEF Orders, OrdersFor
  <2> QED BY <2>1, <2>2, StopAxisObeyed
<1>14. CASE order.op = "MOTOR_STEP"
  <2>1. out = BenchAxis(c, order.axis, order.by, id, armOk)
    BY <1>14 DEF Dispatch
  <2>2. order.axis \in Axes /\ order.by \in StepCounts
    BY <1>14 DEF Orders, OrdersFor
  <2>3. order.by \in Int
    BY <2>2, CommandAssumption
  <2> QED BY <2>1, <2>2, <2>3, BenchAxisObeyed
<1>15. CASE order.op = "MOTOR_CURRENT"
  <2>1. out = SetAxisCurrent(c, order.axis, write)
    BY <1>15 DEF Dispatch
  <2>2. order.axis \in Axes
    BY <1>15 DEF Orders, OrdersFor
  <2> QED BY <1>2, <2>1, <2>2, SetAxisObeyed
<1>16. CASE order.op = "MOTOR_MICROSTEPS"
  <2>1. out = SetAxisMicrosteps(c, order.axis, order.to, write)
    BY <1>16 DEF Dispatch
  <2>2. order.axis \in Axes /\ order.to \in MicrostepChoices
    BY <1>16 DEF Orders, OrdersFor
  <2> QED BY <1>2, <2>1, <2>2, SetAxisObeyed
<1>17. order.op \in {"QUERY", "MALFORMED", "CLEAR_FAULT", "STOP", "E_STOP",
                     "ENABLE", "HOME", "MOVE", "MOVE_REL", "MOTOR_ENABLE",
                     "MOTOR_STOP", "MOTOR_STEP", "MOTOR_CURRENT",
                     "MOTOR_MICROSTEPS"}
  BY DEF Orders, OrdersFor
<1> HIDE DEF out
<1> QED BY <1>3, <1>4, <1>5, <1>6, <1>7, <1>8, <1>9, <1>10, <1>11, <1>12,
           <1>13, <1>14, <1>15, <1>16, <1>17

\* A line is answered, and gives the axes its order if its id is a new one.  An
\* ERR becomes the fault of the controller and changes nothing else.
LEMMA LineHandled ==
  ASSUME NEW c, Good(c), NEW e, NEW order \in Orders, NEW id \in Nat,
         NEW push \in BOOLEAN, NEW raw \in [Axes -> BOOLEAN],
         NEW armOk \in [Axes -> BOOLEAN], NEW write \in WriteResults,
         NEW h, h = Handled(c, e, id, order, push, raw, armOk, write)
  PROVE  /\ Good(h.ctl) /\ h.reply \in Replies
         /\ \/ h.ctl = c /\ IdIsUsed(e, id)
            \/ /\ ~IdIsUsed(e, id)
               /\ \A ax \in Axes : Given(c.axes[ax], h.ctl.axes[ax], id)
<1>1. CASE IdIsUsed(e, id)
  BY <1>1 DEF Handled, Replies
<1>2. CASE ~IdIsUsed(e, id)
  <2> DEFINE out == Dispatch(c, order, id, push, raw, armOk, write)
             fault == out.fault
             out2 == Reject(out.ctl, fault)
  <2>1. Obeyed(c, out, id)
    BY DispatchObeyed
  <2>2. h = Answered(order, out)
    BY <1>2 DEF Handled
  <2> HIDE DEF out
  <2>3. Good(out.ctl) /\ Answers(out)
    BY <2>1 DEF Obeyed
  <2>4. \A ax \in Axes : Given(c.axes[ax], out.ctl.axes[ax], id)
    BY <2>1, ObeyedGiven
  <2>5. CASE AnsweredOK(order, out)
    <3>1. h.ctl = out.ctl /\ h.reply \in {"OK", "ACCEPTED"}
      BY <2>2, <2>5 DEF Answered
    <3> QED BY <1>2, <2>3, <2>4, <3>1 DEF Replies
  <2>6. CASE ~AnsweredOK(order, out)
    <3>1. h.ctl = out2.ctl /\ h.reply = "ERR"
      BY <2>2, <2>6 DEF Answered, Reject
    <3>2. fault \in Faults \ {"none"}
      BY <2>3, <2>6 DEF Answers, AnsweredOK
    <3> HIDE DEF fault, out2
    <3>3. Good(out2.ctl) /\ out2.ctl.axes = out.ctl.axes
      <4> DEFINE d == out.ctl
      <4>1. Good(d) /\ Sound(d)
        BY <2>3 DEF Good
      <4>2. out2 = Reject(d, fault)
        BY DEF out2
      <4> HIDE DEF d
      <4>3. Good(out2.ctl) /\ out2.ctl.axes = d.axes
        BY <3>2, <4>1, <4>2, RejectGood
      <4> QED BY <4>3 DEF d
    <3> QED BY <1>2, <2>4, <3>1, <3>3 DEF Replies
  <2> QED BY <2>5, <2>6
<1> QED BY <1>1, <1>2

\* A host that has fallen silent leaves the axes standing, and STATUS says so.
LEMMA HostGivenUp ==
  ASSUME NEW c, Good(c), NEW d, d = GiveHostUp(c)
  PROVE  /\ Good(d)
         /\ \A ax \in Axes : /\ Followed(c.axes[ax], d.axes[ax])
                            /\ ~d.axes[ax].moving
                            /\ d.state.axes[ax] = Seen(d.axes[ax])
<1> DEFINE id == -1
           halt == StopAll(c)
           s == halt.ctl
           off == FALSE
           out == SetAllEnabled(s, off)
<1>1. d = out.ctl /\ s = halt.ctl
  BY DEF GiveHostUp
<1>2. /\ Obeyed(c, halt, id) /\ Current(s)
      /\ \A ax \in Axes : ~s.axes[ax].moving
  BY StopAllObeyed
<1>3. Good(s) /\ s \in ControllerState
  BY <1>2 DEF Obeyed, Good, Sound
<1>4. Obeyed(s, out, id) /\ (out.ok => Current(out.ctl))
  <2> HIDE DEF s, id
  <2>1. off \in BOOLEAN
    OBVIOUS
  <2> HIDE DEF off
  <2> QED BY <1>3, <2>1, SetAllEnabledObeyed
<1>5. \/ out.ok
      \/ \E fault \in Faults : out = Reject(s, fault)
  <2>1. /\ SetEnabled(s.axes["AZ"], off).ok = TRUE
        /\ SetEnabled(s.axes["EL"], off).ok = TRUE
    BY DEF SetEnabled
  <2>2. "emergency_stop" \in Faults /\ "invalid_configuration" \in Faults
    BY DEF Faults, AxisFaults
  <2> QED BY <2>1, <2>2 DEF SetAllEnabled, Guarded, Answer
<1> HIDE DEF halt, s, id, off, out
<1>6. Good(d)
  BY <1>1, <1>4 DEF Obeyed
<1>7. ASSUME NEW ax \in Axes PROVE d.state.axes[ax] = Seen(d.axes[ax])
  <2>1. CASE out.ok
    BY <1>1, <1>4, <2>1 DEF Current
  <2>2. CASE \E fault \in Faults : out = Reject(s, fault)
    <3>1. PICK fault \in Faults : out = Reject(s, fault)
      BY <2>2
    <3>2. d.axes = s.axes /\ d.state.axes = s.state.axes
      BY <1>1, <1>3, <3>1, ReportFaultFields DEF Reject
    <3> QED BY <1>2, <3>2 DEF Current
  <2> QED BY <1>5, <2>1, <2>2
<1>8. ASSUME NEW ax \in Axes
      PROVE  Followed(c.axes[ax], d.axes[ax]) /\ ~d.axes[ax].moving
  <2> DEFINE a == c.axes[ax]
             b == s.axes[ax]
             e == d.axes[ax]
  <2>1. Given(a, b, id) /\ Given(b, e, id)
    BY <1>1, <1>2, <1>4, ObeyedGiven
  <2>2. a \in AxisState /\ b \in AxisState /\ e \in AxisState
    BY <1>3, <1>6, Fields DEF Good, Sound
  <2>3. id \notin Nat /\ ~b.moving
    BY <1>2 DEF id
  <2>4. \/ Alike(b, e) \/ Halted(b, e) \/ Broken(b, e) \/ TurnedOn(b, e)
        \/ Begun(b, e, id) \/ DoneAtOnce(b, e, id) \/ CalledOff(b, e, id)
    BY <1>1, <1>4 DEF Obeyed, Acceptance, Refusal
  <2> HIDE DEF a, b, e
  <2>5. ~e.moving
    BY <2>2, <2>3, <2>4 DEF Alike, Halted, Broken, TurnedOn, Begun,
                            DoneAtOnce, CalledOff, AxisState
  <2>6. Followed(a, e)
    BY <2>1, <2>2, <2>3 DEF Given, Followed, SameOrder, AxisState
  <2> QED BY <2>5, <2>6 DEF a, e
<1> QED BY <1>6, <1>7, <1>8

-----------------------------------------------------------------------------
(* The engine's memory and its events *)

\* A line counts when its id is newer than all before it.
LEMMA ConsumedFields ==
  ASSUME NEW e \in EngineState, NEW id \in Nat
  PROVE  LET f == Consumed(e, id)
         IN  /\ f \in EngineState /\ f.moving = e.moving
             /\ f.lastId = IF id > e.lastId THEN id ELSE e.lastId
<1> DEFINE last == IF id > e.lastId THEN id ELSE e.lastId
           f == [e EXCEPT !.lastId = last]
<1>1. last \in Nat
  BY DEF EngineState
<1>2. Consumed(e, id) = f
  BY DEF Consumed, EngineState
<1> HIDE DEF last
<1>3. f \in EngineState /\ f.moving = e.moving /\ f.lastId = last
  BY <1>1 DEF EngineState
<1> QED BY <1>2, <1>3 DEF last

\* What is remembered is what STATUS tells.
LEMMA RememberFields ==
  ASSUME NEW e \in EngineState, NEW c \in ControllerState
  PROVE  LET f == Remember(e, c)
         IN  /\ f \in EngineState /\ f.lastId = e.lastId
             /\ f.moving = \E ax \in Axes : c.state.axes[ax].moving
<1> DEFINE estop == c.state.estop
           fault == c.state.fault
           moving == \E ax \in Axes : c.state.axes[ax].moving
           f == [e EXCEPT !.estop = estop, !.fault = fault, !.moving = moving]
<1>1. estop \in BOOLEAN /\ fault \in Faults /\ moving \in BOOLEAN
  BY Fields DEF Reported
<1>2. Remember(e, c) = f
  BY Zenon DEF Remember
<1> HIDE DEF estop, fault, moving
<1>3. f \in EngineState
  BY <1>1, ZenonT(60) DEF EngineState
<1>4. f.lastId = e.lastId /\ f.moving = moving
  BY DEF EngineState
<1> QED BY <1>2, <1>3, <1>4 DEF moving

\* The last completion is that of one of the axes, and the other has done
\* nothing later.
LEMMA LastCompletedIs ==
  ASSUME NEW c \in ControllerState
  PROVE  LET done(ax) == c.state.axes[ax].lastCompleted
         IN  /\ LastCompleted(c) \in Nat
             /\ \A ax \in Axes : done(ax) <= LastCompleted(c)
             /\ \E ax \in Axes : done(ax) = LastCompleted(c)
<1>1. \A ax \in Axes : c.state.axes[ax].lastCompleted \in Nat
  BY Fields DEF Reported, SeenAxis
<1> QED BY <1>1 DEF LastCompleted, Axes

\* A completion is announced of a healthy controller that has been moving, with
\* nothing moving now.
LEMMA EventFields ==
  ASSUME NEW e \in EngineState, NEW c \in ControllerState,
         NEW told, told = EventOf(e, c)
  PROVE  /\ told \in Events
         /\ told.kind = "complete" =>
              /\ e.moving /\ c.state.fault = "none"
              /\ \A ax \in Axes : ~c.state.axes[ax].moving
              /\ told.id = LastCompleted(c)
<1>1. \/ told.kind \in EventKinds \ {"complete"} /\ told.id = 0
         /\ told = [kind |-> told.kind, id |-> told.id]
      \/ told = Quiet
      \/ /\ told = [kind |-> "complete", id |-> LastCompleted(c)]
         /\ e.moving /\ c.state.fault = "none"
         /\ \A ax \in Axes : ~c.state.axes[ax].moving
  BY DEF EventOf, EventKinds
<1>2. LastCompleted(c) \in Nat
  BY LastCompletedIs
<1>3. told \in Events
  BY <1>1, <1>2 DEF Events, EventKinds, Quiet
<1>4. told.kind = "complete" =>
        /\ e.moving /\ c.state.fault = "none"
        /\ \A ax \in Axes : ~c.state.axes[ax].moving
        /\ told.id = LastCompleted(c)
  BY <1>1 DEF Quiet
<1> QED BY <1>3, <1>4

-----------------------------------------------------------------------------
(* The steps *)

\* What OlderCommandsNeverStart and AnnouncedOnce say of a step.
StartsNothingOlder ==
  \A ax \in Axes :
    ctl'.axes[ax].activeId # ctl.axes[ax].activeId =>
      ctl'.axes[ax].activeId \in {0, engine'.lastId}
        /\ (ctl'.axes[ax].activeId # 0 => engine'.lastId > engine.lastId)

AnnouncesNothingTwice ==
  event'.kind = "complete" =>
    /\ event'.id >= announced.id
    /\ event'.id = announced.id => issued > announced.upTo

\* The parts of the invariant that a step can break, with what the properties
\* say of it.
Kept ==
  /\ IdsPart' /\ (~WithoutIds => AnnouncedPart')
  /\ CompletionIsTrue' /\ StartsNothingOlder
  /\ ~WithoutIds => AnnouncesNothingTwice

\* The ids before a step.
LEMMA TypedIds ==
  ASSUME EngineInv
  PROVE  /\ ctl.axes \in [Axes -> AxisState] /\ ctl \in ControllerState
         /\ engine \in EngineState /\ engine.lastId \in Nat
         /\ issued \in Nat /\ pressed \in BOOLEAN
         /\ announced.id \in Nat /\ announced.upTo \in Nat
         /\ \A ax \in Axes : /\ ctl.axes[ax].activeId \in Nat
                            /\ ctl.axes[ax].lastCompleted \in Nat
<1>1. /\ ctl \in ControllerState /\ engine \in EngineState
      /\ issued \in Nat /\ pressed \in BOOLEAN
      /\ announced \in [id : Nat, upTo : Nat]
  BY DEF EngineInv, ProtocolTypeOK, TypeOK
<1>2. ctl.axes \in [Axes -> AxisState]
  BY <1>1, Fields
<1> QED BY <1>1, <1>2 DEF EngineState, AxisState

\* Without a line no axis is told anything, and none forgets what it has done.
LEMMA NoLine ==
  ASSUME EngineInv, engine'.lastId = engine.lastId, Good(ctl)',
         \A ax \in Axes : Followed(ctl.axes[ax], ctl'.axes[ax])
  PROVE  /\ IdsPart' /\ StartsNothingOlder
         /\ ~WithoutIds => /\ \A ax \in Axes : InOrder(ctl'.axes[ax])
                           /\ \E ax \in Axes :
                                announced.id <= ctl'.axes[ax].lastCompleted
<1>1. ctl'.axes \in [Axes -> AxisState]
  BY Fields DEF Good, Sound
<1>2. \A ax \in Axes : /\ ctl'.axes[ax].activeId \in Nat
                     /\ ctl'.axes[ax].lastCompleted \in Nat
  BY <1>1 DEF AxisState
<1>3. IdsPart' /\ StartsNothingOlder
  BY <1>2, TypedIds DEF EngineInv, IdsPart, StartsNothingOlder, Followed
<1>4. ASSUME ~WithoutIds, NEW ax \in Axes
      PROVE  /\ InOrder(ctl'.axes[ax])
             /\ ctl.axes[ax].lastCompleted <= ctl'.axes[ax].lastCompleted
  <2> DEFINE a == ctl.axes[ax]
             b == ctl'.axes[ax]
  <2>1. Followed(a, b) /\ InOrder(a)
    BY <1>4 DEF EngineInv, AnnouncedPart
  <2>2. /\ a.activeId \in Nat /\ a.lastCompleted \in Nat
        /\ b.activeId \in Nat /\ b.lastCompleted \in Nat
    BY <1>2, TypedIds
  <2> HIDE DEF a, b
  <2>3. InOrder(b) /\ a.lastCompleted <= b.lastCompleted
    BY <2>1, <2>2 DEF Followed, InOrder
  <2> QED BY <2>3 DEF a, b
<1>5. ASSUME ~WithoutIds
      PROVE  \E ax \in Axes : announced.id <= ctl'.axes[ax].lastCompleted
  <2>1. PICK ax \in Axes : announced.id <= ctl.axes[ax].lastCompleted
    BY <1>5 DEF EngineInv, AnnouncedPart
  <2>2. ctl.axes[ax].lastCompleted <= ctl'.axes[ax].lastCompleted
    BY <1>4, <1>5
  <2>3. announced.id <= ctl'.axes[ax].lastCompleted
    BY <1>2, <2>1, <2>2, TypedIds
  <2> QED BY <2>3
<1> QED BY <1>3, <1>4, <1>5

\* A line.
LEMMA LineStep ==
  ASSUME EngineInv, HostLine
  PROVE  ProtocolTypeOK' /\ Good(ctl)' /\ Kept
<1>1. PICK id \in (IF WithoutIds THEN 0 ELSE 1) .. engine.lastId + 1,
           order \in HostOrders : HandleLine(id, order)
  BY DEF HostLine
<1>2. PICK raw \in SwitchLevels, armOk \in ArmChoices, write \in WriteOutcomes :
        LET h == Handled(ctl, engine, id, order, pressed, raw, armOk, write)
        IN  /\ ctl' = h.ctl
            /\ accepted' = (h.reply \in {"OK", "ACCEPTED"})
            /\ heard' = [order |-> order, reply |-> h.reply]
  BY <1>1 DEF HandleLine
<1> DEFINE h == Handled(ctl, engine, id, order, pressed, raw, armOk, write)
<1>3. /\ engine' = Consumed(engine, id) /\ issued' = issued + 1
      /\ event' = Quiet /\ silent' = FALSE
      /\ pressed' = pressed /\ announced' = announced
  BY <1>1 DEF HandleLine
<1>4. /\ order \in Orders /\ id \in Nat /\ (~WithoutIds => id # 0)
      /\ raw \in [Axes -> BOOLEAN] /\ armOk \in [Axes -> BOOLEAN]
      /\ write \in WriteResults
  BY <1>1, <1>2, HostAssumption, CommandAssumption, TypedIds DEF ArmChoices
<1>5. /\ Good(h.ctl) /\ h.reply \in Replies
      /\ \/ h.ctl = ctl /\ IdIsUsed(engine, id)
         \/ /\ ~IdIsUsed(engine, id)
            /\ \A ax \in Axes : Given(ctl.axes[ax], h.ctl.axes[ax], id)
  BY <1>4, TypedIds, LineHandled DEF EngineInv
<1>6. ctl' = h.ctl /\ heard' = [order |-> order, reply |-> h.reply]
      /\ accepted' \in BOOLEAN
  BY <1>2
<1> HIDE DEF h
<1>7. /\ engine' \in EngineState
      /\ engine'.lastId = IF id > engine.lastId THEN id ELSE engine.lastId
  BY <1>3, <1>4, TypedIds, ConsumedFields
<1>8. Good(ctl)' /\ ctl' \in ControllerState /\ ctl'.axes \in [Axes -> AxisState]
  BY <1>5, <1>6, Fields DEF Good, Sound
<1>9. ProtocolTypeOK'
  <2>1. TypeOK'
    BY <1>3, <1>6, <1>8, TypedIds DEF TypeOK
  <2>2. event' \in Events
    BY <1>3 DEF Quiet, Events
  <2>3. heard' \in [order : Orders, reply : Replies]
    BY <1>4, <1>5, <1>6
  <2> QED BY <1>3, <1>7, <2>1, <2>2, <2>3 DEF ProtocolTypeOK, EngineInv
<1>10. ASSUME NEW ax \in Axes
       PROVE  LET a == ctl.axes[ax]
                  b == ctl'.axes[ax]
              IN  /\ a.activeId <= engine.lastId
                  /\ a.lastCompleted <= engine.lastId
                  /\ a.activeId \in Nat /\ a.lastCompleted \in Nat
                  /\ b.activeId \in Nat /\ b.lastCompleted \in Nat
                  /\ ~WithoutIds => InOrder(a)
                  /\ \/ b = a /\ id <= engine.lastId
                     \/ Given(a, b, id) /\ (id = 0 \/ id > engine.lastId)
  BY <1>4, <1>5, <1>6, <1>8, TypedIds
     DEF EngineInv, IdsPart, AnnouncedPart, AxisState, IdIsUsed
<1>11. IdsPart' /\ StartsNothingOlder
  <2>1. ASSUME NEW ax \in Axes
        PROVE  /\ ctl'.axes[ax].activeId <= engine'.lastId
               /\ ctl'.axes[ax].lastCompleted <= engine'.lastId
               /\ ctl'.axes[ax].activeId # ctl.axes[ax].activeId =>
                    ctl'.axes[ax].activeId \in {0, engine'.lastId}
                      /\ (ctl'.axes[ax].activeId # 0 =>
                             engine'.lastId > engine.lastId)
    <3> DEFINE a == ctl.axes[ax]
               b == ctl'.axes[ax]
    <3>1. /\ a.activeId <= engine.lastId /\ a.lastCompleted <= engine.lastId
          /\ a.activeId \in Nat /\ a.lastCompleted \in Nat
          /\ \/ b = a /\ id <= engine.lastId
             \/ Given(a, b, id) /\ (id = 0 \/ id > engine.lastId)
      BY <1>10
    <3>2. engine.lastId \in Nat
      BY TypedIds
    <3> HIDE DEF a, b
    <3>3. /\ b.activeId <= engine'.lastId /\ b.lastCompleted <= engine'.lastId
          /\ b.activeId # a.activeId =>
               b.activeId \in {0, engine'.lastId}
                 /\ (b.activeId # 0 => engine'.lastId > engine.lastId)
      BY <1>4, <1>7, <3>1, <3>2 DEF Given
    <3> QED BY <3>3 DEF a, b
  <2> QED BY <2>1 DEF IdsPart, StartsNothingOlder
<1>12. ASSUME ~WithoutIds PROVE AnnouncedPart'
  <2>1. ASSUME NEW ax \in Axes
        PROVE  /\ InOrder(ctl'.axes[ax])
               /\ ctl.axes[ax].lastCompleted <= ctl'.axes[ax].lastCompleted
    <3> DEFINE a == ctl.axes[ax]
               b == ctl'.axes[ax]
    <3>1. /\ a.lastCompleted <= engine.lastId /\ InOrder(a)
          /\ a.activeId \in Nat /\ a.lastCompleted \in Nat
          /\ b.activeId \in Nat /\ b.lastCompleted \in Nat
          /\ b = a \/ (Given(a, b, id) /\ id > engine.lastId)
      BY <1>4, <1>10, <1>12
    <3>2. engine.lastId \in Nat
      BY TypedIds
    <3> HIDE DEF a, b
    <3>3. InOrder(b) /\ a.lastCompleted <= b.lastCompleted
      BY <1>4, <3>1, <3>2 DEF Given, SameOrder, InOrder
    <3> QED BY <3>3 DEF a, b
  <2>2. PICK ax \in Axes : announced.id <= ctl.axes[ax].lastCompleted
    BY <1>12 DEF EngineInv, AnnouncedPart
  <2>3. announced.id <= ctl'.axes[ax].lastCompleted
    BY <1>10, <2>1, <2>2, TypedIds
  <2>4. announced.upTo <= issued
    BY <1>12 DEF EngineInv, AnnouncedPart
  <2>5. announced.upTo <= issued' /\ announced.upTo # issued'
    BY <1>3, <2>4, TypedIds
  <2> QED BY <1>3, <2>1, <2>3, <2>5 DEF AnnouncedPart
<1>13. event'.kind # "complete"
  BY <1>3 DEF Quiet
<1> QED BY <1>8, <1>9, <1>11, <1>12, <1>13
        DEF Kept, CompletionIsTrue, AnnouncesNothingTwice

\* The end of the controller's service().
LEMMA ServiceStep ==
  ASSUME EngineInv, ServiceProtocol
  PROVE  ProtocolTypeOK' /\ Good(ctl)' /\ Kept
<1>1. PICK raw \in SwitchLevels, armOk \in ArmChoices :
        LET served == ServiceAll(ctl, pressed, raw, armOk)
        IN  /\ ctl' = served
            /\ engine' = Remember(engine, served)
            /\ event' = EventOf(engine, served)
            /\ announced' = IF /\ EventOf(engine, served).kind = "complete"
                               /\ ~AnyHoming(served)
                              THEN [id |-> LastCompleted(served),
                                    upTo |-> issued]
                              ELSE announced
  BY DEF ServiceProtocol
<1>2. /\ engine' = Remember(engine, ctl') /\ event' = EventOf(engine, ctl')
      /\ announced' = IF event'.kind = "complete" /\ ~AnyHoming(ctl')
                        THEN [id |-> LastCompleted(ctl'), upTo |-> issued]
                        ELSE announced
  BY <1>1
<1>3. /\ heard' = Nothing /\ accepted' = TRUE /\ issued' = issued
      /\ pressed' = pressed /\ silent' = silent
  BY DEF ServiceProtocol, Unasked
<1>4. Served(ctl, ctl') /\ Current(ctl')
  <2>1. raw \in [Axes -> BOOLEAN] /\ armOk \in [Axes -> BOOLEAN]
    BY CommandAssumption DEF ArmChoices
  <2> QED BY <1>1, <2>1, TypedIds, ServiceAllServed DEF EngineInv
<1>5. /\ Good(ctl)' /\ Good(ctl') /\ ctl' \in ControllerState
      /\ ctl'.axes \in [Axes -> AxisState]
  BY <1>4, Fields DEF Served, Good, Sound
<1>6. /\ engine' \in EngineState /\ engine'.lastId = engine.lastId
      /\ engine'.moving = \E ax \in Axes : ctl'.state.axes[ax].moving
  BY <1>2, <1>5, TypedIds, RememberFields
<1>7. /\ event' \in Events
      /\ event'.kind = "complete" =>
           /\ engine.moving /\ ctl'.state.fault = "none"
           /\ \A ax \in Axes : ~ctl'.state.axes[ax].moving
           /\ event'.id = LastCompleted(ctl')
  BY <1>2, <1>5, TypedIds, EventFields
<1>8. ASSUME NEW ax \in Axes
      PROVE  /\ ctl'.state.axes[ax].moving = ctl'.axes[ax].moving
             /\ ctl'.state.axes[ax].lastCompleted = ctl'.axes[ax].lastCompleted
             /\ ctl'.axes[ax].lastCompleted \in Nat
             /\ Followed(ctl.axes[ax], ctl'.axes[ax])
  <2>1. Followed(ctl.axes[ax], ctl'.axes[ax])
    BY <1>4, ServedFollowed
  <2>2. ctl'.state.axes[ax] = Seen(ctl'.axes[ax])
    BY <1>4 DEF Current
  <2>3. ctl'.axes[ax].lastCompleted \in Nat
    BY <1>5 DEF AxisState
  <2> QED BY <2>1, <2>2, <2>3, SeenFields
<1>9. /\ LastCompleted(ctl') \in Nat
      /\ \A ax \in Axes : ctl'.axes[ax].lastCompleted <= LastCompleted(ctl')
      /\ \E ax \in Axes : ctl'.axes[ax].lastCompleted = LastCompleted(ctl')
  BY <1>5, <1>8, LastCompletedIs
<1>10. announced' \in [id : Nat, upTo : Nat]
  <2>1. announced \in [id : Nat, upTo : Nat]
    BY DEF EngineInv, ProtocolTypeOK
  <2> QED BY <1>2, <1>9, <2>1, TypedIds
<1>11. ProtocolTypeOK'
  BY <1>3, <1>5, <1>6, <1>7, <1>10, TypedIds
     DEF ProtocolTypeOK, EngineInv, TypeOK
<1>12. /\ IdsPart' /\ StartsNothingOlder
       /\ ~WithoutIds => /\ \A ax \in Axes : InOrder(ctl'.axes[ax])
                         /\ \E ax \in Axes :
                              announced.id <= ctl'.axes[ax].lastCompleted
  BY <1>5, <1>6, <1>8, NoLine
<1>13. CompletionIsTrue'
  <2> SUFFICES ASSUME event'.kind = "complete"
               PROVE  /\ ~AnyMoving(ctl') /\ ~ctl'.latched
                      /\ \A ax \in Axes : ctl'.axes[ax].fault = "none"
                      /\ event'.id <= engine'.lastId
    BY DEF CompletionIsTrue
  <2>1. ~AnyMoving(ctl')
    BY <1>7, <1>8 DEF AnyMoving
  <2>2. ~ctl'.latched
    BY <1>4, <1>7 DEF Current
  <2>3. \A ax \in Axes : ctl'.axes[ax].fault = "none"
    BY <1>5, <1>7 DEF Good, Honest
  <2>4. event'.id <= engine'.lastId
    BY <1>7, <1>9, <1>12 DEF IdsPart
  <2> QED BY <2>1, <2>2, <2>3, <2>4
<1>14. ASSUME ~WithoutIds PROVE AnnouncesNothingTwice
  <2> SUFFICES ASSUME event'.kind = "complete"
               PROVE  /\ event'.id >= announced.id
                      /\ issued > announced.upTo
    BY DEF AnnouncesNothingTwice
  <2>1. event'.id >= announced.id
    <3>1. PICK ax \in Axes : announced.id <= ctl'.axes[ax].lastCompleted
      BY <1>12, <1>14
    <3> QED BY <1>7, <1>8, <1>9, <3>1, TypedIds
  <2>2. announced.upTo <= issued /\ announced.upTo # issued
    BY <1>7, <1>14 DEF EngineInv, AnnouncedPart
  <2> QED BY <2>1, <2>2, TypedIds
<1>15. ASSUME ~WithoutIds PROVE AnnouncedPart'
  <2>1. CASE event'.kind = "complete" /\ ~AnyHoming(ctl')
    <3>1. announced'.id = LastCompleted(ctl') /\ announced'.upTo = issued
      BY <1>2, <2>1
    <3>2. Calm(ctl') /\ ~engine'.moving
      BY <1>6, <1>7, <1>8, <2>1 DEF Calm, AnyHoming, Homing
    <3>3. \E ax \in Axes : announced'.id <= ctl'.axes[ax].lastCompleted
      BY <1>9, <3>1
    <3> QED BY <1>3, <1>12, <1>15, <3>1, <3>2, <3>3, TypedIds DEF AnnouncedPart
  <2>2. CASE ~(event'.kind = "complete" /\ ~AnyHoming(ctl'))
    <3>1. announced' = announced
      BY <1>2, <2>2
    <3>2. announced.upTo = issued => Calm(ctl') /\ ~engine'.moving
      BY <1>6, <1>8, <1>15 DEF EngineInv, AnnouncedPart, Calm, Followed
    <3>3. announced.upTo <= issued
      BY <1>15 DEF EngineInv, AnnouncedPart
    <3> QED BY <1>3, <1>12, <1>15, <3>1, <3>2, <3>3 DEF AnnouncedPart
  <2> QED BY <2>1, <2>2
<1> QED BY <1>5, <1>11, <1>12, <1>13, <1>14, <1>15 DEF Kept

\* Whatever else happens between two lines announces no completion.
LEMMA SilentStep ==
  ASSUME EngineInv, Unasked, Good(ctl)', pressed' \in BOOLEAN,
         \A ax \in Axes : Followed(ctl.axes[ax], ctl'.axes[ax]),
         engine' \in EngineState, engine'.lastId = engine.lastId,
         event' \in Events, event'.kind # "complete",
         heard' = heard, silent' \in BOOLEAN, announced' = announced,
         Calm(ctl) /\ ~engine.moving => Calm(ctl') /\ ~engine'.moving
  PROVE  ProtocolTypeOK' /\ Good(ctl)' /\ Kept
<1>1. /\ IdsPart' /\ StartsNothingOlder
      /\ ~WithoutIds => /\ \A ax \in Axes : InOrder(ctl'.axes[ax])
                        /\ \E ax \in Axes :
                             announced.id <= ctl'.axes[ax].lastCompleted
  BY NoLine
<1>2. ctl' \in ControllerState
  BY DEF Good, Sound
<1>3. ProtocolTypeOK'
  BY <1>2, TypedIds DEF ProtocolTypeOK, EngineInv, TypeOK, Unasked
<1>4. CompletionIsTrue' /\ AnnouncesNothingTwice
  BY DEF CompletionIsTrue, AnnouncesNothingTwice
<1>5. ASSUME ~WithoutIds PROVE AnnouncedPart'
  <2>1. /\ announced.upTo <= issued
        /\ announced.upTo = issued => ~engine.moving /\ Calm(ctl)
    BY <1>5 DEF EngineInv, AnnouncedPart
  <2>2. issued' = issued
    BY DEF Unasked
  <2> QED BY <1>1, <1>5, <2>1, <2>2 DEF AnnouncedPart
<1> QED BY <1>1, <1>3, <1>4, <1>5 DEF Kept

\* The heartbeat timeout,
LEMMA HeartbeatStep ==
  ASSUME EngineInv, HostHeartbeatTimeout
  PROVE  ProtocolTypeOK' /\ Good(ctl)' /\ Kept
<1>1. /\ ctl' = GiveHostUp(ctl) /\ engine' = Remember(engine, ctl')
      /\ event' = [kind |-> "heartbeat", id |-> 0] /\ silent' = TRUE
      /\ Unasked /\ pressed' = pressed /\ heard' = heard
      /\ announced' = announced
  BY DEF HostHeartbeatTimeout
<1>2. /\ Good(ctl')
      /\ \A ax \in Axes : /\ Followed(ctl.axes[ax], ctl'.axes[ax])
                         /\ ~ctl'.axes[ax].moving
                         /\ ctl'.state.axes[ax] = Seen(ctl'.axes[ax])
  BY <1>1, HostGivenUp DEF EngineInv
<1>3. Good(ctl)' /\ ctl' \in ControllerState
  BY <1>2 DEF Good, Sound
<1>4. /\ engine' \in EngineState /\ engine'.lastId = engine.lastId
      /\ engine'.moving = \E ax \in Axes : ctl'.state.axes[ax].moving
  BY <1>1, <1>3, TypedIds, RememberFields
<1>5. \A ax \in Axes : ~ctl'.state.axes[ax].moving
  <2>1. \A ax \in Axes : ctl'.state.axes[ax].moving = ctl'.axes[ax].moving
    BY <1>2, SeenFields
  <2> QED BY <1>2, <2>1
<1>6. Calm(ctl) => Calm(ctl')
  BY <1>2, <1>5 DEF Calm, Followed
<1>7. event' \in Events /\ event'.kind # "complete"
  BY <1>1 DEF Events, EventKinds
<1> QED BY <1>1, <1>2, <1>3, <1>4, <1>5, <1>6, <1>7, TypedIds, SilentStep

\* an emergency stop an interrupt asked for,
LEMMA RequestStep ==
  ASSUME EngineInv, EmergencyRequest
  PROVE  ProtocolTypeOK' /\ Good(ctl)' /\ Kept
<1>1. /\ ctl' = EmergencyStopAll(ctl).ctl /\ event' = Quiet /\ Unasked
      /\ pressed' = pressed /\ engine' = engine /\ heard' = heard
      /\ silent' = silent /\ announced' = announced
  BY DEF EmergencyRequest
<1>2. /\ Good(ctl') /\ Current(ctl')
      /\ \A ax \in Axes : Broken(ctl.axes[ax], ctl'.axes[ax])
  BY <1>1, TypedIds, EmergencyStopAllFields
<1>3. Good(ctl)'
  BY <1>2
<1>4. \A ax \in Axes : Followed(ctl.axes[ax], ctl'.axes[ax])
  BY <1>2 DEF Broken, SameOrder, Followed
<1>5. Calm(ctl')
  <2>1. \A ax \in Axes : ctl'.state.axes[ax].moving = ctl'.axes[ax].moving
    BY <1>2, SeenFields DEF Current
  <2> QED BY <1>2, <2>1 DEF Calm, Broken
<1>6. event' \in Events /\ event'.kind # "complete" /\ silent' \in BOOLEAN
  BY <1>1 DEF Events, Quiet, EngineInv, ProtocolTypeOK
<1> QED BY <1>1, <1>3, <1>4, <1>5, <1>6, TypedIds, SilentStep

\* and the timers, the diagnostics, the emergency input and time.
LEMMA SurroundingsStep ==
  ASSUME EngineInv, Surroundings
  PROVE  ProtocolTypeOK' /\ Good(ctl)' /\ Kept
<1>1. /\ event' = Quiet /\ engine' = engine /\ heard' = heard
      /\ silent' = silent /\ announced' = announced
      /\ DiagnosticsTick \/ PulseDone \/ InputChanges \/ Tick
  BY DEF Surroundings
<1>2. /\ Unasked /\ pressed' \in BOOLEAN /\ Served(ctl, ctl')
      /\ ctl'.state = ctl.state \/ Current(ctl')
  BY <1>1, TypedIds, UnaskedServed DEF EngineInv
<1>3. Good(ctl)'
  BY <1>2 DEF Served
<1>4. \A ax \in Axes : Followed(ctl.axes[ax], ctl'.axes[ax])
  BY <1>2, ServedFollowed
<1>5. Calm(ctl) => Calm(ctl')
  <2>1. \/ ctl'.state = ctl.state
        \/ \A ax \in Axes : ctl'.state.axes[ax].moving = ctl'.axes[ax].moving
    BY <1>2, SeenFields DEF Current
  <2> QED BY <1>4, <2>1 DEF Calm, Followed
<1>6. event' \in Events /\ event'.kind # "complete" /\ silent' \in BOOLEAN
  BY <1>1 DEF Events, Quiet, EngineInv, ProtocolTypeOK
<1> QED BY <1>1, <1>2, <1>3, <1>4, <1>5, <1>6, TypedIds, SilentStep

\* So every step keeps the invariant, and does what the properties say.
LEMMA ProtocolStep ==
  EngineInv /\ [ProtocolNext]_protocolVars
    => EngineInv' /\ (ProtocolNext => Kept)
<1> SUFFICES ASSUME EngineInv, [ProtocolNext]_protocolVars
             PROVE  EngineInv' /\ (ProtocolNext => Kept)
  OBVIOUS
<1>1. CASE ProtocolNext
  <2>1. ProtocolTypeOK' /\ Good(ctl)' /\ Kept
    BY <1>1, LineStep, ServiceStep, HeartbeatStep, RequestStep,
       SurroundingsStep DEF ProtocolNext
  <2> QED BY <2>1 DEF Kept, EngineInv
<1>2. CASE UNCHANGED protocolVars
  <2>1. /\ ctl' = ctl /\ pressed' = pressed /\ issued' = issued
        /\ accepted' = accepted /\ engine' = engine /\ event' = event
        /\ heard' = heard /\ silent' = silent /\ announced' = announced
    BY <1>2 DEF protocolVars
  <2>2. /\ ProtocolTypeOK' /\ Good(ctl)' /\ IdsPart'
        /\ ~WithoutIds => AnnouncedPart'
    BY <2>1 DEF EngineInv, ProtocolTypeOK, TypeOK, IdsPart, AnnouncedPart
  <2>3. EngineInv'
    BY <2>2 DEF EngineInv
  <2>4. ProtocolNext => EngineInv' /\ Kept
    BY <1>1
  <2> QED BY <2>3, <2>4
<1> QED BY <1>1, <1>2

-----------------------------------------------------------------------------
(* The start *)

\* At the start no line has been handled, but for the HOME BOTH of the homed
\* state, and nothing is announced.
LEMMA ProtocolStarts ==
  ProtocolInit \/ HomedProtocolInit => EngineInv /\ CompletionIsTrue
<1> SUFFICES ASSUME ProtocolInit \/ HomedProtocolInit
             PROVE  EngineInv /\ CompletionIsTrue
  OBVIOUS
<1>1. /\ FreshEngine(issued) /\ issued \in Nat
      /\ TypeOK /\ Good(ctl) /\ AtRest(ctl, issued)
  <2>1. CASE ProtocolInit
    BY <2>1, Starts DEF ProtocolInit, Init
  <2>2. CASE HomedProtocolInit
    BY <2>2, Starts DEF HomedProtocolInit, HomedInit
  <2> QED BY <2>1, <2>2
<1>2. /\ engine = FreshEngineAt(issued) /\ event = Quiet /\ heard = Nothing
      /\ silent = FALSE /\ announced = [id |-> issued, upTo |-> issued]
  BY <1>1 DEF FreshEngine
<1>3. engine \in EngineState /\ engine.lastId = issued /\ engine.moving = FALSE
  BY <1>1, <1>2 DEF FreshEngineAt, EngineState, Faults, AxisFaults
<1>4. ProtocolTypeOK
  <2>1. event \in Events
    BY <1>2 DEF Quiet, Events
  <2> QED BY <1>1, <1>2, <1>3, <2>1 DEF ProtocolTypeOK
<1>5. IdsPart
  BY <1>1, <1>3 DEF IdsPart, AtRest
<1>6. AnnouncedPart
  <2>1. Calm(ctl)
    <3>1. \A ax \in Axes : ctl.state.axes[ax].moving = ctl.axes[ax].moving
      BY <1>1, SeenFields DEF AtRest
    <3> QED BY <1>1, <3>1 DEF Calm, AtRest
  <2>2. \E ax \in Axes : announced.id <= ctl.axes[ax].lastCompleted
    BY <1>1, <1>2 DEF AtRest, Axes
  <2>3. announced.upTo = issued
    BY <1>2
  <2> QED BY <1>1, <1>3, <2>1, <2>2, <2>3 DEF AnnouncedPart, InOrder, Calm
<1> QED BY <1>1, <1>2, <1>4, <1>5, <1>6
        DEF EngineInv, CompletionIsTrue, Quiet

-----------------------------------------------------------------------------
(* The theorems, from power-on and from the homed state *)

ProtocolBehaviours == ProtocolSpec \/ HomedProtocolSpec

\* All that is said of a behaviour, at once.
LEMMA ProtocolInvariance ==
  ProtocolBehaviours => [](EngineInv /\ CompletionIsTrue)
<1>1. (EngineInv /\ CompletionIsTrue) /\ [ProtocolNext]_protocolVars
        => (EngineInv /\ CompletionIsTrue)'
  <2> SUFFICES ASSUME EngineInv, CompletionIsTrue, [ProtocolNext]_protocolVars
               PROVE  EngineInv' /\ CompletionIsTrue'
    OBVIOUS
  <2>1. EngineInv' /\ (ProtocolNext => Kept)
    BY ProtocolStep
  <2>2. ProtocolNext => CompletionIsTrue'
    BY <2>1 DEF Kept
  <2>3. UNCHANGED protocolVars => CompletionIsTrue'
    BY DEF protocolVars, CompletionIsTrue
  <2> QED BY <2>1, <2>2, <2>3
<1> QED BY <1>1, ProtocolStarts, PTL
        DEF ProtocolBehaviours, ProtocolSpec, HomedProtocolSpec

\* The engine's ids and events, and the controller under it, keep to their
\* types, whatever lines come (protocol.hpp).
THEOREM ProtocolTypes == ProtocolBehaviours => []ProtocolTypeOK
<1>1. EngineInv => ProtocolTypeOK
  BY DEF EngineInv
<1> QED BY <1>1, ProtocolInvariance, PTL

\* MOTION_COMPLETE is never sent of an axis that moves or has a fault, nor
\* under the latch, nor for a command nobody gave (service, 602-633).
THEOREM CompletionsAreTrue == ProtocolBehaviours => []CompletionIsTrue
BY ProtocolInvariance, PTL

\* No line, repeated, overtaken or without an id, makes an axis begin a command
\* that is not the last (handle, 278-309).
THEOREM NothingOlderStarts == ProtocolBehaviours => OlderCommandsNeverStart
<1>1. EngineInv /\ [ProtocolNext]_protocolVars =>
        [\A ax \in Axes :
           ctl'.axes[ax].activeId # ctl.axes[ax].activeId =>
             ctl'.axes[ax].activeId \in {0, engine'.lastId}
               /\ (ctl'.axes[ax].activeId # 0 => engine'.lastId > engine.lastId)
        ]_protocolVars
  BY ProtocolStep DEF Kept, StartsNothingOlder
<1> QED BY <1>1, ProtocolInvariance, PTL
        DEF OlderCommandsNeverStart, ProtocolBehaviours, ProtocolSpec,
            HomedProtocolSpec

\* A host that numbers its lines is not told of a completion after that of a
\* later command, nor of the same one again without having sent a line in
\* between, but for one told between two legs of a homing (service, 603-631).
THEOREM CompletionsComeInOrder ==
  ~WithoutIds => (ProtocolBehaviours => AnnouncedOnce)
<1> SUFFICES ASSUME ~WithoutIds
             PROVE  ProtocolBehaviours => AnnouncedOnce
  OBVIOUS
<1>1. EngineInv /\ [ProtocolNext]_protocolVars =>
        [event'.kind = "complete" =>
           /\ event'.id >= announced.id
           /\ event'.id = announced.id => issued > announced.upTo
        ]_protocolVars
  BY ProtocolStep DEF Kept, AnnouncesNothingTwice
<1> QED BY <1>1, ProtocolInvariance, PTL
        DEF AnnouncedOnce, ProtocolBehaviours, ProtocolSpec,
            HomedProtocolSpec

\* Under the engine, too, the controller stays off while it is locked out, and
\* STATUS hides neither a motion nor a fault: not even from a line that is
\* answered ERR, which overwrites the controller's fault (fault, 199-203).
THEOREM EngineKeepsController ==
  ProtocolBehaviours => [](OffWhenLockedOut /\ StatusHidesNothing)
<1>1. EngineInv => OffWhenLockedOut
  BY DEF EngineInv, Good, Sound, Fit, Sane, PulsePart, Dormant, Resting,
     OffWhenLockedOut, LatchHolds, UninitializedStaysOff, Off
<1>2. EngineInv => StatusHidesNothing
  BY DEF EngineInv, Good, Honest, StatusHidesNothing, MotionIsReported,
     AxisFaultIsReported
<1> QED BY <1>1, <1>2, ProtocolInvariance, PTL
=============================================================================
