------------------------- MODULE ProtocolOperations -------------------------
(***************************************************************************)
(* The operations of ProtocolEngine as functions of its state: the ids it  *)
(* has consumed and what it remembers of the controller, over the record   *)
(* of PhysicalOperations.                                                  *)
(*                                                                         *)
(* A line is an order with a command id; id 0 is a line without CMD.  The  *)
(* text of orders, replies and events is left out but for what a host acts *)
(* on: OK or ERR, which event, and the id of a completion.                 *)
(***************************************************************************)
EXTENDS PhysicalOperations

\* ACCEPTED is an OK that says ACCEPTED=1: the motion is under way.
Replies == {"OK", "ACCEPTED", "ERR", "DUPLICATE", "STALE"}

\* parse: one record per command, MOTOR operations prefixed, with the values
\* they are to carry.
OrdersFor(selections, positions, deltas, stepCounts) ==
  [op : {"QUERY", "MALFORMED", "CLEAR_FAULT", "STOP", "E_STOP"}]
    \cup [op : {"ENABLE"}, on : BOOLEAN]
    \cup [op : {"HOME"}, axis : selections]
    \cup [op : {"MOVE"}, to : positions, speedOk : BOOLEAN]
    \cup [op : {"MOVE_REL"}, axis : selections, by : deltas, speedOk : BOOLEAN]
    \cup [op : {"MOTOR_ENABLE"}, axis : Axes, on : BOOLEAN]
    \cup [op : {"MOTOR_STOP"}, axis : Axes]
    \cup [op : {"MOTOR_STEP"}, axis : Axes, by : stepCounts]
    \cup [op : {"MOTOR_CURRENT"}, axis : Axes]
    \cup [op : {"MOTOR_MICROSTEPS"}, axis : Axes, to : MicrostepChoices]

\* Whatever a line may ask for.
AllOrders == OrdersFor(Axes \cup {"BOTH"}, [Axes -> Int], Int, Int)

\* ESTOP with ACTIVE=1 and with ACTIVE=0, FAULT, MOTION_COMPLETE, and the
\* FAULT of the heartbeat timeout.
EventKinds == {"estop", "released", "fault", "complete", "heartbeat"}

Events == [kind : EventKinds \cup {"none"}, id : Nat]

Quiet == [kind |-> "none", id |-> 0]

\* last_command_id_ and the previous_ members.
EngineState == [lastId : Nat, estop : BOOLEAN, fault : Faults,
                moving : BOOLEAN]

FreshEngineAt(lastId) ==
  [lastId |-> lastId, estop |-> FALSE, fault |-> "none", moving |-> FALSE]

-----------------------------------------------------------------------------
(* handle() *)

\* handle_command(): the call each order makes.  pressed is the level of the
\* emergency input, the rest is as for the handlers of PhysicalOperations.
Dispatch(c, order, id, pressed, raw, armOk, write) ==
  CASE order.op = "QUERY" -> [ctl |-> c, ok |-> TRUE, fault |-> "none"]
    [] order.op = "MALFORMED" -> Reject(c, "invalid_argument")
    [] order.op = "CLEAR_FAULT" -> ClearFaults(c, pressed)
    [] order.op = "STOP" -> StopAll(c)
    [] order.op = "E_STOP" -> EmergencyStopAll(c)
    [] order.op = "ENABLE" -> SetAllEnabled(c, order.on)
    [] order.op = "HOME" -> HomeAxes(c, order.axis, raw, id, armOk)
    [] order.op = "MOVE" -> MoveTo(c, order.to, order.speedOk, id, armOk)
    [] order.op = "MOVE_REL" ->
         MoveBy(c, order.axis, order.by, order.speedOk, id, armOk)
    [] order.op = "MOTOR_ENABLE" -> SetAxisEnabled(c, order.axis, order.on)
    [] order.op = "MOTOR_STOP" -> StopAxis(c, order.axis)
    [] order.op = "MOTOR_STEP" -> BenchAxis(c, order.axis, order.by, id, armOk)
    [] order.op = "MOTOR_CURRENT" -> SetAxisCurrent(c, order.axis, write)
    [] order.op = "MOTOR_MICROSTEPS" ->
         SetAxisMicrosteps(c, order.axis, order.to, write)

\* A refused ENABLE 0 is answered OK all the same.
AnsweredOK(order, out) ==
  out.ok \/ (order.op = "ENABLE" /\ ~order.on)

\* HOME and MOVE say ACCEPTED=1 when an axis moves, the others always.
SaysAccepted(order, c) ==
  \/ order.op \in {"MOVE_REL", "MOTOR_STEP"}
  \/ order.op \in {"HOME", "MOVE"} /\ \E ax \in Axes : c.state.axes[ax].moving

\* fault(): every ERR also becomes the fault of the controller.
Answered(order, out) ==
  IF AnsweredOK(order, out)
    THEN [ctl |-> out.ctl,
          reply |-> IF SaysAccepted(order, out.ctl) THEN "ACCEPTED" ELSE "OK"]
    ELSE [ctl |-> ReportFault(out.ctl, out.fault), reply |-> "ERR"]

\* Bug: an overtaken line is not refused.
IdIsRepeated(engine, id) == id # 0 /\ id = engine.lastId

IdIsUsed(engine, id) == id # 0 /\ id <= engine.lastId

\* handle(): an id is consumed before the command runs, and only once.
Handled(c, engine, id, order, pressed, raw, armOk, write) ==
  IF IdIsUsed(engine, id)
    THEN [ctl |-> c,
          reply |-> IF id = engine.lastId THEN "DUPLICATE" ELSE "STALE"]
    ELSE Answered(order, Dispatch(c, order, id, pressed, raw, armOk, write))

Consumed(engine, id) ==
  [engine EXCEPT !.lastId = IF id > @ THEN id ELSE @]

-----------------------------------------------------------------------------
(* service() and host_heartbeat_timeout() *)

\* Bug: what was moving is moving.
RememberMoving(engine, c) ==
  [engine EXCEPT !.estop = c.state.estop, !.fault = c.state.fault,
                 !.moving = @ \/ \E ax \in Axes : c.state.axes[ax].moving]

\* The previous_ members as the end of both functions sets them.
Remember(engine, c) ==
  [engine EXCEPT !.estop = c.state.estop, !.fault = c.state.fault,
                 !.moving = \E ax \in Axes : c.state.axes[ax].moving]

LastCompleted(c) ==
  LET completed(ax) == c.state.axes[ax].lastCompleted
  IN  IF completed("AZ") > completed("EL") THEN completed("AZ")
                                           ELSE completed("EL")

\* Bug: a completion is announced whatever the fault.
EventOfAnyEnd(engine, c) ==
  IF c.state.estop # engine.estop
    THEN [kind |-> IF c.state.estop THEN "estop" ELSE "released", id |-> 0]
  ELSE IF c.state.fault # engine.fault
    THEN [kind |-> "fault", id |-> 0]
  ELSE IF engine.moving /\ \A ax \in Axes : ~c.state.axes[ax].moving
    THEN [kind |-> "complete", id |-> LastCompleted(c)]
  ELSE Quiet

\* One event at most: the latch, else the fault, else a completion.
EventOf(engine, c) ==
  IF c.state.estop # engine.estop
    THEN [kind |-> IF c.state.estop THEN "estop" ELSE "released", id |-> 0]
  ELSE IF c.state.fault # engine.fault
    THEN [kind |-> "fault", id |-> 0]
  ELSE IF /\ engine.moving
          /\ \A ax \in Axes : ~c.state.axes[ax].moving
          /\ c.state.fault = "none"
    THEN [kind |-> "complete", id |-> LastCompleted(c)]
  ELSE Quiet

\* host_heartbeat_timeout()
GiveHostUp(c) == SetAllEnabled(StopAll(c).ctl, FALSE).ctl

=============================================================================
