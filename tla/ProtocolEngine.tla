--------------------------- MODULE ProtocolEngine ---------------------------
(***************************************************************************)
(* ProtocolEngine over PhysicalMotionController: lines in, replies and     *)
(* events out, as the motion task runs them.                               *)
(*                                                                         *)
(* The motion task calls service() after the lines it finds queued, and    *)
(* the protocol task queues the next line only when the reply is out:      *)
(* there is one line at most between two calls of service().               *)
(* ControllerRuntime models the tasks themselves.                          *)
(*                                                                         *)
(* heard is forgotten by service(): it is there between a line and the      *)
(* next service(), when no other line is handled.                          *)
(*                                                                         *)
(* silent and announced are not variables of the program: the host has     *)
(* sent nothing since its heartbeat was given up; the last completion the  *)
(* host was told of with no axis homing, and after how many lines.         *)
(***************************************************************************)
EXTENDS PhysicalMotionController, ProtocolOperations

CONSTANTS
  HostOrders,   \* the orders the host sends
  WithoutIds    \* whether it also sends lines without CMD

VARIABLES
  engine,     \* last_command_id_ and the previous_ members
  event,      \* what the last step sent unasked
  heard,      \* the line handled since the last service(), with its reply
  silent, announced

protocolVars ==
  <<ctl, pressed, issued, accepted, engine, event, heard, silent,
    announced>>

\* The commands, with the values of the controller's CONSTANTS.
Orders == OrdersFor(Selections, Positions, Deltas, StepCounts)

ASSUME HostAssumption ==
  HostOrders \subseteq Orders /\ WithoutIds \in BOOLEAN

Nothing == [order |-> [op |-> "none"], reply |-> "none"]

\* The engine's ids, its memory of the last event and what it says keep to
\* their types (protocol.hpp).
ProtocolTypeOK ==
  /\ TypeOK
  /\ engine \in EngineState
  /\ event \in Events
  /\ heard \in [order : Orders, reply : Replies] \cup {Nothing}
  /\ silent \in BOOLEAN
  /\ announced \in [id : Nat, upTo : Nat]

FreshEngine(lastId) ==
  /\ engine = FreshEngineAt(lastId)
  /\ event = Quiet
  /\ heard = Nothing
  /\ silent = FALSE
  /\ announced = [id |-> lastId, upTo |-> issued]

-----------------------------------------------------------------------------
(* The calls of the motion task *)

HandleLine(id, order) ==
  /\ heard = Nothing
  /\ issued < MaxCommands
  /\ \E raw \in SwitchLevels, armOk \in ArmChoices, write \in WriteOutcomes :
       LET out == Handled(ctl, engine, id, order, pressed, raw, armOk, write)
       IN  /\ ctl' = out.ctl
           /\ accepted' = (out.reply \in {"OK", "ACCEPTED"})
           /\ heard' = [order |-> order, reply |-> out.reply]
  /\ engine' = Consumed(engine, id)
  /\ issued' = issued + 1
  /\ event' = Quiet
  /\ silent' = FALSE
  /\ UNCHANGED <<pressed, announced>>

\* Fresh, repeated, late and missing ids.
HostLine ==
  \E id \in (IF WithoutIds THEN 0 ELSE 1) .. engine.lastId + 1,
     order \in HostOrders :
    HandleLine(id, order)

AnyHoming(c) == \E ax \in Axes : c.axes[ax].phase \in LivePhases

ServiceProtocol ==
  /\ \E raw \in SwitchLevels, armOk \in ArmChoices :
       LET served == ServiceAll(ctl, pressed, raw, armOk)
       IN  /\ ctl' = served
           /\ engine' = Remember(engine, served)
           /\ event' = EventOf(engine, served)
           /\ announced' = IF /\ EventOf(engine, served).kind = "complete"
                              /\ ~AnyHoming(served)
                             THEN [id |-> LastCompleted(served),
                                   upTo |-> issued]
                             ELSE announced
  /\ heard' = Nothing
  /\ Unasked
  /\ UNCHANGED <<pressed, silent>>

\* The safety task found a driver enabled and the host silent for too long.
HostHeartbeatTimeout ==
  /\ ~silent
  /\ \E ax \in Axes : ctl.state.axes[ax].enabled
  /\ ctl' = GiveHostUp(ctl)
  /\ engine' = Remember(engine, GiveHostUp(ctl))
  /\ event' = [kind |-> "heartbeat", id |-> 0]
  /\ silent' = TRUE
  /\ Unasked
  /\ UNCHANGED <<pressed, heard, announced>>

\* The motion task takes the emergency stop an interrupt asked for.
EmergencyRequest ==
  /\ pressed
  /\ ctl' = EmergencyStopAll(ctl).ctl
  /\ event' = Quiet
  /\ Unasked
  /\ UNCHANGED <<pressed, engine, heard, silent, announced>>

Surroundings ==
  /\ DiagnosticsTick \/ PulseDone \/ InputChanges \/ Tick
  /\ event' = Quiet
  /\ UNCHANGED <<engine, heard, silent, announced>>

ProtocolNext ==
  \/ HostLine
  \/ ServiceProtocol
  \/ HostHeartbeatTimeout
  \/ EmergencyRequest
  \/ Surroundings

ProtocolInit == Init /\ FreshEngine(0)

ProtocolSpec == ProtocolInit /\ [][ProtocolNext]_protocolVars

HomedProtocolInit == HomedInit /\ FreshEngine(1)

HomedProtocolSpec == HomedProtocolInit /\ [][ProtocolNext]_protocolVars

-----------------------------------------------------------------------------
(* Safety *)

\* MOTION_COMPLETE is true when it is sent: the axes themselves (and not only
\* the copy that STATUS shows) are at rest, none of them has a fault, nothing
\* is latched, and the id is of a command that was consumed (service,
\* 602-633).
CompletionIsTrue ==
  event.kind = "complete" =>
    /\ ~AnyMoving(ctl) /\ ~ctl.latched
    /\ \A ax \in Axes : ctl.axes[ax].fault = "none"
    /\ event.id <= engine.lastId

\* Once the host is given up nothing moves and nothing is powered until it
\* sends a line again (host_heartbeat_timeout, 635-644).
HeartbeatStops == silent => \A ax \in Axes : Off(ctl.axes[ax])

\* MOTION_COMPLETE comes when the command is over: no axis is still homing.
CompletionIsFinal ==
  event.kind = "complete" => ~AnyHoming(ctl)

\* MOTION_COMPLETE comes when every axis that the command set in motion has
\* finished that motion (test_physical/test_main.cpp:220-237).
CompletionIsOfBoth ==
  event.kind = "complete" =>
    \A ax \in Axes : ctl.axes[ax].activeId = event.id
                       => ctl.axes[ax].lastCompleted = event.id

\* A bench move answered POSITION_TRUSTED=0 leaves the position untrusted.
BenchIsUntrusted ==
  heard.order.op = "MOTOR_STEP" /\ heard.reply = "ACCEPTED" =>
    ~ctl.axes[heard.order.axis].trusted

\* No command starts a motion once a later one was consumed: a repeated or
\* overtaken line does not move an axis a second time (handle, 278-309).
OlderCommandsNeverStart ==
  [][\A ax \in Axes :
       ctl'.axes[ax].activeId # ctl.axes[ax].activeId =>
         ctl'.axes[ax].activeId \in {0, engine'.lastId}
           /\ (ctl'.axes[ax].activeId # 0 => engine'.lastId > engine.lastId)
    ]_protocolVars

\* No command is announced complete after a later one, and none again unless
\* the host has sent a line in between or the first time was between two legs
\* of a homing (service, 603-631).
AnnouncedOnce ==
  [][event'.kind = "complete" =>
       /\ event'.id >= announced.id
       /\ event'.id = announced.id => issued > announced.upTo
    ]_protocolVars

\* No command is ever announced complete a second time.
AnnouncedOnlyOnce ==
  [][event'.kind = "complete" => event'.id > announced.id]_protocolVars

\* When a coordinated move ends with both axes on target, the host is told so
\* (test_physical/test_main.cpp:350-367).
CompletionIsAnnounced ==
  [][/\ ctl.coordinated /\ ~ctl'.coordinated
     /\ engine.moving
     /\ \A ax \in Axes : ctl'.axes[ax].fault = "none"
     /\ \A ax \in Axes : ctl'.axes[ax].lastCompleted = engine.lastId
     => event'.kind = "complete"]_protocolVars
=============================================================================
