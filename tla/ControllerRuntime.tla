------------------------- MODULE ControllerRuntime -------------------------
(***************************************************************************)
(* The tasks of controller_runtime.cpp, their queues and the emergency     *)
(* input's interrupt, around the real controller and protocol operations.  *)
(*                                                                         *)
(*   motion task    owns ctl and engine: takes the emergency request, then *)
(*                  handles queued messages until there are none, then     *)
(*                  serves the protocol engine and publishes the flags     *)
(*   safety task    polls the emergency input, supervises the host         *)
(*   protocol task  reads a line, queues it, writes what comes out until   *)
(*                  the reply to that line is out or 250 ms have passed    *)
(*   diagnostics    queues a tick now and then                             *)
(*   input ISR      drops STEP and EN of both axes, asks for the stop      *)
(*                                                                         *)
(* A task runs from one queue, flag or I/O operation to the next without   *)
(* being seen: that is one action.  A handler is one action too, so an     *)
(* interrupt falls before or after it.  Task notifications only shorten    *)
(* waits that time out by themselves (1 ms, 25 ms), so a waiting task may  *)
(* always go on.  Here timers and drivers do their part: their failures are *)
(* the matter of PhysicalMotionController.                                 *)
(***************************************************************************)
EXTENDS ProtocolOperations, Sequences

CONSTANTS
  LineOrders,        \* the orders the host sends
  MaxLines,          \* bound on the lines the host sends
  MaxEdges,          \* bound on the edges of the emergency input
  MaxTicks,          \* bound on the ticks of the diagnostics task
  MotionCapacity,    \* 16
  OutboundCapacity,  \* 24
  SafetyCapacity,    \* 8
  HostTimeout,       \* CONFIG_RADIANCE3D_HOST_HEARTBEAT_TIMEOUT_MS, in ticks
  SwitchLevels       \* levels of the home switches when the motion task reads

ASSUME RuntimeAssumption ==
  /\ LineOrders \subseteq AllOrders
  /\ MaxLines \in Nat /\ MaxEdges \in Nat /\ MaxTicks \in Nat
  /\ MotionCapacity \in Nat \ {0}
  /\ OutboundCapacity \in Nat \ {0}
  /\ SafetyCapacity \in Nat \ {0}
  /\ HostTimeout \in Nat \ {0}
  /\ SwitchLevels \subseteq [Axes -> BOOLEAN] /\ SwitchLevels # {}

VARIABLES
  ctl, engine,   \* owned by the motion task
  pressed,       \* the level of the emergency input
  pending,       \* emergency_stop_pending
  motionAt,      \* where the motion task is in its loop
  motionQueue,   \* messages to the motion task
  outbound,      \* lines to the protocol task, with their tokens
  supervised,    \* the drivers-enabled bits of state_events
  safety,        \* the locals of the safety task
  safetyQueue,   \* how many activity messages wait for it
  proto,         \* the locals of the protocol task
  uart,          \* lines the host has sent, not read yet
  said,          \* the line the last step wrote to the host, if any
  overdue,       \* history: tokens of the lines the host was told TIMEOUT of
  sent, edges, ticks   \* what MaxLines, MaxEdges and MaxTicks bound

controller == <<ctl, engine>>
motionVars == <<motionAt, motionQueue, pending>>
safetyVars == <<safety, safetyQueue>>
hostVars == <<uart, sent>>
inputVars == <<pressed, edges>>

runtimeVars ==
  <<controller, motionVars, safetyVars, hostVars, inputVars, outbound,
    supervised, proto, said, overdue, ticks>>

\* A line out is a reply, an event, or what the protocol task itself says.
LineKinds == Replies \cup {"BUSY", "TIMEOUT"} \cup EventKinds

OutLine == [kind : LineKinds, id : Nat]

Silence == [kind |-> "nothing", id |-> 0]

HostLines == [id : Nat, order : LineOrders]

Messages == [kind : {"line"}, token : Nat, id : Nat, order : LineOrders]
              \cup [kind : {"heartbeat", "diagnostics"}]

\* The tasks stay at their program points, the three queues within their
\* lengths and the controller within its types (controller_runtime.cpp:532-534).
RuntimeTypeOK ==
  /\ ctl \in ControllerState
  /\ engine \in EngineState
  /\ pressed \in BOOLEAN /\ pending \in BOOLEAN /\ supervised \in BOOLEAN
  /\ motionAt \in {"take", "drain", "publish", "set"}
  /\ motionQueue \in Seq(Messages) /\ Len(motionQueue) <= MotionCapacity
  /\ outbound \in Seq([token : Nat, line : OutLine])
  /\ Len(outbound) <= OutboundCapacity
  /\ safety \in [at : {"drain", "wait", "check"}, seen : BOOLEAN,
                 tripped : BOOLEAN, silence : 0 .. HostTimeout]
  /\ safetyQueue \in 0 .. SafetyCapacity
  /\ proto \in [at : {"idle", "post", "wait"}, token : Nat,
                line : Seq(HostLines)]
  /\ uart \in Seq(HostLines)
  /\ said \in OutLine \cup {Silence}
  /\ overdue \subseteq Nat
  /\ sent \in Nat /\ edges \in Nat /\ ticks \in Nat

\* Both axes homed by command 1, the host heard: all tasks at their start.
\* The emergency input may have all its edges yet, or none.
RuntimeInit ==
  LET axis == [StartupAxis("ready", FALSE) EXCEPT
                 !.activeId = 1, !.lastCompleted = 1, !.trusted = TRUE,
                 !.homed = TRUE, !.lossReason = "none", !.enabled = TRUE,
                 !.outputs = TRUE, !.phase = "complete",
                 !.direction = HomeSide,
                 !.position = HomeOffset * StartMicrosteps,
                 !.target = HomeOffset * StartMicrosteps]
      ready == StartupController([ax \in Axes |-> "ready"], FALSE,
                                 [ax \in Axes |-> FALSE])
  IN  /\ ctl = Synchronize([ready EXCEPT !.axes = [ax \in Axes |-> axis]])
      /\ engine = FreshEngineAt(1)
      /\ pressed = FALSE /\ pending = FALSE /\ supervised = TRUE
      /\ motionAt = "take" /\ motionQueue = <<>> /\ outbound = <<>>
      /\ safety = [at |-> "drain", seen |-> TRUE, tripped |-> FALSE,
                   silence |-> 0]
      /\ safetyQueue = 0
      /\ proto = [at |-> "idle", token |-> 0, line |-> <<>>]
      /\ uart = <<>> /\ said = Silence /\ overdue = {}
      /\ sent = 0 /\ edges \in {0, MaxEdges} /\ ticks = 0

-----------------------------------------------------------------------------
(* Queues: xQueueSend with no wait, and what a full queue does *)

\* queue_motion_message()
CanQueueMotion == Len(motionQueue) < MotionCapacity

\* queue_outbound(): a full queue drops the line.
QueueOutbound(token, line) ==
  outbound' = IF Len(outbound) < OutboundCapacity
                THEN Append(outbound, [token |-> token, line |-> line])
                ELSE outbound

QueueEvent(event) ==
  IF event.kind = "none" THEN UNCHANGED outbound ELSE QueueOutbound(0, event)

\* Nothing is written to the host, or nothing of a line that is overdue.
Quietly == said' = Silence /\ UNCHANGED overdue

-----------------------------------------------------------------------------
(* motion_task *)

AllArmed == [ax \in Axes |-> TRUE]

\* Bug: a request whose input has bounced back is dropped.
TakenIfPressed(c) ==
  IF pending /\ pressed THEN EmergencyStopAll(c).ctl ELSE c

Taken(c) == IF pending THEN EmergencyStopAll(c).ctl ELSE c

TakeEmergency ==
  /\ motionAt = "take"
  /\ ctl' = Taken(ctl)
  /\ pending' = FALSE
  /\ motionAt' = "drain"
  /\ Quietly
  /\ UNCHANGED <<engine, motionQueue, safetyVars, hostVars, inputVars,
                 outbound, supervised, proto, ticks>>

\* service_motion_message()
ServiceMessage(m, raw) ==
  \/ /\ m.kind = "line"
     /\ LET out == Handled(ctl, engine, m.id, m.order, pressed, raw, AllArmed,
                           "written")
        IN  /\ ctl' = out.ctl
            /\ QueueOutbound(m.token, [kind |-> out.reply, id |-> m.id])
     /\ engine' = Consumed(engine, m.id)
  \/ /\ m.kind = "heartbeat"
     /\ ctl' = GiveHostUp(ctl)
     /\ engine' = Remember(engine, GiveHostUp(ctl))
     /\ QueueEvent([kind |-> "heartbeat", id |-> 0])
  \/ /\ m.kind = "diagnostics"
     /\ ctl' = DiagnoseAll(ctl, [ax \in Axes |-> "ok"])
     /\ UNCHANGED <<engine, outbound>>

ReceiveMessage ==
  /\ motionAt = "drain"
  /\ motionQueue # <<>>
  /\ \E raw \in SwitchLevels : ServiceMessage(Head(motionQueue), raw)
  /\ motionQueue' = Tail(motionQueue)
  /\ Quietly
  /\ UNCHANGED <<motionAt, pending, safetyVars, hostVars, inputVars,
                 supervised, proto, ticks>>

Serve ==
  /\ motionAt = "drain"
  /\ motionQueue = <<>>
  /\ \E raw \in SwitchLevels :
       LET served == ServiceAll(ctl, pressed, raw, AllArmed)
       IN  /\ ctl' = served
           /\ engine' = Remember(engine, served)
           /\ QueueEvent(EventOf(engine, served))
  /\ motionAt' = "publish"
  /\ Quietly
  /\ UNCHANGED <<motionQueue, pending, safetyVars, hostVars, inputVars,
                 supervised, proto, ticks>>

\* update_shared_state(), of whose bits only drivers-enabled are read: all of
\* them are cleared, and then those that hold are set.
ClearFlags ==
  /\ motionAt = "publish"
  /\ supervised' = FALSE
  /\ motionAt' = "set"
  /\ Quietly
  /\ UNCHANGED <<controller, motionQueue, pending, safetyVars, hostVars,
                 inputVars, outbound, proto, ticks>>

\* The loop's wait of 1 ms is over when the request is taken next.
SetFlags ==
  /\ motionAt = "set"
  /\ supervised' = \E ax \in Axes : ctl.state.axes[ax].enabled
  /\ motionAt' = "take"
  /\ Quietly
  /\ UNCHANGED <<controller, motionQueue, pending, safetyVars, hostVars,
                 inputVars, outbound, proto, ticks>>

MotionTask ==
  \/ TakeEmergency \/ ReceiveMessage \/ Serve
  \/ ClearFlags \/ SetFlags

-----------------------------------------------------------------------------
(* safety_task *)

\* Bug: activity is noted, but supervision is not resumed.
HeardStillTripped == [safety EXCEPT !.seen = TRUE, !.silence = 0]

Heard == [safety EXCEPT !.seen = TRUE, !.tripped = FALSE, !.silence = 0]

DrainActivity ==
  /\ safety.at = "drain"
  /\ safety' = [IF safetyQueue > 0 THEN Heard ELSE safety EXCEPT
                  !.at = "wait"]
  /\ safetyQueue' = 0
  /\ Quietly
  /\ UNCHANGED <<controller, motionVars, hostVars, inputVars, outbound,
                 supervised, proto, ticks>>

\* Woken by a notification or after 25 ms, the task reads the input.
PollEmergency ==
  /\ safety.at = "wait"
  /\ pending' = (pending \/ pressed)
  /\ safety' = [safety EXCEPT !.at = "check"]
  /\ Quietly
  /\ UNCHANGED <<controller, motionAt, motionQueue, safetyQueue, hostVars,
                 inputVars, outbound, supervised, proto, ticks>>

HostIsLost ==
  safety.seen /\ ~safety.tripped /\ supervised /\ safety.silence = HostTimeout

\* if (queue_motion_message(timeout)) heartbeat_tripped = true
TrippedIfQueued == CanQueueMotion

SuperviseHost ==
  /\ safety.at = "check"
  /\ motionQueue' = IF HostIsLost /\ CanQueueMotion
                      THEN Append(motionQueue, [kind |-> "heartbeat"])
                      ELSE motionQueue
  /\ safety' = [safety EXCEPT
                  !.at = "drain",
                  !.tripped = @ \/ (HostIsLost /\ TrippedIfQueued)]
  /\ Quietly
  /\ UNCHANGED <<controller, motionAt, pending, safetyQueue, hostVars,
                 inputVars, outbound, supervised, proto, ticks>>

SafetyTask == DrainActivity \/ PollEmergency \/ SuperviseHost

-----------------------------------------------------------------------------
(* diagnostics_task *)

DiagnosticsTask ==
  /\ ticks < MaxTicks
  /\ ticks' = ticks + 1
  /\ motionQueue' = IF CanQueueMotion
                      THEN Append(motionQueue, [kind |-> "diagnostics"])
                      ELSE motionQueue
  /\ Quietly
  /\ UNCHANGED <<controller, motionAt, pending, safetyVars, hostVars,
                 inputVars, outbound, supervised, proto>>

-----------------------------------------------------------------------------
(* protocol_task *)

\* write_host_line() of the next line out
WriteNext ==
  /\ outbound # <<>>
  /\ said' = Head(outbound).line
  /\ outbound' = Tail(outbound)
  /\ UNCHANGED overdue

\* The loop that forwards what is queued before it reads.
ForwardIdle ==
  /\ proto.at = "idle"
  /\ WriteNext
  /\ UNCHANGED <<controller, motionVars, safetyVars, hostVars, inputVars,
                 supervised, proto, ticks>>

\* A whole line has been read: it counts as host activity.
ReadLine ==
  /\ proto.at = "idle"
  /\ uart # <<>>
  /\ proto' = [at |-> "post", token |-> proto.token + 1,
               line |-> <<Head(uart)>>]
  /\ uart' = Tail(uart)
  /\ safetyQueue' = IF safetyQueue < SafetyCapacity
                      THEN safetyQueue + 1 ELSE safetyQueue
  /\ Quietly
  /\ UNCHANGED <<controller, motionVars, safety, sent, inputVars, outbound,
                 supervised, ticks>>

BackToIdle == proto' = [proto EXCEPT !.at = "idle", !.line = <<>>]

PostLine ==
  /\ proto.at = "post"
  /\ LET line == Head(proto.line)
     IN  IF CanQueueMotion
           THEN /\ motionQueue' = Append(motionQueue,
                     [kind |-> "line", token |-> proto.token,
                      id |-> line.id, order |-> line.order])
                /\ proto' = [proto EXCEPT !.at = "wait", !.line = <<>>]
                /\ Quietly
           ELSE /\ BackToIdle
                /\ said' = [kind |-> "BUSY", id |-> 0]
                /\ UNCHANGED <<motionQueue, overdue>>
  /\ UNCHANGED <<controller, motionAt, pending, safetyVars, hostVars,
                 inputVars, outbound, supervised, ticks>>

\* Bug: the first line out is taken for the reply.
IsAnyLine(message) == TRUE

IsTheReply(message) == message.token = proto.token

\* Events are forwarded until the reply is out.
ForwardWaiting ==
  /\ proto.at = "wait"
  /\ WriteNext
  /\ IF IsTheReply(Head(outbound)) THEN BackToIdle ELSE UNCHANGED proto
  /\ UNCHANGED <<controller, motionVars, safetyVars, hostVars, inputVars,
                 supervised, ticks>>

\* Bug: the task waits for ever.
NeverLate == FALSE

\* 250 ms without a line: the reply was dropped, or it is late, for the motion
\* task may be at UART reads of 20 ms each for longer than that.
ReplyIsOverdue == outbound = <<>>

ResponseTimeout ==
  /\ proto.at = "wait"
  /\ ReplyIsOverdue
  /\ BackToIdle
  /\ said' = [kind |-> "TIMEOUT", id |-> 0]
  /\ overdue' = overdue \cup {proto.token}
  /\ UNCHANGED <<controller, motionVars, safetyVars, hostVars, inputVars,
                 outbound, supervised, ticks>>

ProtocolTask ==
  ForwardIdle \/ ReadLine \/ PostLine \/ ForwardWaiting \/ ResponseTimeout

-----------------------------------------------------------------------------
(* The input's interrupt, the timers, the clock *)

\* What input_isr() does of itself to both axes.
Dropped(c) ==
  [c EXCEPT !.axes =
     [ax \in Axes |-> [@[ax] EXCEPT !.armed = FALSE, !.stepHigh = FALSE,
                                    !.outputs = FALSE]]]

\* An edge of the input, and its interrupt: one that reads the level active
\* asks for the stop, even if the input bounces back right after.  A pulse
\* over before the interrupt reads the level is no edge here.
InputEdge ==
  /\ edges < MaxEdges
  /\ edges' = edges + 1
  /\ pressed' = ~pressed
  /\ ctl' = IF pressed' THEN Dropped(ctl) ELSE ctl
  /\ pending' = (pending \/ pressed')
  /\ Quietly
  /\ UNCHANGED <<engine, motionAt, motionQueue, safetyVars, hostVars,
                 outbound, supervised, proto, ticks>>

\* Both alarms of a pulse (AxisController splits them).
PulseDone ==
  /\ \E ax \in Axes :
       /\ ctl.axes[ax].armed
       /\ ctl' = [ctl EXCEPT !.axes[ax].armed = FALSE,
                             !.axes[ax].completed = @ + 1]
  /\ Quietly
  /\ UNCHANGED <<engine, motionVars, safetyVars, hostVars, inputVars,
                 outbound, supervised, proto, ticks>>

\* A tick is a large part of a second: none falls between the activity
\* message of a line and the line itself, which the protocol task posts in
\* consecutive statements.
TickReady ==
  /\ proto.at # "post"
  /\ safety.silence < HostTimeout \/ AgeAll(ctl) # ctl

Tick ==
  /\ TickReady
  /\ ctl' = AgeAll(ctl)
  /\ safety' = [safety EXCEPT !.silence = Older(@, HostTimeout)]
  /\ Quietly
  /\ UNCHANGED <<engine, motionVars, safetyQueue, hostVars, inputVars,
                 outbound, supervised, proto, ticks>>

Hardware == InputEdge \/ PulseDone \/ Tick

Firmware == MotionTask \/ SafetyTask \/ DiagnosticsTask \/ ProtocolTask \/ Hardware

-----------------------------------------------------------------------------
(* A host that sends any line at any time, one ahead of the controller *)

HostSends ==
  /\ sent < MaxLines
  /\ uart = <<>>
  /\ sent' = sent + 1
  /\ \E order \in LineOrders : uart' = <<[id |-> sent + 2, order |-> order]>>
  /\ Quietly
  /\ UNCHANGED <<controller, motionVars, safetyVars, inputVars, outbound,
                 supervised, proto, ticks>>

RuntimeNext == Firmware \/ HostSends

ProtocolReady ==
  \/ outbound # <<>>
  \/ proto.at = "post"
  \/ proto.at = "idle" /\ uart # <<>>
  \/ proto.at = "wait" /\ ReplyIsOverdue

\* The tasks run for ever and the clock goes on; nothing is asked of the
\* host, of the emergency input or of the diagnostics task.  Now and then the
\* safety task reads the drivers-enabled bits outside the few instructions
\* between their clearing and their setting: the two tasks' periods are not
\* locked to one another, and neither is bound to a core.  The weak
\* fairness of the protocol task and of Tick is spelt out: TLC is slow to
\* find out whether they are ENABLED.
TaskFairness ==
  /\ []<>(motionAt = "take") /\ []<>(motionAt = "publish")
  /\ []<><<SuperviseHost /\ motionAt # "set">>_runtimeVars
  /\ []<>(~ProtocolReady) \/ []<><<ProtocolTask>>_runtimeVars
  /\ []<>(~TickReady) \/ []<><<Tick>>_runtimeVars

RuntimeSpec == RuntimeInit /\ [][RuntimeNext]_runtimeVars

FairRuntimeSpec == RuntimeSpec /\ TaskFairness

-----------------------------------------------------------------------------
(* Properties *)

\* What is queued or answered behind the back of the protocol task is of lines
\* the host was told TIMEOUT of: when the task reads the next line, a reply
\* to an earlier one can only come out if it was given up as late, and a wait
\* never ends with the reply still to come (protocol_task, 445-457).
OnlyOverdueLinger ==
  LET Expected(token) ==
        token \in overdue \/ (proto.at = "wait" /\ token = proto.token)
  IN  /\ \A i \in 1 .. Len(motionQueue) :
           motionQueue[i].kind = "line" => Expected(motionQueue[i].token)
      /\ \A i \in 1 .. Len(outbound) :
           outbound[i].token # 0 => Expected(outbound[i].token)

\* Every line that is read gets an answer, were it that there is none
\* (protocol_task, 447-457).
LinesAreAnswered == proto.at # "idle" ~> proto.at = "idle"

\* Each edge that the interrupt has read active latches, however soon the
\* input bounces back after that, whatever the motion task is doing and
\* whatever waits in its queue (304-306).
EdgesLatch == pending ~> ctl.latched

SomeHoming == \E ax \in Axes : ctl.axes[ax].phase \in LivePhases

GivenUp ==
  \A ax \in Axes : /\ ~ctl.axes[ax].enabled
                   /\ ~ctl.axes[ax].outputs
                   /\ ~ctl.axes[ax].moving

\* A host that falls silent, as this one does after MaxLines lines, is given
\* up: both axes are switched off, were one of them homing, and for good
\* unless one homes then or later; a homing that goes on takes its power back
\* and keeps it (HeartbeatStops in ProtocolEngine).  The trip is asked for
\* again while the motion queue is full, and supervision resumes with every
\* line (safety_task, 331-371).
LostHostIsGivenUp ==
  ~safety.tripped ~> GivenUp /\ ([]GivenUp \/ <>SomeHoming)

\* When the motion task takes the request the interrupt has already dropped
\* STEP and the enable pins (the comment at 304-306).
InterruptHasDropped ==
  motionAt = "take" /\ pending =>
    \A ax \in Axes : ~ctl.axes[ax].outputs /\ ~ctl.axes[ax].armed
=============================================================================
