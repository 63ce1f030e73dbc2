----------------------------- MODULE HostClient -----------------------------
(***************************************************************************)
(* The synchronous host API, SerialTransport and PhysicalMotionController  *)
(* of the Python package, talking to ControllerRuntime over the serial     *)
(* line, which loses nothing and keeps the order both ways.                *)
(*                                                                         *)
(* A call writes one line and reads until its reply; a motion call then    *)
(* waits for its completion event, writing a HEARTBEAT whenever a quarter  *)
(* of a second brings nothing, and asks for STATUS in the end.  The host   *)
(* runs from one read of the line to the next without being seen.          *)
(*                                                                         *)
(* The transport waits two seconds for a reply.  After 250 ms the protocol *)
(* task says that there is none, with id 0, so that its own timeout is     *)
(* left out; a reply that is late finds another request, and is refused.   *)
(***************************************************************************)
EXTENDS ControllerRuntime

CONSTANTS
  Calls,     \* the calls the host program makes, as orders
  MaxCalls,  \* bound on their number
  MaxPolls   \* empty polls until motion_timeout_s is over

ASSUME ClientAssumption ==
  /\ Calls \subseteq AllOrders
  /\ MaxCalls \in Nat
  /\ MaxPolls \in Nat

VARIABLES
  inbox,    \* lines on their way to the host, or in its serial buffer
  events,   \* the transport's _events
  client,   \* the call under way
  calls     \* what MaxCalls bounds

clientVars == <<client, calls>>

hostClientVars == <<runtimeVars, inbox, events, clientVars>>

NoCall == [op |-> "none"]

\* STATUS and HEARTBEAT alike.
Query == [op |-> "QUERY"]

MotionOps == {"HOME", "MOVE", "MOVE_REL"}

\* Where a call is: waiting for a reply, or for an event.
Requesting == {"call", "heartbeat", "stop", "status"}

\* The client is at one of its waits, for one of its calls, within its polls
\* and its limit of calls (motion_client.py).
ClientTypeOK ==
  /\ inbox \in Seq(OutLine)
  /\ events \in Seq(OutLine)
  /\ client \in [at : Requesting \cup {"idle", "poll"},
                 call : Calls \cup {NoCall}, motion : Nat,
                 polls : 0 .. MaxPolls,
                 outcome : {"none", "returned", "raised"}]
  /\ calls \in 0 .. MaxCalls

HostInit ==
  /\ RuntimeInit
  /\ inbox = <<>> /\ events = <<>>
  /\ client = [at |-> "idle", call |-> NoCall, motion |-> 0, polls |-> 0,
               outcome |-> "none"]
  /\ calls = 0

-----------------------------------------------------------------------------
(* Requests *)

\* The _command_id of the line written last.
RequestId == sent + 1

\* request(): one line more, with the next id.
Writes(order) ==
  /\ uart' = Append(uart, [id |-> RequestId + 1, order |-> order])
  /\ sent' = sent + 1

WritesNothing == UNCHANGED <<uart, sent>>

Firm == UNCHANGED <<controller, motionVars, safetyVars, inputVars, outbound,
                    supervised, proto, ticks>>

Goes(at) == client' = [client EXCEPT !.at = at]

Ends(outcome) ==
  client' = [client EXCEPT !.at = "idle", !.outcome = outcome, !.polls = 0]

Raises == Ends("raised") /\ WritesNothing

\* The end of a motion call: position().
AsksPosition == Goes("status") /\ Writes(Query)

\* home(), move_to(), move_relative(), stop(), reset_fault(), ...
Call ==
  /\ client.at = "idle"
  /\ calls < MaxCalls
  /\ calls' = calls + 1
  /\ \E order \in Calls :
       /\ client' = [at |-> "call", call |-> order, motion |-> RequestId + 1,
                     polls |-> 0, outcome |-> "none"]
       /\ Writes(order)
  /\ Quietly /\ Firm
  /\ UNCHANGED <<inbox, events>>

\* Bug: events that come before a reply are thrown away.
Forgotten(line) == events

Kept(line) == Append(events, line)

\* _raw_request() puts events aside.
KeepEvent ==
  /\ client.at \in Requesting
  /\ inbox # <<>> /\ Head(inbox).kind \in EventKinds
  /\ events' = Kept(Head(inbox))
  /\ inbox' = Tail(inbox)
  /\ Quietly /\ Firm /\ WritesNothing
  /\ UNCHANGED clientVars

\* What a reply without error leads to.
Proceed(reply) ==
  CASE client.at = "call" ->
         IF client.call.op \notin MotionOps
           THEN Ends("returned") /\ WritesNothing
         ELSE IF reply.kind = "ACCEPTED"
           THEN Goes("poll") /\ WritesNothing
         ELSE AsksPosition
    [] client.at = "heartbeat" -> Goes("poll") /\ WritesNothing
    [] client.at = "stop" -> Raises
    [] client.at = "status" -> Ends("returned") /\ WritesNothing

\* Any other line is the reply: its id has to be that of the request.
ReadReply ==
  /\ client.at \in Requesting
  /\ inbox # <<>> /\ Head(inbox).kind \notin EventKinds
  /\ LET reply == Head(inbox)
     IN  IF reply.id = RequestId /\ reply.kind \in {"OK", "ACCEPTED"}
           THEN Proceed(reply)
           ELSE Raises
  /\ inbox' = Tail(inbox)
  /\ Quietly /\ Firm
  /\ UNCHANGED <<events, calls>>

-----------------------------------------------------------------------------
(* _wait_for_motion() *)

\* Bug: whatever completes is what was waited for.
CompletesAny(event) == event.kind = "complete"

Completes(event) == event.kind = "complete" /\ event.id = client.motion

\* Events of older commands and the end of an emergency stop are skipped.
Skipped(event) ==
  \/ event.kind = "complete" /\ event.id < client.motion
  \/ event.kind = "released"

React(event) ==
  IF Completes(event) THEN AsksPosition
  ELSE IF Skipped(event) THEN UNCHANGED client /\ WritesNothing
  ELSE Raises

\* read_event(): those put aside come first; a reply is out of place.
ReadEvent ==
  /\ client.at = "poll"
  /\ \/ /\ events # <<>>
        /\ React(Head(events))
        /\ events' = Tail(events)
        /\ UNCHANGED inbox
     \/ /\ events = <<>> /\ inbox # <<>>
        /\ React(Head(inbox))
        /\ inbox' = Tail(inbox)
        /\ UNCHANGED events
  /\ Quietly /\ Firm
  /\ UNCHANGED calls

IsInTime == client.polls < MaxPolls

PollIsEmpty ==
  /\ client.at = "poll"
  /\ events = <<>> /\ inbox = <<>>
  /\ IsInTime
  /\ client' = [client EXCEPT !.at = "heartbeat", !.polls = @ + 1]
  /\ Writes(Query)
  /\ Quietly /\ Firm
  /\ UNCHANGED <<inbox, events, calls>>

\* Bug: the deadline is checked only when events come.
DeadlineIsOverIfHeard == client.polls = MaxPolls /\ events \o inbox # <<>>

DeadlineIsOver == client.polls = MaxPolls

\* The deadline is looked at before the next event is.
GiveUpWaiting ==
  /\ client.at = "poll"
  /\ DeadlineIsOver
  /\ Goes("stop")
  /\ Writes([op |-> "STOP"])
  /\ Quietly /\ Firm
  /\ UNCHANGED <<inbox, events, calls>>

ClientStep ==
  Call \/ KeepEvent \/ ReadReply \/ ReadEvent \/ PollIsEmpty \/ GiveUpWaiting

-----------------------------------------------------------------------------
(* Both sides *)

\* What the protocol task writes arrives.
Arrives ==
  inbox' = IF said' = Silence THEN inbox ELSE Append(inbox, said')

\* A quarter of a second is well below the heartbeat timeout: a host in a
\* call is never taken for lost.
NotLostInCall ==
  client.at # "idle" /\ safety'.silence > safety.silence =>
    safety'.silence < HostTimeout

FirmwareStep ==
  /\ Firmware
  /\ Arrives
  /\ NotLostInCall
  /\ UNCHANGED <<events, clientVars>>

HostNext == FirmwareStep \/ ClientStep

\* The host process reads what comes, and its polls time out.
ClientReady ==
  \/ client.at \in Requesting /\ inbox # <<>>
  \/ client.at = "poll" /\ (events \o inbox # <<>> \/ IsInTime \/ DeadlineIsOver)

HostTickReady ==
  /\ TickReady
  /\ client.at # "idle" => safety.silence + 1 < HostTimeout

HostFairness ==
  /\ []<>(motionAt = "take") /\ []<>(motionAt = "publish")
  /\ []<>(safety.at = "drain") /\ []<>(safety.at = "check")
  /\ []<>(~ProtocolReady) \/ []<><<ProtocolTask>>_runtimeVars
  /\ []<>(~HostTickReady) \/ []<><<Tick>>_runtimeVars
  /\ []<>(~ClientReady) \/ []<><<ClientStep>>_hostClientVars

HostSpec == HostInit /\ [][HostNext]_hostClientVars

FairHostSpec == HostSpec /\ HostFairness

-----------------------------------------------------------------------------
(* Properties *)

Ordered(order) ==
  IF order.op \in {"HOME", "MOVE_REL"} /\ order.axis # "BOTH"
    THEN {order.axis} ELSE Axes

\* A motion call that returns has been carried out: each axis it was for has
\* completed this very command and is at rest, whatever came before it on the
\* line (_wait_for_motion, 241-267).  The run leaves the emergency input
\* alone; ReturnedCallsArrived has it for any edges, where the home switches
\* stay open.
ReturnedMeansArrived ==
  client.outcome = "returned" /\ client.call.op \in MotionOps =>
    \A ax \in Ordered(client.call) :
      /\ ctl.axes[ax].lastCompleted = client.motion
      /\ ~ctl.axes[ax].moving

\* Nothing is left that could still bring an event.
AllSaid ==
  /\ inbox = <<>> /\ events = <<>> /\ outbound = <<>> /\ motionQueue = <<>>
  /\ ~pending /\ ~AnyMoving(ctl)
  /\ engine = Remember(engine, Synchronize(ctl))
  /\ motionAt = "take"

\* A call does not wait for an event that will never come (the test
\* test_already_complete_motion_does_not_wait_for_an_event).
NoIdleWait == client.at = "poll" => ~AllSaid

HasLength(order) == ~(order.op = "MOVE_REL" /\ order.by = 0)

\* The same of a move that goes somewhere: its end is not lost on the host,
\* were it announced before the reply to the move or to a heartbeat is read
\* (_raw_request puts events aside, read_event takes them first).  So it is of
\* the two-step move of its run.  A move of one step may end before the
\* engine sees it (HostShortMove), and a full outbound queue drops the event.
MovesAreHeardOf ==
  client.at = "poll" /\ HasLength(client.call) => ~AllSaid

\* Each call comes to an end (motion_timeout_s, 248 and 266).
CallsEnd == client.at # "idle" ~> client.at = "idle"

\* The API is synchronous: between calls no axis is moving.
RestBetweenCalls == client.at = "idle" => ~AnyMoving(ctl)
=============================================================================
