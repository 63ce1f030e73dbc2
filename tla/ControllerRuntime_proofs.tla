---------------------- MODULE ControllerRuntime_proofs ----------------------
(***************************************************************************)
(* What is proved of the tasks and of the host that calls, for queues of   *)
(* any length, any calls, and any number of lines, edges and ticks.        *)
(*                                                                         *)
(* AnsweredInTurn: what is queued, handled or answered behind the back of  *)
(* the protocol task is of lines the host was told TIMEOUT of.  The        *)
(* invariant follows a line by its token: as long as the protocol task     *)
(* waits, its token is on the one message that carries the line or on the  *)
(* one reply to it, if that is not dropped, and on nothing else; all other *)
(* tokens in the queues are of lines that are overdue, and below it.       *)
(*                                                                         *)
(* ReturnedCallsArrived: a motion call that returns has been carried out.  *)
(* The invariant follows the call by its id: until it is accepted nothing  *)
(* on its way to the host says that it is (Unanswered); from then on each  *)
(* axis it is for has done it, works on it or has broken it off with a     *)
(* fault, and as long as one has not done it, nothing says that it is done *)
(* (Accepted).  For that the ids must be in order: the line of the call is *)
(* the only one with its id, what the host sends later only asks or stops  *)
(* (Lines), and no axis knows an id above the last one handled (UpTo).     *)
(*                                                                         *)
(* RuntimeTypes, ClientTypes: both sides keep to their types.              *)
(***************************************************************************)
EXTENDS HostClient, Operations_proofs, SequenceTheorems, TLAPS

\* A sequence, of whatever there is.
Queue(q) == \E S : q \in Seq(S)

IsLine(message) == message.kind = "line"

\* The message carries the line with this token, or the line out its reply.
Carries(message, token) == IsLine(message) /\ message.token = token

NotAsked(messages, token) ==
  \A i \in 1 .. Len(messages) : ~Carries(messages[i], token)

NotReplied(lines, token) ==
  \A i \in 1 .. Len(lines) : lines[i].token # token

\* The line is on its way to the motion task at most once,
AskedOnce(messages, token) ==
  \A i, j \in 1 .. Len(messages) :
    Carries(messages[i], token) /\ Carries(messages[j], token) => i = j

\* and so is its reply on the way back.
RepliedOnce(lines, token) ==
  \A i, j \in 1 .. Len(lines) :
    lines[i].token = token /\ lines[j].token = token => i = j

\* All lines on the way, and their replies, are of these tokens.
OnlyOf(messages, lines, tokens) ==
  /\ \A i \in 1 .. Len(messages) :
       IsLine(messages[i]) => messages[i].token \in tokens
  /\ \A i \in 1 .. Len(lines) : lines[i].token \in tokens \cup {0}

\* Of the line under way there is the message or the reply, not both; when the
\* task does not wait there is neither, but of lines that are late.
OneUnderWay(messages, lines, at, token, late) ==
  /\ Queue(messages) /\ Queue(lines)
  /\ token \in Nat /\ late \subseteq 0 .. token
  /\ at # "idle" => token # 0 /\ token \notin late
  /\ OnlyOf(messages, lines, late \cup (IF at = "wait" THEN {token} ELSE {}))
  /\ at = "wait" => /\ AskedOnce(messages, token)
                    /\ RepliedOnce(lines, token)
                    /\ NotAsked(messages, token) \/ NotReplied(lines, token)

\* The inductive invariant.
IInv ==
  /\ OneUnderWay(motionQueue, outbound, proto.at, proto.token, overdue)
  /\ proto = [at |-> proto.at, token |-> proto.token, line |-> proto.line]

-----------------------------------------------------------------------------
(* Queues *)

\* xQueueSend() puts its message behind the others.
LEMMA Appended ==
  ASSUME NEW q, Queue(q), NEW e
  PROVE  LET r == Append(q, e)
         IN  /\ Queue(r) /\ Len(q) \in Nat /\ Len(r) = Len(q) + 1
             /\ \A i \in 1 .. Len(q) : r[i] = q[i]
             /\ r[Len(q) + 1] = e
<1>1. PICK S : q \in Seq(S)
  BY DEF Queue
<1>2. q \in Seq(S \cup {e}) /\ e \in S \cup {e}
  BY <1>1
<1>3. Append(q, e) \in Seq(S \cup {e})
  BY <1>2, AppendProperties
<1>4. Len(q) \in Nat /\ Len(Append(q, e)) = Len(q) + 1
      /\ (\A i \in 1 .. Len(q) : Append(q, e)[i] = q[i])
      /\ Append(q, e)[Len(q) + 1] = e
  BY <1>2, AppendProperties, LenProperties
<1> QED BY <1>3, <1>4 DEF Queue

\* xQueueReceive() takes the first one off.
LEMMA Removed ==
  ASSUME NEW q, Queue(q), q # <<>>
  PROVE  LET r == Tail(q)
         IN  /\ Queue(r) /\ Len(q) \in Nat \ {0} /\ Len(r) = Len(q) - 1
             /\ \A i \in 1 .. Len(r) : r[i] = q[i + 1]
             /\ Head(q) = q[1]
<1>1. PICK S : q \in Seq(S)
  BY DEF Queue
<1>2. Tail(q) \in Seq(S) /\ Len(Tail(q)) = Len(q) - 1
      /\ (\A i \in 1 .. Len(Tail(q)) : Tail(q)[i] = q[i + 1])
  BY <1>1, HeadTailProperties
<1>3. Len(q) \in Nat \ {0}
  BY <1>1, EmptySeq, LenProperties
<1>4. Head(q) = q[1]
  BY <1>1
<1> QED BY <1>2, <1>3, <1>4 DEF Queue

-----------------------------------------------------------------------------
(* What the tasks do to the queues *)

\* A message that carries no line,
LEMMA UnaskedMessage ==
  ASSUME NEW messages, NEW lines, NEW at, NEW token, NEW late, NEW m,
         ~IsLine(m), OneUnderWay(messages, lines, at, token, late)
  PROVE  OneUnderWay(Append(messages, m), lines, at, token, late)
BY Appended DEF OneUnderWay, OnlyOf, AskedOnce, NotAsked, Carries

\* or a line out that is no reply, is of no matter.
LEMMA UnaskedLine ==
  ASSUME NEW messages, NEW lines, NEW at, NEW token, NEW late, NEW line,
         OneUnderWay(messages, lines, at, token, late)
  PROVE  OneUnderWay(messages, Append(lines, [token |-> 0, line |-> line]),
                     at, token, late)
<1> DEFINE e == [token |-> 0, line |-> line]
<1>1. e.token = 0
  OBVIOUS
<1> HIDE DEF e
<1> QED BY <1>1, Appended DEF OneUnderWay, OnlyOf, RepliedOnce, NotReplied

\* Handling the line makes the reply of it, or nothing if that is dropped.
LEMMA LineHandled ==
  ASSUME NEW messages, NEW lines, NEW at, NEW token, NEW late,
         messages # <<>>, OneUnderWay(messages, lines, at, token, late),
         NEW line
  PROVE  LET m == Head(messages)
         IN  /\ OneUnderWay(Tail(messages), lines, at, token, late)
             /\ IsLine(m) =>
                  OneUnderWay(Tail(messages),
                              Append(lines, [token |-> m.token, line |-> line]),
                              at, token, late)
<1> DEFINE m == Head(messages)
           e == [token |-> m.token, line |-> line]
           tokens == late \cup (IF at = "wait" THEN {token} ELSE {})
<1> SUFFICES /\ OneUnderWay(Tail(messages), lines, at, token, late)
             /\ IsLine(m) => OneUnderWay(Tail(messages), Append(lines, e),
                                         at, token, late)
  OBVIOUS
<1>1. e.token = m.token
  OBVIOUS
<1> HIDE DEF e
<1>2. /\ Queue(messages) /\ Queue(Tail(messages))
      /\ Len(messages) \in Nat \ {0} /\ Len(Tail(messages)) = Len(messages) - 1
      /\ \A i \in 1 .. Len(Tail(messages)) : Tail(messages)[i] = messages[i + 1]
      /\ m = messages[1]
  BY Removed DEF OneUnderWay
<1>3. OneUnderWay(Tail(messages), lines, at, token, late)
  BY <1>2 DEF OneUnderWay, OnlyOf, AskedOnce, NotAsked
<1>4. ASSUME IsLine(m)
      PROVE  OneUnderWay(Tail(messages), Append(lines, e), at, token, late)
  <2> HIDE DEF m
  <2>1. m.token \in tokens
    BY <1>2, <1>4 DEF OneUnderWay, OnlyOf
  <2>2. /\ Queue(Append(lines, e)) /\ Len(lines) \in Nat
        /\ Len(Append(lines, e)) = Len(lines) + 1
        /\ \A i \in 1 .. Len(lines) : Append(lines, e)[i] = lines[i]
        /\ Append(lines, e)[Len(lines) + 1] = e
    BY Appended DEF OneUnderWay
  <2>3. OnlyOf(Tail(messages), Append(lines, e), tokens)
    BY <1>1, <1>3, <2>1, <2>2 DEF OneUnderWay, OnlyOf
  <2>4. ASSUME at = "wait"
        PROVE  /\ RepliedOnce(Append(lines, e), token)
               /\ \/ NotAsked(Tail(messages), token)
                  \/ NotReplied(Append(lines, e), token)
    <3>1. CASE m.token = token
      <4>1. Carries(messages[1], token)
        BY <1>2, <1>4, <3>1 DEF Carries
      <4>2. NotAsked(Tail(messages), token)
        BY <1>2, <2>4, <4>1 DEF OneUnderWay, AskedOnce, NotAsked
      <4>3. NotReplied(lines, token)
        BY <1>2, <2>4, <4>1 DEF OneUnderWay, NotAsked
      <4>4. RepliedOnce(Append(lines, e), token)
        BY <2>2, <4>3 DEF RepliedOnce, NotReplied
      <4> QED BY <4>2, <4>4
    <3>2. CASE m.token # token
      <4>1. RepliedOnce(Append(lines, e), token)
        BY <1>1, <2>2, <2>4, <3>2 DEF OneUnderWay, RepliedOnce
      <4>2. NotReplied(lines, token) => NotReplied(Append(lines, e), token)
        BY <1>1, <2>2, <3>2 DEF NotReplied
      <4> QED BY <1>3, <2>4, <4>1, <4>2 DEF OneUnderWay
    <3> QED BY <3>1, <3>2
  <2> QED BY <1>3, <2>2, <2>3, <2>4 DEF OneUnderWay
<1> QED BY <1>3, <1>4

\* The protocol task writes the next line out; if it is the reply, nothing
\* is left of the line under way.
LEMMA LineWritten ==
  ASSUME NEW messages, NEW lines, NEW at, NEW token, NEW late, lines # <<>>,
         OneUnderWay(messages, lines, at, token, late)
  PROVE  /\ OneUnderWay(messages, Tail(lines), at, token, late)
         /\ at = "wait" /\ Head(lines).token = token =>
              OneUnderWay(messages, Tail(lines), "idle", token, late)
<1>1. /\ Queue(lines) /\ Queue(Tail(lines))
      /\ Len(lines) \in Nat \ {0} /\ Len(Tail(lines)) = Len(lines) - 1
      /\ \A i \in 1 .. Len(Tail(lines)) : Tail(lines)[i] = lines[i + 1]
      /\ Head(lines) = lines[1]
  BY Removed DEF OneUnderWay
<1>2. OneUnderWay(messages, Tail(lines), at, token, late)
  BY <1>1 DEF OneUnderWay, OnlyOf, RepliedOnce, NotReplied
<1>3. ASSUME at = "wait", Head(lines).token = token
      PROVE  OneUnderWay(messages, Tail(lines), "idle", token, late)
  <2>1. NotReplied(Tail(lines), token)
    BY <1>1, <1>3 DEF OneUnderWay, RepliedOnce, NotReplied
  <2>2. NotAsked(messages, token)
    BY <1>1, <1>3 DEF OneUnderWay, NotReplied
  <2>3. OnlyOf(messages, Tail(lines), late \cup {token})
    BY <1>2, <1>3 DEF OneUnderWay
  <2>4. OnlyOf(messages, Tail(lines), late)
    BY <2>1, <2>2, <2>3 DEF OnlyOf, NotReplied, NotAsked, Carries
  <2> QED BY <1>2, <2>4 DEF OneUnderWay
<1> QED BY <1>2, <1>3

\* queue_outbound() of a line that is no reply, dropped or not.
LEMMA EventQueued ==
  ASSUME NEW at, NEW token, NEW late, NEW messages,
         OneUnderWay(messages, outbound, at, token, late),
         NEW event, QueueEvent(event) \/ QueueOutbound(0, event)
  PROVE  OneUnderWay(messages, outbound', at, token, late)
<1>1. \/ outbound' = outbound
      \/ outbound' = Append(outbound, [token |-> 0, line |-> event])
  BY DEF QueueEvent, QueueOutbound
<1> QED BY <1>1, UnaskedLine

-----------------------------------------------------------------------------
(* Every step keeps the invariant *)

LEMMA InitIInv == RuntimeInit => IInv
<1> SUFFICES ASSUME RuntimeInit PROVE IInv
  OBVIOUS
<1>1. /\ motionQueue = <<>> /\ outbound = <<>> /\ overdue = {}
      /\ proto = [at |-> "idle", token |-> 0, line |-> <<>>]
  BY DEF RuntimeInit
<1>2. Queue(<<>>) /\ Len(<<>>) = 0
  <2>1. <<>> \in Seq({})
    BY EmptySeq
  <2> QED BY <2>1, EmptySeq DEF Queue
<1>3. OneUnderWay(<<>>, <<>>, "idle", 0, {})
  BY <1>2 DEF OneUnderWay, OnlyOf
<1> QED BY <1>1, <1>3 DEF IInv

\* The motion task.
LEMMA MotionStep ==
  ASSUME IInv, MotionTask
  PROVE  IInv'
<1>1. OneUnderWay(motionQueue, outbound, proto.at, proto.token, overdue)
  BY DEF IInv
<1>2. proto' = proto /\ overdue' = overdue
  BY DEF MotionTask, TakeEmergency, ReceiveMessage, Serve, ClearFlags,
         SetFlags, Quietly
<1>3. CASE TakeEmergency \/ ClearFlags \/ SetFlags
  <2>1. motionQueue' = motionQueue /\ outbound' = outbound
    BY <1>3 DEF TakeEmergency, ClearFlags, SetFlags
  <2> QED BY <1>2, <2>1 DEF IInv
<1>4. CASE Serve
  <2>1. motionQueue' = motionQueue
    BY <1>4 DEF Serve
  <2>2. PICK event : QueueEvent(event)
    BY <1>4 DEF Serve
  <2>3. OneUnderWay(motionQueue, outbound', proto.at, proto.token, overdue)
    BY <1>1, <2>2, EventQueued
  <2> QED BY <1>2, <2>1, <2>3 DEF IInv
<1>5. CASE ReceiveMessage
  <2> DEFINE m == Head(motionQueue)
             rest == Tail(motionQueue)
  <2>1. motionQueue # <<>> /\ motionQueue' = rest
    BY <1>5 DEF ReceiveMessage
  <2>2. PICK raw \in SwitchLevels : ServiceMessage(m, raw)
    BY <1>5 DEF ReceiveMessage
  <2>3. OneUnderWay(rest, outbound, proto.at, proto.token, overdue)
    BY <1>1, <2>1, LineHandled
  <2>4. ASSUME IsLine(m), NEW line, QueueOutbound(m.token, line)
        PROVE  OneUnderWay(rest, outbound', proto.at, proto.token, overdue)
    <3>1. \/ outbound' = outbound
          \/ outbound' = Append(outbound, [token |-> m.token, line |-> line])
      BY <2>4 DEF QueueOutbound
    <3> QED BY <1>1, <2>1, <2>3, <2>4, <3>1, LineHandled
  <2>5. ASSUME NEW event, QueueEvent(event)
        PROVE  OneUnderWay(rest, outbound', proto.at, proto.token, overdue)
    BY <2>3, <2>5, EventQueued
  <2>6. \/ IsLine(m) /\ \E line : QueueOutbound(m.token, line)
        \/ \E event : QueueEvent(event)
        \/ outbound' = outbound
    BY <2>2 DEF ServiceMessage, IsLine
  <2>7. OneUnderWay(rest, outbound', proto.at, proto.token, overdue)
    BY <2>3, <2>4, <2>5, <2>6
  <2> QED BY <1>2, <2>1, <2>7 DEF IInv
<1> QED BY <1>3, <1>4, <1>5 DEF MotionTask

\* The tasks and interrupts that queue no line and write none out.
LEMMA OthersStep ==
  ASSUME IInv, SafetyTask \/ DiagnosticsTask \/ Hardware \/ HostSends
  PROVE  IInv'
<1>1. OneUnderWay(motionQueue, outbound, proto.at, proto.token, overdue)
  BY DEF IInv
<1>2. proto' = proto /\ outbound' = outbound /\ overdue' = overdue
  BY DEF SafetyTask, DrainActivity, PollEmergency, SuperviseHost,
         DiagnosticsTask, Hardware, InputEdge, PulseDone, Tick, HostSends,
         Quietly
<1>3. \/ motionQueue' = motionQueue
      \/ motionQueue' = Append(motionQueue, [kind |-> "heartbeat"])
      \/ motionQueue' = Append(motionQueue, [kind |-> "diagnostics"])
  BY DEF SafetyTask, DrainActivity, PollEmergency, SuperviseHost,
         DiagnosticsTask, Hardware, InputEdge, PulseDone, Tick, HostSends,
         motionVars
<1>4. ~IsLine([kind |-> "heartbeat"]) /\ ~IsLine([kind |-> "diagnostics"])
  BY DEF IsLine
<1>5. OneUnderWay(motionQueue', outbound, proto.at, proto.token, overdue)
  BY <1>1, <1>3, <1>4, UnaskedMessage
<1> QED BY <1>2, <1>5 DEF IInv

\* The protocol task.
LEMMA ProtocolStep ==
  ASSUME IInv, ProtocolTask
  PROVE  IInv'
<1> DEFINE at == proto.at
           token == proto.token
<1>1. /\ OneUnderWay(motionQueue, outbound, at, token, overdue)
      /\ Queue(motionQueue) /\ token \in Nat
      /\ proto = [at |-> at, token |-> token, line |-> proto.line]
  BY DEF IInv, OneUnderWay
<1>2. WriteNext => /\ outbound # <<>> /\ outbound' = Tail(outbound)
                   /\ overdue' = overdue
                   /\ OneUnderWay(motionQueue, outbound', at, token, overdue)
  BY <1>1, LineWritten DEF WriteNext
<1>3. BackToIdle => /\ proto'.at = "idle" /\ proto'.token = token
                    /\ proto' = [at |-> "idle", token |-> token,
                                 line |-> <<>>]
  BY <1>1 DEF BackToIdle
<1>4. CASE ForwardIdle
  <2>1. WriteNext /\ proto' = proto /\ motionQueue' = motionQueue
    BY <1>4 DEF ForwardIdle, motionVars
  <2> QED BY <1>1, <1>2, <2>1 DEF IInv
<1>5. CASE ReadLine
  <2>1. /\ at = "idle" /\ motionQueue' = motionQueue /\ outbound' = outbound
        /\ overdue' = overdue
        /\ proto' = [at |-> "post", token |-> token + 1,
                     line |-> <<Head(uart)>>]
    BY <1>5 DEF ReadLine, motionVars, Quietly
  <2>2. OneUnderWay(motionQueue, outbound, "post", token + 1, overdue)
    BY <1>1, <2>1 DEF OneUnderWay
  <2> QED BY <2>1, <2>2 DEF IInv
<1>6. CASE PostLine
  <2> DEFINE line == Head(proto.line)
             m == [kind |-> "line", token |-> token, id |-> line.id,
                   order |-> line.order]
  <2>1. IsLine(m) /\ m.token = token
    BY DEF IsLine
  <2>2. /\ at = "post" /\ outbound' = outbound /\ overdue' = overdue
        /\ \/ /\ motionQueue' = Append(motionQueue, m)
              /\ proto' = [proto EXCEPT !.at = "wait", !.line = <<>>]
           \/ motionQueue' = motionQueue /\ BackToIdle
    BY <1>6 DEF PostLine, Quietly
  <2> HIDE DEF m
  <2>3. CASE motionQueue' = motionQueue /\ BackToIdle
    <3>1. OneUnderWay(motionQueue, outbound, "idle", token, overdue)
      BY <1>1, <2>2 DEF OneUnderWay
    <3> QED BY <1>3, <2>2, <2>3, <3>1 DEF IInv
  <2>4. CASE /\ motionQueue' = Append(motionQueue, m)
             /\ proto' = [proto EXCEPT !.at = "wait", !.line = <<>>]
    <3>1. /\ proto'.at = "wait" /\ proto'.token = token
          /\ proto' = [at |-> "wait", token |-> token, line |-> <<>>]
      BY <1>1, <2>4
    <3>2. /\ Queue(motionQueue') /\ Len(motionQueue) \in Nat
          /\ Len(motionQueue') = Len(motionQueue) + 1
          /\ \A i \in 1 .. Len(motionQueue) : motionQueue'[i] = motionQueue[i]
          /\ motionQueue'[Len(motionQueue) + 1] = m
      BY <1>1, <2>4, Appended
    <3>3. /\ token # 0 /\ token \notin overdue
          /\ OnlyOf(motionQueue, outbound, overdue)
      BY <1>1, <2>2 DEF OneUnderWay
    <3>4. NotAsked(motionQueue, token) /\ NotReplied(outbound, token)
      BY <3>3 DEF OnlyOf, NotAsked, NotReplied, Carries
    <3>5. RepliedOnce(outbound, token)
      BY <3>4 DEF RepliedOnce, NotReplied
    <3>6. AskedOnce(motionQueue', token)
      BY <3>2, <3>4 DEF AskedOnce, NotAsked
    <3>7. OnlyOf(motionQueue', outbound, overdue \cup {token})
      BY <2>1, <3>2, <3>3 DEF OnlyOf
    <3>8. OneUnderWay(motionQueue', outbound, "wait", token, overdue)
      BY <1>1, <3>2, <3>3, <3>4, <3>5, <3>6, <3>7 DEF OneUnderWay
    <3> QED BY <2>2, <3>1, <3>8 DEF IInv
  <2> QED BY <2>2, <2>3, <2>4
<1>7. CASE ForwardWaiting
  <2>1. /\ WriteNext /\ at = "wait" /\ motionQueue' = motionQueue
        /\ \/ Head(outbound).token = token /\ BackToIdle
           \/ proto' = proto
    BY <1>7 DEF ForwardWaiting, motionVars, IsTheReply
  <2>2. CASE proto' = proto
    BY <1>1, <1>2, <2>1, <2>2 DEF IInv
  <2>3. CASE Head(outbound).token = token /\ BackToIdle
    <3>1. OneUnderWay(motionQueue, outbound', "idle", token, overdue)
      BY <1>1, <1>2, <2>1, <2>3, LineWritten
    <3> QED BY <1>2, <1>3, <2>1, <2>3, <3>1 DEF IInv
  <2> QED BY <2>1, <2>2, <2>3
<1>8. CASE ResponseTimeout
  <2>1. /\ BackToIdle /\ motionQueue' = motionQueue /\ outbound' = outbound
        /\ at = "wait" /\ overdue' = overdue \cup {token}
    BY <1>8 DEF ResponseTimeout, motionVars
  <2>2. OneUnderWay(motionQueue, outbound, "idle", token, overdue \cup {token})
    BY <1>1, <2>1 DEF OneUnderWay
  <2> QED BY <1>3, <2>1, <2>2 DEF IInv
<1> QED BY <1>4, <1>5, <1>6, <1>7, <1>8 DEF ProtocolTask

LEMMA StepIInv == IInv /\ [RuntimeNext]_runtimeVars => IInv'
<1> SUFFICES ASSUME IInv, [RuntimeNext]_runtimeVars PROVE IInv'
  OBVIOUS
<1>1. CASE UNCHANGED runtimeVars
  BY <1>1 DEF runtimeVars, motionVars, IInv
<1>2. CASE RuntimeNext
  BY <1>2, MotionStep, OthersStep, ProtocolStep DEF RuntimeNext, Firmware
<1> QED BY <1>1, <1>2

-----------------------------------------------------------------------------
(* The first theorem *)

\* What is queued or answered behind the back of the protocol task is of lines
\* the host was told TIMEOUT of, however long the motion task takes: a reply
\* that comes out before the line read last is written is its own or overdue,
\* and a wait never ends with another line's reply while its own is still to
\* come (protocol_task, 445-457).
THEOREM AnsweredInTurn == RuntimeSpec => []OnlyOverdueLinger
<1>1. IInv => OnlyOverdueLinger
  BY DEF IInv, OneUnderWay, OnlyOf, IsLine, OnlyOverdueLinger
<1> QED BY <1>1, InitIInv, StepIInv, PTL DEF RuntimeSpec

-----------------------------------------------------------------------------
(* The controller, by the ids its axes know *)

\* The home switches stay open, whenever the motion task reads them.
AllReleased == [ax \in Axes |-> FALSE]

OpenSwitches == SwitchLevels = {AllReleased}

\* A controller whose axes know no id above n.
UpTo(n) ==
  {c \in ControllerState : \A ax \in Axes : c.axes[ax] \in AxisUpTo(n)}

\* No axis begins anything.
AllOnward(c, d) == \A ax \in Axes : Onward(c.axes[ax], d.axes[ax])

\* The outcome of a handler.
Returns(out, n) == out.ctl \in UpTo(n) /\ out.ok \in BOOLEAN /\ out.fault \in Faults

LEMMA UpToFields ==
  ASSUME NEW n, NEW c \in UpTo(n)
  PROVE  /\ c \in ControllerState /\ c.axes \in [Axes -> AxisState]
         /\ c.axes \in [Axes -> AxisUpTo(n)]
<1>1. c \in ControllerState /\ \A ax \in Axes : c.axes[ax] \in AxisUpTo(n)
  BY DEF UpTo
<1>2. c.axes \in [Axes -> AxisState]
  BY <1>1, Fields
<1> QED BY <1>1, <1>2

LEMMA UpToMore ==
  ASSUME NEW n \in Nat, NEW m \in Nat, n <= m, NEW c \in UpTo(n)
  PROVE  c \in UpTo(m)
BY AxisUpToMore DEF UpTo

\* What leaves the axes alone.
LEMMA SameAxes ==
  ASSUME NEW n, NEW c \in UpTo(n), NEW d \in ControllerState, d.axes = c.axes
  PROVE  d \in UpTo(n) /\ AllOnward(c, d)
BY OnwardSame DEF UpTo, AllOnward

LEMMA AllOnwardAgain ==
  ASSUME NEW c, NEW d, NEW e, AllOnward(c, d), AllOnward(d, e)
  PROVE  AllOnward(c, e)
BY OnwardAgain DEF AllOnward

LEMMA AxesReplaced ==
  ASSUME NEW c \in ControllerState, NEW f \in [Axes -> AxisState]
  PROVE  LET d == [c EXCEPT !.axes = f]
         IN  /\ d \in ControllerState /\ d.axes = f /\ d.state = c.state
             /\ d.coordinated = c.coordinated /\ d.latched = c.latched
             /\ d.initialized = c.initialized /\ d.input = c.input
<1> DEFINE d == [c EXCEPT !.axes = f]
<1>1. d \in ControllerState
  BY ZenonT(60) DEF ControllerState
<1>2. /\ d.axes = f /\ d.state = c.state
      /\ d.coordinated = c.coordinated /\ d.latched = c.latched
      /\ d.initialized = c.initialized /\ d.input = c.input
  BY DEF ControllerState
<1> HIDE DEF d
<1> QED BY <1>1, <1>2 DEF d

\* synchronize_state() and report_fault() leave the axes alone.
LEMMA SynchronizeOnward ==
  ASSUME NEW n, NEW c \in UpTo(n)
  PROVE  LET d == Synchronize(c)
         IN  d \in UpTo(n) /\ AllOnward(c, d) /\ Honest(d) /\ Current(d)
             /\ d.axes = c.axes
<1>1. c \in ControllerState
  BY UpToFields
<1> DEFINE d == Synchronize(c)
<1>2. d \in ControllerState /\ Honest(d) /\ Current(d) /\ d.axes = c.axes
  BY <1>1, SynchronizeFields
<1> HIDE DEF d
<1>3. d \in UpTo(n) /\ AllOnward(c, d)
  BY <1>2, SameAxes
<1> QED BY <1>2, <1>3 DEF d

LEMMA ReportFaultOnward ==
  ASSUME NEW n, NEW c \in UpTo(n), NEW fault \in Faults
  PROVE  LET d == ReportFault(c, fault)
         IN  d \in UpTo(n) /\ AllOnward(c, d) /\ d.axes = c.axes
<1>1. c \in ControllerState
  BY UpToFields
<1> DEFINE d == ReportFault(c, fault)
<1>2. d \in ControllerState /\ d.axes = c.axes
  BY <1>1, ReportFaultFields
<1> HIDE DEF d
<1>3. d \in UpTo(n) /\ AllOnward(c, d)
  BY <1>2, SameAxes
<1> QED BY <1>2, <1>3 DEF d

LEMMA RejectReturns ==
  ASSUME NEW n, NEW c \in UpTo(n), NEW fault \in Faults
  PROVE  /\ Returns(Reject(c, fault), n) /\ Reject(c, fault).ok = FALSE
         /\ AllOnward(c, Reject(c, fault).ctl)
         /\ Reject(c, fault).ctl.axes = c.axes
BY ReportFaultOnward DEF Reject, Returns

LEMMA AnswerReturns ==
  ASSUME NEW n, NEW c \in UpTo(n), NEW fault \in Faults, NEW ok \in BOOLEAN
  PROVE  LET out == Answer(c, ok, fault)
         IN  /\ Returns(out, n) /\ AllOnward(c, out.ctl)
             /\ out.ok = ok /\ Current(out.ctl) /\ Honest(out.ctl)
             /\ out.ctl.axes = c.axes
BY SynchronizeOnward DEF Answer, Returns

\* WithAxis()
LEMMA WithAxisUpTo ==
  ASSUME NEW n, NEW c \in UpTo(n), NEW ax \in Axes, NEW a \in AxisUpTo(n)
  PROVE  LET d == WithAxis(c, ax, a)
         IN  /\ d \in UpTo(n) /\ d.axes = [c.axes EXCEPT ![ax] = a]
             /\ d.latched = c.latched
<1>1. c \in ControllerState /\ a \in AxisState /\ c.axes \in [Axes -> AxisState]
      /\ c.axes \in [Axes -> AxisUpTo(n)]
  BY UpToFields DEF AxisUpTo
<1> DEFINE d == WithAxis(c, ax, a)
<1>2. /\ d \in ControllerState /\ d.axes = [c.axes EXCEPT ![ax] = a]
      /\ d.latched = c.latched
  BY <1>1, WithAxisFields
<1> HIDE DEF d
<1>3. d \in UpTo(n)
  BY <1>1, <1>2 DEF UpTo
<1> QED BY <1>2, <1>3 DEF d

\* stop() and emergency_stop()
LEMMA StopsOnward ==
  ASSUME NEW n \in Nat, NEW c \in UpTo(n),
         NEW out \in {StopAll(c), EmergencyStopAll(c)}
  PROVE  /\ Returns(out, n) /\ AllOnward(c, out.ctl)
         /\ Current(out.ctl) /\ Honest(out.ctl)
<1> DEFINE stopped == [ax \in Axes |-> Stop(c.axes[ax])]
           failed == [ax \in Axes |-> EmergencyStop(c.axes[ax])]
           s == Parted(c, stopped, "stopped")
           e == Locked(c, TRUE, failed, "emergency_stop")
<1>1. c \in ControllerState /\ c.axes \in [Axes -> AxisState]
      /\ c.axes \in [Axes -> AxisUpTo(n)]
  BY UpToFields
<1>2. {"stopped", "emergency_stop"} \subseteq AxisFaults \ {"none"}
      /\ {"stopped", "emergency_stop"} \subseteq Faults
      /\ "emergency_stop" \in TrustLosses
  BY DEF AxisFaults, TrustLosses, Faults
<1>3. ASSUME NEW a \in AxisUpTo(n)
      PROVE  /\ Stop(a) \in AxisUpTo(n) /\ Onward(a, Stop(a))
             /\ EmergencyStop(a) \in AxisUpTo(n) /\ Onward(a, EmergencyStop(a))
  <2>1. a \in AxisState
    BY DEF AxisUpTo
  <2> QED BY <1>2, <2>1, StopCuts, FailCuts, CutShortOnward DEF EmergencyStop
<1>4. /\ stopped \in [Axes -> AxisUpTo(n)] /\ failed \in [Axes -> AxisUpTo(n)]
      /\ \A ax \in Axes : /\ Onward(c.axes[ax], stopped[ax])
                          /\ Onward(c.axes[ax], failed[ax])
  BY <1>1, <1>3
<1>5. out = Answer(s, TRUE, "stopped") \/ out = Answer(e, TRUE, "emergency_stop")
  BY DEF StopAll, EmergencyStopAll, Parted, Locked
<1> HIDE DEF stopped, failed
<1>6. \A f \in [Axes -> AxisUpTo(n)] : f \in [Axes -> AxisState]
  BY DEF AxisUpTo
<1>7. /\ s \in ControllerState /\ s.axes = stopped
      /\ e \in ControllerState /\ e.axes = failed
  <2>1. /\ stopped \in [Axes -> AxisState] /\ failed \in [Axes -> AxisState]
        /\ s = Parted(c, stopped, "stopped")
        /\ e = Locked(c, TRUE, failed, "emergency_stop") /\ TRUE \in BOOLEAN
    BY <1>4, <1>6
  <2> HIDE DEF s, e
  <2>2. s \in ControllerState /\ s.axes = stopped
    BY <1>1, <1>2, <2>1, PartedFields
  <2>3. e \in ControllerState /\ e.axes = failed
    <3> DEFINE fault == "emergency_stop"
               latched == TRUE
    <3>1. fault \in Faults /\ latched \in BOOLEAN
      BY <1>2
    <3>2. e = Locked(c, latched, failed, fault)
      BY <2>1
    <3>3. c \in ControllerState /\ failed \in [Axes -> AxisState]
      BY <1>1, <2>1
    <3> HIDE DEF fault, latched
    <3> QED BY <3>1, <3>2, <3>3, LockedFields
  <2> QED BY <2>2, <2>3
<1> HIDE DEF s, e
<1>8. /\ s \in UpTo(n) /\ AllOnward(c, s)
      /\ e \in UpTo(n) /\ AllOnward(c, e)
  BY <1>4, <1>7 DEF UpTo, AllOnward
<1>9. CASE out = Answer(s, TRUE, "stopped")
  BY <1>2, <1>8, <1>9, AnswerReturns, AllOnwardAgain
<1>10. CASE out = Answer(e, TRUE, "emergency_stop")
  BY <1>2, <1>8, <1>10, AnswerReturns, AllOnwardAgain
<1> QED BY <1>5, <1>9, <1>10

\* The check all motion and configuration handlers begin with.
LEMMA GuardedReturns ==
  ASSUME NEW n \in Nat, NEW c \in UpTo(n), NEW out, Returns(out, n)
  PROVE  /\ Returns(Guarded(c, out), n)
         /\ Guarded(c, out).ok => Guarded(c, out) = out
         /\ AllOnward(c, out.ctl) => AllOnward(c, Guarded(c, out).ctl)
<1>1. {"emergency_stop", "invalid_configuration"} \subseteq Faults
  BY DEF Faults, AxisFaults
<1>2. \/ Guarded(c, out) = out
      \/ Guarded(c, out) = Reject(c, "emergency_stop")
      \/ Guarded(c, out) = Reject(c, "invalid_configuration")
  BY DEF Guarded
<1> QED BY <1>1, <1>2, RejectReturns

\* An order for one axis,
LEMMA OneAxisReturns ==
  ASSUME NEW n \in Nat, NEW id \in Nat, n <= id, NEW c \in UpTo(n),
         NEW ax \in Axes, NEW out, Settles(out, id)
  PROVE  LET o == OneAxis(c, ax, out)
         IN  /\ Returns(o, id) /\ o.ok = out.ok /\ Current(o.ctl)
             /\ o.ctl.axes[ax] = out.axis
<1> DEFINE w == WithAxis(c, ax, out.axis)
<1>1. c \in UpTo(id)
  BY UpToMore
<1>2. out.axis \in AxisUpTo(id) /\ out.ok \in BOOLEAN /\ out.fault \in Faults
  BY DEF Settles
<1>3. w \in UpTo(id) /\ w.axes = [c.axes EXCEPT ![ax] = out.axis]
  BY <1>1, <1>2, WithAxisUpTo
<1>4. w.axes[ax] = out.axis
  BY <1>1, <1>3, UpToFields
<1>5. OneAxis(c, ax, out) = Answer(w, out.ok, out.fault)
  BY DEF OneAxis
<1> HIDE DEF w
<1> DEFINE o == Answer(w, out.ok, out.fault)
<1>6. /\ Returns(o, id) /\ o.ok = out.ok /\ Current(o.ctl)
      /\ o.ctl.axes = w.axes
  BY <1>2, <1>3, AnswerReturns
<1> HIDE DEF o
<1> QED BY <1>4, <1>5, <1>6 DEF o

\* and for both.
LEMMA BothAxesReturns ==
  ASSUME NEW n \in Nat, NEW id \in Nat, n <= id, NEW c \in UpTo(n),
         NEW az, NEW el, Settles(az, id), Settles(el, id),
         NEW evenIfStill \in BOOLEAN,
         NEW o, o = BothAxes(c, az, el, evenIfStill)
  PROVE  /\ Returns(o, id)
         /\ o.ok => /\ az.ok /\ el.ok /\ Current(o.ctl)
                    /\ o.ctl.axes["AZ"] = az.axis
                    /\ o.ctl.axes["EL"] = el.axis
<1> DEFINE w == WithAxis(c, "AZ", az.axis)
           s == WithAxis(w, "EL", el.axis)
           back == WithAxis(s, "AZ", Stop(az.axis))
           together == evenIfStill \/ AnyMoving(s)
           t == [s EXCEPT !.coordinated = together]
<1>1. c \in UpTo(id) /\ "AZ" \in Axes /\ "EL" \in Axes
  BY UpToMore DEF Axes
<1>2. /\ az.axis \in AxisUpTo(id) /\ az.ok \in BOOLEAN /\ az.fault \in Faults
      /\ el.axis \in AxisUpTo(id) /\ el.ok \in BOOLEAN /\ el.fault \in Faults
  BY DEF Settles
<1>3. Stop(az.axis) \in AxisUpTo(id)
  BY <1>2, StopCuts, CutShortOnward DEF AxisUpTo
<1>4. \/ ~az.ok /\ o = Reject(w, az.fault)
      \/ ~el.ok /\ o = Reject(back, el.fault)
      \/ az.ok /\ el.ok /\ o = Answer(t, TRUE, "none")
  BY <1>2, Zenon DEF BothAxes
<1>5. w \in UpTo(id) /\ w.axes = [c.axes EXCEPT !["AZ"] = az.axis]
  BY <1>1, <1>2, WithAxisUpTo
<1> HIDE DEF w
<1>6. s \in UpTo(id) /\ s.axes = [w.axes EXCEPT !["EL"] = el.axis]
  BY <1>1, <1>2, <1>5, WithAxisUpTo
<1> HIDE DEF s
<1>7. back \in UpTo(id)
  BY <1>1, <1>3, <1>6, WithAxisUpTo
<1> HIDE DEF back
<1>8. s.axes["AZ"] = az.axis /\ s.axes["EL"] = el.axis
  <2>1. c.axes \in [Axes -> AxisState] /\ w.axes \in [Axes -> AxisState]
    BY <1>1, <1>5, UpToFields
  <2> QED BY <1>1, <1>5, <1>6, <2>1
<1>9. t \in UpTo(id) /\ t.axes = s.axes
  <2>1. s \in ControllerState
    BY <1>6, UpToFields
  <2>2. together \in BOOLEAN
    OBVIOUS
  <2> HIDE DEF together
  <2>3. t \in ControllerState
    BY <2>1, <2>2, ZenonT(60) DEF ControllerState
  <2>4. t.axes = s.axes
    BY <2>1 DEF ControllerState
  <2> HIDE DEF t
  <2> QED BY <1>6, <2>3, <2>4, SameAxes
<1> HIDE DEF t
<1>10. CASE ~az.ok /\ o = Reject(w, az.fault)
  BY <1>2, <1>5, <1>10, RejectReturns
<1>11. CASE ~el.ok /\ o = Reject(back, el.fault)
  BY <1>2, <1>7, <1>11, RejectReturns
<1>12. CASE az.ok /\ el.ok /\ o = Answer(t, TRUE, "none")
  <2> DEFINE ok == TRUE
             fault == "none"
  <2>1. ok \in BOOLEAN /\ fault \in Faults /\ o = Answer(t, ok, fault)
    BY <1>12 DEF Faults, AxisFaults
  <2> HIDE DEF ok, fault
  <2>2. /\ Returns(o, id) /\ Current(o.ctl) /\ o.ctl.axes = t.axes
    BY <1>9, <2>1, AnswerReturns
  <2> QED BY <1>8, <1>9, <1>12, <2>2
<1> QED BY <1>4, <1>10, <1>11, <1>12

\* One step of each axis.
LEMMA EachOnward ==
  ASSUME NEW n, NEW c \in UpTo(n), NEW d \in ControllerState,
         \A ax \in Axes : d.axes[ax] \in AxisUpTo(n) /\ Onward(c.axes[ax], d.axes[ax])
  PROVE  d \in UpTo(n) /\ AllOnward(c, d)
BY DEF UpTo, AllOnward

\* service()
LEMMA ServiceAllOnward ==
  ASSUME NEW n \in Nat, NEW c \in UpTo(n), NEW level \in BOOLEAN
  PROVE  LET d == ServiceAll(c, level, AllReleased, AllArmed)
         IN  d \in UpTo(n) /\ AllOnward(c, d) /\ Honest(d) /\ Current(d)
<1> DEFINE seen == UpdateEmergency(c, level)
           axes == [ax \in Axes |-> Service(c.axes[ax], AllReleased[ax],
                                            AllArmed[ax])]
           served == [seen EXCEPT !.axes = axes]
           stopped == [ax \in Axes |-> Stop(served.axes[ax])]
           parted == Parted(served, stopped, "driver_critical")
           state == [served.state EXCEPT !.fault = "none"]
           rested == [served EXCEPT !.state = state, !.coordinated = FALSE]
           d == ServiceAll(c, level, AllReleased, AllArmed)
           last == Coordinate(served)
<1>1. /\ c \in ControllerState /\ c.axes \in [Axes -> AxisState]
      /\ c.axes \in [Axes -> AxisUpTo(n)]
  BY UpToFields
<1>2. /\ seen \in ControllerState /\ seen.axes = c.axes
  BY <1>1, UpdateEmergencyFields
<1>3. seen \in UpTo(n) /\ AllOnward(c, seen)
  BY <1>2, SameAxes
<1>4. d = EmergencyStopAll(seen).ctl \/ d = Synchronize(last)
  BY DEF ServiceAll
<1>5. last = served \/ last = parted \/ last = rested
  BY Zenon DEF Coordinate, Parted
<1> HIDE DEF d, last
<1>6. ASSUME NEW ax \in Axes
      PROVE  axes[ax] \in AxisUpTo(n) /\ Onward(c.axes[ax], axes[ax])
  <2>1. axes[ax] = Service(c.axes[ax], FALSE, TRUE)
    BY DEF AllReleased, AllArmed
  <2>2. c.axes[ax] \in AxisUpTo(n) /\ TRUE \in BOOLEAN
    BY <1>1
  <2> HIDE DEF axes
  <2> QED BY <2>1, <2>2, ServiceOnward
<1>7. axes \in [Axes -> AxisState]
  BY <1>6 DEF AxisUpTo
<1> HIDE DEF axes, seen
<1>8. served \in ControllerState /\ served.axes = axes
  BY <1>2, <1>7, AxesReplaced
<1>9. served \in UpTo(n) /\ AllOnward(c, served)
  BY <1>6, <1>8, EachOnward
<1> HIDE DEF served
<1>10. ASSUME NEW ax \in Axes
       PROVE  /\ stopped[ax] \in AxisUpTo(n)
              /\ Onward(served.axes[ax], stopped[ax])
  <2>1. stopped[ax] = Stop(served.axes[ax])
    OBVIOUS
  <2>2. served.axes[ax] \in AxisUpTo(n) /\ served.axes[ax] \in AxisState
    BY <1>9 DEF UpTo, AxisUpTo
  <2> HIDE DEF stopped
  <2> QED BY <2>1, <2>2, StopCuts, CutShortOnward
<1>11. stopped \in [Axes -> AxisState]
  BY <1>10 DEF AxisUpTo
<1> HIDE DEF stopped
<1>12. "driver_critical" \in Faults /\ "none" \in Faults
  BY DEF Faults, AxisFaults
<1>13. parted \in UpTo(n) /\ AllOnward(served, parted)
  <2>1. parted \in ControllerState /\ parted.axes = stopped
    <3> DEFINE fault == "driver_critical"
    <3>1. parted = Parted(served, stopped, fault) /\ fault \in Faults
      BY <1>12
    <3> HIDE DEF parted, fault
    <3> QED BY <1>8, <1>11, <3>1, PartedFields
  <2> HIDE DEF parted
  <2> QED BY <1>9, <1>10, <2>1, EachOnward
<1>14. rested \in UpTo(n) /\ AllOnward(served, rested)
  <2>1. state \in Reported
    <3>1. served.state \in Reported
      BY <1>8, Fields
    <3> QED BY <1>12, <3>1, ZenonT(60) DEF Reported
  <2> HIDE DEF state
  <2>2. rested \in ControllerState
    BY <1>8, <2>1, ZenonT(60) DEF ControllerState
  <2>3. rested.axes = served.axes
    BY <1>8 DEF ControllerState
  <2> HIDE DEF rested
  <2> QED BY <1>9, <2>2, <2>3, SameAxes
<1> HIDE DEF parted, rested
<1>15. last \in UpTo(n) /\ AllOnward(c, last)
  BY <1>5, <1>9, <1>13, <1>14, AllOnwardAgain
<1>16. CASE d = EmergencyStopAll(seen).ctl
  <2> DEFINE out == EmergencyStopAll(seen)
  <2>1. out \in {StopAll(seen), EmergencyStopAll(seen)}
    OBVIOUS
  <2> HIDE DEF out
  <2>2. /\ out.ctl \in UpTo(n) /\ AllOnward(seen, out.ctl)
        /\ Current(out.ctl) /\ Honest(out.ctl)
    BY <1>3, <2>1, StopsOnward DEF Returns
  <2> QED BY <1>3, <1>16, <2>2, AllOnwardAgain DEF d, out
<1>17. CASE d = Synchronize(last)
  <2>1. d \in UpTo(n) /\ AllOnward(last, d) /\ Honest(d) /\ Current(d)
    BY <1>15, <1>17, SynchronizeOnward
  <2> QED BY <1>15, <2>1, AllOnwardAgain DEF d
<1> QED BY <1>4, <1>16, <1>17 DEF d

\* service_diagnostics()
LEMMA DiagnoseAllOnward ==
  ASSUME NEW n \in Nat, NEW c \in UpTo(n)
  PROVE  LET d == DiagnoseAll(c, [ax \in Axes |-> "ok"])
         IN  d \in UpTo(n) /\ AllOnward(c, d)
<1> DEFINE axes == [ax \in Axes |-> ServiceDiagnostics(c.axes[ax], "ok")]
           e == [c EXCEPT !.axes = axes]
           d == DiagnoseAll(c, [ax \in Axes |-> "ok"])
<1>1. c \in ControllerState /\ c.axes \in [Axes -> AxisUpTo(n)]
  BY UpToFields
<1>2. d = c \/ d = Synchronize(e)
  BY DEF DiagnoseAll
<1> HIDE DEF d
<1>3. ASSUME NEW ax \in Axes
      PROVE  axes[ax] \in AxisUpTo(n) /\ Onward(c.axes[ax], axes[ax])
  <2>1. axes[ax] = ServiceDiagnostics(c.axes[ax], "ok")
    OBVIOUS
  <2>2. c.axes[ax] \in AxisUpTo(n) /\ "ok" \in Readings
    BY <1>1 DEF Readings
  <2> HIDE DEF axes
  <2> QED BY <2>1, <2>2, DiagnosticsOnward
<1>4. axes \in [Axes -> AxisState]
  BY <1>3 DEF AxisUpTo
<1> HIDE DEF axes
<1>5. e \in ControllerState /\ e.axes = axes
  BY <1>1, <1>4, AxesReplaced
<1>6. e \in UpTo(n) /\ AllOnward(c, e)
  BY <1>3, <1>5, EachOnward
<1> HIDE DEF e
<1>7. CASE d = c
  BY <1>1, <1>7, SameAxes DEF d
<1>8. CASE d = Synchronize(e)
  <2>1. d \in UpTo(n) /\ AllOnward(e, d)
    BY <1>6, <1>8, SynchronizeOnward
  <2> QED BY <1>6, <2>1, AllOnwardAgain DEF d
<1> QED BY <1>2, <1>7, <1>8 DEF d

\* The interrupt of the input, time, and the end of a pulse.
LEMMA DroppedOnward ==
  ASSUME NEW n \in Nat, NEW c \in UpTo(n)
  PROVE  Dropped(c) \in UpTo(n) /\ AllOnward(c, Dropped(c))
<1> DEFINE axes == [ax \in Axes |-> [c.axes[ax] EXCEPT
                      !.armed = FALSE, !.stepHigh = FALSE, !.outputs = FALSE]]
           d == [c EXCEPT !.axes = axes]
<1>1. c \in ControllerState /\ c.axes \in [Axes -> AxisUpTo(n)]
  BY UpToFields
<1>2. Dropped(c) = d
  BY <1>1, Zenon DEF Dropped, ControllerState
<1>3. ASSUME NEW ax \in Axes
      PROVE  axes[ax] \in AxisUpTo(n) /\ Onward(c.axes[ax], axes[ax])
  <2> DEFINE a == c.axes[ax]
             b == axes[ax]
  <2>1. b = [a EXCEPT !.armed = FALSE, !.stepHigh = FALSE, !.outputs = FALSE]
        /\ a \in AxisUpTo(n)
    BY <1>1
  <2> HIDE DEF axes, a, b
  <2>2. b \in AxisUpTo(n) /\ Onward(a, b)
    BY <2>1, TimeOnward
  <2> QED BY <2>2 DEF a, b
<1>4. axes \in [Axes -> AxisState]
  BY <1>3 DEF AxisUpTo
<1> HIDE DEF axes
<1>5. d \in ControllerState /\ d.axes = axes
  BY <1>1, <1>4, AxesReplaced
<1> HIDE DEF d
<1> QED BY <1>2, <1>3, <1>5, EachOnward

LEMMA AgeAllOnward ==
  ASSUME NEW n \in Nat, NEW c \in UpTo(n)
  PROVE  AgeAll(c) \in UpTo(n) /\ AllOnward(c, AgeAll(c))
<1> DEFINE axes == [ax \in Axes |-> Age(c.axes[ax])]
           old == IF c.input.candidate # c.input.stable
                    THEN Older(c.input.age, EmergencyDebounce)
                    ELSE c.input.age
           input == [c.input EXCEPT !.age = old]
           d == [c EXCEPT !.axes = axes, !.input = input]
<1>1. /\ c \in ControllerState /\ c.axes \in [Axes -> AxisUpTo(n)]
  BY UpToFields
<1>2. ASSUME NEW ax \in Axes
      PROVE  axes[ax] \in AxisUpTo(n) /\ Onward(c.axes[ax], axes[ax])
  <2> DEFINE a == c.axes[ax]
             b == axes[ax]
  <2>1. b = Age(a) /\ a \in AxisUpTo(n)
    BY <1>1
  <2> HIDE DEF axes, a, b
  <2>2. b \in AxisUpTo(n) /\ Onward(a, b)
    BY <2>1, TimeOnward
  <2> QED BY <2>2 DEF a, b
<1>3. axes \in [Axes -> AxisState]
  BY <1>2 DEF AxisUpTo
<1>4. AgeAll(c) = d
  BY <1>1 DEF AgeAll, ControllerState
<1>5. input \in Input
  <2>1. c.input \in Input
    BY <1>1, Fields
  <2>2. old \in 0 .. EmergencyDebounce
    BY <2>1, EmergencyAssumption DEF Input, Older
  <2> HIDE DEF old
  <2> QED BY <2>1, <2>2, ZenonT(60) DEF Input
<1> HIDE DEF axes, input
<1>6. d \in ControllerState
  BY <1>1, <1>3, <1>5, ZenonT(60) DEF ControllerState
<1>7. d.axes = axes
  BY <1>1 DEF ControllerState
<1> HIDE DEF d
<1> QED BY <1>2, <1>4, <1>6, <1>7, EachOnward

LEMMA PulseOnward ==
  ASSUME NEW n \in Nat, NEW c \in UpTo(n), NEW ax \in Axes
  PROVE  LET d == [c EXCEPT !.axes[ax].armed = FALSE,
                            !.axes[ax].completed = @ + 1]
         IN  d \in UpTo(n) /\ AllOnward(c, d)
<1> DEFINE a == c.axes[ax]
           b == [a EXCEPT !.armed = FALSE, !.completed = a.completed + 1]
           d == [c EXCEPT !.axes[ax].armed = FALSE,
                          !.axes[ax].completed = @ + 1]
<1>1. /\ c \in ControllerState /\ c.axes \in [Axes -> AxisState]
      /\ c.axes \in [Axes -> AxisUpTo(n)]
  BY UpToFields
<1>2. d = WithAxis(c, ax, b)
  BY <1>1 DEF WithAxis, ControllerState, AxisState
<1>3. a \in AxisUpTo(n)
  BY <1>1
<1> HIDE DEF a, d
<1>4. b \in AxisUpTo(n) /\ Onward(a, b)
  BY <1>3, TimeOnward
<1> HIDE DEF b
<1>5. d \in UpTo(n) /\ d.axes = [c.axes EXCEPT ![ax] = b]
  BY <1>2, <1>4, WithAxisUpTo
<1>6. AllOnward(c, d)
  <2>1. \A x \in Axes : d.axes[x] = IF x = ax THEN b ELSE c.axes[x]
    BY <1>1, <1>5
  <2> QED BY <1>4, <2>1, OnwardSame DEF AllOnward, a
<1> QED BY <1>5, <1>6 DEF d

\* Both axes in their places.
LEMMA TwoAxesUpTo ==
  ASSUME NEW n, NEW c \in UpTo(n), NEW az \in AxisUpTo(n), NEW el \in AxisUpTo(n)
  PROVE  LET d == WithAxis(WithAxis(c, "AZ", az), "EL", el)
         IN  d \in UpTo(n) /\ d.axes["AZ"] = az /\ d.axes["EL"] = el
<1> DEFINE w == WithAxis(c, "AZ", az)
           d == WithAxis(w, "EL", el)
<1>1. "AZ" \in Axes /\ "EL" \in Axes
  BY DEF Axes
<1>2. w \in UpTo(n) /\ w.axes = [c.axes EXCEPT !["AZ"] = az]
  BY <1>1, WithAxisUpTo
<1> HIDE DEF w
<1>3. d \in UpTo(n) /\ d.axes = [w.axes EXCEPT !["EL"] = el]
  BY <1>1, <1>2, WithAxisUpTo
<1> HIDE DEF d
<1>4. c.axes \in [Axes -> AxisState] /\ w.axes \in [Axes -> AxisState]
  BY <1>2, UpToFields
<1>5. d.axes["AZ"] = az /\ d.axes["EL"] = el
  BY <1>1, <1>2, <1>3, <1>4
<1> QED BY <1>3, <1>5 DEF d, w

\* clear_fault()
LEMMA ClearFaultsReturns ==
  ASSUME NEW n \in Nat, NEW c \in UpTo(n), NEW level \in BOOLEAN
  PROVE  Returns(ClearFaults(c, level), n)
<1> DEFINE seen == UpdateEmergency(c, level)
           azimuth == ClearFault(c.axes["AZ"])
           elevation == ClearFault(c.axes["EL"])
           both == WithAxis(WithAxis(seen, "AZ", azimuth.axis),
                            "EL", elevation.axis)
           cleared == [both EXCEPT !.latched = FALSE]
           calm == ReportFault(cleared, "none")
           refusal == FirstRefusal(azimuth, elevation)
           out == ClearFaults(c, level)
<1>1. /\ c \in ControllerState /\ c.axes \in [Axes -> AxisUpTo(n)]
      /\ "AZ" \in Axes /\ "EL" \in Axes
  BY UpToFields DEF Axes
<1>2. seen \in ControllerState /\ seen.axes = c.axes
  BY <1>1, UpdateEmergencyFields
<1>3. seen \in UpTo(n)
  BY <1>2, SameAxes
<1>4. Settles(azimuth, n) /\ Settles(elevation, n)
  BY <1>1, ClearFaultSettles
<1>5. refusal \in Faults
  BY <1>4 DEF FirstRefusal, Settles
<1>6. \/ out = Reject(seen, "emergency_stop")
      \/ out = Reject(cleared, refusal)
      \/ out = Answer(calm, TRUE, "none")
  BY ZenonT(60) DEF ClearFaults
<1> HIDE DEF out, seen, azimuth, elevation, refusal
<1>7. both \in UpTo(n)
  BY <1>3, <1>4, TwoAxesUpTo DEF Settles
<1> HIDE DEF both
<1>8. cleared \in UpTo(n)
  <2>1. both \in ControllerState
    BY <1>7, UpToFields
  <2>2. cleared \in ControllerState
    BY <2>1, ZenonT(60) DEF ControllerState
  <2>3. cleared.axes = both.axes
    BY <2>1 DEF ControllerState
  <2> HIDE DEF cleared
  <2> QED BY <1>7, <2>2, <2>3, SameAxes
<1> HIDE DEF cleared
<1>9. "none" \in Faults /\ "emergency_stop" \in Faults
  BY DEF Faults, AxisFaults
<1>10. calm \in UpTo(n)
  BY <1>8, <1>9, ReportFaultOnward
<1> HIDE DEF calm
<1>11. CASE out = Reject(seen, "emergency_stop")
  BY <1>3, <1>9, <1>11, RejectReturns DEF out
<1>12. CASE out = Reject(cleared, refusal)
  BY <1>5, <1>8, <1>12, RejectReturns DEF out
<1>13. CASE out = Answer(calm, TRUE, "none")
  <2> DEFINE ok == TRUE
             fault == "none"
  <2>1. out = Answer(calm, ok, fault) /\ ok \in BOOLEAN /\ fault \in Faults
    BY <1>9, <1>13
  <2> HIDE DEF ok, fault
  <2>2. Returns(out, n)
    BY <1>10, <2>1, AnswerReturns
  <2> QED BY <2>2 DEF out
<1> QED BY <1>6, <1>11, <1>12, <1>13

\* set_enabled(); switched off, nothing is begun.
LEMMA SetAllEnabledReturns ==
  ASSUME NEW n \in Nat, NEW c \in UpTo(n), NEW enabled \in BOOLEAN
  PROVE  LET out == SetAllEnabled(c, enabled)
         IN  Returns(out, n) /\ (~enabled => AllOnward(c, out.ctl))
<1> DEFINE azimuth == SetEnabled(c.axes["AZ"], enabled)
           elevation == SetEnabled(c.axes["EL"], enabled)
           switched == WithAxis(WithAxis(c, "AZ", azimuth.axis),
                                "EL", elevation.axis)
           fault == EnableFault(enabled)
           calm == ReportFault(switched, fault)
           refusal == FirstRefusal(azimuth, elevation)
           out == IF ~azimuth.ok \/ ~elevation.ok
                    THEN Reject(switched, refusal)
                    ELSE Answer(calm, TRUE, fault)
<1>1. SetAllEnabled(c, enabled) = Guarded(c, out)
  BY ZenonT(60) DEF SetAllEnabled
<1>2. /\ c.axes["AZ"] \in AxisUpTo(n) /\ c.axes["EL"] \in AxisUpTo(n)
      /\ Axes = {"AZ", "EL"}
  BY UpToFields DEF Axes
<1>3. Settles(azimuth, n) /\ Settles(elevation, n)
  BY <1>2, SetEnabledSettles
<1>4. ~enabled => /\ Onward(c.axes["AZ"], azimuth.axis)
                  /\ Onward(c.axes["EL"], elevation.axis)
  <2> SUFFICES ASSUME ~enabled, NEW a \in AxisUpTo(n)
               PROVE  Onward(a, SetEnabled(a, enabled).axis)
    BY <1>2
  <2>1. SetEnabled(a, enabled).axis = Disable(a)
    BY DEF SetEnabled
  <2>2. a \in AxisState
    BY DEF AxisUpTo
  <2> QED BY <2>1, <2>2, DisableCuts, CutShortOnward
<1>5. refusal \in Faults /\ fault \in Faults
  BY <1>3 DEF FirstRefusal, Settles, EnableFault, Faults, AxisFaults
<1> HIDE DEF azimuth, elevation, refusal, fault
<1>6. /\ switched \in UpTo(n) /\ switched.axes["AZ"] = azimuth.axis
      /\ switched.axes["EL"] = elevation.axis
  BY <1>3, TwoAxesUpTo DEF Settles
<1> HIDE DEF switched
<1>7. ~enabled => AllOnward(c, switched)
  BY <1>2, <1>4, <1>6 DEF AllOnward
<1>8. calm \in UpTo(n) /\ AllOnward(switched, calm)
  BY <1>5, <1>6, ReportFaultOnward
<1> HIDE DEF calm
<1>9. \/ out = Reject(switched, refusal)
      \/ out = Answer(calm, TRUE, fault)
  OBVIOUS
<1> HIDE DEF out
<1>10. Returns(out, n) /\ (~enabled => AllOnward(c, out.ctl))
  <2>1. CASE out = Reject(switched, refusal)
    <3>1. Returns(out, n) /\ AllOnward(switched, out.ctl)
      BY <1>5, <1>6, <2>1, RejectReturns
    <3> QED BY <1>7, <3>1, AllOnwardAgain
  <2>2. CASE out = Answer(calm, TRUE, fault)
    <3>1. Returns(out, n) /\ AllOnward(calm, out.ctl)
      BY <1>5, <1>8, <2>2, AnswerReturns
    <3> QED BY <1>7, <1>8, <3>1, AllOnwardAgain
  <2> QED BY <1>9, <2>1, <2>2
<1> QED BY <1>1, <1>10, GuardedReturns

\* stop_axis()
LEMMA StopAxisReturns ==
  ASSUME NEW n \in Nat, NEW c \in UpTo(n), NEW ax \in Axes
  PROVE  Returns(StopAxis(c, ax), n)
<1> DEFINE a == Stop(c.axes[ax])
           w == WithAxis(c, ax, a)
           d == [w EXCEPT !.coordinated = FALSE]
<1>1. c.axes[ax] \in AxisUpTo(n)
  BY UpToFields
<1>2. a \in AxisUpTo(n)
  BY <1>1, StopCuts, CutShortOnward DEF AxisUpTo
<1> HIDE DEF a
<1>3. w \in UpTo(n)
  BY <1>2, WithAxisUpTo
<1>4. StopAxis(c, ax) = Answer(d, TRUE, "stopped")
  BY DEF StopAxis, a
<1> HIDE DEF w
<1>5. d \in UpTo(n)
  <2>1. w \in ControllerState
    BY <1>3, UpToFields
  <2>2. d \in ControllerState
    BY <2>1, ZenonT(60) DEF ControllerState
  <2>3. d.axes = w.axes
    BY <2>1 DEF ControllerState
  <2> HIDE DEF d
  <2> QED BY <1>3, <2>2, <2>3, SameAxes
<1> HIDE DEF d
<1> DEFINE ok == TRUE
           fault == "stopped"
<1>6. ok \in BOOLEAN /\ fault \in Faults
  BY DEF Faults, AxisFaults
<1>7. StopAxis(c, ax) = Answer(d, ok, fault)
  BY <1>4
<1> HIDE DEF ok, fault
<1> QED BY <1>5, <1>6, <1>7, AnswerReturns

\* set_axis_enabled(), set_axis_current() and set_axis_microsteps()
LEMMA ConfiguredReturns ==
  ASSUME NEW n \in Nat, NEW c \in UpTo(n), NEW ax \in Axes,
         NEW out, Settles(out, n), NEW fault \in Faults
  PROVE  Returns(Configured(c, ax, out, fault), n)
<1> DEFINE d == IF out.ok THEN ReportFault(c, fault) ELSE c
           o == OneAxis(d, ax, out)
<1>1. d \in UpTo(n)
  BY ReportFaultOnward
<1>2. Configured(c, ax, out, fault) = Guarded(c, o)
  BY DEF Configured
<1> HIDE DEF d
<1>3. Returns(o, n)
  BY <1>1, OneAxisReturns
<1> HIDE DEF o
<1> QED BY <1>2, <1>3, GuardedReturns

\* host_heartbeat_timeout()
LEMMA GiveHostUpOnward ==
  ASSUME NEW n \in Nat, NEW c \in UpTo(n)
  PROVE  GiveHostUp(c) \in UpTo(n) /\ AllOnward(c, GiveHostUp(c))
<1> DEFINE halt == StopAll(c)
           s == halt.ctl
           off == FALSE
           out == SetAllEnabled(s, off)
<1>1. GiveHostUp(c) = out.ctl
  BY DEF GiveHostUp
<1>2. s \in UpTo(n) /\ AllOnward(c, s)
  <2>1. halt \in {StopAll(c), EmergencyStopAll(c)}
    OBVIOUS
  <2> HIDE DEF halt
  <2> QED BY <2>1, StopsOnward DEF Returns
<1> HIDE DEF s
<1>3. Returns(out, n) /\ AllOnward(s, out.ctl)
  <2>1. off \in BOOLEAN /\ ~off
    OBVIOUS
  <2> HIDE DEF off
  <2> QED BY <1>2, <2>1, SetAllEnabledReturns
<1> HIDE DEF out
<1> QED BY <1>1, <1>2, <1>3, AllOnwardAgain DEF Returns

\* The order is refused, or the axes it is for carry it out and STATUS shows
\* what they do.
TakenUp(out, axes, id) ==
  /\ Returns(out, id)
  /\ out.ok => /\ Current(out.ctl)
               /\ \A ax \in axes : CarriesOut(out.ctl.axes[ax], id)

\* An order for one axis, or for both, behind the check of the latch.
LEMMA OneTakenUp ==
  ASSUME NEW n \in Nat, NEW id \in Nat, n <= id, NEW c \in UpTo(n),
         NEW ax \in Axes, NEW out, TakesUp(out, id)
  PROVE  TakenUp(Guarded(c, OneAxis(c, ax, out)), {ax}, id)
<1> DEFINE o == OneAxis(c, ax, out)
           g == Guarded(c, o)
<1>1. c \in UpTo(id) /\ Settles(out, id)
  BY UpToMore DEF TakesUp
<1>2. /\ Returns(o, id) /\ o.ok = out.ok /\ Current(o.ctl)
      /\ o.ctl.axes[ax] = out.axis
  BY <1>1, OneAxisReturns
<1> HIDE DEF o
<1>3. Returns(g, id) /\ (g.ok => g = o)
  BY <1>1, <1>2, GuardedReturns
<1> HIDE DEF g
<1>4. TakenUp(g, {ax}, id)
  BY <1>2, <1>3 DEF TakenUp, TakesUp
<1> QED BY <1>4 DEF g, o

LEMMA BothTakenUp ==
  ASSUME NEW n \in Nat, NEW id \in Nat, n <= id, NEW c \in UpTo(n),
         NEW az, TakesUp(az, id), NEW el, TakesUp(el, id),
         NEW evenIfStill \in BOOLEAN
  PROVE  TakenUp(Guarded(c, BothAxes(c, az, el, evenIfStill)), Axes, id)
<1> DEFINE o == BothAxes(c, az, el, evenIfStill)
           g == Guarded(c, o)
<1>1. c \in UpTo(id) /\ Settles(az, id) /\ Settles(el, id)
  BY UpToMore DEF TakesUp
<1>2. /\ Returns(o, id)
      /\ o.ok => /\ az.ok /\ el.ok /\ Current(o.ctl)
                 /\ o.ctl.axes["AZ"] = az.axis
                 /\ o.ctl.axes["EL"] = el.axis
  <2>1. o = BothAxes(c, az, el, evenIfStill)
    OBVIOUS
  <2> HIDE DEF o
  <2>2. Settles(az, id)
    BY <1>1
  <2>3. Settles(el, id)
    BY <1>1
  <2>4. Returns(o, id)
    BY <2>1, <2>2, <2>3, BothAxesReturns
  <2> QED BY <2>1, <2>2, <2>3, BothAxesReturns
<1> HIDE DEF o
<1>3. Returns(g, id) /\ (g.ok => g = o)
  BY <1>1, <1>2, GuardedReturns
<1> HIDE DEF g
<1>4. TakenUp(g, Axes, id)
  BY <1>2, <1>3 DEF TakenUp, TakesUp, Axes
<1> QED BY <1>4 DEF g, o

\* HOME, MOVE and MOVE_REL
LEMMA HomeTakenUp ==
  ASSUME NEW n \in Nat, NEW id \in Nat, n <= id, NEW c \in UpTo(n),
         NEW selection \in Axes \cup {"BOTH"}
  PROVE  TakenUp(HomeAxes(c, selection, AllReleased, id, AllArmed),
                 IF selection = "BOTH" THEN Axes ELSE {selection}, id)
<1> DEFINE homing(ax) == StartHoming(c.axes[ax], AllReleased[ax], id, AllArmed[ax])
           out == HomeAxes(c, selection, AllReleased, id, AllArmed)
<1>1. ASSUME NEW ax \in Axes PROVE TakesUp(homing(ax), id)
  <2>1. homing(ax) = StartHoming(c.axes[ax], FALSE, id, TRUE)
    BY DEF AllReleased, AllArmed
  <2>2. c.axes[ax] \in AxisUpTo(n) /\ TRUE \in BOOLEAN
    BY UpToFields
  <2> QED BY <2>1, <2>2, StartHomingTakesUp
<1>2. /\ "AZ" \in Axes /\ "EL" \in Axes /\ "BOTH" \notin Axes
  BY DEF Axes
<1>3. selection = "BOTH" =>
        out = Guarded(c, BothAxes(c, homing("AZ"), homing("EL"), TRUE))
  BY DEF HomeAxes
<1>4. selection # "BOTH" =>
        out = Guarded(c, OneAxis(c, selection, homing(selection)))
  BY DEF HomeAxes
<1> HIDE DEF homing, out
<1>5. CASE selection = "BOTH"
  <2> DEFINE still == TRUE
  <2>1. still \in BOOLEAN
        /\ out = Guarded(c, BothAxes(c, homing("AZ"), homing("EL"), still))
    BY <1>3, <1>5
  <2>2. TakesUp(homing("AZ"), id) /\ TakesUp(homing("EL"), id)
    BY <1>1, <1>2
  <2> HIDE DEF still
  <2>3. TakenUp(out, Axes, id)
    BY <2>1, <2>2, BothTakenUp
  <2> QED BY <1>5, <2>3 DEF out
<1>6. CASE selection # "BOTH"
  <2>1. selection \in Axes /\ TakesUp(homing(selection), id)
    BY <1>1, <1>6
  <2>2. TakenUp(out, {selection}, id)
    BY <1>4, <1>6, <2>1, OneTakenUp
  <2> QED BY <1>6, <2>2 DEF out
<1> QED BY <1>5, <1>6

LEMMA MoveTakenUp ==
  ASSUME NEW n \in Nat, NEW id \in Nat, n <= id, NEW c \in UpTo(n),
         NEW angles \in [Axes -> Int], NEW speedOk \in BOOLEAN
  PROVE  TakenUp(MoveTo(c, angles, speedOk, id, AllArmed), Axes, id)
<1> DEFINE moving(ax) == MoveAbsolute(c.axes[ax], angles[ax], speedOk, id,
                                      AllArmed[ax])
           still == FALSE
<1>1. ASSUME NEW ax \in Axes PROVE TakesUp(moving(ax), id)
  <2> c.axes[ax] \in AxisUpTo(n) /\ angles[ax] \in Int
      /\ AllArmed[ax] \in BOOLEAN
    BY UpToFields DEF AllArmed
  <2> QED BY MovesTakeUp
<1>2. MoveTo(c, angles, speedOk, id, AllArmed)
        = Guarded(c, BothAxes(c, moving("AZ"), moving("EL"), still))
  BY DEF MoveTo
<1>3. TakesUp(moving("AZ"), id) /\ TakesUp(moving("EL"), id)
      /\ still \in BOOLEAN
  BY <1>1 DEF Axes
<1> HIDE DEF moving, still
<1> QED BY <1>2, <1>3, BothTakenUp

LEMMA MoveByTakenUp ==
  ASSUME NEW n \in Nat, NEW id \in Nat, n <= id, NEW c \in UpTo(n),
         NEW selection \in Axes \cup {"BOTH"}, NEW delta \in Int,
         NEW speedOk \in BOOLEAN
  PROVE  TakenUp(MoveBy(c, selection, delta, speedOk, id, AllArmed),
                 IF selection = "BOTH" THEN Axes ELSE {selection}, id)
<1> DEFINE moving(ax) == MoveRelative(c.axes[ax], delta, speedOk, id,
                                      AllArmed[ax])
           out == MoveBy(c, selection, delta, speedOk, id, AllArmed)
<1>1. ASSUME NEW ax \in Axes PROVE TakesUp(moving(ax), id)
  <2> c.axes[ax] \in AxisUpTo(n) /\ AllArmed[ax] \in BOOLEAN
    BY UpToFields DEF AllArmed
  <2> QED BY MovesTakeUp
<1>2. /\ "AZ" \in Axes /\ "EL" \in Axes /\ "BOTH" \notin Axes
  BY DEF Axes
<1>3. selection = "BOTH" =>
        out = Guarded(c, BothAxes(c, moving("AZ"), moving("EL"), TRUE))
  BY DEF MoveBy
<1>4. selection # "BOTH" =>
        out = Guarded(c, OneAxis(c, selection, moving(selection)))
  BY DEF MoveBy
<1> HIDE DEF moving, out
<1>5. CASE selection = "BOTH"
  <2> DEFINE still == TRUE
  <2>1. still \in BOOLEAN
        /\ out = Guarded(c, BothAxes(c, moving("AZ"), moving("EL"), still))
    BY <1>3, <1>5
  <2>2. TakesUp(moving("AZ"), id) /\ TakesUp(moving("EL"), id)
    BY <1>1, <1>2
  <2> HIDE DEF still
  <2>3. TakenUp(out, Axes, id)
    BY <2>1, <2>2, BothTakenUp
  <2> QED BY <1>5, <2>3 DEF out
<1>6. CASE selection # "BOTH"
  <2>1. selection \in Axes /\ TakesUp(moving(selection), id)
    BY <1>1, <1>6
  <2>2. TakenUp(out, {selection}, id)
    BY <1>4, <1>6, <2>1, OneTakenUp
  <2> QED BY <1>6, <2>2 DEF out
<1> QED BY <1>5, <1>6

\* MOTOR_STEP
LEMMA BenchTakenUp ==
  ASSUME NEW n \in Nat, NEW id \in Nat, n <= id, NEW c \in UpTo(n),
         NEW ax \in Axes, NEW steps \in Int
  PROVE  Returns(BenchAxis(c, ax, steps, id, AllArmed), id)
<1> DEFINE out == BenchMove(c.axes[ax], steps, id, AllArmed[ax])
<1>1. TakesUp(out, id)
  <2>1. c.axes[ax] \in AxisUpTo(n) /\ AllArmed[ax] \in BOOLEAN
    BY UpToFields DEF AllArmed
  <2>2. TRUE \in BOOLEAN
    OBVIOUS
  <2> QED BY <2>1, <2>2, MovesTakeUp
<1>2. BenchAxis(c, ax, steps, id, AllArmed) = Guarded(c, OneAxis(c, ax, out))
  BY DEF BenchAxis
<1> HIDE DEF out
<1> QED BY <1>1, <1>2, OneTakenUp DEF TakenUp

\* What a line asks for is done, or refused; STATUS and STOP begin nothing.
LEMMA DispatchReturns ==
  ASSUME NEW n \in Nat, NEW id \in Nat, n <= id, NEW c \in UpTo(n),
         NEW order \in AllOrders, NEW level \in BOOLEAN,
         NEW out, out = Dispatch(c, order, id, level, AllReleased, AllArmed,
                                 "written")
  PROVE  /\ Returns(out, id)
         /\ order.op \in MotionOps => TakenUp(out, Ordered(order), id)
         /\ order.op \in {"QUERY", "STOP"} => AllOnward(c, out.ctl)
<1>1. c \in UpTo(id)
  BY UpToMore
<1>2. StartMicrosteps \in MicrostepChoices /\ "written" \in WriteResults
  BY ConfigAssumption DEF WriteResults
<1>3. CASE order.op = "QUERY"
  <2>1. out.ctl = c /\ out.ok = TRUE /\ out.fault = "none"
    BY <1>3 DEF Dispatch
  <2>2. AllOnward(c, c) /\ "none" \in Faults
    BY OnwardSame DEF AllOnward, Faults, AxisFaults
  <2> QED BY <1>1, <1>3, <2>1, <2>2 DEF Returns, MotionOps
<1>4. CASE order.op = "MALFORMED"
  <2>1. out = Reject(c, "invalid_argument")
    BY <1>4 DEF Dispatch
  <2>2. "invalid_argument" \in Faults
    BY DEF Faults, Refusals
  <2>3. Returns(out, id)
    BY <1>1, <2>1, <2>2, RejectReturns
  <2> QED BY <1>4, <2>3 DEF MotionOps
<1>5. CASE order.op = "CLEAR_FAULT"
  <2>1. out = ClearFaults(c, level)
    BY <1>5 DEF Dispatch
  <2>2. Returns(out, id)
    BY <1>1, <2>1, ClearFaultsReturns
  <2> QED BY <1>5, <2>2 DEF MotionOps
<1>6. CASE order.op \in {"STOP", "E_STOP"}
  <2>1. out \in {StopAll(c), EmergencyStopAll(c)}
    BY <1>6 DEF Dispatch
  <2>2. Returns(out, id) /\ AllOnward(c, out.ctl)
    BY <1>1, <2>1, StopsOnward
  <2> QED BY <1>6, <2>2 DEF MotionOps
<1>7. CASE order.op = "ENABLE"
  <2>1. out = SetAllEnabled(c, order.on)
    BY <1>7 DEF Dispatch
  <2>2. order.on \in BOOLEAN
    BY <1>7 DEF AllOrders, OrdersFor
  <2>3. Returns(out, id)
    BY <1>1, <2>1, <2>2, SetAllEnabledReturns
  <2> QED BY <1>7, <2>3 DEF MotionOps
<1>8. CASE order.op = "HOME"
  <2>1. out = HomeAxes(c, order.axis, AllReleased, id, AllArmed)
    BY <1>8 DEF Dispatch
  <2>2. order.axis \in Axes \cup {"BOTH"}
    BY <1>8 DEF AllOrders, OrdersFor
  <2>3. Ordered(order) = IF order.axis = "BOTH" THEN Axes ELSE {order.axis}
    BY <1>8 DEF Ordered
  <2>4. TakenUp(out, Ordered(order), id)
    BY <2>1, <2>2, <2>3, HomeTakenUp
  <2> QED BY <1>8, <2>4 DEF TakenUp
<1>9. CASE order.op = "MOVE"
  <2>1. out = MoveTo(c, order.to, order.speedOk, id, AllArmed)
    BY <1>9 DEF Dispatch
  <2>2. order.to \in [Axes -> Int] /\ order.speedOk \in BOOLEAN
    BY <1>9 DEF AllOrders, OrdersFor
  <2>3. Ordered(order) = Axes
    BY <1>9 DEF Ordered
  <2>4. TakenUp(out, Axes, id)
    BY <2>1, <2>2, MoveTakenUp
  <2> QED BY <1>9, <2>3, <2>4 DEF TakenUp
<1>10. CASE order.op = "MOVE_REL"
  <2>1. out = MoveBy(c, order.axis, order.by, order.speedOk, id, AllArmed)
    BY <1>10 DEF Dispatch
  <2>2. /\ order.axis \in Axes \cup {"BOTH"} /\ order.by \in Int
        /\ order.speedOk \in BOOLEAN
    BY <1>10 DEF AllOrders, OrdersFor
  <2>3. Ordered(order) = IF order.axis = "BOTH" THEN Axes ELSE {order.axis}
    BY <1>10 DEF Ordered
  <2>4. TakenUp(out, Ordered(order), id)
    BY <2>1, <2>2, <2>3, MoveByTakenUp
  <2> QED BY <1>10, <2>4 DEF TakenUp
<1>11. CASE order.op = "MOTOR_ENABLE"
  <2> DEFINE switched == SetEnabled(c.axes[order.axis], order.on)
             fault == EnableFault(order.on)
  <2>1. out = Configured(c, order.axis, switched, fault)
    BY <1>11 DEF Dispatch, SetAxisEnabled
  <2>2. order.axis \in Axes /\ order.on \in BOOLEAN
    BY <1>11 DEF AllOrders, OrdersFor
  <2>3. c.axes[order.axis] \in AxisUpTo(id) /\ fault \in Faults
    BY <1>1, <2>2, UpToFields DEF EnableFault, Faults, AxisFaults
  <2>4. Settles(switched, id)
    BY <2>2, <2>3, SetEnabledSettles
  <2> HIDE DEF switched, fault
  <2>5. Returns(out, id)
    BY <1>1, <2>1, <2>2, <2>3, <2>4, ConfiguredReturns
  <2> QED BY <1>11, <2>5 DEF MotionOps
<1>12. CASE order.op = "MOTOR_STOP"
  <2>1. out = StopAxis(c, order.axis)
    BY <1>12 DEF Dispatch
  <2>2. order.axis \in Axes
    BY <1>12 DEF AllOrders, OrdersFor
  <2>3. Returns(out, id)
    BY <1>1, <2>1, <2>2, StopAxisReturns
  <2> QED BY <1>12, <2>3 DEF MotionOps
<1>13. CASE order.op = "MOTOR_STEP"
  <2>1. out = BenchAxis(c, order.axis, order.by, id, AllArmed)
    BY <1>13 DEF Dispatch
  <2>2. order.axis \in Axes /\ order.by \in Int
    BY <1>13 DEF AllOrders, OrdersFor
  <2>3. Returns(out, id)
    BY <2>1, <2>2, BenchTakenUp
  <2> QED BY <1>13, <2>3 DEF MotionOps
<1>14. CASE order.op \in {"MOTOR_CURRENT", "MOTOR_MICROSTEPS"}
  <2> DEFINE a == c.axes[order.axis]
             fault == "none"
  <2>1. order.axis \in Axes
    BY <1>14 DEF AllOrders, OrdersFor
  <2>2. PICK microsteps \in MicrostepChoices :
          \/ out = Configured(c, order.axis, SetCurrent(a, "written"), fault)
          \/ out = Configured(c, order.axis,
                              SetMicrosteps(a, microsteps, "written"), fault)
    <3>1. CASE order.op = "MOTOR_CURRENT"
      BY <1>2, <3>1 DEF Dispatch, SetAxisCurrent
    <3>2. CASE order.op = "MOTOR_MICROSTEPS"
      <4>1. order.to \in MicrostepChoices
        BY <3>2 DEF AllOrders, OrdersFor
      <4> QED BY <3>2, <4>1 DEF Dispatch, SetAxisMicrosteps
    <3> QED BY <1>14, <3>1, <3>2
  <2>3. a \in AxisUpTo(id) /\ fault \in Faults
    BY <1>1, <2>1, UpToFields DEF Faults, AxisFaults
  <2> HIDE DEF a, fault
  <2>4. /\ Settles(SetCurrent(a, "written"), id)
        /\ Settles(SetMicrosteps(a, microsteps, "written"), id)
    BY <1>2, <2>3, WritesSettle
  <2>5. Returns(out, id)
    BY <1>1, <2>1, <2>2, <2>3, <2>4, ConfiguredReturns
  <2> QED BY <1>14, <2>5 DEF MotionOps
<1>15. order.op \in {"QUERY", "MALFORMED", "CLEAR_FAULT", "STOP", "E_STOP",
                     "ENABLE", "HOME", "MOVE", "MOVE_REL", "MOTOR_ENABLE",
                     "MOTOR_STOP", "MOTOR_STEP", "MOTOR_CURRENT",
                     "MOTOR_MICROSTEPS"}
  BY DEF AllOrders, OrdersFor
<1> QED BY <1>3, <1>4, <1>5, <1>6, <1>7, <1>8, <1>9, <1>10, <1>11, <1>12,
           <1>13, <1>14, <1>15

\* An axis that has carried the order out, and one that has broken it off.
DoneBy(a, id) == ~a.moving /\ a.lastCompleted = id

WorksOn(a, id) == a.moving /\ a.activeId = id

BrokenOff(a) == ~a.moving /\ a.fault # "none"

\* A line handled while the switches are open and every timer can be armed.
HandledOpen(c, e, id, order, level) ==
  Handled(c, e, id, order, level, AllReleased, AllArmed, "written")

\* handle(): a used id changes nothing; an order that is accepted is being
\* carried out, and done if the reply does not say ACCEPTED.
LEMMA HandledReturns ==
  ASSUME NEW e \in EngineState, NEW c \in UpTo(e.lastId), NEW id \in Nat \ {0},
         NEW order \in AllOrders, NEW level \in BOOLEAN,
         NEW h, h = HandledOpen(c, e, id, order, level)
  PROVE  /\ h.reply \in Replies
         /\ id <= e.lastId => h.ctl = c /\ h.reply \in {"DUPLICATE", "STALE"}
         /\ id > e.lastId =>
              /\ h.ctl \in UpTo(id)
              /\ order.op \in {"QUERY", "STOP"} => AllOnward(c, h.ctl)
              /\ order.op \in MotionOps /\ h.reply \in {"OK", "ACCEPTED"} =>
                   \A ax \in Ordered(order) :
                     \/ DoneBy(h.ctl.axes[ax], id)
                     \/ h.reply = "ACCEPTED" /\ WorksOn(h.ctl.axes[ax], id)
<1>1. e.lastId \in Nat
  BY DEF EngineState
<1>2. CASE id <= e.lastId
  <2>1. IdIsUsed(e, id)
    BY <1>2 DEF IdIsUsed
  <2>2. h.ctl = c /\ h.reply \in {"DUPLICATE", "STALE"}
    BY <2>1 DEF Handled, HandledOpen
  <2> QED BY <1>1, <1>2, <2>2 DEF Replies
<1>3. CASE id > e.lastId
  <2> DEFINE out == Dispatch(c, order, id, level, AllReleased, AllArmed,
                             "written")
  <2>1. ~IdIsUsed(e, id)
    BY <1>1, <1>3 DEF IdIsUsed
  <2>2. h = Answered(order, out)
    BY <2>1 DEF Handled, HandledOpen
  <2>3. e.lastId <= id
    BY <1>1, <1>3
  <2>4. /\ Returns(out, id)
        /\ order.op \in MotionOps => TakenUp(out, Ordered(order), id)
        /\ order.op \in {"QUERY", "STOP"} => AllOnward(c, out.ctl)
    BY <1>1, <2>3, DispatchReturns
  <2> HIDE DEF out
  <2>5. out.ctl \in UpTo(id) /\ out.fault \in Faults
    BY <2>4 DEF Returns
  <2>6. CASE AnsweredOK(order, out)
    <3>1. /\ h.ctl = out.ctl
          /\ h.reply = IF SaysAccepted(order, out.ctl) THEN "ACCEPTED" ELSE "OK"
      BY <2>2, <2>6 DEF Answered
    <3>2. ASSUME order.op \in MotionOps, NEW ax \in Ordered(order)
          PROVE  \/ DoneBy(h.ctl.axes[ax], id)
                 \/ h.reply = "ACCEPTED" /\ WorksOn(h.ctl.axes[ax], id)
      <4>1. out.ok
        BY <2>6, <3>2 DEF AnsweredOK, MotionOps
      <4>2. Current(out.ctl) /\ CarriesOut(out.ctl.axes[ax], id)
        BY <2>4, <3>2, <4>1 DEF TakenUp
      <4>3. ax \in Axes
        <5>1. order.op \in {"HOME", "MOVE_REL"} =>
                order.axis \in Axes \cup {"BOTH"}
          BY DEF AllOrders, OrdersFor
        <5> QED BY <3>2, <5>1 DEF Ordered
      <4>4. out.ctl.axes[ax].moving = out.ctl.state.axes[ax].moving
        BY <4>2, <4>3, SeenFields DEF Current
      <4>5. out.ctl.axes[ax].moving => SaysAccepted(order, out.ctl)
        BY <3>2, <4>3, <4>4 DEF SaysAccepted, MotionOps
      <4> QED BY <3>1, <4>2, <4>5 DEF CarriesOut, DoneBy, WorksOn
    <3> QED BY <1>1, <1>3, <2>4, <2>5, <3>1, <3>2 DEF Replies
  <2>7. CASE ~AnsweredOK(order, out)
    <3>1. h.ctl = ReportFault(out.ctl, out.fault) /\ h.reply = "ERR"
      BY <2>2, <2>7 DEF Answered
    <3>2. h.ctl \in UpTo(id) /\ AllOnward(out.ctl, h.ctl)
      BY <2>5, <3>1, ReportFaultOnward
    <3>3. order.op \in {"QUERY", "STOP"} => AllOnward(c, h.ctl)
      BY <2>4, <3>2, AllOnwardAgain
    <3> QED BY <1>1, <1>3, <3>1, <3>2, <3>3 DEF Replies
  <2> QED BY <2>6, <2>7
<1> QED BY <1>1, <1>2, <1>3

\* MOTION_COMPLETE, when what STATUS shows is what there is: no axis moves and
\* none has a fault, and the id is of a command that was handled.
LEMMA CompletionSaysSo ==
  ASSUME NEW n \in Nat, NEW c \in UpTo(n), Honest(c), Current(c), NEW e,
         NEW event, event = EventOf(e, c)
  PROVE  /\ event.kind \in EventKinds \cup {"none"}
         /\ event.id \in Nat /\ event.id <= n
         /\ event.kind = "complete" =>
              \A ax \in Axes : ~c.axes[ax].moving /\ c.axes[ax].fault = "none"
<1>1. \A ax \in Axes : c.axes[ax] \in AxisUpTo(n)
  BY UpToFields
<1>2. ASSUME NEW ax \in Axes
      PROVE  /\ c.state.axes[ax].moving = c.axes[ax].moving
             /\ c.state.axes[ax].lastCompleted \in Nat
             /\ c.state.axes[ax].lastCompleted <= n
  <2>1. c.axes[ax].lastCompleted \in Nat /\ c.axes[ax].lastCompleted <= n
    BY <1>1 DEF AxisUpTo, AxisState
  <2>2. /\ c.state.axes[ax].moving = c.axes[ax].moving
        /\ c.state.axes[ax].lastCompleted = c.axes[ax].lastCompleted
    BY SeenFields DEF Current
  <2> QED BY <2>1, <2>2
<1>3. LastCompleted(c) \in Nat /\ LastCompleted(c) <= n
  BY <1>2 DEF LastCompleted, Axes
<1>4. \/ event.kind \in {"estop", "released", "fault", "none"} /\ event.id = 0
      \/ /\ event.kind = "complete" /\ event.id = LastCompleted(c)
         /\ \A ax \in Axes : ~c.state.axes[ax].moving
         /\ c.state.fault = "none"
  BY DEF EventOf, Quiet
<1> QED BY <1>2, <1>3, <1>4 DEF EventKinds, Honest

\* Both axes homed by command 1: the controller the tasks start with.
LEMMA RuntimeStart ==
  ASSUME RuntimeInit
  PROVE  ctl \in UpTo(1)
<1> DEFINE start == StartupAxis("ready", FALSE)
           home == HomeOffset * StartMicrosteps
           homed == [start EXCEPT
                       !.activeId = 1, !.lastCompleted = 1, !.trusted = TRUE,
                       !.homed = TRUE, !.lossReason = "none", !.enabled = TRUE,
                       !.outputs = TRUE, !.phase = "complete",
                       !.direction = HomeSide,
                       !.position = home, !.target = home]
           startups == [ax \in Axes |-> "ready"]
           raw == [ax \in Axes |-> FALSE]
           cold == [ax \in Axes |-> StartupAxis(startups[ax], raw[ax])]
           input == [known |-> FALSE, candidate |-> FALSE, stable |-> FALSE,
                     age |-> 0]
           state == [axes |-> [ax \in Axes |-> Seen(cold[ax])],
                     fault |-> "none", stopped |-> FALSE, estop |-> FALSE]
           off == [axes |-> cold, initialized |-> TRUE, coordinated |-> FALSE,
                   latched |-> FALSE, input |-> input, state |-> state]
           seen == Synchronize(UpdateEmergency(off, FALSE))
           ready == StartupController(startups, FALSE, raw)
           axes == [ax \in Axes |-> homed]
           e == [ready EXCEPT !.axes = axes]
<1>1. ctl = Synchronize(e)
  BY DEF RuntimeInit
<1>2. start \in AxisState /\ homed \in AxisState
  <2>1. /\ StartMicrosteps \in MicrostepChoices /\ home \in Int
        /\ HomeSide \in {-1, 0, 1}
    BY ConfigAssumption
  <2>2. StartupFault("ready") \in AxisFaults /\ "ok" \in Readings
    BY DEF StartupFault, AxisFaults, Readings
  <2>3. start.status = "ok"
    BY DEF StartupAxis
  <2>4. start \in AxisState
    BY <2>1, <2>2, <2>3, Zeros DEF StartupAxis, AxisState, Purposes,
       TrustLosses, Phases
  <2> HIDE DEF start, home
  <2>5. "none" \in TrustLosses /\ "complete" \in Phases
    BY DEF TrustLosses, Phases
  <2>6. homed \in AxisState
    BY <2>1, <2>4, <2>5, ZenonT(60) DEF AxisState
  <2> QED BY <2>4, <2>6
<1>3. /\ homed.activeId = 1 /\ homed.lastCompleted = 1
      /\ homed.phase = "complete"
      /\ homed.switchActive = FALSE /\ homed.candidate = FALSE
      /\ start.activeId = 0 /\ start.lastCompleted = 0
      /\ start.phase = "idle"
      /\ start.switchActive = FALSE /\ start.candidate = FALSE
  BY DEF StartupAxis
<1>4. \A ax \in Axes : cold[ax] = start
  OBVIOUS
<1> HIDE DEF homed, start, cold
<1>5. homed \in AxisUpTo(1) /\ start \in AxisUpTo(1)
  BY <1>2, <1>3 DEF AxisUpTo, Unmet
<1>6. off \in UpTo(1)
  <2>1. ASSUME NEW a \in AxisState PROVE Seen(a) \in SeenAxis
    BY ZenonT(60) DEF Seen, SeenAxis, AxisState
  <2>2. cold \in [Axes -> AxisState]
    BY <1>2, <1>4 DEF cold
  <2>3. [ax \in Axes |-> Seen(cold[ax])] \in [Axes -> SeenAxis]
    BY <2>1, <2>2
  <2>4. state \in Reported /\ input \in Input
    BY <2>3, EmergencyAssumption DEF Reported, Input, Faults, AxisFaults
  <2> HIDE DEF state, input
  <2>5. off \in ControllerState
    BY <2>2, <2>4, ZenonT(60) DEF ControllerState
  <2>6. off.axes = cold
    OBVIOUS
  <2> HIDE DEF off
  <2> QED BY <1>4, <1>5, <2>5, <2>6 DEF UpTo
<1>7. ready = seen \/ ready = EmergencyStopAll(seen).ctl
  <2>1. /\ \A ax \in Axes : startups[ax] # "unvisited"
        /\ (\A ax \in Axes : startups[ax] = "ready") = TRUE
    OBVIOUS
  <2> QED BY <2>1, Zenon DEF StartupController, off, state, input, cold
<1> HIDE DEF off, ready
<1>8. seen \in UpTo(1)
  <2> DEFINE level == FALSE
             polled == UpdateEmergency(off, level)
  <2>1. level \in BOOLEAN /\ seen = Synchronize(polled)
    OBVIOUS
  <2> HIDE DEF level, seen
  <2>2. polled \in ControllerState /\ polled.axes = off.axes
    BY <1>6, <2>1, UpToFields, UpdateEmergencyFields
  <2>3. polled \in UpTo(1)
    BY <1>6, <2>2, SameAxes
  <2> QED BY <2>1, <2>3, SynchronizeOnward
<1> HIDE DEF seen
<1>9. ready \in ControllerState
  <2> DEFINE out == EmergencyStopAll(seen)
  <2>1. out \in {StopAll(seen), EmergencyStopAll(seen)}
    OBVIOUS
  <2> HIDE DEF out
  <2>2. out.ctl \in UpTo(1)
    BY <1>8, <2>1, StopsOnward DEF Returns
  <2> QED BY <1>7, <1>8, <2>2, UpToFields DEF out
<1>10. axes \in [Axes -> AxisState] /\ \A ax \in Axes : axes[ax] = homed
  BY <1>2
<1> HIDE DEF axes
<1>11. e \in ControllerState /\ e.axes = axes
  BY <1>9, <1>10, AxesReplaced
<1> HIDE DEF e
<1>12. e \in UpTo(1)
  BY <1>5, <1>10, <1>11 DEF UpTo
<1> QED BY <1>1, <1>12, SynchronizeOnward

-----------------------------------------------------------------------------
(* A motion call and its lines *)

Asks == {Query, [op |-> "STOP"]}

\* The lines the host may have on their way: after a call it only asks for
\* STATUS, sends heartbeats and stops.
Lines(upTo, call, motion) ==
  {l \in [id : Nat \ {0}, order : Calls \cup Asks] :
     /\ l.id <= upTo
     /\ l.id > motion => l.order \in Asks
     /\ l.id = motion => l.order = call}

Wire == Lines(RequestId, client.call, client.motion)

LineMessages(wire) ==
  {[kind |-> "line", token |-> t, id |-> l.id, order |-> l.order] :
     t \in Nat, l \in wire}
  \cup [kind : {"heartbeat", "diagnostics"}]

OnTheWay(read, messages, task, wire) ==
  /\ read \in Seq(wire)
  /\ messages \in Seq(LineMessages(wire))
  /\ task \in [at : {"idle", "post", "wait"}, token : Nat, line : Seq(wire)]
  /\ task.at = "post" => task.line # <<>>

\* The lines the controller may have on their way: it names no command that it
\* has not handled as complete, and answers none that was not sent.
Lawful(handled, upTo) ==
  {l \in OutLine : l.id <= IF l.kind = "complete" THEN handled ELSE upTo}

Unsaid(kinds, id) == {l \in OutLine : ~(l.kind \in kinds /\ l.id = id)}

OnlyIn(queued, waiting, aside, S) ==
  /\ queued \in Seq([token : Nat, line : S])
  /\ waiting \in Seq(S)
  /\ aside \in Seq(S)

OnlySays(S) == OnlyIn(outbound, inbox, events, S)

\* What the call was for is done,
AllDone == \A ax \in Ordered(client.call) : DoneBy(ctl.axes[ax], client.motion)

\* or is being done, or was broken off; then nothing says that it is done.
Accepted ==
  /\ engine.lastId >= client.motion
  /\ \A ax \in Ordered(client.call) :
       \/ DoneBy(ctl.axes[ax], client.motion)
       \/ WorksOn(ctl.axes[ax], client.motion)
       \/ BrokenOff(ctl.axes[ax])
  /\ ~AllDone => /\ client.at \in {"call", "poll", "heartbeat"}
                 /\ OnlySays(Unsaid({"OK", "complete"}, client.motion))

\* Until it is accepted nothing says that it is.
Unanswered ==
  client.at = "call" /\ OnlySays(Unsaid({"OK", "ACCEPTED"}, client.motion))

InMotionCall ==
  /\ client.outcome # "raised" /\ client.at # "stop"
  /\ client.call.op \in MotionOps

ClientState ==
  [at : Requesting \cup {"idle", "poll"}, call : Calls \cup {NoCall},
   motion : Nat, polls : 0 .. MaxPolls,
   outcome : {"none", "returned", "raised"}]

\* The inductive invariant.
TypePart ==
  /\ engine \in EngineState /\ ctl \in UpTo(engine.lastId)
  /\ sent \in Nat /\ pressed \in BOOLEAN
  /\ client \in ClientState
  /\ client.motion <= RequestId
  /\ client.at = "call" => client.motion = RequestId
  /\ client.outcome # "none" => client.at = "idle"

LinePart ==
  /\ OnTheWay(uart, motionQueue, proto, Wire)
  /\ OnlySays(Lawful(engine.lastId, RequestId))

CallPart == InMotionCall => Unanswered \/ Accepted

ClientInv == TypePart /\ LinePart /\ CallPart

-----------------------------------------------------------------------------
(* The lines *)

\* What a step of the firmware sends the host is in one of three places.
Sends(line) ==
  \/ outbound' = outbound /\ said' \in {Silence, line}
  \/ /\ said' = Silence
     /\ \E token \in Nat :
          outbound' = Append(outbound, [token |-> token, line |-> line])
  \/ WriteNext

LEMMA SentOn ==
  ASSUME NEW S, OnlyIn(outbound, inbox, events, S), NEW line \in S,
         Sends(line), Arrives, events' = events
  PROVE  OnlyIn(outbound', inbox', events', S)
<1>1. /\ outbound \in Seq([token : Nat, line : S])
      /\ inbox \in Seq(S) /\ events \in Seq(S)
  BY DEF OnlyIn
<1>2. ASSUME said' \in S \cup {Silence}
      PROVE  inbox' \in Seq(S)
  <2>1. inbox' = inbox \/ (said' \in S /\ inbox' = Append(inbox, said'))
    BY <1>2 DEF Arrives
  <2> QED BY <1>1, <2>1, AppendProperties
<1>3. CASE outbound' = outbound /\ said' \in {Silence, line}
  BY <1>1, <1>2, <1>3 DEF OnlyIn
<1>4. CASE /\ said' = Silence
           /\ \E token \in Nat :
                outbound' = Append(outbound, [token |-> token, line |-> line])
  <2>1. PICK token \in Nat :
          outbound' = Append(outbound, [token |-> token, line |-> line])
    BY <1>4
  <2>2. [token |-> token, line |-> line] \in [token : Nat, line : S]
    OBVIOUS
  <2>3. outbound' \in Seq([token : Nat, line : S])
    BY <1>1, <2>1, <2>2, AppendProperties
  <2> QED BY <1>1, <1>2, <1>4, <2>3 DEF OnlyIn
<1>5. CASE WriteNext
  <2>1. outbound # <<>> /\ outbound' = Tail(outbound)
        /\ said' = Head(outbound).line
    BY <1>5 DEF WriteNext
  <2>2. /\ Head(outbound) \in [token : Nat, line : S]
        /\ Tail(outbound) \in Seq([token : Nat, line : S])
    BY <1>1, <2>1, HeadTailProperties
  <2>3. said' \in S
    BY <2>1, <2>2
  <2> QED BY <1>1, <1>2, <2>1, <2>2, <2>3 DEF OnlyIn
<1> QED BY <1>3, <1>4, <1>5 DEF Sends

\* More is allowed.
LEMMA OnlyInMore ==
  ASSUME NEW S, NEW T, S \subseteq T, NEW queued, NEW waiting, NEW aside,
         OnlyIn(queued, waiting, aside, S)
  PROVE  OnlyIn(queued, waiting, aside, T)
<1>1. [token : Nat, line : S] \subseteq [token : Nat, line : T]
  OBVIOUS
<1> QED BY <1>1, SeqMonotonic DEF OnlyIn

\* What two rules allow.
LEMMA SeqOfBoth ==
  ASSUME NEW S, NEW T, NEW q \in Seq(S), q \in Seq(T)
  PROVE  q \in Seq(S \cap T)
<1>1. /\ Len(q) \in Nat /\ q \in [1 .. Len(q) -> S]
      /\ q \in [1 .. Len(q) -> T]
  BY LenProperties
<1>2. q \in [1 .. Len(q) -> S \cap T]
  BY <1>1
<1> QED BY <1>1, <1>2, SeqDef

LEMMA OnlyInBoth ==
  ASSUME NEW S, NEW T, NEW queued, NEW waiting, NEW aside,
         OnlyIn(queued, waiting, aside, S), OnlyIn(queued, waiting, aside, T)
  PROVE  OnlyIn(queued, waiting, aside, S \cap T)
<1>1. [token : Nat, line : S] \cap [token : Nat, line : T]
        \subseteq [token : Nat, line : S \cap T]
  OBVIOUS
<1>2. queued \in Seq([token : Nat, line : S] \cap [token : Nat, line : T])
  BY SeqOfBoth DEF OnlyIn
<1>3. queued \in Seq([token : Nat, line : S \cap T])
  BY <1>1, <1>2, SeqMonotonic
<1> QED BY <1>3, SeqOfBoth DEF OnlyIn

LEMMA OnTheWayMore ==
  ASSUME NEW S, NEW T, S \subseteq T, NEW read, NEW messages, NEW task,
         OnTheWay(read, messages, task, S)
  PROVE  OnTheWay(read, messages, task, T)
<1>1. LineMessages(S) \subseteq LineMessages(T)
  BY DEF LineMessages
<1>2. read \in Seq(T) /\ messages \in Seq(LineMessages(T))
  BY <1>1, SeqMonotonic DEF OnTheWay
<1>3. task \in [at : {"idle", "post", "wait"}, token : Nat, line : Seq(T)]
  <2>1. task \in [at : {"idle", "post", "wait"}, token : Nat, line : Seq(S)]
    BY DEF OnTheWay
  <2>2. Seq(S) \subseteq Seq(T)
    BY SeqMonotonic
  <2> QED BY <2>1, <2>2
<1> QED BY <1>2, <1>3 DEF OnTheWay

\* A line that does not say that the call is accepted or done.
Neutral(line) ==
  /\ line \in Unsaid({"OK", "ACCEPTED"}, client.motion)
  /\ line \in Unsaid({"OK", "complete"}, client.motion)

\* What is done, under way or broken off remains so while no order is begun.
LEMMA AcceptedOnward ==
  ASSUME NEW id, NEW a, NEW b, Onward(a, b)
  PROVE  /\ DoneBy(a, id) => DoneBy(b, id)
         /\ DoneBy(a, id) \/ WorksOn(a, id) \/ BrokenOff(a)
              => DoneBy(b, id) \/ WorksOn(b, id) \/ BrokenOff(b)
BY DEF Onward, DoneBy, WorksOn, BrokenOff

LEMMA OrderedAxes ==
  ASSUME NEW order \in Calls, order.op \in MotionOps
  PROVE  Ordered(order) \subseteq Axes
<1>1. order \in AllOrders
  BY ClientAssumption
<1>2. order.op \in {"HOME", "MOVE_REL"} => order.axis \in Axes \cup {"BOTH"}
  BY <1>1 DEF AllOrders, OrdersFor
<1> QED BY <1>2 DEF Ordered

\* The call in progress is one of the host's.
LEMMA CallIsOrder ==
  ASSUME TypePart, InMotionCall
  PROVE  client.call \in Calls /\ Ordered(client.call) \subseteq Axes
<1>1. client.call \in Calls \cup {NoCall} /\ client.call.op \in MotionOps
  BY DEF TypePart, ClientState, InMotionCall
<1>2. NoCall.op \notin MotionOps
  BY DEF NoCall, MotionOps
<1> QED BY <1>1, <1>2, OrderedAxes

-----------------------------------------------------------------------------
(* Steps of the firmware *)

\* The client does nothing in them.
HostWaits == Arrives /\ UNCHANGED <<sent, events, client, calls>>

\* The types and the lines are kept if the new line is lawful.
LEMMA FirmwareKeeps ==
  ASSUME ClientInv, HostWaits,
         engine' \in EngineState, ctl' \in UpTo(engine'.lastId),
         engine.lastId <= engine'.lastId, pressed' \in BOOLEAN,
         OnTheWay(uart', motionQueue', proto', Wire),
         NEW line \in Lawful(engine'.lastId, RequestId), Sends(line)
  PROVE  TypePart' /\ LinePart'
<1>1. RequestId' = RequestId /\ Wire' = Wire
  BY DEF HostWaits, RequestId, Wire
<1>2. TypePart'
  BY <1>1 DEF ClientInv, TypePart, HostWaits
<1>3. Lawful(engine.lastId, RequestId) \subseteq Lawful(engine'.lastId, RequestId)
  <2>1. engine.lastId \in Nat /\ engine'.lastId \in Nat
    BY DEF ClientInv, TypePart, EngineState
  <2> QED BY <2>1 DEF Lawful, OutLine
<1>4. OnlyIn(outbound, inbox, events, Lawful(engine'.lastId, RequestId))
  BY <1>3, OnlyInMore DEF ClientInv, LinePart, OnlySays
<1>5. OnlyIn(outbound', inbox', events', Lawful(engine'.lastId, RequestId))
  BY <1>4, SentOn DEF HostWaits
<1>6. LinePart'
  BY <1>1, <1>5 DEF LinePart, OnlySays
<1> QED BY <1>2, <1>6

\* The call goes on as it was if nothing is begun and nothing said about it.
LEMMA CallKept ==
  ASSUME ClientInv, HostWaits,
         engine \in EngineState, engine' \in EngineState,
         engine.lastId <= engine'.lastId,
         AllOnward(ctl, ctl'),
         NEW line, Neutral(line), Sends(line)
  PROVE  CallPart'
<1> SUFFICES ASSUME InMotionCall' PROVE (Unanswered \/ Accepted)'
  BY DEF CallPart
<1>1. client' = client /\ events' = events /\ Arrives
  BY DEF HostWaits
<1>2. InMotionCall
  BY <1>1 DEF InMotionCall
<1>3. Unanswered \/ Accepted
  BY <1>2 DEF ClientInv, CallPart
<1>4. CASE Unanswered
  <2> DEFINE S == Unsaid({"OK", "ACCEPTED"}, client.motion)
  <2>1. OnlyIn(outbound, inbox, events, S) /\ line \in S
    BY <1>4 DEF Unanswered, OnlySays, Neutral
  <2> HIDE DEF S
  <2>2. OnlyIn(outbound', inbox', events', S)
    BY <1>1, <2>1, SentOn
  <2> QED BY <1>1, <1>4, <2>2 DEF Unanswered, OnlySays, S
<1>5. CASE Accepted
  <2> DEFINE S == Unsaid({"OK", "complete"}, client.motion)
             id == client.motion
  <2>1. Ordered(client.call) \subseteq Axes
    BY <1>2, CallIsOrder DEF ClientInv
  <2>2. \A ax \in Ordered(client.call) : Onward(ctl.axes[ax], ctl'.axes[ax])
    BY <2>1 DEF AllOnward
  <2>3. engine'.lastId >= id
    BY <1>5 DEF Accepted, EngineState, ClientInv, TypePart, ClientState
  <2>4. ASSUME NEW ax \in Ordered(client.call)
        PROVE  /\ DoneBy(ctl.axes[ax], id) => DoneBy(ctl'.axes[ax], id)
               /\ \/ DoneBy(ctl'.axes[ax], id) \/ WorksOn(ctl'.axes[ax], id)
                  \/ BrokenOff(ctl'.axes[ax])
    BY <1>5, <2>2, AcceptedOnward DEF Accepted
  <2>5. AllDone => AllDone'
    BY <1>1, <2>4 DEF AllDone
  <2>6. ASSUME ~AllDone PROVE OnlyIn(outbound', inbox', events', S)
    <3>1. OnlyIn(outbound, inbox, events, S) /\ line \in S
      BY <1>5, <2>6 DEF Accepted, OnlySays, Neutral
    <3> HIDE DEF S
    <3> QED BY <1>1, <3>1, SentOn
  <2>7. Accepted'
    BY <1>1, <1>5, <2>3, <2>4, <2>5, <2>6 DEF Accepted, OnlySays
  <2> QED BY <2>7
<1> QED BY <1>3, <1>4, <1>5

\* Nothing is begun, and what is said is not about a call.
LEMMA QuietKeeps ==
  ASSUME ClientInv, HostWaits,
         engine' \in EngineState, engine'.lastId = engine.lastId,
         ctl' \in UpTo(engine.lastId), AllOnward(ctl, ctl'),
         pressed' \in BOOLEAN, OnTheWay(uart', motionQueue', proto', Wire),
         NEW kind \in LineKinds \ {"OK", "ACCEPTED", "complete"},
         Sends([kind |-> kind, id |-> 0])
  PROVE  ClientInv'
<1> DEFINE line == [kind |-> kind, id |-> 0]
<1>1. engine \in EngineState /\ engine.lastId \in Nat /\ RequestId \in Nat
  BY DEF ClientInv, TypePart, EngineState, RequestId
<1>2. line \in Lawful(engine'.lastId, RequestId) /\ Neutral(line)
  BY <1>1 DEF Lawful, Neutral, Unsaid, OutLine
<1>3. Sends(line)
  OBVIOUS
<1> HIDE DEF line
<1>4. engine.lastId <= engine'.lastId /\ ctl' \in UpTo(engine'.lastId)
  BY <1>1
<1>5. TypePart' /\ LinePart'
  BY <1>2, <1>3, <1>4, FirmwareKeeps
<1>6. CallPart'
  BY <1>1, <1>2, <1>3, <1>4, CallKept
<1> QED BY <1>5, <1>6 DEF ClientInv

\* Of a step that says nothing.
LEMMA SilentKeeps ==
  ASSUME ClientInv, HostWaits, engine' = engine,
         ctl' \in UpTo(engine.lastId), AllOnward(ctl, ctl'),
         pressed' \in BOOLEAN, OnTheWay(uart', motionQueue', proto', Wire),
         outbound' = outbound, Quietly
  PROVE  ClientInv'
<1> DEFINE kind == "BUSY"
<1>1. kind \in LineKinds \ {"OK", "ACCEPTED", "complete"}
      /\ Sends([kind |-> kind, id |-> 0])
  BY DEF LineKinds, Sends, Quietly
<1>2. engine' \in EngineState /\ engine'.lastId = engine.lastId
  BY DEF ClientInv, TypePart
<1> HIDE DEF kind
<1> QED BY <1>1, <1>2, QuietKeeps

LEMMA SameController ==
  ASSUME ClientInv
  PROVE  /\ ctl \in UpTo(engine.lastId) /\ AllOnward(ctl, ctl)
         /\ engine \in EngineState /\ engine.lastId \in Nat
         /\ pressed \in BOOLEAN /\ RequestId \in Nat
         /\ OnTheWay(uart, motionQueue, proto, Wire)
BY OnwardSame DEF ClientInv, TypePart, LinePart, AllOnward, EngineState, RequestId

\* queue_outbound() of an event.
LEMMA EventSent ==
  ASSUME NEW event, QueueEvent(event), Quietly,
         event.kind = "none" => event.id \in Nat
  PROVE  \E line : /\ line \in {event, [kind |-> "BUSY", id |-> 0]}
                   /\ event.kind # "none" => line = event
                   /\ event.kind = "none" => line.kind = "BUSY"
                   /\ Sends(line)
<1> DEFINE none == [kind |-> "BUSY", id |-> 0]
<1>1. \/ outbound' = outbound
      \/ event.kind # "none"
         /\ outbound' = Append(outbound, [token |-> 0, line |-> event])
  BY DEF QueueEvent, QueueOutbound
<1>2. CASE outbound' = outbound
  <2>1. Sends(event) /\ Sends(none)
    BY <1>2 DEF Sends, Quietly
  <2> QED BY <2>1
<1>3. CASE event.kind # "none"
           /\ outbound' = Append(outbound, [token |-> 0, line |-> event])
  <2>1. Sends(event)
    BY <1>3 DEF Sends, Quietly
  <2> QED BY <1>3, <2>1
<1> QED BY <1>1, <1>2, <1>3

\* Taking the emergency request.
LEMMA TakeEmergencyKeeps ==
  ASSUME ClientInv, HostWaits, TakeEmergency
  PROVE  ClientInv'
<1>1. ctl \in UpTo(engine.lastId) /\ AllOnward(ctl, ctl) /\ engine.lastId \in Nat
  BY SameController
<1>2. ctl' \in UpTo(engine.lastId) /\ AllOnward(ctl, ctl')
  <2> DEFINE out == EmergencyStopAll(ctl)
  <2>1. ctl' = ctl \/ ctl' = out.ctl
    BY DEF TakeEmergency, Taken
  <2>2. out \in {StopAll(ctl), EmergencyStopAll(ctl)}
    OBVIOUS
  <2> HIDE DEF out
  <2>3. out.ctl \in UpTo(engine.lastId) /\ AllOnward(ctl, out.ctl)
    BY <1>1, <2>2, StopsOnward DEF Returns
  <2> QED BY <1>1, <2>1, <2>3
<1>3. /\ UNCHANGED <<engine, pressed, uart, motionQueue, proto, outbound>>
      /\ Quietly
  BY DEF TakeEmergency, hostVars, inputVars
<1>4. pressed' \in BOOLEAN /\ OnTheWay(uart', motionQueue', proto', Wire)
  BY <1>3, SameController
<1> QED BY <1>2, <1>3, <1>4, SilentKeeps

\* The head of the motion queue goes.
LEMMA MessageTaken ==
  ASSUME NEW S, NEW read, NEW messages, NEW task, messages # <<>>,
         OnTheWay(read, messages, task, S)
  PROVE  /\ Head(messages) \in LineMessages(S)
         /\ OnTheWay(read, Tail(messages), task, S)
<1>1. messages \in Seq(LineMessages(S))
  BY DEF OnTheWay
<1>2. Head(messages) \in LineMessages(S) /\ Tail(messages) \in Seq(LineMessages(S))
  BY <1>1, HeadTailProperties
<1> QED BY <1>2 DEF OnTheWay

\* A line is handled.
LEMMA LineKeeps ==
  ASSUME ClientInv, HostWaits, Quietly, pressed' = pressed,
         OnTheWay(uart', motionQueue', proto', Wire),
         NEW l \in Wire, NEW token \in Nat,
         NEW h, h = HandledOpen(ctl, engine, l.id, l.order, pressed),
         ctl' = h.ctl, engine' = Consumed(engine, l.id),
         QueueOutbound(token, [kind |-> h.reply, id |-> l.id])
  PROVE  ClientInv'
<1> DEFINE line == [kind |-> h.reply, id |-> l.id]
           m == client.motion
<1>1. /\ ctl \in UpTo(engine.lastId) /\ AllOnward(ctl, ctl)
      /\ engine \in EngineState /\ engine.lastId \in Nat
      /\ pressed \in BOOLEAN /\ RequestId \in Nat
  BY SameController
<1>2. /\ l.id \in Nat \ {0} /\ l.id <= RequestId
      /\ l.order \in Calls \cup Asks
      /\ l.id > m => l.order \in Asks
      /\ l.id = m => l.order = client.call
  BY DEF Wire, Lines
<1>3. \A order \in Asks : order \in AllOrders /\ order.op \in {"QUERY", "STOP"}
  BY DEF Asks, Query, AllOrders, OrdersFor
<1>4. l.order \in AllOrders
  BY <1>2, <1>3, ClientAssumption
<1>5. /\ h.reply \in Replies
      /\ l.id <= engine.lastId => h.ctl = ctl /\ h.reply \in {"DUPLICATE", "STALE"}
      /\ l.id > engine.lastId =>
           /\ h.ctl \in UpTo(l.id)
           /\ l.order.op \in {"QUERY", "STOP"} => AllOnward(ctl, h.ctl)
           /\ l.order.op \in MotionOps /\ h.reply \in {"OK", "ACCEPTED"} =>
                \A ax \in Ordered(l.order) :
                  \/ DoneBy(h.ctl.axes[ax], l.id)
                  \/ h.reply = "ACCEPTED" /\ WorksOn(h.ctl.axes[ax], l.id)
  <2> DEFINE id == l.id
             order == l.order
  <2>1. /\ engine \in EngineState /\ ctl \in UpTo(engine.lastId)
        /\ id \in Nat \ {0} /\ order \in AllOrders /\ pressed \in BOOLEAN
    BY <1>1, <1>2, <1>4
  <2>2. h = HandledOpen(ctl, engine, id, order, pressed)
    OBVIOUS
  <2> HIDE DEF id, order
  <2>3. /\ h.reply \in Replies
        /\ id <= engine.lastId => h.ctl = ctl /\ h.reply \in {"DUPLICATE", "STALE"}
        /\ id > engine.lastId =>
             /\ h.ctl \in UpTo(id)
             /\ order.op \in {"QUERY", "STOP"} => AllOnward(ctl, h.ctl)
             /\ order.op \in MotionOps /\ h.reply \in {"OK", "ACCEPTED"} =>
                  \A ax \in Ordered(order) :
                    \/ DoneBy(h.ctl.axes[ax], id)
                    \/ h.reply = "ACCEPTED" /\ WorksOn(h.ctl.axes[ax], id)
    BY <2>1, <2>2, HandledReturns
  <2> QED BY <2>3 DEF id, order
<1>6. /\ engine' \in EngineState
      /\ engine'.lastId = IF l.id > engine.lastId THEN l.id ELSE engine.lastId
  <2>1. engine' = [engine EXCEPT !.lastId = IF l.id > @ THEN l.id ELSE @]
    BY DEF Consumed
  <2> QED BY <1>1, <1>2, <2>1 DEF EngineState
<1>7. engine.lastId <= engine'.lastId /\ ctl' \in UpTo(engine'.lastId)
      /\ pressed' \in BOOLEAN
  BY <1>1, <1>2, <1>5, <1>6
<1>8. Sends(line) /\ line \in OutLine
  <2>1. Sends(line)
    BY DEF QueueOutbound, Sends, Quietly
  <2>2. line \in OutLine
    BY <1>2, <1>5 DEF OutLine, LineKinds
  <2> QED BY <2>1, <2>2
<1>9. line.kind = h.reply /\ line.id = l.id
  OBVIOUS
<1> HIDE DEF line
<1>10. h.reply # "complete"
  BY <1>5 DEF Replies
<1>11. line \in Lawful(engine'.lastId, RequestId)
  BY <1>2, <1>8, <1>9, <1>10 DEF Lawful
<1>12. TypePart' /\ LinePart'
  BY <1>6, <1>7, <1>8, <1>11, FirmwareKeeps
<1>13. CallPart'
  <2>1. CASE l.id <= engine.lastId
    <3>1. AllOnward(ctl, ctl') /\ Neutral(line)
      BY <1>1, <1>5, <1>8, <1>9, <2>1 DEF Neutral, Unsaid
    <3> QED BY <1>1, <1>6, <1>7, <1>8, <3>1, CallKept
  <2>2. CASE l.id > engine.lastId
    <3> SUFFICES ASSUME InMotionCall' PROVE (Unanswered \/ Accepted)'
      BY DEF CallPart
    <3>1. client' = client /\ events' = events /\ Arrives
      BY DEF HostWaits
    <3>2. InMotionCall /\ (Unanswered \/ Accepted)
      BY <3>1 DEF InMotionCall, ClientInv, CallPart
    <3>3. client.call \in Calls /\ m \in Nat
      BY <3>2, CallIsOrder DEF ClientInv, TypePart, ClientState
    <3>4. CASE Accepted
      <4>1. l.id > m
        BY <1>1, <1>2, <2>2, <3>3, <3>4 DEF Accepted
      <4>2. AllOnward(ctl, ctl')
        BY <1>2, <1>3, <1>5, <2>2, <4>1
      <4>3. Neutral(line)
        BY <1>2, <1>8, <1>9, <3>3, <4>1 DEF Neutral, Unsaid
      <4>4. CallPart'
        BY <1>1, <1>6, <1>7, <1>8, <4>2, <4>3, CallKept
      <4> QED BY <4>4 DEF CallPart
    <3>5. CASE Unanswered /\ ~(l.id = m /\ h.reply \in {"OK", "ACCEPTED"})
      <4> DEFINE S == Unsaid({"OK", "ACCEPTED"}, m)
      <4>1. OnlyIn(outbound, inbox, events, S) /\ line \in S
        BY <1>8, <1>9, <3>5 DEF Unanswered, OnlySays, Unsaid
      <4> HIDE DEF S
      <4>2. OnlyIn(outbound', inbox', events', S)
        BY <1>8, <3>1, <4>1, SentOn
      <4> QED BY <3>1, <3>5, <4>2 DEF Unanswered, OnlySays, S
    <3>6. CASE Unanswered /\ l.id = m /\ h.reply \in {"OK", "ACCEPTED"}
      <4> DEFINE S == Unsaid({"OK", "complete"}, m)
      <4>1. l.order = client.call /\ l.order.op \in MotionOps
        BY <1>2, <3>2, <3>6 DEF InMotionCall
      <4>2. \A ax \in Ordered(client.call) :
              \/ DoneBy(ctl'.axes[ax], m)
              \/ h.reply = "ACCEPTED" /\ WorksOn(ctl'.axes[ax], m)
        BY <1>5, <2>2, <3>6, <4>1
      <4>3. engine'.lastId = m
        BY <1>6, <2>2, <3>6
      <4>4. ASSUME ~AllDone' PROVE OnlyIn(outbound', inbox', events', S)
        <5>1. h.reply = "ACCEPTED"
          BY <3>1, <4>2, <4>4 DEF AllDone
        <5>2. line \in S
          BY <1>8, <1>9, <5>1 DEF Unsaid
        <5> DEFINE T == Unsaid({"OK", "ACCEPTED"}, m)
                   U == Lawful(engine.lastId, RequestId)
        <5>3. OnlyIn(outbound, inbox, events, T)
              /\ OnlyIn(outbound, inbox, events, U)
          BY <3>6 DEF Unanswered, OnlySays, ClientInv, LinePart
        <5>4. T \cap U \subseteq S
          BY <1>1, <1>2, <2>2, <3>6 DEF Unsaid, Lawful, OutLine
        <5> HIDE DEF S, T, U
        <5>5. OnlyIn(outbound, inbox, events, T \cap U)
          BY <5>3, OnlyInBoth
        <5>6. OnlyIn(outbound, inbox, events, S)
          BY <5>4, <5>5, OnlyInMore
        <5> QED BY <1>8, <3>1, <5>2, <5>6, SentOn
      <4>5. Accepted'
        BY <1>1, <3>1, <3>3, <3>6, <4>2, <4>3, <4>4
           DEF Accepted, OnlySays, S, Unanswered
      <4> QED BY <4>5
    <3> QED BY <3>2, <3>4, <3>5, <3>6
  <2> QED BY <1>1, <1>2, <2>1, <2>2
<1> QED BY <1>12, <1>13 DEF ClientInv

\* queue_motion_message()
LEMMA MessagePosted ==
  ASSUME NEW S, NEW read, NEW messages, NEW task, NEW m \in LineMessages(S),
         OnTheWay(read, messages, task, S)
  PROVE  OnTheWay(read, Append(messages, m), task, S)
<1>1. messages \in Seq(LineMessages(S))
  BY DEF OnTheWay
<1>2. Append(messages, m) \in Seq(LineMessages(S))
  BY <1>1, AppendProperties
<1> QED BY <1>2 DEF OnTheWay

\* The previous_ members take no id.
LEMMA RememberKeepsId ==
  ASSUME NEW e \in EngineState, NEW n, NEW c \in UpTo(n)
  PROVE  Remember(e, c) \in EngineState /\ Remember(e, c).lastId = e.lastId
<1> DEFINE moving == \E ax \in Axes : c.state.axes[ax].moving
<1>1. c.state.estop \in BOOLEAN /\ c.state.fault \in Faults
  <2>1. c.state \in Reported
    BY UpToFields DEF ControllerState
  <2> QED BY <2>1 DEF Reported
<1>2. Remember(e, c) = [e EXCEPT !.estop = c.state.estop,
                                 !.fault = c.state.fault, !.moving = moving]
  BY DEF Remember
<1>3. moving \in BOOLEAN
  OBVIOUS
<1> HIDE DEF moving
<1> QED BY <1>1, <1>2, <1>3 DEF EngineState

\* service_motion_message()
LEMMA ReceiveKeeps ==
  ASSUME OpenSwitches, ClientInv, HostWaits, ReceiveMessage
  PROVE  ClientInv'
<1> DEFINE m == Head(motionQueue)
<1>1. /\ motionQueue # <<>> /\ motionQueue' = Tail(motionQueue)
      /\ ServiceMessage(m, AllReleased) /\ Quietly
      /\ pressed' = pressed /\ uart' = uart /\ proto' = proto
  BY DEF ReceiveMessage, inputVars, hostVars, OpenSwitches
<1>2. /\ ctl \in UpTo(engine.lastId) /\ engine \in EngineState
      /\ engine.lastId \in Nat /\ pressed \in BOOLEAN
      /\ OnTheWay(uart, motionQueue, proto, Wire)
  BY SameController
<1>3. m \in LineMessages(Wire) /\ OnTheWay(uart', motionQueue', proto', Wire)
  <2>1. OnTheWay(uart, Tail(motionQueue), proto, Wire)
        /\ m \in LineMessages(Wire)
    BY <1>1, <1>2, MessageTaken
  <2> QED BY <1>1, <2>1
<1>4. pressed' \in BOOLEAN
  BY <1>1, <1>2
<1>5. CASE m.kind = "line"
  <2>1. PICK token \in Nat, l \in Wire :
          m = [kind |-> "line", token |-> token, id |-> l.id,
               order |-> l.order]
    BY <1>3, <1>5 DEF LineMessages
  <2>2. m.token = token /\ m.id = l.id /\ m.order = l.order
    BY <2>1
  <2> HIDE DEF m
  <2> DEFINE h == HandledOpen(ctl, engine, m.id, m.order, pressed)
  <2>3. /\ ctl' = h.ctl
        /\ QueueOutbound(m.token, [kind |-> h.reply, id |-> m.id])
        /\ engine' = Consumed(engine, m.id)
    BY <1>1, <1>5 DEF ServiceMessage, HandledOpen
  <2>4. h = HandledOpen(ctl, engine, l.id, l.order, pressed)
    BY <2>2
  <2> HIDE DEF h
  <2>5. /\ QueueOutbound(token, [kind |-> h.reply, id |-> l.id])
        /\ engine' = Consumed(engine, l.id)
    BY <2>2, <2>3
  <2> QED BY <1>1, <1>3, <2>3, <2>4, <2>5, LineKeeps
<1>6. CASE m.kind = "heartbeat"
  <2> DEFINE lost == GiveHostUp(ctl)
             event == [kind |-> "heartbeat", id |-> 0]
  <2>1. ctl' = lost /\ engine' = Remember(engine, lost) /\ QueueEvent(event)
    BY <1>1, <1>6 DEF ServiceMessage
  <2>2. lost \in UpTo(engine.lastId) /\ AllOnward(ctl, lost)
    BY <1>2, GiveHostUpOnward
  <2> HIDE DEF lost
  <2>3. Remember(engine, lost) \in EngineState
        /\ Remember(engine, lost).lastId = engine.lastId
    BY <1>2, <2>2, RememberKeepsId
  <2>4. "heartbeat" \in LineKinds \ {"OK", "ACCEPTED", "complete"}
        /\ event.kind = "heartbeat"
    BY DEF LineKinds, EventKinds
  <2> HIDE DEF event
  <2>5. Sends(event)
    <3>1. outbound' = outbound
          \/ outbound' = Append(outbound, [token |-> 0, line |-> event])
      BY <2>1, <2>4 DEF QueueEvent, QueueOutbound
    <3> QED BY <1>1, <3>1 DEF Sends, Quietly
  <2>6. Sends([kind |-> "heartbeat", id |-> 0])
    BY <2>5 DEF event
  <2>7. engine' \in EngineState /\ engine'.lastId = engine.lastId
        /\ ctl' \in UpTo(engine.lastId) /\ AllOnward(ctl, ctl')
    BY <2>1, <2>2, <2>3
  <2> QED BY <1>3, <1>4, <2>4, <2>6, <2>7, QuietKeeps
<1>7. CASE m.kind = "diagnostics"
  <2> DEFINE seen == DiagnoseAll(ctl, [ax \in Axes |-> "ok"])
  <2>1. ctl' = seen /\ engine' = engine /\ outbound' = outbound
    BY <1>1, <1>7 DEF ServiceMessage
  <2>2. seen \in UpTo(engine.lastId) /\ AllOnward(ctl, seen)
    BY <1>2, DiagnoseAllOnward
  <2> HIDE DEF seen
  <2>3. ctl' \in UpTo(engine.lastId) /\ AllOnward(ctl, ctl')
    BY <2>1, <2>2
  <2> QED BY <1>1, <1>3, <1>4, <2>1, <2>3, SilentKeeps
<1> QED BY <1>1, <1>5, <1>6, <1>7 DEF ServiceMessage

\* service(): if it announces a completion, everything the call was for is
\* done, whatever the id.
LEMMA ServeKeeps ==
  ASSUME OpenSwitches, ClientInv, HostWaits, Serve
  PROVE  ClientInv'
<1> DEFINE served == ServiceAll(ctl, pressed, AllReleased, AllArmed)
           event == EventOf(engine, served)
           n == engine.lastId
<1>1. /\ ctl' = served /\ engine' = Remember(engine, served)
      /\ QueueEvent(event) /\ Quietly
      /\ UNCHANGED <<pressed, uart, motionQueue, proto>>
  BY DEF Serve, inputVars, hostVars, OpenSwitches
<1>2. /\ ctl \in UpTo(n) /\ engine \in EngineState /\ n \in Nat
      /\ pressed \in BOOLEAN /\ OnTheWay(uart, motionQueue, proto, Wire)
  BY SameController
<1>3. /\ served \in UpTo(n) /\ AllOnward(ctl, served)
      /\ Honest(served) /\ Current(served)
  BY <1>2, ServiceAllOnward
<1> HIDE DEF served
<1>4. /\ event.kind \in EventKinds \cup {"none"}
      /\ event.id \in Nat /\ event.id <= n
      /\ event.kind = "complete" =>
           \A ax \in Axes : ~served.axes[ax].moving
                            /\ served.axes[ax].fault = "none"
  <2>1. event = EventOf(engine, served)
    OBVIOUS
  <2> HIDE DEF event
  <2> QED BY <1>2, <1>3, <2>1, CompletionSaysSo
<1>5. event \in [kind : EventKinds \cup {"none"}, id : Nat]
  <2>1. event = [kind |-> event.kind, id |-> event.id]
    BY DEF EventOf, Quiet
  <2> HIDE DEF event
  <2> QED BY <1>4, <2>1
<1> HIDE DEF event
<1>6. /\ engine' \in EngineState /\ engine'.lastId = n
      /\ n <= engine'.lastId /\ ctl' \in UpTo(engine'.lastId)
      /\ AllOnward(ctl, ctl') /\ pressed' \in BOOLEAN
      /\ OnTheWay(uart', motionQueue', proto', Wire)
  <2>1. Remember(engine, served) \in EngineState
        /\ Remember(engine, served).lastId = n
    BY <1>2, <1>3, RememberKeepsId
  <2> QED BY <1>1, <1>2, <1>3, <2>1
<1>7. PICK line : /\ line \in {event, [kind |-> "BUSY", id |-> 0]}
                  /\ event.kind # "none" => line = event
                  /\ event.kind = "none" => line.kind = "BUSY"
                  /\ Sends(line)
  BY <1>1, <1>4, EventSent
<1>8. /\ line \in OutLine /\ line.kind \in EventKinds \cup {"BUSY"}
      /\ line.kind = "complete" => line = event
      /\ line.kind = "complete" => line.id <= n
      /\ line.id <= RequestId \/ line.kind = "complete"
  <2>1. CASE event.kind = "none"
    <3>1. line = [kind |-> "BUSY", id |-> 0]
      BY <1>7, <2>1
    <3> QED BY <3>1, SameController DEF OutLine, LineKinds
  <2>2. CASE event.kind # "none"
    <3>1. line = event /\ event \in [kind : EventKinds, id : Nat]
      BY <1>5, <1>7, <2>2
    <3>2. event.kind # "complete" => event.id = 0
      BY <1>1 DEF event, EventOf, Quiet
    <3> QED BY <1>4, <3>1, <3>2, SameController DEF OutLine, LineKinds
  <2> QED BY <2>1, <2>2
<1>9. line \in Lawful(engine'.lastId, RequestId)
  BY <1>6, <1>8 DEF Lawful
<1>10. TypePart' /\ LinePart'
  BY <1>6, <1>7, <1>9, FirmwareKeeps
<1>11. CallPart'
  <2>1. CASE line.kind # "complete"
    <3>1. Neutral(line)
      BY <1>8, <2>1 DEF Neutral, Unsaid, EventKinds
    <3> QED BY <1>2, <1>6, <1>7, <3>1, CallKept
  <2>2. CASE line.kind = "complete"
    <3> SUFFICES ASSUME InMotionCall' PROVE (Unanswered \/ Accepted)'
      BY DEF CallPart
    <3>1. client' = client /\ events' = events /\ Arrives
      BY DEF HostWaits
    <3>2. InMotionCall /\ (Unanswered \/ Accepted)
      BY <3>1 DEF InMotionCall, ClientInv, CallPart
    <3>3. CASE Unanswered
      <4> DEFINE S == Unsaid({"OK", "ACCEPTED"}, client.motion)
      <4>1. OnlyIn(outbound, inbox, events, S) /\ line \in S
        BY <1>8, <2>2, <3>3 DEF Unanswered, OnlySays, Unsaid
      <4> HIDE DEF S
      <4>2. OnlyIn(outbound', inbox', events', S)
        BY <1>7, <3>1, <4>1, SentOn
      <4> QED BY <3>1, <3>3, <4>2 DEF Unanswered, OnlySays, S
    <3>4. CASE Accepted
      <4> DEFINE id == client.motion
      <4>1. Ordered(client.call) \subseteq Axes /\ id \in Nat
        BY <3>2, CallIsOrder DEF ClientInv, TypePart, ClientState
      <4>2. ASSUME NEW ax \in Ordered(client.call)
            PROVE  DoneBy(ctl'.axes[ax], id)
        <5>1. \/ DoneBy(ctl.axes[ax], id) \/ WorksOn(ctl.axes[ax], id)
              \/ BrokenOff(ctl.axes[ax])
          BY <3>4 DEF Accepted
        <5>2. Onward(ctl.axes[ax], ctl'.axes[ax])
          BY <1>6, <4>1 DEF AllOnward
        <5>3. \/ DoneBy(ctl'.axes[ax], id) \/ WorksOn(ctl'.axes[ax], id)
              \/ BrokenOff(ctl'.axes[ax])
          BY <5>1, <5>2, AcceptedOnward
        <5>4. ~ctl'.axes[ax].moving /\ ctl'.axes[ax].fault = "none"
          BY <1>1, <1>4, <1>8, <2>2, <4>1
        <5> QED BY <5>3, <5>4 DEF WorksOn, BrokenOff
      <4>3. AllDone'
        BY <3>1, <4>2 DEF AllDone
      <4>4. engine'.lastId >= id
        BY <1>2, <1>6, <3>4, <4>1 DEF Accepted
      <4>5. Accepted'
        BY <3>1, <4>2, <4>3, <4>4 DEF Accepted
      <4> QED BY <4>5
    <3> QED BY <3>2, <3>3, <3>4
  <2> QED BY <2>1, <2>2
<1> QED BY <1>10, <1>11 DEF ClientInv

\* The motion task.
LEMMA MotionTaskKeeps ==
  ASSUME OpenSwitches, ClientInv, HostWaits, MotionTask
  PROVE  ClientInv'
<1>1. CASE ClearFlags \/ SetFlags
  <2>1. /\ UNCHANGED <<ctl, engine, pressed, uart, motionQueue, proto, outbound>>
        /\ Quietly
    BY <1>1 DEF ClearFlags, SetFlags, controller, inputVars, hostVars
  <2>2. /\ ctl' \in UpTo(engine.lastId) /\ AllOnward(ctl, ctl')
        /\ pressed' \in BOOLEAN /\ OnTheWay(uart', motionQueue', proto', Wire)
    BY <2>1, SameController
  <2> QED BY <2>1, <2>2, SilentKeeps
<1> QED BY <1>1, TakeEmergencyKeeps, ReceiveKeeps, ServeKeeps DEF MotionTask

\* The safety and the diagnostics task, which may leave the motion task a
\* message without a line.
LEMMA WatchersKeep ==
  ASSUME ClientInv, HostWaits, SafetyTask \/ DiagnosticsTask
  PROVE  ClientInv'
<1>1. /\ UNCHANGED <<ctl, engine, pressed, uart, proto, outbound>>
      /\ Quietly
  BY DEF SafetyTask, DrainActivity, PollEmergency, SuperviseHost,
         DiagnosticsTask, controller, inputVars, hostVars
<1>2. \/ motionQueue' = motionQueue
      \/ \E m \in [kind : {"heartbeat", "diagnostics"}] :
           motionQueue' = Append(motionQueue, m)
  <2>1. \/ motionQueue' = motionQueue
        \/ motionQueue' = Append(motionQueue, [kind |-> "heartbeat"])
        \/ motionQueue' = Append(motionQueue, [kind |-> "diagnostics"])
    BY DEF SafetyTask, DrainActivity, PollEmergency, SuperviseHost,
           DiagnosticsTask, motionVars
  <2>2. /\ [kind |-> "heartbeat"] \in [kind : {"heartbeat", "diagnostics"}]
        /\ [kind |-> "diagnostics"] \in [kind : {"heartbeat", "diagnostics"}]
    OBVIOUS
  <2> QED BY <2>1, <2>2
<1>3. OnTheWay(uart, motionQueue, proto, Wire)
  BY SameController
<1>4. OnTheWay(uart', motionQueue', proto', Wire)
  <2>1. ASSUME NEW m \in [kind : {"heartbeat", "diagnostics"}],
               motionQueue' = Append(motionQueue, m)
        PROVE  OnTheWay(uart, motionQueue', proto, Wire)
    <3>1. m \in LineMessages(Wire)
      BY DEF LineMessages
    <3> QED BY <1>3, <2>1, <3>1, MessagePosted
  <2> QED BY <1>1, <1>2, <1>3, <2>1
<1>5. /\ ctl' \in UpTo(engine.lastId) /\ AllOnward(ctl, ctl')
      /\ pressed' \in BOOLEAN
  BY <1>1, SameController
<1> QED BY <1>1, <1>4, <1>5, SilentKeeps

\* The interrupt of the input, the timers and the clock.
LEMMA HardwareKeeps ==
  ASSUME ClientInv, HostWaits, Hardware
  PROVE  ClientInv'
<1>1. /\ UNCHANGED <<engine, uart, motionQueue, proto, outbound>>
      /\ Quietly
  BY DEF Hardware, InputEdge, PulseDone, Tick, motionVars, hostVars
<1>2. /\ ctl \in UpTo(engine.lastId) /\ AllOnward(ctl, ctl)
      /\ engine.lastId \in Nat /\ pressed \in BOOLEAN
      /\ OnTheWay(uart', motionQueue', proto', Wire)
  BY <1>1, SameController
<1>3. pressed' \in BOOLEAN
  BY <1>2 DEF Hardware, InputEdge, PulseDone, Tick, inputVars
<1>4. ctl' \in UpTo(engine.lastId) /\ AllOnward(ctl, ctl')
  <2>1. CASE InputEdge
    <3>1. ctl' = ctl \/ ctl' = Dropped(ctl)
      BY <2>1 DEF InputEdge
    <3> QED BY <1>2, <3>1, DroppedOnward
  <2>2. CASE PulseDone
    <3>1. PICK ax \in Axes :
            ctl' = [ctl EXCEPT !.axes[ax].armed = FALSE,
                               !.axes[ax].completed = @ + 1]
      BY <2>2 DEF PulseDone
    <3> QED BY <1>2, <3>1, PulseOnward
  <2>3. CASE Tick
    <3>1. ctl' = AgeAll(ctl)
      BY <2>3 DEF Tick
    <3> QED BY <1>2, <3>1, AgeAllOnward
  <2> QED BY <2>1, <2>2, <2>3 DEF Hardware
<1> QED BY <1>1, <1>2, <1>3, <1>4, SilentKeeps

\* The protocol task: a line goes from the serial buffer through its local to
\* the motion task, and lines out are written.
LEMMA ProtocolTaskKeeps ==
  ASSUME ClientInv, HostWaits, ProtocolTask
  PROVE  ClientInv'
<1> DEFINE ats == {"idle", "post", "wait"}
<1>1. UNCHANGED <<ctl, engine, pressed>>
  BY DEF ProtocolTask, ForwardIdle, ReadLine, PostLine, ForwardWaiting,
         ResponseTimeout, controller, inputVars
<1>2. /\ ctl' \in UpTo(engine.lastId) /\ AllOnward(ctl, ctl')
      /\ pressed' \in BOOLEAN
      /\ engine' \in EngineState /\ engine'.lastId = engine.lastId
      /\ OnTheWay(uart, motionQueue, proto, Wire)
  BY <1>1, SameController
<1>3. /\ uart \in Seq(Wire) /\ motionQueue \in Seq(LineMessages(Wire))
      /\ proto \in [at : ats, token : Nat, line : Seq(Wire)]
      /\ proto.at = "post" => proto.line # <<>>
  BY <1>2 DEF OnTheWay
<1>4. ASSUME NEW task, task \in {proto, [proto EXCEPT !.at = "idle", !.line = <<>>]}
      PROVE  OnTheWay(uart, motionQueue, task, Wire)
  <2>1. <<>> \in Seq(Wire)
    BY EmptySeq
  <2> QED BY <1>2, <1>3, <1>4, <2>1 DEF OnTheWay
<1>5. ASSUME OnTheWay(uart', motionQueue', proto', Wire),
             NEW kind \in {"BUSY", "TIMEOUT"}, Sends([kind |-> kind, id |-> 0])
      PROVE  ClientInv'
  <2>1. kind \in LineKinds \ {"OK", "ACCEPTED", "complete"}
    BY <1>5 DEF LineKinds
  <2> QED BY <1>2, <1>5, <2>1, QuietKeeps
<1>6. CASE ForwardIdle \/ ForwardWaiting
  <2>1. /\ WriteNext /\ uart' = uart /\ motionQueue' = motionQueue
        /\ proto' \in {proto, [proto EXCEPT !.at = "idle", !.line = <<>>]}
    BY <1>6 DEF ForwardIdle, ForwardWaiting, BackToIdle, motionVars, hostVars
  <2>2. OnTheWay(uart', motionQueue', proto', Wire)
    BY <1>4, <2>1
  <2>3. Sends([kind |-> "BUSY", id |-> 0])
    BY <2>1 DEF Sends
  <2> QED BY <1>5, <2>2, <2>3
<1>7. CASE ReadLine
  <2>1. /\ uart # <<>> /\ uart' = Tail(uart) /\ motionQueue' = motionQueue
        /\ proto' = [at |-> "post", token |-> proto.token + 1,
                     line |-> <<Head(uart)>>]
        /\ outbound' = outbound /\ Quietly
    BY <1>7 DEF ReadLine, motionVars
  <2>2. Head(uart) \in Wire /\ Tail(uart) \in Seq(Wire)
    BY <1>3, <2>1, HeadTailProperties
  <2>3. <<Head(uart)>> \in Seq(Wire) /\ <<Head(uart)>> # <<>>
    BY <2>2
  <2>4. OnTheWay(uart', motionQueue', proto', Wire)
    BY <1>3, <2>1, <2>2, <2>3 DEF OnTheWay
  <2>5. Sends([kind |-> "BUSY", id |-> 0])
    BY <2>1 DEF Sends, Quietly
  <2> QED BY <1>5, <2>4, <2>5
<1>8. CASE PostLine
  <2> DEFINE l == Head(proto.line)
             m == [kind |-> "line", token |-> proto.token, id |-> l.id,
                   order |-> l.order]
             task == [proto EXCEPT !.at = "wait", !.line = <<>>]
             busy == [kind |-> "BUSY", id |-> 0]
  <2>1. /\ proto.at = "post" /\ uart' = uart /\ outbound' = outbound
        /\ \/ motionQueue' = Append(motionQueue, m) /\ proto' = task /\ Quietly
           \/ motionQueue' = motionQueue /\ BackToIdle /\ said' = busy
    BY <1>8 DEF PostLine, hostVars
  <2>2. m \in LineMessages(Wire)
    <3>1. l \in Wire
      BY <1>3, <2>1, HeadTailProperties
    <3>2. proto.token \in Nat
      BY <1>3
    <3>3. \E t \in Nat, k \in Wire :
            m = [kind |-> "line", token |-> t, id |-> k.id, order |-> k.order]
      BY <3>1, <3>2
    <3> HIDE DEF m
    <3> QED BY <3>3 DEF LineMessages
  <2>3. Sends(busy)
    BY <2>1 DEF Sends, Quietly
  <2>4. OnTheWay(uart', motionQueue', proto', Wire)
    <3>1. CASE motionQueue' = Append(motionQueue, m) /\ proto' = task
      <4>1. OnTheWay(uart, motionQueue, task, Wire)
        <5>1. <<>> \in Seq(Wire)
          BY EmptySeq
        <5> QED BY <1>3, <5>1 DEF OnTheWay
      <4> HIDE DEF m, task
      <4>2. OnTheWay(uart, Append(motionQueue, m), task, Wire)
        BY <2>2, <4>1, MessagePosted
      <4> QED BY <2>1, <3>1, <4>2
    <3>2. CASE motionQueue' = motionQueue /\ BackToIdle
      BY <1>4, <2>1, <3>2 DEF BackToIdle
    <3> QED BY <2>1, <3>1, <3>2
  <2> QED BY <1>5, <2>3, <2>4
<1>9. CASE ResponseTimeout
  <2>1. /\ uart' = uart /\ motionQueue' = motionQueue /\ BackToIdle
        /\ outbound' = outbound /\ said' = [kind |-> "TIMEOUT", id |-> 0]
    BY <1>9 DEF ResponseTimeout, motionVars, hostVars
  <2>2. OnTheWay(uart', motionQueue', proto', Wire)
    BY <1>4, <2>1 DEF BackToIdle
  <2>3. Sends([kind |-> "TIMEOUT", id |-> 0])
    BY <2>1 DEF Sends
  <2> QED BY <1>5, <2>2, <2>3
<1> QED BY <1>6, <1>7, <1>8, <1>9 DEF ProtocolTask

LEMMA FirmwareStepKeeps ==
  ASSUME OpenSwitches, ClientInv, FirmwareStep
  PROVE  ClientInv'
<1>1. HostWaits
  <2>1. sent' = sent
    BY DEF FirmwareStep, Firmware, MotionTask, TakeEmergency, ReceiveMessage,
           Serve, ClearFlags, SetFlags, SafetyTask, DrainActivity,
           PollEmergency, SuperviseHost, DiagnosticsTask, ProtocolTask,
           ForwardIdle, ReadLine, PostLine, ForwardWaiting, ResponseTimeout,
           Hardware, InputEdge, PulseDone, Tick, hostVars
  <2> QED BY <2>1 DEF FirmwareStep, HostWaits, clientVars
<1> QED BY <1>1, MotionTaskKeeps, WatchersKeep, HardwareKeeps, ProtocolTaskKeeps
     DEF FirmwareStep, Firmware

-----------------------------------------------------------------------------
(* Steps of the host *)

\* It takes what comes, in order, and may put it aside.
Reads ==
  \/ UNCHANGED <<inbox, events>>
  \/ /\ inbox # <<>> /\ inbox' = Tail(inbox)
     /\ events' \in {events, Append(events, Head(inbox))}
  \/ events # <<>> /\ events' = Tail(events) /\ inbox' = inbox

HostActs == Reads /\ Firm

LEMMA ReadsOnly ==
  ASSUME NEW S, OnlyIn(outbound, inbox, events, S), HostActs
  PROVE  OnlyIn(outbound', inbox', events', S)
<1>1. /\ outbound \in Seq([token : Nat, line : S])
      /\ inbox \in Seq(S) /\ events \in Seq(S) /\ outbound' = outbound
  BY DEF OnlyIn, HostActs, Firm
<1>2. inbox # <<>> => Head(inbox) \in S /\ Tail(inbox) \in Seq(S)
  BY <1>1, HeadTailProperties
<1>3. events # <<>> => Tail(events) \in Seq(S)
  BY <1>1, HeadTailProperties
<1>4. inbox # <<>> => Append(events, Head(inbox)) \in Seq(S)
  BY <1>1, <1>2, AppendProperties
<1>5. inbox' \in Seq(S) /\ events' \in Seq(S)
  BY <1>1, <1>2, <1>3, <1>4 DEF HostActs, Reads
<1> QED BY <1>1, <1>5 DEF OnlyIn

LEMMA HeadSays ==
  ASSUME NEW S, OnlySays(S)
  PROVE  /\ inbox # <<>> => Head(inbox) \in S
         /\ events # <<>> => Head(events) \in S
<1>1. inbox \in Seq(S) /\ events \in Seq(S)
  BY DEF OnlySays, OnlyIn
<1> QED BY <1>1, HeadTailProperties

\* What it writes, if anything, is one line more, a lawful one.
LEMMA HostLinesKept ==
  ASSUME ClientInv, HostActs, Wire \subseteq Wire',
         \/ WritesNothing
         \/ \E order : Writes(order)
                       /\ [id |-> RequestId + 1, order |-> order] \in Wire'
  PROVE  LinePart'
<1>1. /\ motionQueue' = motionQueue /\ proto' = proto
      /\ engine' = engine /\ outbound' = outbound
  BY DEF HostActs, Firm, motionVars, controller
<1>2. OnTheWay(uart, motionQueue, proto, Wire') /\ RequestId \in Nat
  <2>1. OnTheWay(uart, motionQueue, proto, Wire) /\ RequestId \in Nat
    BY SameController
  <2> QED BY <2>1, OnTheWayMore
<1>3. RequestId' \in {RequestId, RequestId + 1}
  BY DEF WritesNothing, Writes, RequestId
<1>4. OnTheWay(uart', motionQueue', proto', Wire')
  <2>1. CASE WritesNothing
    BY <1>1, <1>2, <2>1 DEF WritesNothing
  <2>2. ASSUME NEW order, Writes(order),
               [id |-> RequestId + 1, order |-> order] \in Wire'
        PROVE  OnTheWay(uart', motionQueue', proto', Wire')
    <3> DEFINE l == [id |-> RequestId + 1, order |-> order]
    <3>1. uart' = Append(uart, l) /\ l \in Wire'
      BY <2>2 DEF Writes
    <3> HIDE DEF l
    <3>2. uart \in Seq(Wire')
      BY <1>2 DEF OnTheWay
    <3>3. uart' \in Seq(Wire')
      BY <3>1, <3>2, AppendProperties
    <3> QED BY <1>1, <1>2, <3>3 DEF OnTheWay
  <2> QED BY <2>1, <2>2
<1>5. OnlySays(Lawful(engine.lastId, RequestId))
  BY DEF ClientInv, LinePart
<1>6. Lawful(engine.lastId, RequestId) \subseteq Lawful(engine.lastId, RequestId')
  BY <1>2, <1>3 DEF Lawful, OutLine
<1>7. OnlyIn(outbound', inbox', events', Lawful(engine.lastId, RequestId'))
  <2>1. OnlyIn(outbound, inbox, events, Lawful(engine.lastId, RequestId'))
    BY <1>5, <1>6, OnlyInMore DEF OnlySays
  <2> QED BY <2>1, ReadsOnly
<1>8. Lawful(engine.lastId, RequestId)' = Lawful(engine.lastId, RequestId')
  BY <1>1 DEF Lawful
<1> QED BY <1>1, <1>4, <1>7, <1>8 DEF LinePart, OnlySays

\* Of the same call it writes nothing, or what it asks.
LEMMA AskedKept ==
  ASSUME ClientInv, HostActs,
         client'.call = client.call, client'.motion = client.motion,
         WritesNothing \/ \E order \in Asks : Writes(order)
  PROVE  LinePart' /\ client.motion <= RequestId'
<1>1. /\ client.motion \in Nat /\ sent \in Nat /\ RequestId \in Nat
      /\ client.motion <= RequestId
  BY DEF ClientInv, TypePart, ClientState, RequestId
<1>2. RequestId' \in Nat /\ RequestId <= RequestId'
  <2>1. sent' = sent \/ sent' = sent + 1
    BY DEF WritesNothing, Writes
  <2>2. RequestId' = sent' + 1 /\ RequestId = sent + 1
    BY DEF RequestId
  <2> QED BY <1>1, <2>1, <2>2
<1>3. Wire \subseteq Wire'
  BY <1>1, <1>2 DEF Wire, Lines
<1>4. ASSUME NEW order \in Asks, Writes(order)
      PROVE  [id |-> RequestId + 1, order |-> order] \in Wire'
  <2>1. RequestId' = RequestId + 1
    BY <1>1, <1>4 DEF Writes, RequestId
  <2> QED BY <1>1, <1>4, <2>1 DEF Wire, Lines
<1>5. LinePart'
  BY <1>3, <1>4, HostLinesKept
<1> QED BY <1>1, <1>2, <1>5

\* An accepted call stays so for what the host does in it.
LEMMA AcceptedKept ==
  ASSUME Accepted, HostActs,
         client'.call = client.call, client'.motion = client.motion,
         AllDone \/ client'.at \in {"call", "poll", "heartbeat"}
  PROVE  Accepted'
<1>1. ctl' = ctl /\ engine' = engine
  BY DEF HostActs, Firm, controller
<1>2. AllDone' <=> AllDone
  BY <1>1 DEF AllDone
<1>3. ASSUME ~AllDone PROVE OnlySays(Unsaid({"OK", "complete"}, client.motion))'
  <2> DEFINE S == Unsaid({"OK", "complete"}, client.motion)
  <2>1. OnlyIn(outbound, inbox, events, S) /\ S' = S
    BY <1>3 DEF Accepted, OnlySays, Unsaid
  <2> HIDE DEF S
  <2>2. OnlyIn(outbound', inbox', events', S)
    BY <2>1, ReadsOnly
  <2>3. OnlySays(S)'
    BY <2>1, <2>2 DEF OnlySays
  <2> QED BY <2>3 DEF S
<1> QED BY <1>1, <1>2, <1>3 DEF Accepted

\* Nothing but the client changes, and the call is the same.
LEMMA SameCallTypes ==
  ASSUME ClientInv, HostActs,
         client' \in ClientState,
         client'.call = client.call, client'.motion = client.motion,
         WritesNothing \/ \E order \in Asks : Writes(order),
         client'.at = "call" => client.at = "call" /\ WritesNothing,
         client'.outcome # "none" => client'.at = "idle"
  PROVE  TypePart' /\ LinePart'
<1>1. LinePart' /\ client.motion <= RequestId'
  BY AskedKept
<1>2. UNCHANGED <<engine, ctl, pressed>>
  BY DEF HostActs, Firm, controller, inputVars
<1>3. sent' \in Nat /\ (WritesNothing => RequestId' = RequestId)
  <2>1. (sent' = sent \/ sent' = sent + 1) /\ (WritesNothing => sent' = sent)
    BY DEF WritesNothing, Writes
  <2>2. sent \in Nat
    BY DEF ClientInv, TypePart
  <2>3. RequestId' = sent' + 1 /\ RequestId = sent + 1
    BY DEF RequestId
  <2> QED BY <2>1, <2>2, <2>3
<1>4. TypePart'
  BY <1>1, <1>2, <1>3 DEF ClientInv, TypePart
<1> QED BY <1>1, <1>4

\* A call begins: whatever the controller still has to say is about others.
LEMMA CallKeeps ==
  ASSUME ClientInv, Call
  PROVE  ClientInv'
<1> DEFINE id == RequestId + 1
<1>1. /\ HostActs /\ outbound' = outbound /\ inbox' = inbox /\ events' = events
      /\ UNCHANGED <<engine, ctl, pressed>>
  BY DEF Call, HostActs, Reads, Firm, controller, inputVars
<1>2. PICK order \in Calls :
        /\ client' = [at |-> "call", call |-> order, motion |-> id,
                      polls |-> 0, outcome |-> "none"]
        /\ Writes(order)
  BY DEF Call
<1>3. /\ sent' = sent + 1 /\ sent \in Nat /\ RequestId' = id
      /\ id \in Nat \ {0} /\ RequestId \in Nat
  BY <1>2 DEF Writes, RequestId, ClientInv, TypePart
<1>4. /\ client'.at = "call" /\ client'.call = order /\ client'.motion = id
      /\ client'.outcome = "none"
  BY <1>2
<1>5. client' \in ClientState
  BY <1>2, <1>3, ClientAssumption DEF ClientState, Requesting
<1>6. TypePart'
  BY <1>1, <1>3, <1>4, <1>5 DEF ClientInv, TypePart
<1>7. LinePart'
  <2>1. Wire \subseteq Wire'
    BY <1>3, <1>4 DEF Wire, Lines, RequestId
  <2>2. [id |-> RequestId + 1, order |-> order] \in Wire'
    <3>1. Wire' = Lines(RequestId', client'.call, client'.motion)
      BY DEF Wire
    <3>2. [id |-> id, order |-> order] \in Lines(id, order, id)
      BY <1>3 DEF Lines
    <3> QED BY <1>3, <1>4, <3>1, <3>2
  <2> QED BY <1>1, <1>2, <2>1, <2>2, HostLinesKept
<1>8. CallPart'
  <2> DEFINE S == Lawful(engine.lastId, RequestId)
             T == Unsaid({"OK", "ACCEPTED"}, id)
  <2>1. OnlyIn(outbound, inbox, events, S)
    BY DEF ClientInv, LinePart, OnlySays
  <2>2. S \subseteq T
    BY <1>3 DEF Lawful, Unsaid, OutLine
  <2> HIDE DEF S, T, id
  <2>3. OnlyIn(outbound, inbox, events, T)
    BY <2>1, <2>2, OnlyInMore
  <2>4. OnlyIn(outbound', inbox', events', T)
    BY <1>1, <2>3
  <2>5. Unsaid({"OK", "ACCEPTED"}, client.motion)' = T
    BY <1>4 DEF T, Unsaid
  <2>6. Unanswered'
    BY <1>4, <2>4, <2>5 DEF Unanswered, OnlySays
  <2> QED BY <2>6 DEF CallPart
<1> QED BY <1>6, <1>7, <1>8 DEF ClientInv

\* An event is put aside.
LEMMA KeepEventKeeps ==
  ASSUME ClientInv, KeepEvent
  PROVE  ClientInv'
<1>1. HostActs /\ client' = client /\ WritesNothing
  BY DEF KeepEvent, HostActs, Reads, Kept, clientVars
<1>2. client \in ClientState /\ (client.outcome # "none" => client.at = "idle")
  BY DEF ClientInv, TypePart
<1>3. TypePart' /\ LinePart'
  BY <1>1, <1>2, SameCallTypes
<1>4. CallPart'
  <2> SUFFICES ASSUME InMotionCall' PROVE (Unanswered \/ Accepted)'
    BY DEF CallPart
  <2>1. Unanswered \/ Accepted
    BY <1>1 DEF ClientInv, CallPart, InMotionCall
  <2>2. CASE Unanswered
    <3> DEFINE S == Unsaid({"OK", "ACCEPTED"}, client.motion)
    <3>1. OnlyIn(outbound, inbox, events, S)
      BY <2>2 DEF Unanswered, OnlySays
    <3> HIDE DEF S
    <3>2. OnlyIn(outbound', inbox', events', S)
      BY <1>1, <3>1, ReadsOnly
    <3> QED BY <1>1, <2>2, <3>2 DEF Unanswered, OnlySays, S
  <2>3. CASE Accepted
    BY <1>1, <2>3, AcceptedKept DEF Accepted
  <2> QED BY <2>1, <2>2, <2>3
<1> QED BY <1>3, <1>4 DEF ClientInv

\* It asks for STATUS, pauses, raises or returns.
LEMMA MoodIsState ==
  ASSUME ClientInv, client.at # "idle",
         \/ \E at \in {"poll", "heartbeat", "status", "stop"} : Goes(at)
         \/ \E outcome \in {"returned", "raised"} : Ends(outcome)
  PROVE  /\ client' \in ClientState
         /\ client'.call = client.call /\ client'.motion = client.motion
         /\ client'.at # "call"
         /\ client'.outcome # "none" => client'.at = "idle"
<1>1. client \in ClientState /\ (client.outcome # "none" => client.at = "idle")
  BY DEF ClientInv, TypePart
<1>2. 0 \in 0 .. MaxPolls
  BY ClientAssumption
<1>3. ASSUME NEW at \in {"poll", "heartbeat", "status", "stop"}, Goes(at)
      PROVE  /\ client' \in ClientState
             /\ client'.call = client.call /\ client'.motion = client.motion
             /\ client'.at # "call" /\ client'.outcome = client.outcome
  BY <1>1, <1>3 DEF Goes, ClientState, Requesting
<1>4. ASSUME NEW outcome \in {"returned", "raised"}, Ends(outcome)
      PROVE  /\ client' \in ClientState
             /\ client'.call = client.call /\ client'.motion = client.motion
             /\ client'.at = "idle"
  BY <1>1, <1>2, <1>4 DEF Ends, ClientState, Requesting
<1> QED BY <1>1, <1>3, <1>4

\* A step inside a call: what remains to be shown is about the call.
LEMMA InCallKeeps ==
  ASSUME ClientInv, HostActs, client.at # "idle",
         \/ \E at \in {"poll", "heartbeat", "status", "stop"} : Goes(at)
         \/ \E outcome \in {"returned", "raised"} : Ends(outcome),
         WritesNothing \/ \E order \in Asks : Writes(order),
         InMotionCall' =>
           Accepted /\ (AllDone \/ client'.at \in {"poll", "heartbeat"})
  PROVE  ClientInv'
<1>1. /\ client' \in ClientState
      /\ client'.call = client.call /\ client'.motion = client.motion
      /\ client'.at # "call"
      /\ client'.outcome # "none" => client'.at = "idle"
  BY MoodIsState
<1>2. TypePart' /\ LinePart'
  BY <1>1, SameCallTypes
<1>3. CallPart'
  BY <1>1, AcceptedKept DEF CallPart
<1> QED BY <1>2, <1>3 DEF ClientInv

\* The reply is read: STATUS is asked for, and the call returns, only when
\* everything is done.
LEMMA ReadReplyKeeps ==
  ASSUME ClientInv, ReadReply
  PROVE  ClientInv'
<1> DEFINE reply == Head(inbox)
           m == client.motion
<1>1. /\ client.at \in Requesting /\ inbox # <<>> /\ inbox' = Tail(inbox)
      /\ HostActs
      /\ \/ Raises
         \/ /\ reply.id = RequestId /\ reply.kind \in {"OK", "ACCEPTED"}
            /\ Proceed(reply)
  BY DEF ReadReply, HostActs, Reads
<1>2. client.at # "idle"
  BY <1>1 DEF Requesting
<1>3. /\ client.at = "call" => m = RequestId
      /\ client.outcome = "none"
  BY <1>2 DEF ClientInv, TypePart
<1>4. Query \in Asks
  BY DEF Asks
<1> HIDE DEF reply
<1>5. CASE Raises
  <2>1. Ends("raised") /\ WritesNothing
    BY <1>5 DEF Raises
  <2>2. ~InMotionCall'
    <3>1. client \in ClientState
      BY DEF ClientInv, TypePart
    <3>2. client'.outcome = "raised"
      BY <2>1, <3>1 DEF Ends, ClientState
    <3> QED BY <3>2 DEF InMotionCall
  <2> QED BY <1>1, <1>2, <2>1, <2>2, InCallKeeps
<1>6. CASE /\ reply.id = RequestId /\ reply.kind \in {"OK", "ACCEPTED"}
           /\ Proceed(reply)
  <2>1. client \in ClientState
    BY DEF ClientInv, TypePart
  <2>2. ASSUME client.call.op \in MotionOps, client.at # "stop"
        PROVE  /\ Accepted
               /\ client.at = "call" /\ reply.kind = "OK" => AllDone
               /\ client.at = "status" => AllDone
    <3>1. Unanswered \/ Accepted
      BY <1>3, <2>2 DEF ClientInv, CallPart, InMotionCall
    <3>2. ~Unanswered
      <4>1. ASSUME Unanswered PROVE FALSE
        <5>1. reply \in Unsaid({"OK", "ACCEPTED"}, m) /\ m = RequestId
          BY <1>1, <1>3, <4>1, HeadSays DEF Unanswered, reply
        <5> QED BY <1>6, <5>1 DEF Unsaid
      <4> QED BY <4>1
    <3>3. ASSUME ~AllDone, client.at = "call", reply.kind = "OK" PROVE FALSE
      <4>1. reply \in Unsaid({"OK", "complete"}, m) /\ m = RequestId
        BY <1>1, <1>3, <3>1, <3>2, <3>3, HeadSays DEF Accepted, reply
      <4> QED BY <1>6, <3>3, <4>1 DEF Unsaid
    <3> QED BY <3>1, <3>2, <3>3 DEF Accepted
  <2>3. CASE client.at = "call"
    <3>1. CASE client.call.op \notin MotionOps
      <4>1. Ends("returned") /\ WritesNothing
        BY <1>6, <2>3, <3>1 DEF Proceed
      <4>2. client'.call = client.call
        BY <2>1, <4>1 DEF Ends, ClientState
      <4>3. ~InMotionCall'
        BY <3>1, <4>2 DEF InMotionCall
      <4> QED BY <1>1, <1>2, <4>1, <4>3, InCallKeeps
    <3>2. CASE client.call.op \in MotionOps /\ reply.kind = "ACCEPTED"
      <4>1. Goes("poll") /\ WritesNothing
        BY <1>6, <2>3, <3>2 DEF Proceed
      <4>2. client'.at = "poll" /\ Accepted
        BY <2>1, <2>2, <2>3, <3>2, <4>1 DEF Goes, ClientState
      <4> QED BY <1>1, <1>2, <4>1, <4>2, InCallKeeps
    <3>3. CASE client.call.op \in MotionOps /\ reply.kind = "OK"
      <4>1. Goes("status") /\ Writes(Query)
        BY <1>6, <2>3, <3>3 DEF Proceed, AsksPosition
      <4>2. Accepted /\ AllDone
        BY <2>2, <2>3, <3>3
      <4> QED BY <1>1, <1>2, <1>4, <4>1, <4>2, InCallKeeps
    <3> QED BY <1>6, <3>1, <3>2, <3>3
  <2>4. CASE client.at = "heartbeat"
    <3>1. Goes("poll") /\ WritesNothing
      BY <1>6, <2>4 DEF Proceed
    <3>2. client'.at = "poll" /\ client'.call = client.call
      BY <2>1, <3>1 DEF Goes, ClientState
    <3>3. InMotionCall' => Accepted
      BY <2>2, <2>4, <3>2 DEF InMotionCall
    <3> QED BY <1>1, <1>2, <3>1, <3>2, <3>3, InCallKeeps
  <2>5. CASE client.at = "stop"
    <3>1. Raises
      BY <1>6, <2>5 DEF Proceed
    <3> QED BY <1>5, <3>1
  <2>6. CASE client.at = "status"
    <3>1. Ends("returned") /\ WritesNothing
      BY <1>6, <2>6 DEF Proceed
    <3>2. client'.call = client.call
      BY <2>1, <3>1 DEF Ends, ClientState
    <3>3. InMotionCall' => Accepted /\ AllDone
      BY <2>2, <2>6, <3>2 DEF InMotionCall
    <3> QED BY <1>1, <1>2, <3>1, <3>3, InCallKeeps
  <2> QED BY <1>1, <2>3, <2>4, <2>5, <2>6 DEF Requesting
<1> QED BY <1>1, <1>5, <1>6

\* An event is read: the one that is waited for is not there before
\* everything is done.
LEMMA ReadEventKeeps ==
  ASSUME ClientInv, ReadEvent
  PROVE  ClientInv'
<1>1. /\ client.at = "poll" /\ HostActs
      /\ \E event : /\ React(event)
                    /\ \/ events # <<>> /\ event = Head(events)
                       \/ inbox # <<>> /\ event = Head(inbox)
  BY DEF ReadEvent, HostActs, Reads
<1>2. PICK event : /\ React(event)
                   /\ \/ events # <<>> /\ event = Head(events)
                      \/ inbox # <<>> /\ event = Head(inbox)
  BY <1>1
<1>3. client \in ClientState /\ client.outcome = "none"
  BY <1>1 DEF ClientInv, TypePart
<1>4. InMotionCall => Accepted
  BY <1>1 DEF ClientInv, CallPart, Unanswered
<1>5. CASE Completes(event) /\ AsksPosition
  <2>1. Goes("status") /\ Writes(Query) /\ Query \in Asks
    BY <1>5 DEF AsksPosition, Asks
  <2>2. client'.call = client.call
    BY <1>3, <2>1 DEF Goes, ClientState
  <2>3. ASSUME Accepted, ~AllDone PROVE FALSE
    <3>1. event \in Unsaid({"OK", "complete"}, client.motion)
      BY <1>2, <2>3, HeadSays DEF Accepted
    <3> QED BY <1>5, <3>1 DEF Completes, Unsaid
  <2>4. InMotionCall' => Accepted /\ AllDone
    BY <1>1, <1>3, <1>4, <2>2, <2>3 DEF InMotionCall
  <2> QED BY <1>1, <2>1, <2>4, InCallKeeps
<1>6. CASE UNCHANGED client /\ WritesNothing
  <2>1. client.at = "poll" /\ client'.at = "poll"
    BY <1>1, <1>6
  <2>2. TypePart' /\ LinePart'
    BY <1>1, <1>3, <1>6, <2>1, SameCallTypes
  <2>3. CallPart'
    BY <1>1, <1>4, <1>6, <2>1, AcceptedKept DEF CallPart, InMotionCall
  <2> QED BY <2>2, <2>3 DEF ClientInv
<1>7. CASE Raises
  <2>1. Ends("raised") /\ WritesNothing
    BY <1>7 DEF Raises
  <2>2. client'.outcome = "raised"
    BY <1>3, <2>1 DEF Ends, ClientState
  <2>3. ~InMotionCall'
    BY <2>2 DEF InMotionCall
  <2> QED BY <1>1, <2>1, <2>3, InCallKeeps
<1> QED BY <1>2, <1>5, <1>6, <1>7 DEF React

\* The poll is empty.
LEMMA PollIsEmptyKeeps ==
  ASSUME ClientInv, PollIsEmpty
  PROVE  ClientInv'
<1>1. /\ HostActs /\ client.at = "poll" /\ IsInTime /\ Writes(Query)
      /\ client' = [client EXCEPT !.at = "heartbeat", !.polls = client.polls + 1]
  BY DEF PollIsEmpty, HostActs, Reads
<1>2. client \in ClientState /\ client.outcome = "none"
  BY <1>1 DEF ClientInv, TypePart
<1>3. client.polls + 1 \in 0 .. MaxPolls
  BY <1>1, <1>2, ClientAssumption DEF IsInTime, ClientState
<1>4. /\ client' \in ClientState /\ client'.at = "heartbeat"
      /\ client'.call = client.call /\ client'.motion = client.motion
      /\ client'.outcome = "none"
  BY <1>1, <1>2, <1>3 DEF ClientState, Requesting
<1>5. TypePart' /\ LinePart'
  <2>1. \E order \in Asks : Writes(order)
    BY <1>1 DEF Asks
  <2> QED BY <1>1, <1>4, <2>1, SameCallTypes
<1>6. InMotionCall' => Accepted
  BY <1>1, <1>2, <1>4 DEF ClientInv, CallPart, Unanswered, InMotionCall
<1>7. CallPart'
  BY <1>1, <1>4, <1>6, AcceptedKept DEF CallPart
<1> QED BY <1>5, <1>7 DEF ClientInv

\* The deadline is over.
LEMMA GiveUpWaitingKeeps ==
  ASSUME ClientInv, GiveUpWaiting
  PROVE  ClientInv'
<1>1. /\ HostActs /\ client.at = "poll" /\ Goes("stop")
      /\ Writes([op |-> "STOP"]) /\ [op |-> "STOP"] \in Asks
  BY DEF GiveUpWaiting, HostActs, Reads, Asks
<1>2. client'.at = "stop"
  BY <1>1 DEF Goes, ClientInv, TypePart, ClientState
<1>3. ~InMotionCall'
  BY <1>2 DEF InMotionCall
<1> QED BY <1>1, <1>3, InCallKeeps

-----------------------------------------------------------------------------
(* The second theorem *)

LEMMA ClientStart == HostInit => ClientInv
<1> SUFFICES ASSUME HostInit PROVE ClientInv
  OBVIOUS
<1>1. /\ engine = FreshEngineAt(1) /\ sent = 0 /\ pressed = FALSE
      /\ uart = <<>> /\ motionQueue = <<>> /\ outbound = <<>>
      /\ proto = [at |-> "idle", token |-> 0, line |-> <<>>]
      /\ inbox = <<>> /\ events = <<>>
      /\ client = [at |-> "idle", call |-> NoCall, motion |-> 0, polls |-> 0,
                   outcome |-> "none"]
  BY DEF HostInit, RuntimeInit
<1>2. engine \in EngineState /\ engine.lastId = 1 /\ ctl \in UpTo(1)
  <2>1. ctl \in UpTo(1)
    BY RuntimeStart DEF HostInit
  <2> QED BY <1>1, <2>1 DEF FreshEngineAt, EngineState, Faults, AxisFaults
<1>3. TypePart
  <2>1. client \in ClientState
    BY <1>1, ClientAssumption DEF ClientState, Requesting
  <2>2. /\ client.motion = 0 /\ client.at = "idle" /\ client.outcome = "none"
        /\ RequestId = 1
    BY <1>1 DEF RequestId
  <2>3. sent \in Nat /\ pressed \in BOOLEAN /\ ctl \in UpTo(engine.lastId)
    BY <1>1, <1>2
  <2> QED BY <1>2, <2>1, <2>2, <2>3 DEF TypePart
<1>4. LinePart
  <2>1. \A S : <<>> \in Seq(S)
    BY EmptySeq
  <2> QED BY <1>1, <2>1 DEF LinePart, OnTheWay, OnlySays, OnlyIn
<1>5. CallPart
  BY <1>1 DEF CallPart, InMotionCall, NoCall, MotionOps
<1> QED BY <1>3, <1>4, <1>5 DEF ClientInv

LEMMA ClientStutters ==
  ASSUME ClientInv, UNCHANGED hostClientVars
  PROVE  ClientInv'
BY DEF hostClientVars, runtimeVars, controller, motionVars, safetyVars, hostVars,
       inputVars, clientVars, ClientInv, TypePart, LinePart, CallPart, InMotionCall,
       Unanswered, Accepted, AllDone, OnlySays, Wire, RequestId

LEMMA ClientDone == ClientInv => ReturnedMeansArrived
<1> SUFFICES ASSUME ClientInv, client.outcome = "returned",
                    client.call.op \in MotionOps
             PROVE  \A ax \in Ordered(client.call) :
                      /\ ctl.axes[ax].lastCompleted = client.motion
                      /\ ~ctl.axes[ax].moving
  BY DEF ReturnedMeansArrived
<1>1. client.at = "idle"
  BY DEF ClientInv, TypePart
<1>2. AllDone
  BY <1>1 DEF ClientInv, CallPart, InMotionCall, Unanswered, Accepted
<1> QED BY <1>2 DEF AllDone, DoneBy

LEMMA ClientInvKept ==
  ASSUME OpenSwitches, ClientInv, [HostNext]_hostClientVars
  PROVE  ClientInv'
<1>1. CASE FirmwareStep
  BY <1>1, FirmwareStepKeeps
<1>2. CASE ClientStep
  BY <1>2, CallKeeps, KeepEventKeeps, ReadReplyKeeps, ReadEventKeeps,
     PollIsEmptyKeeps, GiveUpWaitingKeeps DEF ClientStep
<1>3. CASE UNCHANGED hostClientVars
  BY <1>3, ClientStutters
<1> QED BY <1>1, <1>2, <1>3 DEF HostNext

\* A motion call of the host that returns has been carried out: each axis it
\* was for has completed this very command and is at rest, whatever events
\* came before it on the line, whatever was dropped, answered late or pressed,
\* as long as no home switch closes and so no homing gets past its first leg
\* (_wait_for_motion, 241-267).
THEOREM ReturnedCallsArrived ==
  OpenSwitches => (HostSpec => []ReturnedMeansArrived)
<1> SUFFICES ASSUME OpenSwitches PROVE HostSpec => []ReturnedMeansArrived
  OBVIOUS
<1>1. ClientInv /\ [HostNext]_hostClientVars => ClientInv'
  BY ClientInvKept
<1> QED BY <1>1, ClientStart, ClientDone, PTL DEF HostSpec

-----------------------------------------------------------------------------
(* The types of the tasks *)

RuntimeLines == [id : Nat \ {0}, order : LineOrders]

\* What the motion task owns, with the ids that bound those of its axes,
OwnedPart == engine \in EngineState /\ ctl \in UpTo(engine.lastId)

\* what is queued,
QueuedPart ==
  /\ OnTheWay(uart, motionQueue, proto, RuntimeLines)
  /\ Len(motionQueue) <= MotionCapacity
  /\ outbound \in Seq([token : Nat, line : OutLine])
  /\ Len(outbound) <= OutboundCapacity

\* and what each task has besides.
LocalPart ==
  /\ pressed \in BOOLEAN /\ pending \in BOOLEAN /\ supervised \in BOOLEAN
  /\ motionAt \in {"take", "drain", "publish", "set"}
  /\ safety \in [at : {"drain", "wait", "check"}, seen : BOOLEAN,
                 tripped : BOOLEAN, silence : 0 .. HostTimeout]
  /\ safetyQueue \in 0 .. SafetyCapacity
  /\ said \in OutLine \cup {Silence} /\ overdue \subseteq Nat
  /\ sent \in Nat /\ edges \in Nat /\ ticks \in Nat

RuntimeInv == OwnedPart /\ QueuedPart /\ LocalPart

LEMMA TypesFollow == RuntimeInv => RuntimeTypeOK
<1> SUFFICES ASSUME RuntimeInv PROVE RuntimeTypeOK
  OBVIOUS
<1>1. engine \in EngineState /\ ctl \in ControllerState
  BY UpToFields DEF RuntimeInv, OwnedPart
<1>2. RuntimeLines \subseteq HostLines
  BY DEF RuntimeLines, HostLines
<1>3. LineMessages(RuntimeLines) \subseteq Messages
  BY DEF LineMessages, Messages, RuntimeLines
<1>4. /\ uart \in Seq(HostLines) /\ motionQueue \in Seq(Messages)
      /\ proto \in [at : {"idle", "post", "wait"}, token : Nat,
                    line : Seq(HostLines)]
  <2>1. /\ uart \in Seq(RuntimeLines)
        /\ motionQueue \in Seq(LineMessages(RuntimeLines))
        /\ proto \in [at : {"idle", "post", "wait"}, token : Nat,
                      line : Seq(RuntimeLines)]
    BY DEF RuntimeInv, QueuedPart, OnTheWay
  <2>2. Seq(RuntimeLines) \subseteq Seq(HostLines)
        /\ Seq(LineMessages(RuntimeLines)) \subseteq Seq(Messages)
    BY <1>2, <1>3, SeqMonotonic
  <2> QED BY <2>1, <2>2
<1> QED BY <1>1, <1>4 DEF RuntimeInv, QueuedPart, LocalPart, RuntimeTypeOK

\* Lines out: what is queued or dropped is a reply or an event.
LEMMA OutQueued ==
  ASSUME QueuedPart, NEW token \in Nat, NEW line \in OutLine,
         QueueOutbound(token, line) \/ outbound' = outbound
  PROVE  /\ outbound' \in Seq([token : Nat, line : OutLine])
         /\ Len(outbound') <= OutboundCapacity
<1> DEFINE e == [token |-> token, line |-> line]
<1>1. /\ outbound \in Seq([token : Nat, line : OutLine])
      /\ Len(outbound) <= OutboundCapacity /\ Len(outbound) \in Nat
      /\ OutboundCapacity \in Nat
  BY LenProperties, RuntimeAssumption DEF QueuedPart
<1>2. e \in [token : Nat, line : OutLine]
  OBVIOUS
<1>3. \/ outbound' = outbound
      \/ Len(outbound) < OutboundCapacity /\ outbound' = Append(outbound, e)
  <2>1. CASE QueueOutbound(token, line)
    <3>1. outbound' = IF Len(outbound) < OutboundCapacity
                        THEN Append(outbound, e) ELSE outbound
      BY <2>1 DEF QueueOutbound
    <3> HIDE DEF e
    <3> QED BY <1>1, <3>1
  <2>2. CASE outbound' = outbound
    BY <2>2
  <2> QED BY <2>1, <2>2
<1> HIDE DEF e
<1>4. /\ Append(outbound, e) \in Seq([token : Nat, line : OutLine])
      /\ Len(Append(outbound, e)) = Len(outbound) + 1
  BY <1>1, <1>2, AppendProperties
<1>5. CASE outbound' = outbound
  BY <1>1, <1>5
<1>6. CASE Len(outbound) < OutboundCapacity /\ outbound' = Append(outbound, e)
  <2>1. Len(outbound) + 1 <= OutboundCapacity
    BY <1>1, <1>6
  <2> QED BY <1>4, <1>6, <2>1
<1> QED BY <1>3, <1>5, <1>6

\* Messages in.
LEMMA InQueued ==
  ASSUME QueuedPart, CanQueueMotion, NEW m \in LineMessages(RuntimeLines),
         NEW task, OnTheWay(uart, motionQueue, task, RuntimeLines)
  PROVE  /\ OnTheWay(uart, Append(motionQueue, m), task, RuntimeLines)
         /\ Len(Append(motionQueue, m)) <= MotionCapacity
<1>1. motionQueue \in Seq(LineMessages(RuntimeLines))
  BY DEF QueuedPart, OnTheWay
<1>2. Len(motionQueue) \in Nat /\ Len(Append(motionQueue, m)) = Len(motionQueue) + 1
  BY <1>1, AppendProperties, LenProperties
<1>3. Len(motionQueue) < MotionCapacity /\ MotionCapacity \in Nat
  BY RuntimeAssumption DEF CanQueueMotion
<1> QED BY <1>2, <1>3, MessagePosted

\* What the motion task does with a message,
LEMMA ReceiveTyped ==
  ASSUME OpenSwitches, RuntimeInv, ReceiveMessage
  PROVE  OwnedPart' /\ QueuedPart'
<1> DEFINE m == Head(motionQueue)
           n == engine.lastId
<1>1. /\ motionQueue # <<>> /\ motionQueue' = Tail(motionQueue)
      /\ ServiceMessage(m, AllReleased) /\ uart' = uart /\ proto' = proto
  BY DEF ReceiveMessage, hostVars, OpenSwitches
<1>2. /\ engine \in EngineState /\ n \in Nat /\ ctl \in UpTo(n)
      /\ pressed \in BOOLEAN
      /\ OnTheWay(uart, motionQueue, proto, RuntimeLines)
  BY DEF RuntimeInv, OwnedPart, QueuedPart, LocalPart, EngineState
<1>3. m \in LineMessages(RuntimeLines)
      /\ OnTheWay(uart', motionQueue', proto', RuntimeLines)
  <2>1. OnTheWay(uart, Tail(motionQueue), proto, RuntimeLines)
        /\ m \in LineMessages(RuntimeLines)
    BY <1>1, <1>2, MessageTaken
  <2> QED BY <1>1, <2>1
<1>4. Len(motionQueue') <= MotionCapacity
  <2>1. /\ motionQueue \in Seq(LineMessages(RuntimeLines))
        /\ Len(motionQueue) <= MotionCapacity /\ MotionCapacity \in Nat
    BY <1>2, RuntimeAssumption DEF OnTheWay, RuntimeInv, QueuedPart
  <2>2. Len(motionQueue) \in Nat /\ Len(Tail(motionQueue)) = Len(motionQueue) - 1
    BY <1>1, <2>1, HeadTailProperties, LenProperties
  <2> QED BY <1>1, <2>1, <2>2
<1>5. QueuedPart
  BY DEF RuntimeInv
<1>6. CASE m.kind = "line"
  <2>1. PICK token \in Nat, l \in RuntimeLines :
          m = [kind |-> "line", token |-> token, id |-> l.id,
               order |-> l.order]
    BY <1>3, <1>6 DEF LineMessages
  <2>2. m.token = token /\ m.id = l.id /\ m.order = l.order
    BY <2>1
  <2> HIDE DEF m
  <2> DEFINE id == l.id
             order == l.order
             h == HandledOpen(ctl, engine, id, order, pressed)
  <2>3. /\ ctl' = h.ctl
        /\ QueueOutbound(token, [kind |-> h.reply, id |-> id])
        /\ engine' = Consumed(engine, id)
    BY <1>1, <1>6, <2>2 DEF ServiceMessage, HandledOpen
  <2>4. id \in Nat \ {0} /\ order \in AllOrders
    BY RuntimeAssumption DEF RuntimeLines
  <2>5. h = HandledOpen(ctl, engine, id, order, pressed)
    OBVIOUS
  <2> HIDE DEF id, order, h
  <2>6. /\ h.reply \in Replies
        /\ id <= n => h.ctl = ctl
        /\ id > n => h.ctl \in UpTo(id)
    BY <1>2, <2>4, <2>5, HandledReturns
  <2>7. engine' \in EngineState /\ engine'.lastId = IF id > n THEN id ELSE n
    <3>1. engine' = [engine EXCEPT !.lastId = IF id > @ THEN id ELSE @]
      BY <2>3 DEF Consumed
    <3> QED BY <1>2, <2>4, <3>1 DEF EngineState
  <2>8. ctl' \in UpTo(engine'.lastId)
    BY <1>2, <2>3, <2>4, <2>6, <2>7
  <2>9. [kind |-> h.reply, id |-> id] \in OutLine
    BY <2>4, <2>6 DEF OutLine, LineKinds
  <2>10. /\ outbound' \in Seq([token : Nat, line : OutLine])
         /\ Len(outbound') <= OutboundCapacity
    BY <1>5, <2>3, <2>9, OutQueued
  <2> QED BY <1>3, <1>4, <2>7, <2>8, <2>10 DEF OwnedPart, QueuedPart
<1>7. CASE m.kind = "heartbeat"
  <2> DEFINE lost == GiveHostUp(ctl)
             event == [kind |-> "heartbeat", id |-> 0]
             z == 0
  <2>1. ctl' = lost /\ engine' = Remember(engine, lost) /\ QueueEvent(event)
    BY <1>1, <1>7 DEF ServiceMessage
  <2>2. lost \in UpTo(n)
    BY <1>2, GiveHostUpOnward
  <2> HIDE DEF lost
  <2>3. Remember(engine, lost) \in EngineState
        /\ Remember(engine, lost).lastId = n
    BY <1>2, <2>2, RememberKeepsId
  <2>4. event \in OutLine /\ z \in Nat
    BY DEF OutLine, LineKinds, EventKinds
  <2>5. QueueOutbound(z, event) \/ outbound' = outbound
    BY <2>1 DEF QueueEvent
  <2> HIDE DEF event, z
  <2>6. /\ outbound' \in Seq([token : Nat, line : OutLine])
        /\ Len(outbound') <= OutboundCapacity
    BY <1>5, <2>4, <2>5, OutQueued
  <2> QED BY <1>3, <1>4, <2>1, <2>2, <2>3, <2>6 DEF OwnedPart, QueuedPart
<1>8. CASE m.kind = "diagnostics"
  <2> DEFINE seen == DiagnoseAll(ctl, [ax \in Axes |-> "ok"])
  <2>1. ctl' = seen /\ engine' = engine /\ outbound' = outbound
    BY <1>1, <1>8 DEF ServiceMessage
  <2>2. seen \in UpTo(n)
    BY <1>2, DiagnoseAllOnward
  <2> HIDE DEF seen
  <2> QED BY <1>2, <1>3, <1>4, <1>5, <2>1, <2>2 DEF OwnedPart, QueuedPart
<1> QED BY <1>1, <1>6, <1>7, <1>8 DEF ServiceMessage

\* and in service().
LEMMA ServeTyped ==
  ASSUME OpenSwitches, RuntimeInv, Serve
  PROVE  OwnedPart' /\ QueuedPart'
<1> DEFINE served == ServiceAll(ctl, pressed, AllReleased, AllArmed)
           event == EventOf(engine, served)
           n == engine.lastId
           z == 0
<1>1. /\ ctl' = served /\ engine' = Remember(engine, served)
      /\ QueueEvent(event)
      /\ UNCHANGED <<uart, motionQueue, proto>>
  BY DEF Serve, hostVars, OpenSwitches
<1>2. /\ ctl \in UpTo(n) /\ engine \in EngineState /\ n \in Nat
      /\ pressed \in BOOLEAN /\ QueuedPart
  BY DEF RuntimeInv, OwnedPart, LocalPart, EngineState
<1>3. served \in UpTo(n) /\ Honest(served) /\ Current(served)
  BY <1>2, ServiceAllOnward
<1> HIDE DEF served
<1>4. event.kind \in EventKinds \cup {"none"} /\ event.id \in Nat
  <2>1. event = EventOf(engine, served)
    OBVIOUS
  <2> HIDE DEF event
  <2> QED BY <1>2, <1>3, <2>1, CompletionSaysSo
<1>5. event = [kind |-> event.kind, id |-> event.id]
  BY DEF EventOf, Quiet
<1>6. z \in Nat
  OBVIOUS
<1>7. outbound' = outbound \/ (event.kind # "none" /\ QueueOutbound(z, event))
  BY <1>1 DEF QueueEvent
<1> HIDE DEF event, z
<1>8. /\ outbound' \in Seq([token : Nat, line : OutLine])
      /\ Len(outbound') <= OutboundCapacity
  <2>1. CASE outbound' = outbound
    BY <1>2, <2>1 DEF QueuedPart
  <2>2. CASE event.kind # "none" /\ QueueOutbound(z, event)
    <3>1. event \in OutLine
      BY <1>4, <1>5, <2>2 DEF OutLine, LineKinds
    <3> QED BY <1>2, <1>6, <2>2, <3>1, OutQueued
  <2> QED BY <1>7, <2>1, <2>2
<1>9. Remember(engine, served) \in EngineState
      /\ Remember(engine, served).lastId = n
  BY <1>2, <1>3, RememberKeepsId
<1> QED BY <1>1, <1>2, <1>3, <1>8, <1>9 DEF OwnedPart, QueuedPart

\* The controller of every step keeps to its types and its ids.
LEMMA OwnedKept ==
  ASSUME OpenSwitches, RuntimeInv, RuntimeNext
  PROVE  OwnedPart'
<1>1. /\ engine \in EngineState /\ engine.lastId \in Nat
      /\ ctl \in UpTo(engine.lastId)
  BY DEF RuntimeInv, OwnedPart, EngineState
<1>2. ASSUME engine' = engine, ctl' \in UpTo(engine.lastId)
      PROVE  OwnedPart'
  BY <1>1, <1>2 DEF OwnedPart
<1>3. CASE TakeEmergency
  <2> DEFINE out == EmergencyStopAll(ctl)
  <2>1. engine' = engine /\ (ctl' = ctl \/ ctl' = out.ctl)
    BY <1>3 DEF TakeEmergency, Taken
  <2>2. out \in {StopAll(ctl), EmergencyStopAll(ctl)}
    OBVIOUS
  <2> HIDE DEF out
  <2>3. out.ctl \in UpTo(engine.lastId)
    BY <1>1, <2>2, StopsOnward DEF Returns
  <2> QED BY <1>1, <1>2, <2>1, <2>3
<1>4. CASE Hardware
  <2>1. engine' = engine
    BY <1>4 DEF Hardware, InputEdge, PulseDone, Tick
  <2>2. CASE InputEdge
    <3>1. ctl' = ctl \/ ctl' = Dropped(ctl)
      BY <2>2 DEF InputEdge
    <3> QED BY <1>1, <1>2, <2>1, <3>1, DroppedOnward
  <2>3. CASE PulseDone
    <3>1. PICK ax \in Axes :
            ctl' = [ctl EXCEPT !.axes[ax].armed = FALSE,
                               !.axes[ax].completed = @ + 1]
      BY <2>3 DEF PulseDone
    <3> QED BY <1>1, <1>2, <2>1, <3>1, PulseOnward
  <2>4. CASE Tick
    <3>1. ctl' = AgeAll(ctl)
      BY <2>4 DEF Tick
    <3> QED BY <1>1, <1>2, <2>1, <3>1, AgeAllOnward
  <2> QED BY <1>4, <2>2, <2>3, <2>4 DEF Hardware
<1>5. CASE \/ ClearFlags \/ SetFlags \/ SafetyTask \/ DiagnosticsTask
           \/ ProtocolTask \/ HostSends
  <2>1. engine' = engine /\ ctl' = ctl
    BY <1>5 DEF ClearFlags, SetFlags, SafetyTask, DrainActivity,
       PollEmergency, SuperviseHost, DiagnosticsTask, ProtocolTask,
       ForwardIdle, ReadLine, PostLine, ForwardWaiting, ResponseTimeout,
       HostSends, controller
  <2> QED BY <1>1, <1>2, <2>1
<1> QED BY <1>3, <1>4, <1>5, ReceiveTyped, ServeTyped
     DEF RuntimeNext, Firmware, MotionTask

\* A line read or sent, or a line out written.
LEMMA ProtocolTyped ==
  ASSUME RuntimeInv, ProtocolTask
  PROVE  /\ QueuedPart' /\ said' \in OutLine \cup {Silence}
         /\ overdue' \subseteq Nat
<1> DEFINE S == RuntimeLines
           ats == {"idle", "post", "wait"}
<1>1. /\ QueuedPart
      /\ OnTheWay(uart, motionQueue, proto, S)
      /\ uart \in Seq(S) /\ motionQueue \in Seq(LineMessages(S))
      /\ proto \in [at : ats, token : Nat, line : Seq(S)]
      /\ proto.at = "post" => proto.line # <<>>
      /\ outbound \in Seq([token : Nat, line : OutLine])
      /\ Len(outbound) <= OutboundCapacity
      /\ Len(motionQueue) <= MotionCapacity
      /\ overdue \subseteq Nat
  BY DEF RuntimeInv, QueuedPart, LocalPart, OnTheWay
<1>2. <<>> \in Seq(S)
  BY EmptySeq
<1>3. ASSUME NEW task \in {proto, [proto EXCEPT !.at = "idle", !.line = <<>>]}
      PROVE  OnTheWay(uart, motionQueue, task, S)
  BY <1>1, <1>2, <1>3 DEF OnTheWay
<1>4. WriteNext => /\ said' \in OutLine
                   /\ outbound' \in Seq([token : Nat, line : OutLine])
                   /\ Len(outbound') <= OutboundCapacity
  <2> SUFFICES ASSUME WriteNext
               PROVE  /\ said' \in OutLine
                      /\ outbound' \in Seq([token : Nat, line : OutLine])
                      /\ Len(outbound') <= OutboundCapacity
    OBVIOUS
  <2>1. outbound # <<>> /\ outbound' = Tail(outbound)
        /\ said' = Head(outbound).line
    BY DEF WriteNext
  <2>2. /\ Head(outbound) \in [token : Nat, line : OutLine]
        /\ Tail(outbound) \in Seq([token : Nat, line : OutLine])
        /\ Len(Tail(outbound)) = Len(outbound) - 1
        /\ Len(outbound) \in Nat
    BY <1>1, <2>1, HeadTailProperties, LenProperties
  <2>3. said' \in OutLine
    BY <2>1, <2>2
  <2>4. Len(outbound') <= OutboundCapacity
    BY <1>1, <2>1, <2>2, RuntimeAssumption
  <2> QED BY <2>1, <2>2, <2>3, <2>4
<1>5. ASSUME outbound' = outbound, OnTheWay(uart', motionQueue', proto', S),
             Len(motionQueue') <= MotionCapacity
      PROVE  QueuedPart'
  BY <1>1, <1>5 DEF QueuedPart
<1> HIDE DEF S
<1>6. CASE ForwardIdle \/ ForwardWaiting
  <2>1. /\ WriteNext /\ uart' = uart /\ motionQueue' = motionQueue
        /\ overdue' = overdue
        /\ proto' \in {proto, [proto EXCEPT !.at = "idle", !.line = <<>>]}
    BY <1>6 DEF ForwardIdle, ForwardWaiting, BackToIdle, motionVars, hostVars,
       WriteNext
  <2>2. OnTheWay(uart', motionQueue', proto', S)
    BY <1>3, <2>1
  <2> QED BY <1>1, <1>4, <2>1, <2>2 DEF QueuedPart, S
<1>7. CASE ReadLine
  <2>1. /\ uart # <<>> /\ uart' = Tail(uart) /\ motionQueue' = motionQueue
        /\ proto' = [at |-> "post", token |-> proto.token + 1,
                     line |-> <<Head(uart)>>]
        /\ outbound' = outbound /\ said' = Silence /\ overdue' = overdue
    BY <1>7 DEF ReadLine, motionVars, Quietly
  <2>2. Head(uart) \in S /\ Tail(uart) \in Seq(S)
    BY <1>1, <2>1, HeadTailProperties
  <2>3. <<Head(uart)>> \in Seq(S) /\ <<Head(uart)>> # <<>>
    BY <2>2
  <2>4. OnTheWay(uart', motionQueue', proto', S)
    BY <1>1, <2>1, <2>2, <2>3 DEF OnTheWay
  <2> QED BY <1>1, <1>5, <2>1, <2>4
<1>8. CASE PostLine
  <2> DEFINE l == Head(proto.line)
             m == [kind |-> "line", token |-> proto.token, id |-> l.id,
                   order |-> l.order]
             task == [proto EXCEPT !.at = "wait", !.line = <<>>]
             busy == [kind |-> "BUSY", id |-> 0]
  <2>1. /\ proto.at = "post" /\ uart' = uart /\ outbound' = outbound
        /\ overdue' = overdue
        /\ \/ /\ CanQueueMotion /\ motionQueue' = Append(motionQueue, m)
              /\ proto' = task /\ said' = Silence
           \/ motionQueue' = motionQueue /\ BackToIdle /\ said' = busy
    BY <1>8 DEF PostLine, hostVars, Quietly
  <2>2. m \in LineMessages(S)
    <3>1. l \in S
      BY <1>1, <2>1, HeadTailProperties
    <3>2. proto.token \in Nat
      BY <1>1
    <3>3. \E t \in Nat, k \in S :
            m = [kind |-> "line", token |-> t, id |-> k.id, order |-> k.order]
      BY <3>1, <3>2
    <3> HIDE DEF m
    <3> QED BY <3>3 DEF LineMessages
  <2>3. said' \in OutLine \cup {Silence}
    BY <2>1 DEF OutLine, LineKinds
  <2>4. /\ OnTheWay(uart', motionQueue', proto', S)
        /\ Len(motionQueue') <= MotionCapacity
    <3>1. CASE /\ CanQueueMotion /\ motionQueue' = Append(motionQueue, m)
               /\ proto' = task
      <4>1. OnTheWay(uart, motionQueue, task, S)
        BY <1>1, <1>2 DEF OnTheWay
      <4> HIDE DEF m, task
      <4>2. /\ OnTheWay(uart, Append(motionQueue, m), task, S)
            /\ Len(Append(motionQueue, m)) <= MotionCapacity
        BY <1>1, <2>2, <3>1, <4>1, InQueued DEF S
      <4> QED BY <2>1, <3>1, <4>2
    <3>2. CASE motionQueue' = motionQueue /\ BackToIdle
      BY <1>1, <1>3, <2>1, <3>2 DEF BackToIdle
    <3> QED BY <2>1, <3>1, <3>2
  <2> QED BY <1>1, <1>5, <2>1, <2>3, <2>4
<1>9. CASE ResponseTimeout
  <2>1. /\ uart' = uart /\ motionQueue' = motionQueue /\ BackToIdle
        /\ overdue' = overdue \cup {proto.token}
        /\ outbound' = outbound /\ said' = [kind |-> "TIMEOUT", id |-> 0]
    BY <1>9 DEF ResponseTimeout, motionVars, hostVars
  <2>2. OnTheWay(uart', motionQueue', proto', S)
    BY <1>3, <2>1 DEF BackToIdle
  <2>3. said' \in OutLine
    BY <2>1 DEF OutLine, LineKinds
  <2> QED BY <1>1, <1>5, <2>1, <2>2, <2>3
<1> QED BY <1>6, <1>7, <1>8, <1>9 DEF ProtocolTask

\* The queues of every step.
LEMMA QueuedKept ==
  ASSUME OpenSwitches, RuntimeInv, RuntimeNext
  PROVE  QueuedPart'
<1>1. QueuedPart /\ OnTheWay(uart, motionQueue, proto, RuntimeLines)
  BY DEF RuntimeInv, QueuedPart
<1>2. CASE \/ TakeEmergency \/ ClearFlags \/ SetFlags \/ Hardware
           \/ DrainActivity \/ PollEmergency
  <2>1. UNCHANGED <<uart, motionQueue, proto, outbound>>
    BY <1>2 DEF TakeEmergency, ClearFlags, SetFlags, Hardware, InputEdge,
       PulseDone, Tick, DrainActivity, PollEmergency, hostVars, motionVars
  <2> QED BY <1>1, <2>1 DEF QueuedPart
<1>3. CASE SuperviseHost \/ DiagnosticsTask
  <2>1. /\ UNCHANGED <<uart, proto, outbound>>
        /\ \/ motionQueue' = motionQueue
           \/ /\ CanQueueMotion
              /\ \/ motionQueue' = Append(motionQueue, [kind |-> "heartbeat"])
                 \/ motionQueue' = Append(motionQueue, [kind |-> "diagnostics"])
    BY <1>3 DEF SuperviseHost, DiagnosticsTask, hostVars
  <2>2. ASSUME CanQueueMotion, NEW kind \in {"heartbeat", "diagnostics"},
               motionQueue' = Append(motionQueue, [kind |-> kind])
        PROVE  QueuedPart'
    <3> DEFINE m == [kind |-> kind]
    <3>1. m \in LineMessages(RuntimeLines)
      BY DEF LineMessages
    <3>2. motionQueue' = Append(motionQueue, m)
      BY <2>2
    <3> HIDE DEF m
    <3>3. /\ OnTheWay(uart, motionQueue', proto, RuntimeLines)
          /\ Len(motionQueue') <= MotionCapacity
      BY <1>1, <2>2, <3>1, <3>2, InQueued
    <3> QED BY <1>1, <2>1, <3>3 DEF QueuedPart
  <2>3. CASE motionQueue' = motionQueue
    BY <1>1, <2>1, <2>3 DEF QueuedPart
  <2> QED BY <2>1, <2>2, <2>3
<1>4. CASE HostSends
  <2>1. PICK order \in LineOrders : uart' = <<[id |-> sent + 2, order |-> order]>>
    BY <1>4 DEF HostSends
  <2>2. UNCHANGED <<motionQueue, proto, outbound>>
    BY <1>4 DEF HostSends, motionVars
  <2>3. sent \in Nat
    BY DEF RuntimeInv, LocalPart
  <2>4. [id |-> sent + 2, order |-> order] \in RuntimeLines
    BY <2>3 DEF RuntimeLines
  <2>5. uart' \in Seq(RuntimeLines)
    BY <2>1, <2>4
  <2>6. OnTheWay(uart', motionQueue, proto, RuntimeLines)
    BY <1>1, <2>5 DEF OnTheWay
  <2> QED BY <1>1, <2>2, <2>6 DEF QueuedPart
<1> QED BY <1>2, <1>3, <1>4, ReceiveTyped, ServeTyped, ProtocolTyped
     DEF RuntimeNext, Firmware, MotionTask, SafetyTask

\* What each task has besides, in every step.
LEMMA LocalKept ==
  ASSUME RuntimeInv, RuntimeNext
  PROVE  LocalPart'
<1>1. LocalPart
  BY DEF RuntimeInv
<1>2. /\ HostTimeout \in Nat \ {0} /\ SafetyCapacity \in Nat \ {0}
      /\ safety.silence \in 0 .. HostTimeout
      /\ safetyQueue \in 0 .. SafetyCapacity
      /\ 0 \in 0 .. HostTimeout /\ 0 \in 0 .. SafetyCapacity
  BY <1>1, RuntimeAssumption DEF LocalPart
<1>3. Silence \in OutLine \cup {Silence}
  OBVIOUS
<1>4. CASE MotionTask
  <2>1. /\ UNCHANGED <<pressed, safety, safetyQueue, overdue, sent, edges,
                       ticks>>
        /\ said' = Silence
        /\ pending' = pending \/ pending' = FALSE
        /\ motionAt' \in {"take", "drain", "publish", "set"}
        /\ supervised' \in BOOLEAN
    BY <1>1, <1>4 DEF MotionTask, TakeEmergency, ReceiveMessage, Serve,
       ClearFlags, SetFlags, LocalPart, safetyVars, hostVars, inputVars,
       Quietly
  <2> QED BY <1>1, <1>3, <2>1 DEF LocalPart
<1>5. CASE SafetyTask
  <2>1. /\ UNCHANGED <<pressed, supervised, motionAt, overdue, sent, edges,
                       ticks>>
        /\ said' = Silence
        /\ pending' = pending \/ pending' = (pending \/ pressed)
        /\ safetyQueue' = safetyQueue \/ safetyQueue' = 0
    BY <1>5 DEF SafetyTask, DrainActivity, PollEmergency, SuperviseHost,
       hostVars, inputVars, motionVars, Quietly
  <2>2. safety' \in [at : {"drain", "wait", "check"}, seen : BOOLEAN,
                     tripped : BOOLEAN, silence : 0 .. HostTimeout]
    <3>1. CASE DrainActivity
      BY <1>1, <1>2, <3>1 DEF DrainActivity, Heard, LocalPart
    <3>2. CASE PollEmergency
      BY <1>1, <3>2 DEF PollEmergency, LocalPart
    <3>3. CASE SuperviseHost
      <4> DEFINE tripped == safety.tripped \/ (HostIsLost /\ TrippedIfQueued)
      <4>1. safety' = [safety EXCEPT !.at = "drain", !.tripped = tripped]
        BY <3>3 DEF SuperviseHost
      <4>2. tripped \in BOOLEAN
        OBVIOUS
      <4> HIDE DEF tripped
      <4> QED BY <1>1, <4>1, <4>2 DEF LocalPart
    <3> QED BY <1>5, <3>1, <3>2, <3>3 DEF SafetyTask
  <2>3. pending' \in BOOLEAN
    BY <1>1, <2>1 DEF LocalPart
  <2> QED BY <1>1, <1>2, <1>3, <2>1, <2>2, <2>3 DEF LocalPart
<1>6. CASE DiagnosticsTask
  <2>1. /\ UNCHANGED <<pressed, pending, supervised, motionAt, safety,
                       safetyQueue, overdue, sent, edges>>
        /\ ticks' = ticks + 1 /\ said' = Silence
    BY <1>6 DEF DiagnosticsTask, safetyVars, hostVars, inputVars, Quietly
  <2> QED BY <1>1, <1>3, <2>1 DEF LocalPart
<1>7. CASE ProtocolTask
  <2>1. /\ UNCHANGED <<pressed, pending, supervised, motionAt, safety, sent,
                       edges, ticks>>
        /\ \/ safetyQueue' = safetyQueue
           \/ safetyQueue < SafetyCapacity /\ safetyQueue' = safetyQueue + 1
    BY <1>7 DEF ProtocolTask, ForwardIdle, ReadLine, PostLine, ForwardWaiting,
       ResponseTimeout, safetyVars, hostVars, inputVars, motionVars
  <2>2. said' \in OutLine \cup {Silence} /\ overdue' \subseteq Nat
    BY <1>7, ProtocolTyped
  <2>3. safetyQueue' \in 0 .. SafetyCapacity
    BY <1>2, <2>1
  <2> QED BY <1>1, <2>1, <2>2, <2>3 DEF LocalPart
<1>8. CASE Hardware
  <2>1. /\ UNCHANGED <<supervised, motionAt, safetyQueue, overdue, sent, ticks>>
        /\ said' = Silence
    BY <1>8 DEF Hardware, InputEdge, PulseDone, Tick, hostVars, motionVars,
       safetyVars, Quietly
  <2>2. pressed' \in BOOLEAN /\ pending' \in BOOLEAN /\ edges' \in Nat
    <3>1. /\ edges' = edges \/ edges' = edges + 1
          /\ pressed' = pressed \/ pressed' = ~pressed
          /\ pending' = pending \/ pending' = (pending \/ pressed')
      BY <1>8 DEF Hardware, InputEdge, PulseDone, Tick, motionVars, inputVars
    <3>2. pressed \in BOOLEAN /\ pending \in BOOLEAN /\ edges \in Nat
      BY <1>1 DEF LocalPart
    <3>3. edges' \in Nat
      BY <3>1, <3>2
    <3>4. pressed' \in BOOLEAN /\ pending' \in BOOLEAN
      BY <3>1, <3>2
    <3> QED BY <3>3, <3>4
  <2>3. safety' = safety \/ safety' = [safety EXCEPT
                                         !.silence = Older(@, HostTimeout)]
    BY <1>8 DEF Hardware, InputEdge, PulseDone, Tick, safetyVars
  <2>4. Older(safety.silence, HostTimeout) \in 0 .. HostTimeout
    BY <1>2 DEF Older
  <2>5. safety' \in [at : {"drain", "wait", "check"}, seen : BOOLEAN,
                     tripped : BOOLEAN, silence : 0 .. HostTimeout]
    BY <1>1, <2>3, <2>4 DEF LocalPart
  <2> QED BY <1>1, <1>3, <2>1, <2>2, <2>5 DEF LocalPart
<1>9. CASE HostSends
  <2>1. /\ UNCHANGED <<pressed, pending, supervised, motionAt, safety,
                       safetyQueue, overdue, edges, ticks>>
        /\ sent' = sent + 1 /\ said' = Silence
    BY <1>9 DEF HostSends, safetyVars, motionVars, inputVars, Quietly
  <2> QED BY <1>1, <1>3, <2>1 DEF LocalPart
<1> QED BY <1>4, <1>5, <1>6, <1>7, <1>8, <1>9 DEF RuntimeNext, Firmware

LEMMA RuntimeTyped == RuntimeInit => RuntimeInv
<1> SUFFICES ASSUME RuntimeInit PROVE RuntimeInv
  OBVIOUS
<1>1. OwnedPart
  <2>1. ctl \in UpTo(1) /\ engine = FreshEngineAt(1)
    BY RuntimeStart DEF RuntimeInit
  <2> QED BY <2>1 DEF OwnedPart, FreshEngineAt, EngineState, Faults, AxisFaults
<1>2. QueuedPart
  <2>1. /\ uart = <<>> /\ motionQueue = <<>> /\ outbound = <<>>
        /\ proto = [at |-> "idle", token |-> 0, line |-> <<>>]
    BY DEF RuntimeInit
  <2>2. Len(<<>>) = 0 /\ \A S : <<>> \in Seq(S)
    BY EmptySeq
  <2>3. OnTheWay(uart, motionQueue, proto, RuntimeLines)
    BY <2>1, <2>2 DEF OnTheWay
  <2> QED BY <2>1, <2>2, <2>3, RuntimeAssumption DEF QueuedPart
<1>3. LocalPart
  <2>1. /\ pressed = FALSE /\ pending = FALSE /\ supervised = TRUE
        /\ motionAt = "take" /\ safetyQueue = 0 /\ said = Silence
        /\ sent = 0 /\ edges \in {0, MaxEdges} /\ ticks = 0 /\ overdue = {}
        /\ safety = [at |-> "drain", seen |-> TRUE, tripped |-> FALSE,
                     silence |-> 0]
    BY DEF RuntimeInit
  <2>2. /\ 0 \in 0 .. HostTimeout /\ 0 \in 0 .. SafetyCapacity /\ 0 \in Nat
        /\ MaxEdges \in Nat
    BY RuntimeAssumption
  <2>3. safety \in [at : {"drain", "wait", "check"}, seen : BOOLEAN,
                    tripped : BOOLEAN, silence : 0 .. HostTimeout]
    BY <2>1, <2>2
  <2> QED BY <2>1, <2>2, <2>3 DEF LocalPart
<1> QED BY <1>1, <1>2, <1>3 DEF RuntimeInv

\* The tasks keep to their program points, their queues to the lengths that
\* xQueueCreate gave them, and what is in them to lines, replies and events;
\* the controller keeps to its types, whatever interrupts it, as long as no
\* home switch closes (controller_runtime.cpp:532-534).
THEOREM RuntimeTypes == OpenSwitches => (RuntimeSpec => []RuntimeTypeOK)
<1> SUFFICES ASSUME OpenSwitches PROVE RuntimeSpec => []RuntimeTypeOK
  OBVIOUS
<1>1. RuntimeInv /\ [RuntimeNext]_runtimeVars => RuntimeInv'
  <2> SUFFICES ASSUME RuntimeInv, [RuntimeNext]_runtimeVars PROVE RuntimeInv'
    OBVIOUS
  <2>1. CASE RuntimeNext
    BY <2>1, OwnedKept, QueuedKept, LocalKept DEF RuntimeInv
  <2>2. CASE UNCHANGED runtimeVars
    BY <2>2 DEF runtimeVars, controller, motionVars, safetyVars, hostVars,
       inputVars, RuntimeInv, OwnedPart, QueuedPart, LocalPart
  <2> QED BY <2>1, <2>2
<1> QED BY <1>1, RuntimeTyped, TypesFollow, PTL DEF RuntimeSpec

-----------------------------------------------------------------------------
(* The client's types *)

ClientTyped == ClientInv /\ calls \in 0 .. MaxCalls

\* ClientInv says more than the types, but for the number of calls.
LEMMA ClientTypesFollow == ClientTyped => ClientTypeOK
<1> SUFFICES ASSUME ClientTyped PROVE ClientTypeOK
  OBVIOUS
<1>1. /\ inbox \in Seq(Lawful(engine.lastId, RequestId))
      /\ events \in Seq(Lawful(engine.lastId, RequestId))
  BY DEF ClientTyped, ClientInv, LinePart, OnlySays, OnlyIn
<1>2. Lawful(engine.lastId, RequestId) \subseteq OutLine
  BY DEF Lawful
<1>3. inbox \in Seq(OutLine) /\ events \in Seq(OutLine)
  BY <1>1, <1>2
<1> QED BY <1>3 DEF ClientTyped, ClientInv, TypePart, ClientState, ClientTypeOK

\* Only a call counts as one.
LEMMA CallsCounted ==
  ASSUME calls \in 0 .. MaxCalls, [HostNext]_hostClientVars
  PROVE  calls' \in 0 .. MaxCalls
<1>1. CASE Call
  BY <1>1, ClientAssumption DEF Call
<1>2. CASE UNCHANGED calls
  BY <1>2
<1>3. CASE UNCHANGED hostClientVars
  BY <1>2, <1>3 DEF hostClientVars, clientVars
<1> QED BY <1>1, <1>2, <1>3 DEF HostNext, FirmwareStep, ClientStep, KeepEvent,
          ReadReply, ReadEvent, PollIsEmpty, GiveUpWaiting, clientVars

\* The client keeps to its program points, its polls and calls to their limits,
\* and what it has read or put aside to lines the firmware writes
\* (_wait_for_motion, motion_client.py:241; _raw_request, transport.py:169).
THEOREM ClientTypes == OpenSwitches => (HostSpec => []ClientTypeOK)
<1> SUFFICES ASSUME OpenSwitches PROVE HostSpec => []ClientTypeOK
  OBVIOUS
<1>1. HostInit => ClientTyped
  BY ClientStart, ClientAssumption DEF HostInit, ClientTyped
<1>2. ClientTyped /\ [HostNext]_hostClientVars => ClientTyped'
  BY ClientInvKept, CallsCounted DEF ClientTyped
<1> QED BY <1>1, <1>2, ClientTypesFollow, PTL DEF HostSpec
=============================================================================
