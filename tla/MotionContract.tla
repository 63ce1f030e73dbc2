--------------------------- MODULE MotionContract ---------------------------
(***************************************************************************)
(* What MotionController promises its callers, whichever class implements  *)
(* it (motion_controller.hpp, 148-180): which changes of its state() an    *)
(* answer or a passing millisecond may bring.                              *)
(*                                                                         *)
(* Of an axis a caller sees whether it is working on an order and on       *)
(* which, whether that is a homing in progress, the last command done      *)
(* (LAST_COMMAND), whether the position is trusted and whether the motor   *)
(* is enabled.  How fast, how far and why not is left to the classes.      *)
(***************************************************************************)
EXTENDS Naturals, TLAPS

CONSTANTS
  Axes,
  PowerUnderLatch   \* TRUE for a class that enables a motor under the latch

VARIABLES
  units,     \* what is seen of each axis
  latched,   \* emergency_stop_active
  used,      \* the last command id handed out
  accepted   \* MotionResult::ok of the command just answered

contractVars == <<units, latched, used, accepted>>

Unit == [working : BOOLEAN, homing : BOOLEAN, trusted : BOOLEAN,
         enabled : BOOLEAN, order : Nat, done : Nat]

\* Neither at work, nor about to be, nor trusted.
Dead(u) == ~u.working /\ ~u.homing /\ ~u.trusted

\* An axis works with its motor enabled, is not trusted while it homes, and
\* what it works on is not older than what it has done.
Coherent(u) ==
  /\ u.working => u.enabled
  /\ u.homing => ~u.trusted
  /\ u.working \/ u.homing => u.done <= u.order
  /\ u.order <= used /\ u.done <= used

\* The promise a caller may rely on in every state.
Consistent ==
  /\ units \in [Axes -> Unit]
  /\ latched \in BOOLEAN /\ accepted \in BOOLEAN
  /\ used \in Nat
  /\ \A ax \in Axes : Coherent(units[ax])
  /\ latched => \A ax \in Axes :
                  Dead(units[ax]) /\ (PowerUnderLatch \/ ~units[ax].enabled)

-----------------------------------------------------------------------------
(* What may become of one axis, from u to v *)

SameIds(u, v) == v.order = u.order /\ v.done = u.done

\* It comes to rest, if it was not, or is switched off, or loses its trust.
\* An order broken off is not done and costs the trust.
Rests(u, v) ==
  /\ ~v.working
  /\ SameIds(u, v)
  /\ v.trusted => u.trusted /\ ~u.working
  /\ v.homing => u.homing
  /\ v.enabled => u.enabled

\* Its motor is enabled.
SwitchedOn(u, v) == v = [u EXCEPT !.enabled = TRUE]

\* It begins order id.
Begins(u, v, id) ==
  /\ ~u.working /\ v.working /\ v.enabled
  /\ v.order = id /\ v.done = u.done
  /\ v.trusted => u.trusted
  /\ v.homing => ~v.trusted

\* It has carried out order id, there and then.
DoesAtOnce(u, v, id) ==
  /\ ~u.working /\ ~u.homing
  /\ ~v.working /\ ~v.homing /\ v.enabled
  /\ v.done = id /\ v.order = u.order

\* The order was called off after the axis was asked to carry it out.  It
\* may have been enabled, or be left with a homing to go on with.
CalledOff(u, v, id) ==
  /\ ~u.working /\ ~v.working
  /\ v.order \in {u.order, id} /\ v.done \in {u.done, id}
  /\ v.trusted => u.trusted
  /\ v.homing => ~v.trusted /\ v.done <= v.order

\* The next part of a homing; the part before it may count as done.
GoesOnHoming(u, v) ==
  /\ u.homing /\ v.homing /\ v.working /\ v.enabled /\ ~v.trusted
  /\ v.order = u.order /\ v.done \in {u.done, u.order}

\* Its order comes to an end by itself, or is broken off; a homing may come
\* to its end at rest, having been stopped on its last leg.  Trust outlives an
\* order only if that is done, and is gained only by the end of a homing.
Ends(u, v) ==
  /\ ~v.working
  /\ v.order = u.order
  /\ v.done = u.done \/ ((u.working \/ u.homing) /\ v.done = u.order)
  /\ v.homing => u.homing /\ ~v.trusted
  /\ v.enabled => u.enabled \/ u.homing
  /\ v.trusted => \/ u.trusted /\ (u.working => v.done = u.order)
                  \/ u.homing /\ ~v.homing /\ v.done = u.order

-----------------------------------------------------------------------------
(* Actions *)

Each(Change(_, _)) ==
  /\ units' \in [Axes -> Unit]
  /\ \A ax \in Axes : Change(units[ax], units'[ax])

\* An order is taken: some axes begin it, or have done it.
Accept ==
  LET change(u, v) == \/ v = u
                      \/ Rests(u, v)
                      \/ SwitchedOn(u, v)
                      \/ Begins(u, v, used')
                      \/ DoesAtOnce(u, v, used')
  IN  /\ ~latched
      /\ used' = used + 1 /\ accepted' = TRUE
      /\ Each(change)
      /\ UNCHANGED latched

\* An order is refused: nothing is set in motion by it.
Refuse ==
  LET change(u, v) == v = u \/ Rests(u, v) \/ CalledOff(u, v, used')
  IN  /\ ~latched
      /\ used' = used + 1 /\ accepted' = FALSE
      /\ Each(change)
      /\ UNCHANGED latched

\* service() and the diagnostics, unasked.
Serve ==
  LET change(u, v) == v = u \/ GoesOnHoming(u, v) \/ Ends(u, v)
  IN  /\ ~latched
      /\ used' = used /\ accepted' \in BOOLEAN
      /\ Each(change)
      /\ UNCHANGED latched

\* The emergency stop, asked for or not, ends everything at once.
EmergencyStop ==
  LET change(u, v) == Dead(v) /\ ~v.enabled /\ SameIds(u, v)
  IN  /\ latched' = TRUE
      /\ used' \in {used, used + 1} /\ accepted' \in BOOLEAN
      /\ Each(change)

\* Under the latch nothing comes to life.
StayLatched ==
  LET change(u, v) ==
        v = u \/ (PowerUnderLatch /\ Dead(v) /\ v.order = u.order
                    /\ v.done \in {u.done, used'})
  IN  /\ latched
      /\ used' \in {used, used + 1} /\ accepted' \in BOOLEAN
      /\ Each(change)
      /\ UNCHANGED latched

Release ==
  /\ latched /\ latched' = FALSE
  /\ used' = used + 1 /\ accepted' \in BOOLEAN
  /\ UNCHANGED units

ContractNext ==
  Accept \/ Refuse \/ Serve \/ EmergencyStop \/ StayLatched \/ Release

ContractSpec == Consistent /\ [][ContractNext]_contractVars

-----------------------------------------------------------------------------
(* What is promised of every state follows from what is promised of steps *)

\* Whatever becomes of an axis, it is left coherent, with ids up to used'.
LEMMA ChangesCohere ==
  ASSUME NEW u \in Unit, NEW v \in Unit, Coherent(u), used \in Nat,
         used' \in {used, used + 1},
         \/ v = u
         \/ Rests(u, v)
         \/ SwitchedOn(u, v)
         \/ Begins(u, v, used')
         \/ DoesAtOnce(u, v, used')
         \/ CalledOff(u, v, used')
         \/ GoesOnHoming(u, v)
         \/ Ends(u, v)
  PROVE  Coherent(v)'
<1> USE DEF Unit, Coherent
<1>1. CASE v = u
  BY <1>1
<1>2. CASE Rests(u, v)
  BY <1>2 DEF Rests, SameIds
<1>3. CASE SwitchedOn(u, v)
  BY <1>3 DEF SwitchedOn
<1>4. CASE Begins(u, v, used')
  BY <1>4 DEF Begins
<1>5. CASE DoesAtOnce(u, v, used')
  BY <1>5 DEF DoesAtOnce
<1>6. CASE CalledOff(u, v, used')
  BY <1>6 DEF CalledOff
<1>7. CASE GoesOnHoming(u, v)
  BY <1>7 DEF GoesOnHoming
<1>8. CASE Ends(u, v)
  BY <1>8 DEF Ends
<1> QED BY <1>1, <1>2, <1>3, <1>4, <1>5, <1>6, <1>7, <1>8

\* So every step of the contract leads from a consistent state to another.
LEMMA StepConsistent == Consistent /\ [ContractNext]_contractVars => Consistent'
<1> SUFFICES ASSUME Consistent, [ContractNext]_contractVars
             PROVE  Consistent'
  OBVIOUS
<1>1. CASE Accept
  <2>1. /\ ~latched /\ latched' = latched /\ accepted' \in BOOLEAN
        /\ used' = used + 1 /\ units' \in [Axes -> Unit]
    BY <1>1 DEF Accept, Each
  <2>2. ASSUME NEW ax \in Axes PROVE Coherent(units[ax])'
    BY <1>1, <2>1, ChangesCohere DEF Accept, Each, Consistent
  <2> QED BY <2>1, <2>2 DEF Consistent
<1>2. CASE Refuse
  <2>1. /\ ~latched /\ latched' = latched /\ accepted' \in BOOLEAN
        /\ used' = used + 1 /\ units' \in [Axes -> Unit]
    BY <1>2 DEF Refuse, Each
  <2>2. ASSUME NEW ax \in Axes PROVE Coherent(units[ax])'
    BY <1>2, <2>1, ChangesCohere DEF Refuse, Each, Consistent
  <2> QED BY <2>1, <2>2 DEF Consistent
<1>3. CASE Serve
  <2>1. /\ ~latched /\ latched' = latched /\ accepted' \in BOOLEAN
        /\ used' = used /\ units' \in [Axes -> Unit]
    BY <1>3 DEF Serve, Each
  <2>2. ASSUME NEW ax \in Axes PROVE Coherent(units[ax])'
    BY <1>3, <2>1, ChangesCohere DEF Serve, Each, Consistent
  <2> QED BY <2>1, <2>2 DEF Consistent
<1>4. CASE EmergencyStop
  BY <1>4 DEF EmergencyStop, Each, Consistent, Dead, SameIds, Coherent, Unit
<1>5. CASE StayLatched
  BY <1>5 DEF StayLatched, Each, Consistent, Dead, Coherent, Unit
<1>6. CASE Release
  <2>1. used \in Nat /\ used' = used + 1 /\ units' = units
    BY <1>6 DEF Release, Consistent
  <2>2. ASSUME NEW ax \in Axes PROVE Coherent(units[ax])'
    BY <2>1 DEF Consistent, Coherent, Unit
  <2>3. /\ units' \in [Axes -> Unit] /\ used' \in Nat
        /\ latched' = FALSE /\ accepted' \in BOOLEAN
    BY <1>6, <2>1 DEF Release, Consistent
  <2> QED BY <2>2, <2>3 DEF Consistent
<1>7. CASE UNCHANGED contractVars
  BY <1>7 DEF contractVars, Consistent, Coherent
<1> QED BY <1>1, <1>2, <1>3, <1>4, <1>5, <1>6, <1>7 DEF ContractNext

\* A caller may rely on Consistent in every state: an axis that works is
\* enabled, one that homes is not trusted, no order is done that was not given,
\* and under the latch everything is at rest (motion_controller.hpp, 148-180).
THEOREM ContractKeepsConsistent == ContractSpec => []Consistent
BY StepConsistent, PTL DEF ContractSpec
=============================================================================
