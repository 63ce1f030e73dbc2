--------------------------- MODULE Tmc2209Driver ---------------------------
(***************************************************************************)
(* Tmc2209Driver and the chip at the other end of its one-wire UART.       *)
(*                                                                         *)
(* The driver keeps what it believes of the chip and never reads a         *)
(* configuration register back: a write counts as done when the chip's     *)
(* datagram counter IFCNT has gone up by one.  Datagrams and replies may   *)
(* be lost, and the chip may lose its supply, and with it its registers,   *)
(* its counter and the GSTAT flags it had, between any two of them.        *)
(*                                                                         *)
(* An operation puts its verified writes in todo and they are done one     *)
(* exchange at a time; nothing else of the driver runs meanwhile.  Frames, *)
(* checksums and the search for a reply among echoes are left out: a read  *)
(* succeeds or not.                                                        *)
(***************************************************************************)
EXTENDS Integers, Sequences

CONSTANTS
  Counters,     \* IFCNT counts modulo this: 256
  Microsteps,   \* microstep settings that microstep_code() knows
  Currents,     \* currents asked for
  Scale,        \* what each comes to: whether it fits, sense range, run scale
  Configured,   \* microsteps and current of the axis' profile
  MaxResets     \* bound on the supply losses of the chip

ASSUME DriverAssumption ==
  /\ Counters \in Nat \ {0, 1}
  /\ Scale \in [Currents ->
                  [fits : BOOLEAN, sense : {"high", "low"}, run : 0 .. 31]]
  /\ Configured \in [microsteps : Microsteps, current : Currents]
  /\ Scale[Configured.current].fits
  /\ MaxResets \in Nat

VARIABLES
  driver,   \* the members of Tmc2209Driver
  enPin,    \* the EN output, TRUE when it powers the motor
  todo,     \* verified writes still to do: register, value
  op,       \* the operation they belong to, with what it commits at the end
  at,       \* where the verified write is
  counter,  \* IFCNT as it was read before the write
  chip,     \* registers, IFCNT, GSTAT reset flag, a fault in DRV_STATUS
  unseen,   \* history: the supply failed in the last initialize() before
            \* it cleared the GSTAT flags
  disturbed,  \* history: the supply failed since the counter was read
  resets    \* what MaxResets bounds

driverVars ==
  <<driver, enPin, todo, op, at, counter, chip, unseen, disturbed, resets>>

Registers == {"gconf", "slaveconf", "tpowerdown", "pwmconf", "chopconf",
              "ihold_irun"}

\* Power-on contents of the registers the driver writes.
Blank == [register \in Registers |-> <<>>]

\* GCONF and CHOPCONF as the driver composes them, IHOLD_IRUN by its scale.
Gconf(d) == <<d.chopper>>
Chopconf(d) == <<d.sense, d.microsteps, d.interpolation>>
Run(current) == <<Scale[current].run>>
Constant == <<"set">>

Idle == [name |-> "none", value |-> 0]

DriverInit ==
  /\ driver = [connected |-> FALSE, enabled |-> FALSE, chopper |-> "stealth",
               interpolation |-> TRUE, microsteps |-> Configured.microsteps,
               sense |-> "high", current |-> 0]
  /\ enPin = FALSE
  /\ todo = <<>> /\ op = Idle /\ at = "before" /\ counter = 0
  /\ chip = [registers |-> Blank, ifcnt |-> 0, reset |-> TRUE,
             trouble |-> FALSE]
  /\ unseen = FALSE /\ disturbed = FALSE /\ resets = 0

-----------------------------------------------------------------------------
(* Operations *)

Free == op.name = "none"

Begin(name, value, writes) ==
  /\ op' = [name |-> name, value |-> value]
  /\ todo' = writes
  /\ unseen' = (unseen /\ name # "initialize")
  /\ UNCHANGED <<at, counter, chip, disturbed, resets>>

\* disable()
Off == enPin' = FALSE

\* initialize(), and what AxisController::initialize() does with the driver
\* after it.  The GSTAT flags are cleared before CHOPCONF is first written.
Initialize ==
  LET off     == [driver EXCEPT !.connected = FALSE, !.enabled = FALSE]
      ranged  == [off EXCEPT !.sense = Scale[Configured.current].sense]
      stepped == [ranged EXCEPT !.microsteps = Configured.microsteps]
      smooth  == [stepped EXCEPT !.interpolation = TRUE]
      quiet   == [smooth EXCEPT !.chopper = "stealth"]
  IN  /\ Free
      /\ driver' = quiet
      /\ Off
      /\ Begin("initialize", Configured.current,
               <<<<"gconf", <<"stealth">>>>, <<"slaveconf", Constant>>,
                 <<"tpowerdown", Constant>>, <<"pwmconf", Constant>>,
                 <<"gstat", Constant>>,
                 <<"chopconf", Chopconf(off)>>, <<"chopconf", Chopconf(off)>>,
                 <<"gconf", Gconf(off)>>,
                 <<"chopconf", Chopconf(ranged)>>,
                 <<"ihold_irun", Run(Configured.current)>>,
                 <<"chopconf", Chopconf(stepped)>>,
                 <<"chopconf", Chopconf(smooth)>>, <<"gconf", Gconf(quiet)>>>>)

SetMicrosteps(microsteps) ==
  LET d == [driver EXCEPT !.microsteps = microsteps]
  IN  /\ Free
      /\ driver.connected
      /\ driver' = d
      /\ Begin("microsteps", microsteps, <<<<"chopconf", Chopconf(d)>>>>)
      /\ UNCHANGED enPin

SetInterpolation(on) ==
  LET d == [driver EXCEPT !.interpolation = on]
  IN  /\ Free
      /\ driver.connected
      /\ driver' = d
      /\ Begin("interpolation", 0, <<<<"chopconf", Chopconf(d)>>>>)
      /\ UNCHANGED enPin

SetChopperMode(mode) ==
  LET d == [driver EXCEPT !.chopper = mode]
  IN  /\ Free
      /\ driver.connected
      /\ driver' = d
      /\ Begin("chopper", 0, <<<<"gconf", Gconf(d)>>>>)
      /\ UNCHANGED enPin

\* set_current_milliamps(): the sense range is chosen, in memory, before the
\* scale is found not to fit.
SetCurrent(current) ==
  LET d == [driver EXCEPT !.sense = Scale[current].sense]
  IN  /\ Free
      /\ driver.connected
      /\ driver' = d
      /\ IF Scale[current].fits
           THEN Begin("current", current,
                      <<<<"chopconf", Chopconf(d)>>,
                        <<"ihold_irun", Run(current)>>>>)
           ELSE UNCHANGED <<op, todo, at, counter, chip, unseen, disturbed,
                           resets>>
      /\ UNCHANGED enPin

\* enable() and disable()
Enable ==
  /\ Free
  /\ driver.connected
  /\ driver' = [driver EXCEPT !.enabled = TRUE]
  /\ enPin' = TRUE
  /\ UNCHANGED <<todo, op, at, counter, chip, unseen, disturbed, resets>>

Disable ==
  /\ Free
  /\ driver' = [driver EXCEPT !.enabled = FALSE]
  /\ Off
  /\ UNCHANGED <<todo, op, at, counter, chip, unseen, disturbed, resets>>

\* Bug: a lost driver that answers is taken back as it is.
ReadStatusRevives ==
  /\ Free
  /\ \E answered \in BOOLEAN :
       LET bad == ~answered \/ chip.reset \/ chip.trouble
       IN  /\ driver' = [driver EXCEPT !.connected = answered,
                                       !.enabled = @ /\ ~bad]
           /\ enPin' = (enPin /\ ~bad)
  /\ UNCHANGED <<todo, op, at, counter, chip, unseen, disturbed, resets>>

\* read_status(): GSTAT and DRV_STATUS are read, or one of them is not.
ReadStatus ==
  /\ Free
  /\ \E answered \in BOOLEAN :
       LET heard == driver.connected /\ answered
           bad   == ~heard \/ chip.reset \/ chip.trouble
       IN  /\ driver' = [driver EXCEPT !.connected = heard,
                                       !.enabled = @ /\ ~bad]
           /\ enPin' = (enPin /\ ~bad)
  /\ UNCHANGED <<todo, op, at, counter, chip, unseen, disturbed, resets>>

-----------------------------------------------------------------------------
(* write_register_verified(), exchange by exchange *)

\* Bug: the EN output stays as it is.
GiveUpPowered ==
  /\ driver' = [driver EXCEPT !.connected = FALSE, !.enabled = FALSE]
  /\ UNCHANGED enPin
  /\ op' = Idle /\ todo' = <<>> /\ at' = "before" /\ counter' = 0
  /\ disturbed' = FALSE
  /\ UNCHANGED <<chip, unseen, resets>>

\* Any exchange that fails ends the operation without a driver.
GiveUp ==
  /\ driver' = [driver EXCEPT !.connected = FALSE, !.enabled = FALSE]
  /\ Off
  /\ op' = Idle /\ todo' = <<>> /\ at' = "before" /\ counter' = 0
  /\ disturbed' = FALSE
  /\ UNCHANGED <<chip, unseen, resets>>

ReadCounter ==
  /\ ~Free /\ at = "before"
  /\ counter' = chip.ifcnt
  /\ at' = "write"
  /\ UNCHANGED <<driver, enPin, todo, op, chip, unseen, disturbed, resets>>

\* The chip takes a datagram: writing ones to GSTAT clears its flags.
Taken(write) ==
  [chip EXCEPT
     !.registers = IF write[1] = "gstat" THEN @
                   ELSE [@ EXCEPT ![write[1]] = write[2]],
     !.reset = @ /\ write[1] # "gstat",
     !.ifcnt = (@ + 1) % Counters]

\* The datagram arrives, or is lost on the wire without a trace.
Write ==
  /\ ~Free /\ at = "write"
  /\ \/ chip' = Taken(Head(todo))
     \/ UNCHANGED chip
  /\ at' = "verify"
  /\ UNCHANGED <<driver, enPin, todo, op, counter, unseen, disturbed, resets>>

\* Bug: any answer will do.
AnyAnswer == TRUE

\* Bug: the counter is taken not to wrap.
CountedPlain == chip.ifcnt = counter + 1

Counted == chip.ifcnt = (counter + 1) % Counters

\* The last write done, the operation is over.
Committed ==
  CASE op.name = "initialize" ->
         [driver EXCEPT !.connected = TRUE, !.current = op.value]
    [] op.name = "current" -> [driver EXCEPT !.current = op.value]
    [] OTHER -> driver

Verify ==
  /\ ~Free /\ at = "verify"
  /\ Counted
  /\ todo' = Tail(todo)
  /\ at' = "before" /\ counter' = 0 /\ disturbed' = FALSE
  /\ IF Tail(todo) = <<>>
       THEN driver' = Committed /\ op' = Idle
       ELSE UNCHANGED <<driver, op>>
  /\ UNCHANGED <<enPin, chip, unseen, resets>>

Miscounted ==
  /\ ~Free /\ at = "verify"
  /\ ~Counted
  /\ GiveUp

\* A request or reply is lost: read_register() gives up after its reads.
NoReply ==
  /\ ~Free /\ at \in {"before", "verify"}
  /\ GiveUp

-----------------------------------------------------------------------------
(* The chip *)

\* initialize() has yet to clear the GSTAT flags.
Clearing ==
  \E i \in DOMAIN todo :
    todo[i][1] = "gstat" /\ ~(i = 1 /\ at = "verify")

SupplyLost ==
  /\ resets < MaxResets
  /\ resets' = resets + 1
  /\ unseen' = (unseen \/ Clearing)
  /\ disturbed' = (at # "before")
  /\ chip' = [chip EXCEPT !.registers = Blank, !.ifcnt = 0, !.reset = TRUE]
  /\ UNCHANGED <<driver, enPin, todo, op, at, counter>>

Trouble ==
  /\ chip' = [chip EXCEPT !.trouble = ~@]
  /\ UNCHANGED <<driver, enPin, todo, op, at, counter, unseen, disturbed,
                 resets>>

DriverNext ==
  \/ Initialize
  \/ \E microsteps \in Microsteps : SetMicrosteps(microsteps)
  \/ \E on \in BOOLEAN : SetInterpolation(on)
  \/ \E mode \in {"stealth", "spread"} : SetChopperMode(mode)
  \/ \E current \in Currents : SetCurrent(current)
  \/ Enable \/ Disable \/ ReadStatus
  \/ ReadCounter \/ Write \/ Verify \/ Miscounted \/ NoReply
  \/ SupplyLost \/ Trouble

DriverSpec == DriverInit /\ [][DriverNext]_driverVars

\* A call goes on to its end: the UART waits for no reply longer than its
\* timeout, and reads are repeated a fixed number of times.
FairDriverSpec ==
  /\ DriverSpec
  /\ WF_driverVars(ReadCounter \/ Write \/ Verify \/ Miscounted \/ NoReply)

-----------------------------------------------------------------------------
(* Properties *)

\* The cached settings, the EN pin and the write counter keep to their
\* ranges; the counter wraps as IFCNT does (tmc2209_driver.hpp).
DriverTypeOK ==
  /\ driver \in [connected : BOOLEAN, enabled : BOOLEAN,
                 chopper : {"stealth", "spread"}, interpolation : BOOLEAN,
                 microsteps : Microsteps, sense : {"high", "low"},
                 current : Currents \cup {0}]
  /\ enPin \in BOOLEAN
  /\ at \in {"before", "write", "verify"}
  /\ counter \in 0 .. Counters - 1 /\ chip.ifcnt \in 0 .. Counters - 1
  /\ Free <=> todo = <<>>
  /\ unseen \in BOOLEAN /\ disturbed \in BOOLEAN
  /\ resets \in 0 .. MaxResets

\* A driver that is not answered to does not power its motor, and what it
\* believes of EN is so (every caller of write_register_verified, read_status).
LostDriverIsOff ==
  /\ enPin = driver.enabled
  /\ ~driver.connected => ~enPin

\* A connected chip that would read healthy is configured as the driver
\* believes: no lost datagram goes unnoticed, and no supply loss does but one
\* within initialize() before it clears the GSTAT flags (170-175), which wipes
\* the only trace of it (write_register_verified, 142-147, and read_status,
\* 371-405).
HealthyMeansConfigured ==
  Free /\ driver.connected /\ ~chip.reset /\ ~unseen =>
    /\ chip.registers["gconf"] = Gconf(driver)
    /\ chip.registers["chopconf"] = Chopconf(driver)
    /\ driver.current # 0 =>
         chip.registers["ihold_irun"] = Run(driver.current)
    /\ \A register \in {"slaveconf", "tpowerdown", "pwmconf"} :
         chip.registers[register] = Constant

\* A connection is given up for a reason: the write did not arrive, or the
\* chip lost its counter between the two reads around it; a loss before them
\* excuses nothing (verify_write_counter at the wrap of IFCNT, 135-140).
OnlyLossesDisconnect ==
  [][Miscounted => chip.ifcnt = counter \/ disturbed]_driverVars

\* The driver is the one its axis relies on (stepper_driver.hpp:66-88): it is
\* lost in every way the interface knows and in no other, never powered
\* without being connected, and every call of it returns.
Stepper == INSTANCE StepperDriver
  WITH connected <- driver.connected,
       powered <- enPin,
       busy <- IF Free THEN "none"
               ELSE IF op.name = "initialize" THEN "initialize"
               ELSE "setting"

DrivesAsExpected == Stepper!FairStepperSpec
=============================================================================
