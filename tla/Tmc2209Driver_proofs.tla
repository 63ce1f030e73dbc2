------------------------ MODULE Tmc2209Driver_proofs ------------------------
(***************************************************************************)
(* Proofs about Tmc2209Driver, for any profile, any width of the counter   *)
(* and any number of supply losses.                                        *)
(*                                                                         *)
(* That a lost driver is off is kept by every step once the driver record  *)
(* is known to be one (DriverPart), which takes that the current an        *)
(* operation is about to commit is one of the profile's (OpPart).          *)
(*                                                                         *)
(* That the chip is what the driver believes is an invariant about the     *)
(* future: what the chip will hold once the pending writes are done        *)
(* (Ends) is what is believed now (BeliefPart), and a write that is        *)
(* counted has been done (CountPart), as long as a reset of the chip would *)
(* be noticed (Noticed): its flag stands, and initialize() is not about to *)
(* clear it.                                                               *)
(***************************************************************************)
EXTENDS Tmc2209Driver, TLAPS

DriverPart ==
  driver \in [connected : BOOLEAN, enabled : BOOLEAN,
              chopper : {"stealth", "spread"}, interpolation : BOOLEAN,
              microsteps : Microsteps, sense : {"high", "low"},
              current : Currents \cup {0}]

OpPart == op.name \in {"initialize", "current"} => op.value \in Currents

IInv == DriverPart /\ OpPart /\ enPin \in BOOLEAN /\ LostDriverIsOff

\* What the profile configures is in range.
LEMMA ProfileInRange ==
  /\ Configured.microsteps \in Microsteps
  /\ Configured.current \in Currents
  /\ \A current \in Currents : Scale[current].sense \in {"high", "low"}
BY DriverAssumption

\* At power-on EN is off.
LEMMA InitIInv == DriverInit => IInv
<1> SUFFICES ASSUME DriverInit PROVE IInv
  OBVIOUS
<1>1. DriverPart
  BY ProfileInRange DEF DriverInit, DriverPart
<1>2. OpPart
  BY DEF DriverInit, OpPart, Idle
<1>3. enPin \in BOOLEAN /\ LostDriverIsOff
  BY DEF DriverInit, LostDriverIsOff
<1> QED BY <1>1, <1>2, <1>3 DEF IInv

\* A failed exchange leaves a lost driver, and it is off.
LEMMA GiveUpIInv ==
  ASSUME IInv, GiveUp
  PROVE  IInv'
BY DEF GiveUp, Off, Idle, IInv, DriverPart, OpPart, LostDriverIsOff

\* The last write of an operation commits what Begin promised.
LEMMA VerifyIInv ==
  ASSUME IInv, Verify
  PROVE  IInv'
<1>1. Committed \in [connected : BOOLEAN, enabled : BOOLEAN,
                     chopper : {"stealth", "spread"},
                     interpolation : BOOLEAN,
                     microsteps : Microsteps, sense : {"high", "low"},
                     current : Currents \cup {0}]
  BY DEF IInv, DriverPart, OpPart, Committed
<1>2. /\ Committed.enabled = driver.enabled
      /\ driver.connected => Committed.connected
  BY DEF IInv, DriverPart, Committed
<1>3. CASE Tail(todo) = <<>>
  BY <1>1, <1>2, <1>3
    DEF Verify, Idle, IInv, DriverPart, OpPart, LostDriverIsOff
<1>4. CASE Tail(todo) # <<>>
  BY <1>4 DEF Verify, IInv, DriverPart, OpPart, LostDriverIsOff
<1> QED BY <1>3, <1>4

\* Each action keeps the invariant.
LEMMA StepIInv == IInv /\ [DriverNext]_driverVars => IInv'
<1> SUFFICES ASSUME IInv, [DriverNext]_driverVars PROVE IInv'
  OBVIOUS
<1> USE ProfileInRange DEF IInv, DriverPart, OpPart, LostDriverIsOff
<1>1. CASE Initialize
  BY <1>1 DEF Initialize, Begin, Off
<1>2. CASE \E microsteps \in Microsteps : SetMicrosteps(microsteps)
  BY <1>2 DEF SetMicrosteps, Begin
<1>3. CASE \E on \in BOOLEAN : SetInterpolation(on)
  BY <1>3 DEF SetInterpolation, Begin
<1>4. CASE \E mode \in {"stealth", "spread"} : SetChopperMode(mode)
  BY <1>4 DEF SetChopperMode, Begin
<1>5. CASE \E current \in Currents : SetCurrent(current)
  BY <1>5 DEF SetCurrent, Begin
<1>6. CASE Enable
  BY <1>6 DEF Enable
<1>7. CASE Disable
  BY <1>7 DEF Disable, Off
<1>8. CASE ReadStatus
  BY <1>8 DEF ReadStatus
<1>9. CASE ReadCounter \/ Write \/ SupplyLost \/ Trouble
  BY <1>9 DEF ReadCounter, Write, SupplyLost, Trouble
<1>10. CASE Verify
  BY <1>10, VerifyIInv
<1>11. CASE Miscounted \/ NoReply
  BY <1>11, GiveUpIInv DEF Miscounted, NoReply
<1>12. CASE UNCHANGED driverVars
  BY <1>12 DEF driverVars
<1> QED
  BY <1>1, <1>2, <1>3, <1>4, <1>5, <1>6, <1>7, <1>8, <1>9, <1>10, <1>11,
    <1>12 DEF DriverNext

\* A driver that no longer answers does not power its motor, whatever
\* datagram was lost and whenever the chip lost its supply: every early
\* return of write_register_verified() and read_status() disables it.
THEOREM LostDriverOff == DriverSpec => []LostDriverIsOff
<1>1. IInv => LostDriverIsOff BY DEF IInv
<1> QED BY <1>1, InitIInv, StepIInv, PTL DEF DriverSpec

-----------------------------------------------------------------------------
(* The driver an axis relies on *)

\* A setting that goes on is of a driver that is still connected: the first
\* exchange that fails ends it.
SettingPart ==
  op.name \notin {"none", "initialize"} => driver.connected

\* It is so at power-on,
LEMMA InitSetting == DriverInit => SettingPart
BY DEF DriverInit, SettingPart, Idle

\* and after every step.
LEMMA StepSetting ==
  IInv /\ SettingPart /\ [DriverNext]_driverVars => SettingPart'
<1> SUFFICES ASSUME IInv, SettingPart, [DriverNext]_driverVars
             PROVE  SettingPart'
  OBVIOUS
<1> USE DEF IInv, DriverPart, SettingPart
<1>1. CASE Initialize
  BY <1>1 DEF Initialize, Begin
<1>2. CASE \E microsteps \in Microsteps : SetMicrosteps(microsteps)
  BY <1>2 DEF SetMicrosteps, Begin
<1>3. CASE \E on \in BOOLEAN : SetInterpolation(on)
  BY <1>3 DEF SetInterpolation, Begin
<1>4. CASE \E mode \in {"stealth", "spread"} : SetChopperMode(mode)
  BY <1>4 DEF SetChopperMode, Begin
<1>5. CASE \E current \in Currents : SetCurrent(current)
  BY <1>5 DEF SetCurrent, Begin, Free
<1>6. CASE Enable \/ Disable \/ ReadStatus
  BY <1>6 DEF Enable, Disable, ReadStatus, Free
<1>7. CASE ReadCounter \/ Write \/ SupplyLost \/ Trouble
  BY <1>7 DEF ReadCounter, Write, SupplyLost, Trouble
<1>8. CASE Verify
  BY <1>8 DEF Verify, Idle
<1>9. CASE Miscounted \/ NoReply
  BY <1>9 DEF Miscounted, NoReply, GiveUp, Idle
<1>10. CASE UNCHANGED driverVars
  BY <1>10 DEF driverVars
<1> QED
  BY <1>1, <1>2, <1>3, <1>4, <1>5, <1>6, <1>7, <1>8, <1>9, <1>10
    DEF DriverNext

\* A setting begins.
LEMMA SettingStarts ==
  ASSUME Free, driver.connected,
         op'.name \notin {"none", "initialize"},
         driver'.connected = driver.connected, enPin' = enPin
  PROVE  Stepper!StepperNext
<1>1. Stepper!StartSetting
  BY DEF Free, Stepper!StartSetting
<1> QED BY <1>1 DEF Stepper!StepperNext

\* Every step is one of the interface's, or none of its concern.
LEMMA StepDrives ==
  IInv /\ SettingPart /\ [DriverNext]_driverVars
    => [Stepper!StepperNext]_(Stepper!stepperVars)
<1> SUFFICES ASSUME IInv, SettingPart, [DriverNext]_driverVars
             PROVE  [Stepper!StepperNext]_(Stepper!stepperVars)
  OBVIOUS
<1> USE DEF Stepper!stepperVars, Free
<1>1. CASE Initialize
  <2>1. Stepper!StartInitialize
    BY <1>1
      DEF Initialize, Begin, Off, Stepper!StartInitialize, IInv, DriverPart
  <2> QED BY <2>1 DEF Stepper!StepperNext
<1>2. CASE \E microsteps \in Microsteps : SetMicrosteps(microsteps)
  <2>1. PICK microsteps \in Microsteps : SetMicrosteps(microsteps)
    BY <1>2
  <2>2. /\ Free /\ driver.connected /\ enPin' = enPin
        /\ op'.name \notin {"none", "initialize"}
    BY <2>1 DEF SetMicrosteps, Begin
  <2>3. driver'.connected = driver.connected
    BY <2>1 DEF SetMicrosteps, IInv, DriverPart
  <2> QED BY <2>2, <2>3, SettingStarts
<1>3. CASE \E on \in BOOLEAN : SetInterpolation(on)
  <2>1. PICK on \in BOOLEAN : SetInterpolation(on)
    BY <1>3
  <2>2. /\ Free /\ driver.connected /\ enPin' = enPin
        /\ op'.name \notin {"none", "initialize"}
    BY <2>1 DEF SetInterpolation, Begin
  <2>3. driver'.connected = driver.connected
    BY <2>1 DEF SetInterpolation, IInv, DriverPart
  <2> QED BY <2>2, <2>3, SettingStarts
<1>4. CASE \E mode \in {"stealth", "spread"} : SetChopperMode(mode)
  <2>1. PICK mode \in {"stealth", "spread"} : SetChopperMode(mode)
    BY <1>4
  <2>2. /\ Free /\ driver.connected /\ enPin' = enPin
        /\ op'.name \notin {"none", "initialize"}
    BY <2>1 DEF SetChopperMode, Begin
  <2>3. driver'.connected = driver.connected
    BY <2>1 DEF SetChopperMode, IInv, DriverPart
  <2> QED BY <2>2, <2>3, SettingStarts
<1>5. CASE \E current \in Currents : SetCurrent(current)
  <2>1. PICK current \in Currents : SetCurrent(current)
    BY <1>5
  <2>2. /\ Free /\ driver.connected /\ enPin' = enPin
        /\ op'.name \notin {"none", "initialize"} \/ op' = op
    BY <2>1 DEF SetCurrent, Begin
  <2>3. driver'.connected = driver.connected
    BY <2>1 DEF SetCurrent, IInv, DriverPart
  <2> QED BY <2>2, <2>3, SettingStarts
<1>6. CASE Enable
  <2>1. Stepper!SwitchesOn
    BY <1>6 DEF Enable, Stepper!SwitchesOn, IInv, DriverPart
  <2> QED BY <2>1 DEF Stepper!StepperNext
<1>7. CASE Disable
  <2>1. Stepper!SwitchesOff
    BY <1>7 DEF Disable, Off, Stepper!SwitchesOff, IInv, DriverPart
  <2> QED BY <2>1 DEF Stepper!StepperNext
<1>8. CASE ReadStatus
  <2>1. Stepper!FindsTrouble \/ UNCHANGED Stepper!stepperVars
    BY <1>8 DEF ReadStatus, Stepper!FindsTrouble, IInv, DriverPart
  <2> QED BY <2>1 DEF Stepper!StepperNext
<1>9. CASE ReadCounter \/ Write \/ SupplyLost \/ Trouble
  BY <1>9 DEF ReadCounter, Write, SupplyLost, Trouble
<1>10. CASE Verify
  <2>1. CASE Tail(todo) = <<>>
    <3>1. Committed.connected = TRUE
      BY <1>10 DEF Verify, Committed, SettingPart, IInv, DriverPart
    <3>2. Stepper!Succeeds
      BY <1>10, <2>1, <3>1 DEF Verify, Idle, Stepper!Succeeds, Stepper!Calls
    <3> QED BY <3>2 DEF Stepper!StepperNext
  <2>2. CASE Tail(todo) # <<>>
    BY <1>10, <2>2 DEF Verify
  <2> QED BY <2>1, <2>2
<1>11. CASE Miscounted \/ NoReply
  <2>1. GiveUp /\ op.name # "none"
    BY <1>11 DEF Miscounted, NoReply
  <2>2. Stepper!GivesUp
    BY <2>1
      DEF GiveUp, Off, Idle, Stepper!GivesUp, Stepper!Calls, IInv, DriverPart
  <2> QED BY <2>2 DEF Stepper!StepperNext
<1>12. CASE UNCHANGED driverVars
  BY <1>12 DEF driverVars
<1> QED
  BY <1>1, <1>2, <1>3, <1>4, <1>5, <1>6, <1>7, <1>8, <1>9, <1>10, <1>11,
    <1>12 DEF DriverNext

\* Tmc2209Driver implements what AxisController relies on of a StepperDriver
\* (stepper_driver.hpp:66-88): it is lost and switched as the interface
\* knows, and in no other way.  That its calls return is left to the runs.
THEOREM DriverImplements == DriverSpec => Stepper!StepperSpec
<1>1. DriverInit => Stepper!StepperInit
  BY DEF DriverInit, Free, Idle, Stepper!StepperInit
<1> QED
  BY <1>1, InitIInv, StepIInv, InitSetting, StepSetting, StepDrives, PTL
    DEF DriverSpec, Stepper!StepperSpec

-----------------------------------------------------------------------------
(* What the pending writes will leave in the chip *)

\* Of the writes in s, the last one of register r writes v; or there is none
\* and the register holds v.
Ends(s, registers, r, v) ==
  /\ \A i \in 1 .. Len(s) :
       s[i][1] = r /\ (\A j \in i + 1 .. Len(s) : s[j][1] # r) => s[i][2] = v
  /\ (\A i \in 1 .. Len(s) : s[i][1] # r) => registers[r] = v

\* The GSTAT flags are among what is to be written.
Pending(s) == \E i \in 1 .. Len(s) : s[i][1] = "gstat"

\* The chip holds what the first of the writes writes.
HeadDone(s, registers) ==
  s[1][1] = "gstat" \/ registers[s[1][1]] = s[1][2]

\* A sequence of writes.
Writes(s) ==
  /\ \E S : s \in Seq(S)
  /\ \A i \in 1 .. Len(s) : s[i][1] \in Registers \cup {"gstat"}

\* No writes at all leave what is there.
LEMMA NothingLeft ==
  ASSUME NEW registers, NEW r, NEW v
  PROVE  Ends(<<>>, registers, r, v) <=> registers[r] = v
BY DEF Ends

\* The last write of a register decides.
LEMMA LastDecides ==
  ASSUME NEW S, NEW s \in Seq(S), NEW registers, NEW i \in 1 .. Len(s),
         \A j \in i + 1 .. Len(s) : s[j][1] # s[i][1]
  PROVE  Ends(s, registers, s[i][1], s[i][2])
<1>1. ASSUME NEW k \in 1 .. Len(s), s[k][1] = s[i][1],
             \A j \in k + 1 .. Len(s) : s[j][1] # s[i][1]
      PROVE  k = i
  BY <1>1
<1> QED BY <1>1 DEF Ends

\* A register that is not written keeps what it has.
LEMMA Unwritten ==
  ASSUME NEW s, NEW registers, NEW r, NEW v,
         \A i \in 1 .. Len(s) : s[i][1] # r,
         registers[r] = v
  PROVE  Ends(s, registers, r, v)
BY DEF Ends

\* The first write once done may be forgotten,
LEMMA TailEnds ==
  ASSUME NEW S, NEW s \in Seq(S), s # <<>>, NEW registers,
         NEW r, r # "gstat", NEW v,
         Ends(s, registers, r, v), HeadDone(s, registers)
  PROVE  Ends(Tail(s), registers, r, v)
<1>1. /\ Len(s) \in Nat \ {0} /\ Len(Tail(s)) = Len(s) - 1
      /\ \A i \in 1 .. Len(s) - 1 : Tail(s)[i] = s[i + 1]
  OBVIOUS
<1>2. ASSUME NEW i \in 1 .. Len(s) - 1, Tail(s)[i][1] = r,
             \A j \in i + 1 .. Len(s) - 1 : Tail(s)[j][1] # r
      PROVE  Tail(s)[i][2] = v
  <2>1. ASSUME NEW j \in i + 2 .. Len(s) PROVE s[j][1] # r
    <3>1. j - 1 \in i + 1 .. Len(s) - 1 /\ (j - 1) + 1 = j
      BY <1>1, <2>1
    <3> QED BY <3>1, <1>1, <1>2
  <2>2. i + 1 \in 1 .. Len(s) /\ s[i + 1][1] = r /\ (i + 1) + 1 = i + 2
    BY <1>1, <1>2
  <2> QED BY <1>1, <2>1, <2>2 DEF Ends
<1>3. ASSUME \A i \in 1 .. Len(s) - 1 : Tail(s)[i][1] # r
      PROVE  registers[r] = v
  <2>1. ASSUME NEW j \in 2 .. Len(s) PROVE s[j][1] # r
    <3>1. j - 1 \in 1 .. Len(s) - 1 /\ (j - 1) + 1 = j
      BY <1>1, <2>1
    <3> QED BY <3>1, <1>1, <1>3
  <2>2. CASE s[1][1] = r
    BY <1>1, <2>1, <2>2 DEF Ends, HeadDone
  <2>3. CASE s[1][1] # r
    BY <1>1, <2>1, <2>3 DEF Ends
  <2> QED BY <2>2, <2>3
<1> QED BY <1>1, <1>2, <1>3 DEF Ends

\* and what is left are writes, no more of GSTAT than before.
LEMMA TailWrites ==
  ASSUME NEW s, Writes(s), s # <<>>
  PROVE  /\ Writes(Tail(s))
         /\ Pending(Tail(s)) => Pending(s)
<1>1. PICK S : s \in Seq(S)
  BY DEF Writes
<1>2. /\ Len(s) \in Nat \ {0} /\ Len(Tail(s)) = Len(s) - 1
      /\ \A i \in 1 .. Len(s) - 1 : Tail(s)[i] = s[i + 1]
      /\ Tail(s) \in Seq(S)
  BY <1>1
<1>3. \A i \in 1 .. Len(s) - 1 : i + 1 \in 1 .. Len(s)
  BY <1>2
<1> QED BY <1>2, <1>3 DEF Writes, Pending

\* The current IHOLD_IRUN is to be scaled for.
Wanted ==
  IF op.name \in {"initialize", "current"} THEN op.value ELSE driver.current

\* The chip will hold what the driver believes.
Believed(s, registers) ==
  /\ Ends(s, registers, "gconf", Gconf(driver))
  /\ Ends(s, registers, "chopconf", Chopconf(driver))
  /\ Wanted # 0 => Ends(s, registers, "ihold_irun", Run(Wanted))
  /\ \A r \in {"slaveconf", "tpowerdown", "pwmconf"} :
       Ends(s, registers, r, Constant)

\* The chip has not been reset in a way the driver would find out about, or
\* has had no other chance to.
Noticed == ~unseen /\ (~chip.reset \/ Clearing)

Chips(V) == [registers : [Registers -> V], ifcnt : 0 .. Counters - 1,
             reset : BOOLEAN, trouble : BOOLEAN]

ChipPart == \E V : chip \in Chips(V)

QueuePart ==
  /\ Writes(todo)
  /\ Free <=> todo = <<>>
  /\ Free => at = "before"
  /\ counter \in 0 .. Counters - 1

\* A write that has been counted has been done, unless the chip was reset.
CountPart ==
  /\ at = "write" => chip.ifcnt = counter \/ disturbed
  /\ at = "verify" => chip.ifcnt = counter \/ Counted \/ disturbed
  /\ Noticed =>
       /\ at = "write" => chip.ifcnt = counter
       /\ at = "verify" =>
            chip.ifcnt = counter \/ HeadDone(todo, chip.registers)

\* The sense range in memory is the one of the profile.
SensePart ==
  driver.connected \/ ~Free => driver.sense = Scale[Configured.current].sense

BeliefPart ==
  (driver.connected \/ ~Free) /\ Noticed => Believed(todo, chip.registers)

\* At power-on nothing is pending and nothing believed.
LEMMA InitChip ==
  DriverInit => ChipPart /\ QueuePart /\ CountPart /\ SensePart /\ BeliefPart
<1> SUFFICES ASSUME DriverInit
             PROVE  /\ ChipPart /\ QueuePart /\ CountPart
                    /\ SensePart /\ BeliefPart
  OBVIOUS
<1>1. ChipPart
  <2>1. chip \in Chips({<<>>})
    BY DriverAssumption DEF DriverInit, Chips, Blank
  <2> QED BY <2>1 DEF ChipPart
<1>2. Free /\ todo = <<>> /\ at = "before" /\ counter = 0
  BY DEF DriverInit, Free, Idle
<1>3. QueuePart
  <2>1. <<>> \in Seq({}) /\ Len(<<>>) = 0
    OBVIOUS
  <2> QED BY <1>2, <2>1, DriverAssumption DEF QueuePart, Writes
<1>4. CountPart /\ SensePart /\ BeliefPart
  BY <1>2 DEF DriverInit, CountPart, SensePart, BeliefPart
<1> QED BY <1>1, <1>3, <1>4

\* The counter of the chip moves on, and wraps.
LEMMA CountsOn ==
  ASSUME NEW c \in 0 .. Counters - 1
  PROVE  /\ (c + 1) % Counters \in 0 .. Counters - 1
         /\ (c + 1) % Counters # c
<1> DEFINE K == Counters
<1>1. K \in Nat /\ K > 1
  BY DriverAssumption
<1>2. CASE c + 1 < K
  <2>1. (c + 1) % K = c + 1
    BY <1>1, <1>2
  <2> QED BY <2>1, <1>1, <1>2
<1>3. CASE c + 1 = K
  <2>1. K % K = 0
    BY <1>1
  <2> QED BY <2>1, <1>1, <1>3
<1> QED BY <1>1, <1>2, <1>3

\* What a datagram changes in the chip.
LEMMA TakenIs ==
  ASSUME ChipPart, NEW w, w[1] \in Registers \cup {"gstat"}
  PROVE  /\ Taken(w).registers =
              IF w[1] = "gstat" THEN chip.registers
              ELSE [chip.registers EXCEPT ![w[1]] = w[2]]
         /\ Taken(w).ifcnt = (chip.ifcnt + 1) % Counters
         /\ Taken(w).reset = (chip.reset /\ w[1] # "gstat")
         /\ \E V : Taken(w) \in Chips(V)
<1>1. PICK V : chip \in Chips(V)
  BY DEF ChipPart
<1> DEFINE U == V \cup {w[2]}
           g == IF w[1] = "gstat" THEN chip.registers
                ELSE [chip.registers EXCEPT ![w[1]] = w[2]]
           d == chip.reset /\ w[1] # "gstat"
           m == (chip.ifcnt + 1) % Counters
<1>2. chip \in Chips(U) /\ g \in [Registers -> U]
  BY <1>1 DEF Chips
<1>3. m \in 0 .. Counters - 1 /\ d \in BOOLEAN
  BY <1>1, CountsOn DEF Chips
<1>4. Taken(w) = [chip EXCEPT !.registers = g, !.reset = d, !.ifcnt = m]
  BY DEF Taken
<1> HIDE DEF U, g, d, m
<1>5. /\ [chip EXCEPT !.registers = g, !.reset = d, !.ifcnt = m] \in Chips(U)
      /\ [chip EXCEPT !.registers = g, !.reset = d, !.ifcnt = m].registers = g
      /\ [chip EXCEPT !.registers = g, !.reset = d, !.ifcnt = m].reset = d
      /\ [chip EXCEPT !.registers = g, !.reset = d, !.ifcnt = m].ifcnt = m
  BY <1>2, <1>3 DEF Chips
<1> QED BY <1>4, <1>5 DEF g, d, m

\* The operations of the driver leave the chip alone,
LEMMA OperationsKeepChip ==
  ASSUME \/ Initialize
         \/ \E microsteps \in Microsteps : SetMicrosteps(microsteps)
         \/ \E on \in BOOLEAN : SetInterpolation(on)
         \/ \E mode \in {"stealth", "spread"} : SetChopperMode(mode)
         \/ \E current \in Currents : SetCurrent(current)
         \/ Enable \/ Disable \/ ReadStatus
  PROVE  /\ Free
         /\ UNCHANGED <<chip, counter, at, disturbed, resets>>
BY DEF Initialize, SetMicrosteps, SetInterpolation, SetChopperMode,
  SetCurrent, Enable, Disable, ReadStatus, Begin
\* and a datagram, a supply loss or trouble leaves it a chip.
LEMMA StepChip ==
  ASSUME ChipPart, QueuePart, [DriverNext]_driverVars
  PROVE  ChipPart'
<1>1. ASSUME UNCHANGED chip PROVE ChipPart'
  BY <1>1 DEF ChipPart
<1>2. CASE Write
  <2>1. /\ todo # <<>> /\ Head(todo) = todo[1]
        /\ todo[1][1] \in Registers \cup {"gstat"}
    BY <1>2 DEF Write, QueuePart, Writes
  <2>2. chip' = Taken(todo[1]) \/ chip' = chip
    BY <1>2, <2>1 DEF Write
  <2>3. \E V : Taken(todo[1]) \in Chips(V)
    BY <2>1, TakenIs
  <2> QED BY <1>1, <2>2, <2>3 DEF ChipPart
<1>3. CASE SupplyLost
  <2>1. PICK V : chip \in Chips(V)
    BY DEF ChipPart
  <2> DEFINE U == V \cup {<<>>}
  <2>2. chip \in Chips(U) /\ Blank \in [Registers -> U]
    BY <2>1 DEF Chips, Blank
  <2>3. 0 \in 0 .. Counters - 1
    BY DriverAssumption
  <2> HIDE DEF U
  <2>4. chip' \in Chips(U)
    BY <1>3, <2>2, <2>3 DEF SupplyLost, Chips
  <2> QED BY <2>4 DEF ChipPart
<1>4. CASE Trouble
  <2>1. PICK V : chip \in Chips(V)
    BY DEF ChipPart
  <2>2. chip' \in Chips(V)
    BY <1>4, <2>1 DEF Trouble, Chips
  <2> QED BY <2>2 DEF ChipPart
<1>5. CASE ReadCounter \/ Verify \/ Miscounted \/ NoReply
  BY <1>1, <1>5 DEF ReadCounter, Verify, Miscounted, NoReply, GiveUp
<1>6. CASE UNCHANGED driverVars
  BY <1>1, <1>6 DEF driverVars
<1> QED
  BY <1>1, <1>2, <1>3, <1>4, <1>5, <1>6, OperationsKeepChip DEF DriverNext

\* A write of one register changes that one.
LEMMA OneWrite ==
  ASSUME NEW r \in Registers, NEW v
  PROVE  /\ Writes(<<<<r, v>>>>) /\ <<<<r, v>>>> # <<>>
         /\ ~Pending(<<<<r, v>>>>)
         /\ \A registers : Ends(<<<<r, v>>>>, registers, r, v)
         /\ \A registers, other, u : other # r =>
              (Ends(<<<<r, v>>>>, registers, other, u) <=> registers[other] = u)
<1> DEFINE s == <<<<r, v>>>>
<1>1. /\ s \in Seq({<<r, v>>}) /\ Len(s) = 1 /\ s # <<>>
      /\ s[1][1] = r /\ s[1][2] = v
  OBVIOUS
<1>2. "gstat" \notin Registers
  BY DEF Registers
<1> HIDE DEF s
<1>3. \A i \in 1 .. Len(s) : i = 1
  BY <1>1
<1>4. Writes(s) /\ ~Pending(s)
  BY <1>1, <1>2, <1>3 DEF Writes, Pending
<1>5. \A registers : Ends(s, registers, r, v)
  BY <1>1, <1>3 DEF Ends
<1>6. \A registers, other, u : other # r =>
        (Ends(s, registers, other, u) <=> registers[other] = u)
  BY <1>1, <1>3 DEF Ends
<1> QED BY <1>1, <1>4, <1>5, <1>6 DEF s

\* Two writes change two.
LEMMA TwoWrites ==
  ASSUME NEW r \in Registers, NEW v, NEW q \in Registers \ {r}, NEW w
  PROVE  LET s == <<<<r, v>>, <<q, w>>>>
         IN  /\ Writes(s) /\ s # <<>> /\ ~Pending(s)
             /\ \A registers : /\ Ends(s, registers, r, v)
                               /\ Ends(s, registers, q, w)
             /\ \A registers, other, u : other \notin {r, q} =>
                  (Ends(s, registers, other, u) <=> registers[other] = u)
<1> DEFINE s == <<<<r, v>>, <<q, w>>>>
<1>1. /\ s \in Seq({<<r, v>>, <<q, w>>}) /\ Len(s) = 2 /\ s # <<>>
      /\ s[1][1] = r /\ s[1][2] = v /\ s[2][1] = q /\ s[2][2] = w
  OBVIOUS
<1>2. "gstat" \notin Registers
  BY DEF Registers
<1> HIDE DEF s
<1>3. \A i \in 1 .. Len(s) : i = 1 \/ i = 2
  BY <1>1
<1>4. Writes(s) /\ ~Pending(s)
  BY <1>1, <1>2, <1>3 DEF Writes, Pending
<1>5. \A registers : Ends(s, registers, r, v)
  BY <1>1, <1>3 DEF Ends
<1>6. \A registers : Ends(s, registers, q, w)
  BY <1>1, <1>3 DEF Ends
<1>7. \A registers, other, u : other \notin {r, q} =>
        (Ends(s, registers, other, u) <=> registers[other] = u)
  BY <1>1, <1>3 DEF Ends
<1> QED BY <1>1, <1>4, <1>5, <1>6, <1>7 DEF s

\* The writes of initialize() reach every register.
LEMMA AllWrites ==
  ASSUME NEW v1, NEW v2, NEW v3, NEW v4, NEW v5, NEW v6, NEW v7, NEW v8,
         NEW v9, NEW v10, NEW v11, NEW v12, NEW v13
  PROVE  LET s == <<<<"gconf", v1>>, <<"slaveconf", v2>>,
                    <<"tpowerdown", v3>>, <<"pwmconf", v4>>, <<"gstat", v5>>,
                    <<"chopconf", v6>>, <<"chopconf", v7>>, <<"gconf", v8>>,
                    <<"chopconf", v9>>, <<"ihold_irun", v10>>,
                    <<"chopconf", v11>>, <<"chopconf", v12>>,
                    <<"gconf", v13>>>>
         IN  /\ Writes(s) /\ s # <<>> /\ Pending(s)
             /\ \A registers :
                  /\ Ends(s, registers, "slaveconf", v2)
                  /\ Ends(s, registers, "tpowerdown", v3)
                  /\ Ends(s, registers, "pwmconf", v4)
                  /\ Ends(s, registers, "ihold_irun", v10)
                  /\ Ends(s, registers, "chopconf", v12)
                  /\ Ends(s, registers, "gconf", v13)
<1> DEFINE s == <<<<"gconf", v1>>, <<"slaveconf", v2>>,
                  <<"tpowerdown", v3>>, <<"pwmconf", v4>>, <<"gstat", v5>>,
                  <<"chopconf", v6>>, <<"chopconf", v7>>, <<"gconf", v8>>,
                  <<"chopconf", v9>>, <<"ihold_irun", v10>>,
                  <<"chopconf", v11>>, <<"chopconf", v12>>,
                  <<"gconf", v13>>>>
           S == {s[i] : i \in 1 .. 13}
<1>1. s \in Seq(S) /\ Len(s) = 13 /\ s # <<>>
  OBVIOUS
<1>2. /\ s[1][1] = "gconf" /\ s[2][1] = "slaveconf"
      /\ s[3][1] = "tpowerdown" /\ s[4][1] = "pwmconf"
      /\ s[5][1] = "gstat" /\ s[6][1] = "chopconf" /\ s[7][1] = "chopconf"
      /\ s[8][1] = "gconf" /\ s[9][1] = "chopconf"
      /\ s[10][1] = "ihold_irun" /\ s[11][1] = "chopconf"
      /\ s[12][1] = "chopconf" /\ s[13][1] = "gconf"
  OBVIOUS
<1>3. /\ s[2][2] = v2 /\ s[3][2] = v3 /\ s[4][2] = v4
      /\ s[10][2] = v10 /\ s[12][2] = v12 /\ s[13][2] = v13
  OBVIOUS
<1> HIDE DEF s, S
<1>4. Writes(s) /\ Pending(s)
  BY <1>1, <1>2 DEF Writes, Pending, Registers
<1>5. ASSUME NEW registers
      PROVE  /\ Ends(s, registers, s[2][1], s[2][2])
             /\ Ends(s, registers, s[3][1], s[3][2])
             /\ Ends(s, registers, s[4][1], s[4][2])
             /\ Ends(s, registers, s[10][1], s[10][2])
             /\ Ends(s, registers, s[12][1], s[12][2])
             /\ Ends(s, registers, s[13][1], s[13][2])
  <2>1. /\ \A j \in 3 .. 13 : s[j][1] # s[2][1]
        /\ \A j \in 4 .. 13 : s[j][1] # s[3][1]
        /\ \A j \in 5 .. 13 : s[j][1] # s[4][1]
        /\ \A j \in 11 .. 13 : s[j][1] # s[10][1]
        /\ \A j \in 13 .. 13 : s[j][1] # s[12][1]
        /\ \A j \in 14 .. 13 : s[j][1] # s[13][1]
    BY <1>2
  <2>2. ASSUME NEW i \in 1 .. 13, \A j \in i + 1 .. 13 : s[j][1] # s[i][1]
        PROVE  Ends(s, registers, s[i][1], s[i][2])
    <3>1. i \in 1 .. Len(s) /\ \A j \in i + 1 .. Len(s) : s[j][1] # s[i][1]
      BY <1>1, <2>2
    <3> QED BY <1>1, <3>1, LastDecides
  <2>3. /\ Ends(s, registers, s[2][1], s[2][2])
        /\ Ends(s, registers, s[3][1], s[3][2])
        /\ Ends(s, registers, s[4][1], s[4][2])
    BY <2>1, <2>2
  <2>4. /\ Ends(s, registers, s[10][1], s[10][2])
        /\ Ends(s, registers, s[12][1], s[12][2])
        /\ Ends(s, registers, s[13][1], s[13][2])
    BY <2>1, <2>2
  <2> QED BY <2>3, <2>4
<1> QED BY <1>1, <1>2, <1>3, <1>4, <1>5 DEF s

\* A setting of one register is queued.
LEMMA SettingQueued ==
  ASSUME QueuePart, Free, NEW r \in Registers, NEW v, NEW name, name # "none",
         NEW value, Begin(name, value, <<<<r, v>>>>)
  PROVE  QueuePart'
<1> DEFINE s == <<<<r, v>>>>
<1>1. Writes(s) /\ s # <<>>
  BY OneWrite
<1>2. todo' = s /\ op'.name # "none" /\ UNCHANGED <<at, counter>>
  BY DEF Begin
<1> HIDE DEF s
<1> QED BY <1>1, <1>2 DEF QueuePart, Free

\* An operation queues writes, and waits for none.
LEMMA StepQueue ==
  ASSUME ChipPart, QueuePart, [DriverNext]_driverVars
  PROVE  QueuePart'
<1> USE DEF QueuePart, Free
<1>1. CASE Initialize
  <2>1. Writes(todo') /\ todo' # <<>> /\ op'.name = "initialize"
    BY <1>1, AllWrites DEF Initialize, Begin
  <2> QED BY <1>1, <2>1 DEF Initialize, Begin
<1>2. CASE \/ \E microsteps \in Microsteps : SetMicrosteps(microsteps)
           \/ \E on \in BOOLEAN : SetInterpolation(on)
           \/ \E mode \in {"stealth", "spread"} : SetChopperMode(mode)
  <2>1. "chopconf" \in Registers /\ "gconf" \in Registers
    BY DEF Registers
  <2>2. CASE \E microsteps \in Microsteps : SetMicrosteps(microsteps)
    <3>1. PICK d, value :
            /\ Free
            /\ Begin("microsteps", value, <<<<"chopconf", Chopconf(d)>>>>)
      BY <2>2 DEF SetMicrosteps
    <3> QED BY <2>1, <3>1, SettingQueued
  <2>3. CASE \E on \in BOOLEAN : SetInterpolation(on)
    <3>1. PICK d :
            /\ Free
            /\ Begin("interpolation", 0, <<<<"chopconf", Chopconf(d)>>>>)
      BY <2>3 DEF SetInterpolation
    <3> QED BY <2>1, <3>1, SettingQueued
  <2>4. CASE \E mode \in {"stealth", "spread"} : SetChopperMode(mode)
    <3>1. PICK d : Free /\ Begin("chopper", 0, <<<<"gconf", Gconf(d)>>>>)
      BY <2>4 DEF SetChopperMode
    <3> QED BY <2>1, <3>1, SettingQueued
  <2> QED BY <1>2, <2>2, <2>3, <2>4
<1>3. CASE \E current \in Currents : SetCurrent(current)
  <2>1. PICK current \in Currents : SetCurrent(current)
    BY <1>3
  <2>2. CASE Scale[current].fits
    <3> DEFINE v == Chopconf([driver EXCEPT !.sense = Scale[current].sense])
               w == Run(current)
    <3>1. /\ todo' = <<<<"chopconf", v>>, <<"ihold_irun", w>>>>
          /\ op'.name # "none" /\ op.name = "none"
          /\ UNCHANGED <<at, counter>>
      BY <2>1, <2>2 DEF SetCurrent, Begin
    <3>2. "chopconf" \in Registers /\ "ihold_irun" \in Registers \ {"chopconf"}
      BY DEF Registers
    <3> HIDE DEF v, w
    <3>3. Writes(todo') /\ todo' # <<>>
      BY <3>1, <3>2, TwoWrites
    <3> QED BY <3>1, <3>3
  <2>3. CASE ~Scale[current].fits
    BY <2>1, <2>3 DEF SetCurrent
  <2> QED BY <2>2, <2>3
<1>4. CASE Enable \/ Disable \/ ReadStatus \/ Trouble
  BY <1>4 DEF Enable, Disable, ReadStatus, Trouble
<1>5. CASE ReadCounter
  <2>1. chip.ifcnt \in 0 .. Counters - 1
    BY DEF ChipPart, Chips
  <2> QED BY <1>5, <2>1 DEF ReadCounter
<1>6. CASE Write
  BY <1>6 DEF Write
<1>7. CASE Verify
  <2>1. Writes(Tail(todo)) /\ 0 \in 0 .. Counters - 1
    BY <1>7, TailWrites, DriverAssumption DEF Verify
  <2> QED BY <1>7, <2>1 DEF Verify, Idle
<1>8. CASE Miscounted \/ NoReply
  <2>1. Writes(<<>>) /\ 0 \in 0 .. Counters - 1
    <3>1. <<>> \in Seq({}) /\ Len(<<>>) = 0
      OBVIOUS
    <3> QED BY <3>1, DriverAssumption DEF Writes
  <2> QED BY <1>8, <2>1 DEF Miscounted, NoReply, GiveUp, Idle
<1>9. CASE SupplyLost
  BY <1>9 DEF SupplyLost
<1>10. CASE UNCHANGED driverVars
  BY <1>10 DEF driverVars
<1> QED
  BY <1>1, <1>2, <1>3, <1>4, <1>5, <1>6, <1>7, <1>8, <1>9, <1>10 DEF DriverNext

\* A datagram is counted once it has arrived, and then it has been taken.
LEMMA WriteCounts ==
  ASSUME ChipPart, QueuePart, CountPart, Write
  PROVE  CountPart'
<1> DEFINE w == todo[1]
<1>1. /\ Head(todo) = w /\ w[1] \in Registers \cup {"gstat"}
      /\ \E i \in 1 .. Len(todo) : i = 1
  BY DEF Write, QueuePart, Writes
<1>2. /\ at = "write" /\ at' = "verify" /\ todo' = todo
      /\ counter' = counter /\ disturbed' = disturbed
      /\ unseen' = unseen
      /\ chip' = Taken(w) \/ chip' = chip
  BY <1>1 DEF Write
<1> HIDE DEF w
<1>3. CASE chip' = chip
  <2>1. Noticed' => Noticed
    BY <1>2, <1>3 DEF Noticed, Clearing
  <2> QED BY <1>2, <1>3, <2>1 DEF CountPart
<1>4. CASE chip' = Taken(w)
  <2>1. /\ chip'.ifcnt = (chip.ifcnt + 1) % Counters
        /\ chip'.reset = (chip.reset /\ w[1] # "gstat")
        /\ chip'.registers = IF w[1] = "gstat" THEN chip.registers
                             ELSE [chip.registers EXCEPT ![w[1]] = w[2]]
    BY <1>1, <1>4, TakenIs
  <2>2. chip.ifcnt = counter \/ disturbed
    BY <1>2 DEF CountPart
  <2>3. Counted' \/ disturbed'
    BY <1>2, <2>1, <2>2 DEF Counted
  <2>4. ASSUME Noticed' PROVE HeadDone(todo', chip'.registers)
    <3>1. CASE w[1] = "gstat"
      BY <1>2, <3>1 DEF HeadDone, w
    <3>2. CASE w[1] # "gstat"
      <4>1. chip.registers = [r \in Registers |-> chip.registers[r]]
        BY DEF ChipPart, Chips
      <4>2. chip'.registers[w[1]] = w[2]
        BY <1>1, <2>1, <3>2, <4>1
      <4> QED BY <1>2, <4>2 DEF HeadDone, w
    <3> QED BY <3>1, <3>2
  <2> QED BY <1>2, <2>3, <2>4 DEF CountPart
<1> QED BY <1>2, <1>3, <1>4

\* A supply loss is one the driver may find out about, or one that is unseen.
LEMMA LossUnnoticed ==
  ASSUME SupplyLost, chip'.reset
  PROVE  ~Noticed'
<1>1. todo' = todo /\ at' = at /\ unseen' = (unseen \/ Clearing)
  BY DEF SupplyLost
<1>2. Clearing' <=> Clearing
  BY <1>1 DEF Clearing
<1> QED BY <1>1, <1>2 DEF Noticed

\* So it is in every step.
LEMMA StepCount ==
  ASSUME ChipPart, QueuePart, CountPart, [DriverNext]_driverVars
  PROVE  CountPart'
<1>1. ASSUME at' = "before" PROVE CountPart'
  BY <1>1 DEF CountPart
<1>2. ASSUME UNCHANGED <<at, counter, disturbed, unseen, todo>>,
             chip'.ifcnt = chip.ifcnt, chip'.reset = chip.reset,
             chip'.registers = chip.registers
      PROVE  CountPart'
  BY <1>2 DEF CountPart, Counted, Noticed, Clearing
<1>3. CASE ReadCounter
  BY <1>3 DEF ReadCounter, CountPart
<1>4. CASE Write
  BY <1>4, WriteCounts
<1>5. CASE Verify \/ Miscounted \/ NoReply
  BY <1>1, <1>5 DEF Verify, Miscounted, NoReply, GiveUp
<1>6. CASE SupplyLost
  <2>1. chip'.reset
    <3>1. PICK V : chip \in Chips(V)
      BY DEF ChipPart
    <3> QED BY <1>6, <3>1 DEF SupplyLost, Chips
  <2>2. ~Noticed'
    BY <1>6, <2>1, LossUnnoticed
  <2>3. at' # "before" => disturbed'
    BY <1>6 DEF SupplyLost
  <2> QED BY <2>2, <2>3 DEF CountPart
<1>7. CASE Trouble
  <2>1. PICK V : chip \in Chips(V)
    BY DEF ChipPart
  <2>2. /\ chip'.ifcnt = chip.ifcnt /\ chip'.reset = chip.reset
        /\ chip'.registers = chip.registers
    BY <1>7, <2>1 DEF Trouble, Chips
  <2> QED BY <1>2, <1>7, <2>2 DEF Trouble
<1>8. CASE UNCHANGED driverVars
  BY <1>2, <1>8 DEF driverVars
<1>9. CASE Free /\ UNCHANGED <<chip, counter, at, disturbed, resets>>
  BY <1>1, <1>9 DEF QueuePart
<1> QED
  BY <1>3, <1>4, <1>5, <1>6, <1>7, <1>8, <1>9, OperationsKeepChip
    DEF DriverNext

\* All currents of the profile come to one sense range.
OneRange ==
  \A current, other \in Currents : Scale[current].sense = Scale[other].sense

\* Then the range in memory never differs from the profile's.
LEMMA StepSense ==
  ASSUME OneRange, IInv, QueuePart, SensePart, [DriverNext]_driverVars
  PROVE  SensePart'
<1> USE ProfileInRange DEF SensePart, IInv, DriverPart, Free
<1>1. CASE Initialize
  BY <1>1 DEF Initialize, Begin
<1>2. CASE \E microsteps \in Microsteps : SetMicrosteps(microsteps)
  BY <1>2 DEF SetMicrosteps, Begin
<1>3. CASE \E on \in BOOLEAN : SetInterpolation(on)
  BY <1>3 DEF SetInterpolation, Begin
<1>4. CASE \E mode \in {"stealth", "spread"} : SetChopperMode(mode)
  BY <1>4 DEF SetChopperMode, Begin
<1>5. CASE \E current \in Currents : SetCurrent(current)
  BY <1>5 DEF SetCurrent, OneRange
<1>6. CASE Enable \/ Disable \/ ReadStatus
  BY <1>6 DEF Enable, Disable, ReadStatus
<1>7. CASE ReadCounter \/ Write \/ SupplyLost \/ Trouble
  BY <1>7 DEF ReadCounter, Write, SupplyLost, Trouble
<1>8. CASE Verify
  <2>1. Committed.sense = driver.sense
    BY DEF Committed
  <2> QED BY <1>8, <2>1 DEF Verify
<1>9. CASE Miscounted \/ NoReply
  BY <1>9 DEF Miscounted, NoReply, GiveUp, Idle
<1>10. CASE UNCHANGED driverVars
  BY <1>10 DEF driverVars
<1> QED
  BY <1>1, <1>2, <1>3, <1>4, <1>5, <1>6, <1>7, <1>8, <1>9, <1>10
    DEF DriverNext

\* What is believed is kept by a step that changes none of it.
LEMMA SameBelief ==
  ASSUME BeliefPart,
         driver'.connected \/ ~Free' => driver.connected \/ ~Free,
         Noticed' => Noticed,
         todo' = todo, chip'.registers = chip.registers,
         Gconf(driver') = Gconf(driver), Chopconf(driver') = Chopconf(driver),
         Wanted' = Wanted
  PROVE  BeliefPart'
BY DEF BeliefPart, Believed

\* initialize() writes all of it.
LEMMA InitializeBelieves ==
  ASSUME IInv, Initialize
  PROVE  BeliefPart'
<1> DEFINE off     == [driver EXCEPT !.connected = FALSE, !.enabled = FALSE]
           ranged  == [off EXCEPT !.sense = Scale[Configured.current].sense]
           stepped == [ranged EXCEPT !.microsteps = Configured.microsteps]
           smooth  == [stepped EXCEPT !.interpolation = TRUE]
           quiet   == [smooth EXCEPT !.chopper = "stealth"]
<1>1. /\ driver' = quiet
      /\ op' = [name |-> "initialize", value |-> Configured.current]
  BY DEF Initialize, Begin
<1>2. Chopconf(smooth) = Chopconf(quiet)
  BY DEF Chopconf, IInv, DriverPart
<1>3. Wanted' = Configured.current
  BY <1>1 DEF Wanted
<1>4. todo' = <<<<"gconf", <<"stealth">>>>, <<"slaveconf", Constant>>,
                <<"tpowerdown", Constant>>, <<"pwmconf", Constant>>,
                <<"gstat", Constant>>,
                <<"chopconf", Chopconf(off)>>, <<"chopconf", Chopconf(off)>>,
                <<"gconf", Gconf(off)>>,
                <<"chopconf", Chopconf(ranged)>>,
                <<"ihold_irun", Run(Configured.current)>>,
                <<"chopconf", Chopconf(stepped)>>,
                <<"chopconf", Chopconf(smooth)>>, <<"gconf", Gconf(quiet)>>>>
  BY DEF Initialize, Begin
<1> HIDE DEF off, ranged, stepped, smooth, quiet
<1>5. \A registers :
        /\ Ends(todo', registers, "slaveconf", Constant)
        /\ Ends(todo', registers, "tpowerdown", Constant)
        /\ Ends(todo', registers, "pwmconf", Constant)
        /\ Ends(todo', registers, "ihold_irun", Run(Configured.current))
        /\ Ends(todo', registers, "chopconf", Chopconf(smooth))
        /\ Ends(todo', registers, "gconf", Gconf(quiet))
  BY <1>4, AllWrites
<1> QED BY <1>1, <1>2, <1>3, <1>5 DEF BeliefPart, Believed

\* A driver that is connected and free believes what the chip has.
LEMMA BelievedAtRest ==
  ASSUME BeliefPart, QueuePart, Free, driver.connected, ~chip.reset, ~unseen
  PROVE  /\ chip.registers["gconf"] = Gconf(driver)
         /\ chip.registers["chopconf"] = Chopconf(driver)
         /\ driver.current # 0 =>
              chip.registers["ihold_irun"] = Run(driver.current)
         /\ \A register \in {"slaveconf", "tpowerdown", "pwmconf"} :
              chip.registers[register] = Constant
<1>1. todo = <<>> /\ Noticed /\ Wanted = driver.current
  BY DEF QueuePart, Free, Noticed, Wanted
<1>2. Believed(<<>>, chip.registers)
  BY <1>1 DEF BeliefPart
<1> QED BY <1>1, <1>2, NothingLeft DEF Believed

\* Where none of the writes is of GSTAT, its flags are not to be cleared.
LEMMA PendingWhileClearing ==
  ASSUME Writes(todo'), ~Pending(todo')
  PROVE  ~Clearing'
<1>1. DOMAIN todo' = 1 .. Len(todo')
  BY DEF Writes
<1> QED BY <1>1 DEF Pending, Clearing

\* A setting writes what it changes: CHOPCONF
LEMMA ChopconfBelieved ==
  ASSUME BeliefPart, QueuePart, Free, driver.connected,
         NEW name \in {"microsteps", "interpolation"}, NEW value,
         Begin(name, value, <<<<"chopconf", Chopconf(driver')>>>>),
         Gconf(driver') = Gconf(driver), driver'.current = driver.current
  PROVE  BeliefPart'
<1> DEFINE s == <<<<"chopconf", Chopconf(driver')>>>>
<1>1. /\ todo' = s /\ chip' = chip /\ Wanted' = driver.current
  BY DEF Begin, Wanted
<1>2. "chopconf" \in Registers
  BY DEF Registers
<1>3. /\ Writes(s) /\ ~Pending(s)
      /\ Ends(s, chip.registers, "chopconf", Chopconf(driver'))
      /\ \A other, u : other # "chopconf" =>
           (Ends(s, chip.registers, other, u) <=> chip.registers[other] = u)
  BY <1>2, OneWrite
<1> HIDE DEF s
<1>4. SUFFICES ASSUME ~chip.reset, ~unseen
               PROVE  Believed(todo, chip.registers)'
  BY <1>1, <1>3, PendingWhileClearing DEF BeliefPart, Noticed, Begin
<1>5. /\ chip.registers["gconf"] = Gconf(driver)
      /\ driver.current # 0 =>
           chip.registers["ihold_irun"] = Run(driver.current)
      /\ \A register \in {"slaveconf", "tpowerdown", "pwmconf"} :
           chip.registers[register] = Constant
  BY <1>4, BelievedAtRest
<1> QED BY <1>1, <1>3, <1>5 DEF Believed

\* or GCONF.
LEMMA GconfBelieved ==
  ASSUME BeliefPart, QueuePart, Free, driver.connected,
         Begin("chopper", 0, <<<<"gconf", Gconf(driver')>>>>),
         Chopconf(driver') = Chopconf(driver), driver'.current = driver.current
  PROVE  BeliefPart'
<1> DEFINE s == <<<<"gconf", Gconf(driver')>>>>
<1>1. /\ todo' = s /\ chip' = chip /\ Wanted' = driver.current
  BY DEF Begin, Wanted
<1>2. "gconf" \in Registers
  BY DEF Registers
<1>3. /\ Writes(s) /\ ~Pending(s)
      /\ Ends(s, chip.registers, "gconf", Gconf(driver'))
      /\ \A other, u : other # "gconf" =>
           (Ends(s, chip.registers, other, u) <=> chip.registers[other] = u)
  BY <1>2, OneWrite
<1> HIDE DEF s
<1>4. SUFFICES ASSUME ~chip.reset, ~unseen
               PROVE  Believed(todo, chip.registers)'
  BY <1>1, <1>3, PendingWhileClearing DEF BeliefPart, Noticed, Begin
<1>5. /\ chip.registers["chopconf"] = Chopconf(driver)
      /\ driver.current # 0 =>
           chip.registers["ihold_irun"] = Run(driver.current)
      /\ \A register \in {"slaveconf", "tpowerdown", "pwmconf"} :
           chip.registers[register] = Constant
  BY <1>4, BelievedAtRest
<1> QED BY <1>1, <1>3, <1>5 DEF Believed

\* A current that fits is written with its range.
LEMMA CurrentBelieved ==
  ASSUME BeliefPart, QueuePart, Free, driver.connected, NEW current,
         Begin("current", current, <<<<"chopconf", Chopconf(driver')>>,
                                     <<"ihold_irun", Run(current)>>>>),
         Gconf(driver') = Gconf(driver)
  PROVE  BeliefPart'
<1> DEFINE s == <<<<"chopconf", Chopconf(driver')>>,
                  <<"ihold_irun", Run(current)>>>>
<1>1. /\ todo' = s /\ chip' = chip /\ Wanted' = current
  BY DEF Begin, Wanted
<1>2. "chopconf" \in Registers /\ "ihold_irun" \in Registers \ {"chopconf"}
  BY DEF Registers
<1>3. /\ Writes(s) /\ ~Pending(s)
      /\ Ends(s, chip.registers, "chopconf", Chopconf(driver'))
      /\ Ends(s, chip.registers, "ihold_irun", Run(current))
      /\ \A other, u : other \notin {"chopconf", "ihold_irun"} =>
           (Ends(s, chip.registers, other, u) <=> chip.registers[other] = u)
  BY <1>2, TwoWrites
<1> HIDE DEF s
<1>4. SUFFICES ASSUME ~chip.reset, ~unseen
               PROVE  Believed(todo, chip.registers)'
  BY <1>1, <1>3, PendingWhileClearing DEF BeliefPart, Noticed, Begin
<1>5. /\ chip.registers["gconf"] = Gconf(driver)
      /\ \A register \in {"slaveconf", "tpowerdown", "pwmconf"} :
           chip.registers[register] = Constant
  BY <1>4, BelievedAtRest
<1> QED BY <1>1, <1>3, <1>5 DEF Believed

\* A datagram that arrives writes what was to be written anyway.
LEMMA WriteBelieves ==
  ASSUME ChipPart, QueuePart, BeliefPart, Write
  PROVE  BeliefPart'
<1> DEFINE w == todo[1]
<1>1. /\ Head(todo) = w /\ w[1] \in Registers \cup {"gstat"}
      /\ 1 \in 1 .. Len(todo)
  BY DEF Write, QueuePart, Writes
<1>2. /\ todo' = todo /\ driver' = driver /\ op' = op
      /\ Wanted' = Wanted /\ ~Free
      /\ unseen' = unseen /\ at = "write" /\ at' = "verify"
      /\ DOMAIN todo = 1 .. Len(todo)
      /\ chip' = Taken(w) \/ chip' = chip
  BY <1>1 DEF Write, Wanted, QueuePart, Writes
<1>3. CASE chip' = chip
  BY <1>2, <1>3, SameBelief DEF Noticed, Clearing, Free
<1>4. CASE chip' = Taken(w)
  <2>1. /\ chip'.reset = (chip.reset /\ w[1] # "gstat")
        /\ chip'.registers = IF w[1] = "gstat" THEN chip.registers
                             ELSE [chip.registers EXCEPT ![w[1]] = w[2]]
    BY <1>1, <1>4, TakenIs
  <2>2. chip.registers = [r \in Registers |-> chip.registers[r]]
    BY DEF ChipPart, Chips
  <2>3. Noticed' => Noticed
    BY <1>1, <1>2, <2>1 DEF Noticed, Clearing
  <2>4. ASSUME NEW r \in Registers, NEW v, Ends(todo, chip.registers, r, v)
        PROVE  Ends(todo, chip'.registers, r, v)
    <3>1. (\A i \in 1 .. Len(todo) : todo[i][1] # r)
            => chip'.registers[r] = chip.registers[r]
      BY <1>1, <2>1, <2>2
    <3> QED BY <2>4, <3>1 DEF Ends
  <2>5. ASSUME Noticed' PROVE Believed(todo, chip.registers)'
    <3>1. Believed(todo, chip.registers)
      BY <1>2, <2>3, <2>5 DEF BeliefPart
    <3>2. /\ "gconf" \in Registers /\ "chopconf" \in Registers
          /\ "ihold_irun" \in Registers
          /\ {"slaveconf", "tpowerdown", "pwmconf"} \subseteq Registers
      BY DEF Registers
    <3> QED BY <1>2, <2>4, <3>1, <3>2 DEF Believed
  <2> QED BY <2>5 DEF BeliefPart
<1> QED BY <1>2, <1>3, <1>4

\* A write that is counted may be forgotten.
LEMMA VerifyBelieves ==
  ASSUME ChipPart, QueuePart, CountPart, IInv, BeliefPart, Verify
  PROVE  BeliefPart'
<1>1. PICK S : todo \in Seq(S)
  BY DEF QueuePart, Writes
<1>2. /\ todo # <<>> /\ todo' = Tail(todo) /\ chip' = chip /\ ~Free
  BY DEF Verify, QueuePart
<1>3. Noticed' => Noticed
  <2>1. /\ Len(todo) \in Nat \ {0} /\ DOMAIN todo = 1 .. Len(todo)
        /\ DOMAIN Tail(todo) = 1 .. Len(todo) - 1
        /\ \A i \in 1 .. Len(todo) - 1 : Tail(todo)[i] = todo[i + 1]
    BY <1>1, <1>2
  <2>2. \A i \in 1 .. Len(todo) - 1 : i + 1 \in 1 .. Len(todo) /\ i + 1 # 1
    BY <2>1
  <2>3. Clearing' => Clearing
    BY <1>2, <2>1, <2>2 DEF Clearing
  <2> QED BY <1>2, <2>3 DEF Noticed, Verify
<1>4. chip.ifcnt # counter
  BY CountsOn DEF Verify, Counted, QueuePart
<1>5. /\ Gconf(driver') = Gconf(driver) /\ Chopconf(driver') = Chopconf(driver)
      /\ Wanted' = Wanted
  <2>1. CASE Tail(todo) = <<>>
    <3>1. /\ driver' = Committed /\ op' = Idle
      BY <2>1 DEF Verify
    <3>2. /\ Committed.chopper = driver.chopper
          /\ Committed.sense = driver.sense
          /\ Committed.microsteps = driver.microsteps
          /\ Committed.interpolation = driver.interpolation
          /\ Committed.current = Wanted
      BY DEF Committed, Wanted, IInv, DriverPart
    <3> QED BY <3>1, <3>2 DEF Gconf, Chopconf, Wanted, Idle
  <2>2. CASE Tail(todo) # <<>>
    BY <2>2 DEF Verify, Wanted
  <2> QED BY <2>1, <2>2
<1>6. ASSUME Noticed' PROVE Believed(todo, chip.registers)'
  <2>1. Believed(todo, chip.registers) /\ HeadDone(todo, chip.registers)
    BY <1>2, <1>3, <1>4, <1>6 DEF BeliefPart, CountPart, Verify
  <2>2. \A v : \A r \in {"gconf", "chopconf", "ihold_irun", "slaveconf",
                          "tpowerdown", "pwmconf"} :
          Ends(todo, chip.registers, r, v)
            => Ends(Tail(todo), chip.registers, r, v)
    BY <1>1, <1>2, <2>1, TailEnds
  <2> QED BY <1>2, <1>5, <2>1, <2>2 DEF Believed
<1> QED BY <1>6 DEF BeliefPart

\* Whatever happens, what is believed is what the chip will hold.
LEMMA StepBelief ==
  ASSUME OneRange, IInv, ChipPart, QueuePart, CountPart, SensePart, BeliefPart,
         [DriverNext]_driverVars
  PROVE  BeliefPart'
<1>1. CASE Initialize
  BY <1>1, InitializeBelieves
<1>2. CASE \E microsteps \in Microsteps : SetMicrosteps(microsteps)
  <2>1. PICK microsteps \in Microsteps : SetMicrosteps(microsteps)
    BY <1>2
  <2>2. /\ Free /\ driver.connected
        /\ Begin("microsteps", microsteps,
                 <<<<"chopconf", Chopconf(driver')>>>>)
    BY <2>1 DEF SetMicrosteps
  <2>3. Gconf(driver') = Gconf(driver) /\ driver'.current = driver.current
    BY <2>1 DEF SetMicrosteps, Gconf, IInv, DriverPart
  <2> QED BY <2>2, <2>3, ChopconfBelieved
<1>3. CASE \E on \in BOOLEAN : SetInterpolation(on)
  <2>1. PICK on \in BOOLEAN : SetInterpolation(on)
    BY <1>3
  <2>2. /\ Free /\ driver.connected
        /\ Begin("interpolation", 0, <<<<"chopconf", Chopconf(driver')>>>>)
    BY <2>1 DEF SetInterpolation
  <2>3. Gconf(driver') = Gconf(driver) /\ driver'.current = driver.current
    BY <2>1 DEF SetInterpolation, Gconf, IInv, DriverPart
  <2> QED BY <2>2, <2>3, ChopconfBelieved
<1>4. CASE \E mode \in {"stealth", "spread"} : SetChopperMode(mode)
  <2>1. PICK mode \in {"stealth", "spread"} : SetChopperMode(mode)
    BY <1>4
  <2>2. /\ Free /\ driver.connected
        /\ Begin("chopper", 0, <<<<"gconf", Gconf(driver')>>>>)
    BY <2>1 DEF SetChopperMode
  <2>3. Chopconf(driver') = Chopconf(driver) /\ driver'.current = driver.current
    BY <2>1 DEF SetChopperMode, Chopconf, IInv, DriverPart
  <2> QED BY <2>2, <2>3, GconfBelieved
<1>5. CASE \E current \in Currents : SetCurrent(current)
  <2>1. PICK current \in Currents : SetCurrent(current)
    BY <1>5
  <2>2. CASE Scale[current].fits
    <3>1. /\ Free /\ driver.connected
          /\ Begin("current", current, <<<<"chopconf", Chopconf(driver')>>,
                                         <<"ihold_irun", Run(current)>>>>)
      BY <2>1, <2>2 DEF SetCurrent
    <3>2. Gconf(driver') = Gconf(driver)
      BY <2>1 DEF SetCurrent, Gconf, IInv, DriverPart
    <3> QED BY <3>1, <3>2, CurrentBelieved
  <2>3. CASE ~Scale[current].fits
    <3>1. driver.sense = Scale[current].sense
      BY <2>1, ProfileInRange DEF SetCurrent, SensePart, OneRange
    <3>2. /\ driver'.sense = driver.sense /\ driver'.chopper = driver.chopper
          /\ driver'.microsteps = driver.microsteps
          /\ driver'.interpolation = driver.interpolation
          /\ driver'.current = driver.current
          /\ driver'.connected = driver.connected
      BY <2>1, <3>1 DEF SetCurrent, IInv, DriverPart
    <3>3. /\ op' = op /\ todo' = todo /\ chip' = chip
          /\ at' = at /\ unseen' = unseen
      BY <2>1, <2>3 DEF SetCurrent
    <3> QED
      BY <3>2, <3>3, SameBelief
        DEF Gconf, Chopconf, Wanted, Noticed, Clearing, Free
  <2> QED BY <2>2, <2>3
<1>6. CASE Enable \/ Disable \/ ReadStatus
  <2>1. /\ driver'.sense = driver.sense /\ driver'.chopper = driver.chopper
        /\ driver'.microsteps = driver.microsteps
        /\ driver'.interpolation = driver.interpolation
        /\ driver'.current = driver.current
        /\ driver'.connected => driver.connected
    BY <1>6 DEF Enable, Disable, ReadStatus, IInv, DriverPart
  <2>2. /\ op' = op /\ todo' = todo /\ chip' = chip
        /\ at' = at /\ unseen' = unseen
    BY <1>6 DEF Enable, Disable, ReadStatus
  <2> QED
    BY <2>1, <2>2, SameBelief
      DEF Gconf, Chopconf, Wanted, Noticed, Clearing, Free
<1>7. CASE ReadCounter \/ UNCHANGED driverVars
  <2>1. /\ op' = op /\ todo' = todo /\ chip' = chip /\ driver' = driver
        /\ unseen' = unseen
        /\ at' = "verify" <=> at = "verify"
    BY <1>7 DEF ReadCounter, driverVars
  <2> QED BY <2>1, SameBelief DEF Wanted, Noticed, Clearing, Free
<1>8. CASE Write
  BY <1>8, WriteBelieves
<1>9. CASE Verify
  BY <1>9, VerifyBelieves
<1>10. CASE Miscounted \/ NoReply
  <2>1. Free'
    BY <1>10 DEF Miscounted, NoReply, GiveUp, Idle, Free
  <2>2. driver' = [driver EXCEPT !.connected = FALSE, !.enabled = FALSE]
    BY <1>10 DEF Miscounted, NoReply, GiveUp
  <2>3. ~driver'.connected
    BY <2>2 DEF IInv, DriverPart
  <2> QED BY <2>1, <2>3 DEF BeliefPart
<1>11. CASE SupplyLost
  <2>1. PICK V : chip \in Chips(V)
    BY DEF ChipPart
  <2>2. chip'.reset
    BY <1>11, <2>1 DEF SupplyLost, Chips
  <2> QED BY <1>11, <2>2, LossUnnoticed DEF BeliefPart
<1>12. CASE Trouble
  <2>1. PICK V : chip \in Chips(V)
    BY DEF ChipPart
  <2>2. chip'.reset = chip.reset /\ chip'.registers = chip.registers
    BY <1>12, <2>1 DEF Trouble, Chips
  <2>3. /\ op' = op /\ todo' = todo /\ driver' = driver
        /\ at' = at /\ unseen' = unseen
    BY <1>12 DEF Trouble
  <2> QED BY <2>2, <2>3, SameBelief DEF Wanted, Noticed, Clearing, Free
<1> QED
  BY <1>1, <1>2, <1>3, <1>4, <1>5, <1>6, <1>7, <1>8, <1>9, <1>10, <1>11,
    <1>12 DEF DriverNext

ChipInv == IInv /\ ChipPart /\ QueuePart /\ CountPart

\* The counters tell, whatever the profile.
LEMMA StepChipInv == ChipInv /\ [DriverNext]_driverVars => ChipInv'
BY StepIInv, StepChip, StepQueue, StepCount DEF ChipInv

\* A connection is only given up for an exchange that failed or for a chip
\* that lost its supply between the two reads of IFCNT around it, however often
\* it did before, for any width of IFCNT from two values on: the comparison in
\* verify_write_counter() knows the wrap.
THEOREM DisconnectsForLosses == DriverSpec => OnlyLossesDisconnect
<1>1. DriverInit => ChipInv
  BY InitIInv, InitChip DEF ChipInv
<1>2. ChipInv /\ [DriverNext]_driverVars
        => [Miscounted => chip.ifcnt = counter \/ disturbed]_driverVars
  BY DEF ChipInv, CountPart, Miscounted
<1> QED BY <1>1, <1>2, StepChipInv, PTL DEF DriverSpec, OnlyLossesDisconnect

\* A connected chip that would read healthy is configured as the driver
\* believes, whichever datagrams and replies were lost and whenever the supply
\* failed, unless it did within the last initialize() before that cleared the
\* GSTAT flags: the counter before and after each write is enough, and so is
\* the flag from then on (write_register_verified, 142-147; initialize,
\* 170-175).
THEOREM HealthyConfigured ==
  ASSUME OneRange
  PROVE  DriverSpec => []HealthyMeansConfigured
<1> DEFINE J == ChipInv /\ SensePart /\ BeliefPart
<1>1. DriverInit => J
  BY InitIInv, InitChip DEF ChipInv
<1>2. J /\ [DriverNext]_driverVars => J'
  BY StepChipInv, StepSense, StepBelief DEF ChipInv
<1>3. J => HealthyMeansConfigured
  BY BelievedAtRest DEF HealthyMeansConfigured, ChipInv
<1> QED BY <1>1, <1>2, <1>3, PTL DEF DriverSpec

\* The driver keeps to its types, and IFCNT and its copy to their width.
THEOREM DriverTypeCorrectness == DriverSpec => []DriverTypeOK
<1> DEFINE Rest == /\ at \in {"before", "write", "verify"}
                   /\ unseen \in BOOLEAN /\ disturbed \in BOOLEAN
                   /\ resets \in 0 .. MaxResets
<1>1. DriverInit => ChipInv /\ Rest
  <2>1. DriverInit => ChipInv
    BY InitIInv, InitChip DEF ChipInv
  <2>2. 0 \in 0 .. MaxResets
    BY DriverAssumption
  <2>3. DriverInit => Rest
    BY <2>2, Zenon DEF DriverInit
  <2> QED BY <2>1, <2>3
<1>2. ChipInv /\ Rest /\ [DriverNext]_driverVars => (ChipInv /\ Rest)'
  <2> SUFFICES ASSUME ChipInv, Rest, [DriverNext]_driverVars
               PROVE  (ChipInv /\ Rest)'
    OBVIOUS
  <2>1. CASE unseen' \in BOOLEAN /\ UNCHANGED <<at, disturbed, resets>>
    BY <2>1, StepChipInv
  <2>2. CASE ReadCounter \/ Write \/ Verify \/ Miscounted \/ NoReply
    BY <2>2, StepChipInv
      DEF ReadCounter, Write, Verify, Miscounted, NoReply, GiveUp
  <2>3. CASE SupplyLost
    BY <2>3, StepChipInv, DriverAssumption DEF SupplyLost
  <2>4. CASE Trouble \/ UNCHANGED driverVars
    BY <2>4, StepChipInv DEF Trouble, driverVars
  <2>5. CASE \/ Initialize
             \/ \E microsteps \in Microsteps : SetMicrosteps(microsteps)
             \/ \E on \in BOOLEAN : SetInterpolation(on)
             \/ \E mode \in {"stealth", "spread"} : SetChopperMode(mode)
             \/ \E current \in Currents : SetCurrent(current)
             \/ Enable \/ Disable \/ ReadStatus
    <3>1. unseen' \in BOOLEAN
      BY <2>5
        DEF Initialize, SetMicrosteps, SetInterpolation, SetChopperMode,
          SetCurrent, Enable, Disable, ReadStatus, Begin
    <3> QED BY <2>1, <2>5, <3>1, OperationsKeepChip
  <2> QED
    BY <2>2, <2>3, <2>4, <2>5 DEF DriverNext
<1>3. ChipInv /\ Rest => DriverTypeOK
  BY DEF ChipInv, IInv, DriverPart, ChipPart, Chips, QueuePart, DriverTypeOK
<1> QED BY <1>1, <1>2, <1>3, PTL DEF DriverSpec
=============================================================================
