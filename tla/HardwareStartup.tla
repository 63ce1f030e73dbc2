-------------------------- MODULE HardwareStartup --------------------------
(***************************************************************************)
(* From reset to the first task: the pins are put in a safe state, the pin *)
(* map is validated, and the controller configures what it will drive.     *)
(*                                                                         *)
(* safe_outputs() drives pins before anything has looked at the map;       *)
(* validate_esp32_gpio() looks at the pins that are assigned and passes    *)
(* over the others; Tmc2209Driver::initialize() wants its five assigned    *)
(* and looks no further.  What is right in the end is right by all three.  *)
(*                                                                         *)
(* The thirteen entries of the map are its positions in the array `pins`   *)
(* of validate_esp32_gpio(): six of each axis, then the stop input.        *)
(***************************************************************************)
EXTENDS AxisConfig

CONSTANTS
  Boards,           \* the configurations the firmware may have been built for
  LastGpio,         \* 39
  InputOnly,        \* input_only_gpio(): 34 .. 39
  Bootstrapping,    \* bootstrapping_gpio()
  EnableActiveLow   \* kTmcEnableActiveLow

Roles == 1 .. 13

Gpio == 0 .. LastGpio

First(ax) == IF ax = "AZ" THEN 1 ELSE 7

StepRole(ax) == First(ax)
DirectionRole(ax) == First(ax) + 1
EnableRole(ax) == First(ax) + 2
TxRole(ax) == First(ax) + 3
RxRole(ax) == First(ax) + 4
HomeRole(ax) == First(ax) + 5
StopRole == 13

ASSUME StartupAssumption ==
  /\ Boards \subseteq [wiring : [Roles -> Int], profile : [Axes -> Configs],
                       named : BOOLEAN]
  /\ LastGpio \in Nat
  /\ InputOnly \subseteq Gpio /\ Bootstrapping \subseteq Gpio
  /\ EnableActiveLow \in BOOLEAN

VARIABLES
  board,    \* the configuration built in
  at, n,    \* where the startup is, and at which entry of the map
  mode,     \* what each GPIO is configured as
  level,    \* the output register of each GPIO
  report,   \* GpioValidationResult
  up,       \* axes whose initialize() returned true
  ready     \* controller_initialized: EVENT STARTUP READY=

startupVars == <<board, at, n, mode, level, report, up, ready>>

Pin(role) == board.wiring[role]

None == -1

StartupInit ==
  /\ board \in Boards
  /\ at = "safe" /\ n = 1
  /\ mode = [pin \in Gpio |-> "unused"]
  /\ level = [pin \in Gpio |-> FALSE]
  /\ report = [valid |-> FALSE, duplicate |-> None, invalid |-> None,
               mask |-> {}]
  /\ up = {} /\ ready = FALSE

-----------------------------------------------------------------------------
(* Before the map is looked at *)

\* Bug: EN is low like the others, whatever its polarity.
LowLevel(role) == FALSE

SafeLevel(role) ==
  role \in {EnableRole(ax) : ax \in Axes} /\ EnableActiveLow

\* safe_outputs(), one pin of the six at a time: configured, then written.
\* Neither result is looked at; an input-only pin cannot be an output.
SafeOutput ==
  LET role      == IF n <= 3 THEN n ELSE n + 3
      driven(p) == p = Pin(role) /\ p \notin InputOnly
  IN  /\ at = "safe"
      /\ mode' = [p \in Gpio |-> IF driven(p) THEN "output" ELSE mode[p]]
      /\ level' = [p \in Gpio |->
                     IF driven(p) THEN SafeLevel(role) ELSE level[p]]
      /\ IF n < 6 THEN n' = n + 1 /\ UNCHANGED at
                  ELSE n' = 1 /\ at' = "prepare"
      /\ UNCHANGED <<board, report, up, ready>>

\* Queues, event group and UART0: without them the controller is not
\* initialized, and the tasks are started all the same.
Prepare ==
  /\ at = "prepare"
  /\ at' \in {"examine", "running"}
  /\ UNCHANGED <<board, n, mode, level, report, up, ready>>

-----------------------------------------------------------------------------
(* validate_esp32_gpio() *)

Reject(rejected) == report' = rejected /\ at' = "controller" /\ UNCHANGED n

\* Bug: a pin is not compared with the next one.
SharedLater(role) ==
  \E other \in Roles : other > role + 1 /\ Pin(other) = Pin(role)

\* A negative pin is equal to no pin that has been found valid.
Shared(role) == \E other \in Roles : other > role /\ Pin(other) = Pin(role)

\* One pass of the loop over the thirteen pins.
Examine ==
  LET pin    == Pin(n)
      marked == IF pin \in Bootstrapping
                  THEN [report EXCEPT !.mask = @ \cup {pin}] ELSE report
  IN  /\ at = "examine"
      /\ IF pin >= 0 /\ pin \notin Gpio
           THEN Reject([report EXCEPT !.invalid = pin])
         ELSE IF pin >= 0 /\ Shared(n)
           THEN Reject([marked EXCEPT !.duplicate = pin])
         ELSE /\ report' = IF pin >= 0 THEN marked ELSE report
              /\ IF n < 13 THEN n' = n + 1 /\ UNCHANGED at
                           ELSE n' = 1 /\ at' = "outputs"
      /\ UNCHANGED <<board, mode, level, up, ready>>

\* One pass of the loop over the eight that are outputs.
ExamineOutput ==
  LET pin == Pin(IF n <= 4 THEN n ELSE n + 2)
  IN  /\ at = "outputs"
      /\ IF pin \in InputOnly
           THEN Reject([report EXCEPT !.invalid = pin])
         ELSE IF n < 8
           THEN n' = n + 1 /\ UNCHANGED <<at, report>>
         ELSE Reject([report EXCEPT
                !.valid = /\ board.named
                          /\ \A ax \in Axes : AxisIsValid(board.profile[ax])])
      /\ UNCHANGED <<board, mode, level, up, ready>>

-----------------------------------------------------------------------------
(* PhysicalMotionController::initialize() *)

\* The stop input is configured first; either failure ends the call.
ConfigureStop ==
  /\ at = "controller"
  /\ \/ at' = "interrupts" /\ UNCHANGED mode
     \/ /\ report.valid
        /\ at' = "AZ"
        /\ mode' = [p \in Gpio |->
                      IF p = Pin(StopRole) THEN "input" ELSE mode[p]]
  /\ UNCHANGED <<board, n, level, report, up, ready>>

\* Bug: the driver does not ask for its pins.
AnyDriver(ax) == TRUE

\* Tmc2209Driver::valid_config(), as far as pins go.
DriverIsWired(ax) == \A role \in StepRole(ax) .. RxRole(ax) : Pin(role) >= 0

\* AxisController::initialize(), done parts of it: the home switch (1), STEP,
\* DIR and EN (2, 3, 4) and, EN put off and STEP low, the UART (5) and the
\* exchanges with the chip (6).  Whatever fails is the end of it.
InitializeAxis(ax) ==
  \E done \in 0 .. 6 :
    LET pins(role, part) == done >= part /\ Pin(role) >= 0
        as(p) ==
          IF pins(HomeRole(ax), 1) /\ p = Pin(HomeRole(ax))
            THEN "input"
          ELSE IF \/ pins(StepRole(ax), 2) /\ p = Pin(StepRole(ax))
                  \/ pins(DirectionRole(ax), 3) /\ p = Pin(DirectionRole(ax))
                  \/ pins(EnableRole(ax), 4) /\ p = Pin(EnableRole(ax))
            THEN "output"
          ELSE IF done >= 5 /\ p \in {Pin(TxRole(ax)), Pin(RxRole(ax))}
            THEN "uart"
          ELSE mode[p]
    IN  /\ at = ax
        /\ done > 1 => DriverIsWired(ax)
        /\ mode' = [p \in Gpio |-> as(p)]
        /\ level' = [p \in Gpio |->
                       IF done >= 4 /\ p = Pin(StepRole(ax)) THEN FALSE
                       ELSE IF done >= 4 /\ p = Pin(EnableRole(ax))
                         THEN EnableActiveLow
                       ELSE level[p]]
        /\ up' = IF done = 6 THEN up \cup {ax} ELSE up
        /\ at' = IF ax = "AZ" THEN "EL" ELSE "initialized"
        /\ UNCHANGED <<board, n, report, ready>>

\* The stop input may be active: then the controller is latched and not ready.
FinishController ==
  /\ at = "initialized"
  /\ ready' \in {FALSE, up = Axes}
  /\ at' = "interrupts"
  /\ UNCHANGED <<board, n, mode, level, report, up>>

\* configure_input_interrupts(): without them the controller only counts as
\* not ready.  Then the tasks are started.
ConfigureInterrupts ==
  /\ at = "interrupts"
  /\ ready' \in {FALSE, ready}
  /\ at' = "running"
  /\ UNCHANGED <<board, n, mode, level, report, up>>

StartupNext ==
  \/ SafeOutput \/ Prepare \/ Examine \/ ExamineOutput
  \/ ConfigureStop \/ (\E ax \in Axes : InitializeAxis(ax))
  \/ FinishController \/ ConfigureInterrupts

StartupSpec == StartupInit /\ [][StartupNext]_startupVars

-----------------------------------------------------------------------------
(* Properties *)

\* The startup keeps to its types (hardware_config.hpp:29-34).
StartupTypeOK ==
  /\ board \in Boards
  /\ at \in Axes \cup {"safe", "prepare", "examine", "outputs", "controller",
                       "initialized", "interrupts", "running"}
  /\ n \in Roles
  /\ mode \in [Gpio -> {"unused", "output", "input", "uart"}]
  /\ level \in [Gpio -> BOOLEAN]
  /\ report \in [valid : BOOLEAN, duplicate : Int, invalid : Int,
                 mask : SUBSET Bootstrapping]
  /\ up \subseteq Axes /\ ready \in BOOLEAN

OutputRoles ==
  UNION {{StepRole(ax), DirectionRole(ax), EnableRole(ax), TxRole(ax)} :
           ax \in Axes}

\* What the two loops are to find out: every pin assigned is one of the chip
\* and serves one purpose, and what is to drive a line can.
MapIsSound ==
  /\ \A role \in Roles : Pin(role) >= 0 =>
       /\ Pin(role) \in Gpio
       /\ \A other \in Roles \ {role} : Pin(other) # Pin(role)
  /\ \A role \in OutputRoles : Pin(role) \notin InputOnly

Validated == {"controller", "AZ", "EL", "initialized", "interrupts"}

\* The validation accepts the sound maps of valid configurations and no
\* other, and one it rejects it can name the pin of (validate_esp32_gpio).
AcceptsExactlySound ==
  at \in Validated =>
    /\ report.valid <=>
         /\ MapIsSound /\ board.named
         /\ \A ax \in Axes : AxisIsValid(board.profile[ax])
    /\ ~MapIsSound =>
         \/ \E role, other \in Roles :
              role # other /\ Pin(role) = report.duplicate
                /\ Pin(other) = report.duplicate
         \/ \E role \in Roles :
              Pin(role) = report.invalid /\ report.invalid # None

\* An axis that came up has every line to itself and configured for it; in
\* particular the axis after it took none of them (initialize, 128-155, with
\* Tmc2209Driver::valid_config).
UpMeansWired ==
  \A ax \in up :
    /\ \A role \in StepRole(ax) .. RxRole(ax) :
         /\ Pin(role) \in Gpio
         /\ \A other \in Roles \ {role} : Pin(other) # Pin(role)
    /\ \A role \in StepRole(ax) .. EnableRole(ax) : mode[Pin(role)] = "output"
    /\ \A role \in {TxRole(ax), RxRole(ax)} : mode[Pin(role)] = "uart"
    /\ Pin(TxRole(ax)) \notin InputOnly
    /\ Pin(HomeRole(ax)) >= 0 => mode[Pin(HomeRole(ax))] = "input"

\* With a sound map no motor is powered from the end of safe_outputs() on,
\* whichever step of the startup fails (app_main: "physical controller
\* initialization failed; outputs remain disabled").
StartsUnpowered ==
  at # "safe" /\ MapIsSound =>
    \A ax \in Axes : Pin(EnableRole(ax)) >= 0 =>
      /\ mode[Pin(EnableRole(ax))] = "output"
      /\ level[Pin(EnableRole(ax))] = EnableActiveLow
=============================================================================
