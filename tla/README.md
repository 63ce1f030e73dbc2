# A TLA+ development for Radiance3D

Radiance3D turns an antenna about two axes (azimuth and elevation) and takes a reading
at each point of a raster. An ESP32 drives two stepper motors through TMC2209 drivers; a
Python package on the host sends it commands over a serial line and drives the scan.
This directory holds TLA+ models of that control path, from the step pulse to the scan,
the TLC runs that check them, and proofs, checked by TLAPS, about an axis, a motor
driver, the controller of both axes, the protocol engine, the tasks, the calling host,
the simulator, the startup and the scan. Paths below are relative to the repository;
`fw/` stands for `firmware/controller/` and `py/` for `software/src/radiance3d/`.

## The system

| Component | Code | State it keeps | Operations | Modelled in |
|---|---|---|---|---|
| Axis controller | `fw/src/axis_controller.cpp` | position and target in steps, moving, enabled, trust and why it was lost, homing phase, debounced switch, command ids | move absolute / relative / bench, home, stop, emergency stop, enable, clear, current, microsteps, diagnostics, `service()` | `AxisOperations`, `AxisController` |
| Pulse scheduler | `fw/components/platform_idf/src/idf_step_pulse_scheduler.cpp` | armed alarm, STEP, completed pulses, sticky fault | arm, stop, consume, the alarm interrupt | the same |
| Physical controller | `fw/src/physical_motion_controller.cpp` | two axes, debounced and latched stop, coordinated move, the copy STATUS reads | the commands for one axis or both, `initialize()`, `service()`, `service_diagnostics()` | `PhysicalOperations`, `PhysicalMotionController`, `PhysicalSchedule` |
| Protocol engine | `fw/src/protocol.cpp` | last command id, what the last event was about | a line in, a reply out; events; heartbeat timeout | `ProtocolOperations`, `ProtocolEngine` |
| Runtime | `fw/main/controller_runtime.cpp` | three queues, event bits, stop request | four tasks, one interrupt | `ControllerRuntime` |
| TMC2209 driver | `fw/src/tmc2209_driver.cpp`, `stepper_driver.hpp` | connected, enabled, cached registers | initialise, enable, verified writes, status | `StepperDriver`, `Tmc2209Driver` |
| Host client | `py/motion_client.py`, `py/transport.py` | command id, events put aside | motion calls, stop, reset, the event wait | `HostClient` |
| Scan | `py/scanning.py` | the raster, the readings of a point | raster, capture of a point | `ScanCoordinator` |
| Simulator | `fw/src/motion_controller.cpp` | two axes whose orders are done within the call, fault, stop, latch, the failures a test asked for | the same commands, `service()`, the `simulate_*` methods, `reset()` | `MotionContract`, `SimulatedMotionController` |
| Hardware configuration | `fw/src/hardware_config.cpp` | none | pin validation, axis validation | `AxisConfig`, `HardwareStartup` |
| Platform | `idf_hardware_platform.cpp` | mode and level of each pin | configure, write, interrupts | pins: `HardwareStartup` |
| Interfaces, records, CLI, scripts | `py/interfaces.py`, `models.py`, `validation.py`, `cli.py`, `scripts/` | none that changes | value types, tooling | no |

How they interact. The *protocol task* reads a line, puts it in the motion queue
and writes what comes out of the outbound queue until the reply to that line is
out. The *motion task* owns the controller: it takes a pending stop request,
handles queued messages (each a line for `ProtocolEngine::handle`, a heartbeat
timeout or a diagnostics tick), calls `ProtocolEngine::service()`, which calls
`PhysicalMotionController::service()` and so `AxisController::service()`, and
publishes the enabled flags. The *safety task* polls the stop input and watches
the host's silence. Two interrupts cut in: the *timer* of an axis makes one STEP
pulse and counts it; the *stop input* drops STEP and EN of both axes at once and
asks the motion task to latch.

What is hard here:

- the timer interrupt between any two lock sections of `service()`, and between
  commands; completed pulses that are counted late;
- homing, a sequence of moves over many `service()` calls that any command, stop
  or loss may interrupt;
- a move of two axes of which one refuses, times out or loses its driver;
- a stop input that bounces, whose edge interrupts anything, and a latch that has
  to outlast every command already under way;
- completion that the engine infers from two `moving` flags at two times;
- bounded queues that are written without waiting, and replies that time out;
- a driver chip that answers over a lossy line and may lose its supply;
- two classes behind one interface, of which the engine knows only the interface;
- a startup that drives pins before it has looked at the pin map, and of which any
  step may fail;
- a client that waits for an event which may be of another command, may have
  gone before, or may never come.

What makes each component correct. *Axis*: a trusted position is where the shaft
is; trust, power, pulses and target are coherent; every move and homing ends and
says how. *Physical controller*: a latched stop holds; both axes or none; STATUS
never hides motion or a fault. *Protocol*: an old line starts nothing; completion
is true and comes in the order of the commands; a lost host means no power.
*Runtime*: every line is answered, and only a line that was answered TIMEOUT has its
reply come later; every edge latches; a silent host is given up. *Driver*: what
it believes of the chip is so, and when it does not know, the motor is off.
*Simulator*: what it promises is what the real controller promises. *Startup*: the
map is judged rightly, an axis that is up has its lines to itself, no motor is on.
*Client*: a call that returns has done what it says; every call ends. *Scan*:
every point once, with as many readings as the budget allows.

## The modules

```
AxisOperations ─┬─ AxisController
                └─ PhysicalOperations ─┬─ PhysicalMotionController ─┬─ PhysicalSchedule
                                       │                           └─ ProtocolEngine
                                       └─ ProtocolOperations ───────┘
                                              └─ ControllerRuntime ── HostClient
StepperDriver  <=  Tmc2209Driver                                ScanCoordinator
MotionContract <=  PhysicalMotionController, SimulatedMotionController
AxisConfig ─┬─ SimulatedMotionController
            └─ HardwareStartup

Operations_proofs ─┬─ AxisController_proofs            (with AxisController)
                   ├─ PhysicalMotionController_proofs  (with PhysicalSchedule)
                   │       └─ ProtocolEngine_proofs    (with ProtocolEngine)
                   └─ ControllerRuntime_proofs         (with HostClient)
Tmc2209Driver_proofs         (with Tmc2209Driver)
AxisConfig_proofs            (with SimulatedMotionController, HardwareStartup
                              and ScanCoordinator)
```

A line is EXTENDS, from left to right; `<=` is INSTANCE with a refinement mapping:
the module on the left is the abstract specification of those on the right.

(`ProtocolOperations` extends `PhysicalOperations`; `ProtocolEngine` extends both
`PhysicalMotionController` and `ProtocolOperations`.) For each module that is run
there is an `MC` module with the values that a .cfg cannot write down.

The `*Operations` modules hold the code's methods as operators from a state
record to an *outcome* `[axis or ctl, ok, fault]`, with the outcomes of their I/O
as arguments. They have no variables, so that the same operators are composed
with a timer interrupt (`AxisController`), with a second axis
(`PhysicalMotionController`), with a protocol (`ProtocolEngine`) and with tasks
(`ControllerRuntime`).

**AxisOperations / AxisController.** One record is the C++ `AxisState`, the
private members of `AxisController`, and what its driver and scheduler keep.
Commands take the scheduler's lock once and are one action each. `service()` takes
it several times: it is split into its head (`ServiceBegin`), one action for each
counted pulse (`ServicePulse`), and homing (`ServiceHomingStep`); the two alarms
(`AlarmRise`, `AlarmFall`) come between any of them. Without a scheduler
(`HasScheduler = FALSE`, the constructor's default) `service()` drives STEP itself
(`CooperativeRise`, `CooperativeFall`). `drift` (how far the counter is from the
shaft since trust was gained) and `standing` (the last order accepted) are
history variables. Angles are whole full steps, so rounding and speed do not
appear; whether a speed is legal is a Boolean argument. Time is an age for each
timed thing, which stops growing at its limit: `elapsed(now, t, d)` is `age = d`.

**PhysicalOperations / PhysicalMotionController.** Two axis records, the
debounced input, the latch, `coordinated_move_active_`, `initialized_` and the
`ControllerState` copy that `synchronize_state()` refreshes, early returns without
that refresh included. A whole pulse is one action here. One timer and one driver
fail in a step, not both. `PhysicalSchedule` adds the motion task's schedule.

**ProtocolOperations / ProtocolEngine.** A line is a record with its operation and
arguments and, sometimes, an id; parsing is a choice between a well-formed line
and `MALFORMED`. Replies and events are kinds with an id, a code where a property
needs one. The engine's `previous_*` members are there. At most one line is
handled between two calls of `service()`, as the protocol task waits for the
reply and the motion task serves before it sleeps.

**ControllerRuntime.** Each task is a small program over its queues; an action goes
from one queue, flag or I/O operation to the next. Handlers are the operators above.
The stop interrupt is an action that may come between any two; it comes when the level
it reads is active, so a pulse that is over before that is none. The event bits are
cleared and set in two actions (`ClearFlags`, `SetFlags`), between which the safety task
may read them. A reply may take longer than the protocol task waits: `ResponseTimeout`
may come whenever the outbound queue is empty, and `overdue` keeps, as history, the lines
it was for. `SwitchLevels` are what the home switches may read in a call. Notifications only
shorten waits that end anyway, so a waiting task may always go on. Characters are
not modelled: the serial line carries lines.

**HostClient.** `request()`, `read_event()`, `_wait_for_motion()` over the whole of
`ControllerRuntime`. The line loses nothing. A poll of 0.25 s, a call's number of
polls, and that a host in a call is heard well within the heartbeat timeout
(0.25 s against 2 s) are in the guards.

**Tmc2209Driver.** The driver's cached settings, the chip's registers and IFCNT, and
the pending verified writes of the operation under way. A datagram or a reply may be
lost and the chip may lose its supply between any two exchanges, those of `initialize()`
included. `unseen` keeps, as history, that it did so where `initialize()` was still to
clear GSTAT (deviation 16), `disturbed` that it did so within the present write. Checksums
and frames are one choice, delivered or not.

**StepperDriver** is what `AxisController` relies on of its driver: connected or not,
powered or not, one call at a time. A setting is taken or costs the driver; a lost
driver is never powered and comes back through `initialize()` only; every call returns.
`Tmc2209Driver` implements it with `busy` read off the operation under way.

**MotionContract** is what a caller of `MotionController` may rely on whichever class
is behind it. Of each axis it shows whether it works on an order and on which, whether
a homing is in progress, trust, power, and LAST_COMMAND. Its initial predicate is
`Consistent` (what may be relied on in every state); its steps say what an order
accepted or refused, a `service()`, a stop and a release may change: a refusal sets
nothing in motion, trust is gained only by the end of a homing and outlives an order
only if that is done, the latch ends everything and under it nothing comes to life. The
two classes differ in one thing, `PowerUnderLatch` (deviation 11). `CalledOff` allows
what `PhysicalMotionController` does with the axis it asked first when the other one
refuses, and with the id of a refused move (deviation 14).
`PhysicalMotionController!HonoursContract` maps a unit to an axis record;
`SimulatedMotionController!SimHonoursContract` to an axis that never works.

**AxisConfig** is the validity of an `AxisConfig` structure as both classes compute it,
with the gear ratio as a fraction. **SimulatedMotionController** holds the methods as
operators like those of `PhysicalOperations`, and a `service()` and the `simulate_*`
methods of the tests as actions. Angles are whole units, `Turn` of them a turn; what
comes of dividing by no steps is `Nowhere`.

**HardwareStartup** goes from reset to the tasks: `safe_outputs()` a pin at a time, the
two loops of `validate_esp32_gpio()` an entry at a time, `initialize()` of the
controller and of each axis with the parts it has done when it fails, the input
interrupts. The generated constants are a set of boards.

**ScanCoordinator.** The raster as a sequence, and the capture of its points one
reading at a time, with the time that passes unheard by the controller.

## What is checked

`tlc -config X.cfg M` in this directory runs one. Sizes are of the model, on two
workers.

| Run | Module, configuration | Shows | Bounds and why they do |
|---|---|---|---|
| axis_scheduled | `MCAxisController`, `AxisScheduled.cfg` | trust, power, pulses, targets, completions, drift; every move and homing ends | 3 commands: enough for home or move, interrupt it, start another; soft limits 0..1 with relative moves to 2 and bench steps −1, 2 outside; motion timeout 2, homing 4 ticks, so that a homing can succeed and time out in every phase. 399 000 states |
| axis_cooperative | `MCAxisController`, `AxisCooperative.cfg` | exact position without a timer | the same with two microstep settings. 232 000 states |
| physical_control | `MCPhysicalSchedule`, `PhysicalControl.cfg` | failed start-ups, both-or-none, the STATUS copy, the contract; liveness of the latch and of coordinated moves | starts homed, or not come up in each way; one command after home, two after a failed start; any presses, pulses, timer failures, switch edges of azimuth, driver readings. 312 000 states |
| protocol_moves | `MCProtocolEngine`, `ProtocolMoves.cfg` | truth and order of completions (none for an older command, none again until a line came in between), order of ids | two lines after home, new, repeated or old (moves of both axes, clears), with the emergency input pressed and released at any time, and any silence. 330 000 states |
| runtime_tasks | `MCControllerRuntime`, `RuntimeTasks.cfg` | every line answered, every edge latched, a silent host given up, homing or not | all queues of length 1, so that each is full at every place. Either one HOME of azimuth, whose switch may close and open as it homes, or up to two edges (a press and its release) with one motor step or one diagnostics tick (`HomingOrEdges`, `SwitchFoundHoming`): homing, edges and lines all at once are past what TLC can go through with liveness. 415 000 states |
| tmc2209_driver | `MCTmc2209Driver`, `Tmc2209Driver.cfg` | what is believed of the chip; the driver its axis relies on, calls that return included | IFCNT modulo 4 (its wrap is met), two supply losses, at any time, two microstep settings, two currents that fit and one that does not. 557 000 states |
| host_moves | `MCHostClient`, `HostMoves.cfg` | a call that returns has been carried out; no reply lingers but of a line answered TIMEOUT | two moves of two steps, the first of which may be given up at once and be under way or done when the second is asked for; motion queue of one, outbound queue of two, no home switch closed, no edges. 3 392 000 states |
| host_waits | `MCHostClient`, `HostWaits.cfg` | the end of a move is not lost on the way, every call ends | one call, a move of two steps or of none. 351 000 states |
| scan_raster | `MCScanCoordinator`, `ScanRaster.cfg` | the raster and the reading budget | steps that divide the range and not, a single point, a step beyond the range, both directions, 1–2 samples, 0–1 retries |
| simulated_contract | `MCSimulatedMotionController`, `SimulatedContract.cfg` | what a known position takes; the contract, kept by the simulator | every command with arguments inside, outside and at the limits of the axis and of the configuration; a gear whose steps come out even with one of two microstep settings only; three commands, one thing a test makes happen. 84 000 states |
| startup_wiring | `MCHardwareStartup`, `StartupWiring.cfg` | the map is judged rightly; an axis that is up has its lines; motors are off | every map with up to two of thirteen entries missing, beyond the chip, input-only or the pin of another entry; bad gear, limits and names; every step may fail. 46 000 states |
| protocol_heartbeat | `MCProtocolEngine`, `ProtocolHeartbeat.cfg` | *violated*: `HeartbeatStops` | one HOME |

Each property has a *Bug* operator beside the definition it guards: the same
definition with a plausible slip, which breaks the property in that run. Of the type
invariants only that of the axis is a property of a run; all of them are proved.

The other .cfg files are not runs. `AxisInterruptedHoming.cfg`, `AxisBenchLimits.cfg`,
`AxisStalePulse.cfg`, `PhysicalFaults.cfg`, `ProtocolBenchTrust.cfg`,
`ProtocolHalfMove.cfg`, `ProtocolHomingDone.cfg`, `ProtocolEvents.cfg`,
`RuntimeInterrupt.cfg`, `HostNoMove.cfg`, `HostShortMove.cfg`, `HostStaleFault.cfg` and
`ScanTrust.cfg` show the deviations below as counterexamples; where one states two
properties, `tlc -continue` shows both.

### Fairness

- `AxisController!FairSpec`: weak fairness of the motion task, whose loop calls
  `service()` after at most 1 ms (`ulTaskNotifyTake(pdTRUE, pdMS_TO_TICKS(1))`),
  and strong fairness of `Tick`: the clock does not stop because somebody is busy
  whenever it could advance. The timer interrupt is *not* assumed to fire.
- `PhysicalSchedule!ScheduledSpec`: `service()` is called for ever, and the clock.
  `beat` flips with every call so that this needs no ENABLED. Neither host, timers,
  switches nor readings are assumed to do anything.
- `ControllerRuntime!TaskFairness`: the loops of motion, safety and protocol task go
  round (motion wakes after 1 ms, safety after 25 ms, the protocol task's reads and
  waits time out after 20 and 250 ms), and time passes. Host, stop input and
  diagnostics task may be silent for ever. Nothing is asked of the time a reply takes.
  The safety task reads the event bits, now and then, outside the few instructions
  between `xEventGroupClearBits` and `xEventGroupSetBits` (223-225): the periods of
  the two tasks are not locked to one another. Were they, each reading could fall
  where no driver shows as enabled, and a silent host would never be given up.
- `HostClient!HostFairness`: the same, and the client process reads what comes.
- `Tmc2209Driver!FairDriverSpec`: a call of the driver goes on to its next exchange. A
  read waits no longer than its timeout and is repeated a fixed number of times, so
  every exchange ends one way or the other; nobody is assumed to call or to answer.

## Known deviations

While writing the models down these disagreements between the code and what its
comments, tests or documents say came up. The first is a listed run; where another one
names a configuration, that shows the counterexample.

1. **A lost host does not stop a homing** (`ProtocolHeartbeat.cfg`, `HeartbeatStops`;
   not so without home switches, where no homing starts). `stop()` and
   `set_enabled(false)` leave `homing_phase` (`axis_controller.cpp:569-596`);
   `service_homing` starts the next leg at the next switch edge and enables the driver
   again (467-480). The same after STOP and after a disable
   (`AxisInterruptedHoming.cfg`, `StopHolds` and `DisableHolds`). An emergency stop does
   end it: `EmergencyStopHolds` is proved.
2. **A queued command powers the axes after the stop interrupt**
   (`RuntimeInterrupt.cfg`, `InterruptHasDropped`), until the motion task reaches the
   top of its loop (`controller_runtime.cpp:303-312`).
3. **The client waits for a move of no length** (`HostNoMove.cfg`, `NoIdleWait`):
   `MOVE_REL` always answers `ACCEPTED=1` (`protocol.cpp:449`). Likewise for a move that
   ends before the first `service()` after it (`HostShortMove.cfg`), which
   `ProtocolEngine::service` does not see (613-615).
4. **A completed pulse outlives a stop** (`AxisStalePulse.cfg`,
   `PositionMatchesPulses`): `IdfStepPulseScheduler::stop()` keeps `completed_pulses_`
   (118-128), and the next move counts it in its own direction. A trusted position is
   then a step off for each such pulse. Several may be left over: those completed
   between the counting loop and the end of `service()` survive the legs of a homing
   (with a backoff of 2 and bench moves of two steps a drift of two is reached). But it
   is never further off than pulses were left over: `DriftIsPaidFor`.
5. **Bench moves leave the soft limits** with the position trusted
   (`AxisBenchLimits.cfg`, `TrustedWithinLimits`), though `docs/firmware/protocol.md`
   says motion commands keep to them; and their answer says `POSITION_TRUSTED=0` when it
   is 1 (`ProtocolBenchTrust.cfg`, `BenchIsUntrusted`).
6. **The fault that broke a move is reported as STOPPED** (`PhysicalFaults.cfg`,
   `FailureIsNamed`): `stop(true)` overwrites it
   (`physical_motion_controller.cpp:183-193`).
7. **CLEAR_FAULT within the debounce time of a press clears the latch**
   (`PhysicalFaults.cfg`, `ClearRequiresRelease`), as it looks at the debounced level
   only (345-350).
8. **MOTION_COMPLETE** is sent between two legs of a homing (`ProtocolHomingDone.cfg`,
   `CompletionIsFinal`), may be sent for a move one axis of which was switched off and
   on (`ProtocolHalfMove.cfg`, `CompletionIsOfBoth`), and is replaced by `FAULT
   CODE=NONE` when a move arrives under an old refusal (`ProtocolEvents.cfg`,
   `CompletionIsAnnounced`; `protocol.cpp:609-619`). And it comes a second time for the
   command before, when a move is stopped by a press of the emergency input that is
   cleared within the debounce time (`ProtocolEvents.cfg`, `AnnouncedOnlyOnce`): the
   engine sees motion end under no fault. Between the legs of a homing it may come any
   number of times, with the id of the command before: hence what `AnnouncedOnce`
   excepts.
9. **An event of an earlier call fails the next one** (`HostStaleFault.cfg`,
   `RestBetweenCalls`): the fault event of a stop or refusal stays in the queue and
   `_wait_for_motion` takes it for its own (`motion_client.py:254-255`) while the axis
   moves.
10. **A scan is silent while it settles and measures** (`ScanTrust.cfg`,
    `MeasuresOnTrust`): with the defaults, 0.25 s and 2 s, longer than the firmware's 2
    s heartbeat timeout, after which the drivers are off.
11. **The simulator enables and moves a motor under a latched emergency stop**
    (`set_axis_enabled` and `bench_move_steps`, `fw/src/motion_controller.cpp:310-361`,
    do not look at `emergency_stop_active`), and nothing but `reset()` releases its
    latch; `PhysicalMotionController` refuses both and releases the latch by a clear.
    This is the constant `PowerUnderLatch` of the contract.
12. **Positions of the simulator.** `move_absolute` does not update
    `internal_step_position`, so that a bench move after it jumps the commanded position
    back (324-328); with a configuration of no steps per turn the same lines divide by
    0.
13. **Order of startup.** `safe_outputs()` drives the pins of the map before
    `validate_esp32_gpio()` has looked at it: with a pin shared by two entries EN may be
    driven to the level of STEP (hence the condition in `StartsUnpowered`; the profile
    generator refuses such a map). `validate_esp32_gpio()` passes over negative pins for
    outputs too; it is `Tmc2209Driver::valid_config()` that wants them. When
    `configure_input_interrupts()` fails, only `EVENT STARTUP READY=0` says so: the
    controller takes commands all the same (553-556).
14. **A refused `MOVE_ABS` may leave its id as the azimuth's LAST_COMMAND**: the azimuth
    is asked first and, when it is there already, has done the order when the elevation
    refuses it (`physical_motion_controller.cpp:244-252`).
15. **A refused current leaves its sense range in memory**
    (`tmc2209_driver.cpp:227-238`), and the next microstep or interpolation setting
    writes it to the chip. With the profile of the repository every current comes to the
    same range, which is what `HealthyConfigured` assumes.
16. **A supply loss within `initialize()` may go unnoticed.** It clears GSTAT after it has
    written GCONF, SLAVECONF, TPOWERDOWN and PWMCONF (`tmc2209_driver.cpp:170-175`). If
    the chip loses its supply between these writes and the clearing, that wipes out the
    reset flag, and the driver comes up connected and healthy on a chip some of whose
    registers are those of power-on. `HealthyMeansConfigured` therefore excepts `unseen`; without `~unseen`
    TLC has the counterexample in `Tmc2209Driver.cfg`. To clear GSTAT before the other
    writes would close the gap.
17. **A reply may come out after its line was answered ERR INTERNAL**
    (`controller_runtime.cpp:450-457`): a diagnostics tick and a setting read and write
    registers at 20 ms each, together more than 250 ms. The reply stays on its way and is
    written among the answers to the next line, before its own. The client tells it by
    its id (`ReturnedMeansArrived` holds with late replies); a host that counts answers is
    one behind from then on. `OnlyOverdueLinger` says that nothing else lingers.

## What is proved

Eight modules hold proofs: `Operations_proofs`, `AxisController_proofs`,
`PhysicalMotionController_proofs`, `ProtocolEngine_proofs`, `ControllerRuntime_proofs`,
`Tmc2209Driver_proofs`, `AxisConfig_proofs` and `MotionContract`. In each, every operation
is shown to keep an inductive invariant; the theorems follow from it by PTL. The only
assumptions are the named `ASSUME`s of the modules, which TLC evaluates in every run, and
what a theorem itself names.

### One axis

`AxisController_proofs` proves about `AxisController!Spec`, for every configuration
that `ConfigAssumption` admits (any limits, microstep settings, homing geometry,
timeouts; with or without switch and timer) and every set of requests
`CommandAssumption` admits:

| Theorem | Property |
|---|---|
| `Invariance` | `IInv`, the inductive invariant |
| `TypeCorrectness` | `TypeOK` |
| `TrustExplained` | `TrustIsExplained` |
| `MovingPowered` | `MovingIsPowered` |
| `EnabledMeansOutputs` | `EnabledUnlessLost` |
| `NoPulseAtRest` | `PulsesOnlyWhileMoving` |
| `MoveDriven` | `MoveIsDriven` |
| `NoOvershoot` | `TargetAhead` |
| `EmergencyStopIsFinal` | `EmergencyStopHolds` |
| `DriftPaidFor` | `DriftIsPaidFor` |
| `CooperativeIsExact` | `PositionMatchesPulses`, for an axis without a timer |
| `CompletionsOnlyAdvance` | `CompletionsAdvance` |
| `CompletionIsAtTarget` | `CompletedAtTarget` |

None of the properties is inductive alone. That a moving axis is powered needs that
ENABLED means outputs when a move starts without enabling; that no pulse is armed at
rest needs the pairing of the armed alarm with the move through every `stop` and
`fail`; that an emergency stop holds needs that no homing is live after it; and the
target stays ahead only because pulses consumed by `service()` (`credit`) are counted
only while the axis moves. `IInv` conjoins the parts over the axis record (`Sane`)
with two that tie it to `service()` and to the last order: consumed pulses exist only
inside `service()`, and after an emergency stop the axis is `Resting`.

The proof has one lemma per operator of `AxisOperations` (from a sane record of the
right type to another, and from rest to rest where that matters), in
`Operations_proofs`, which the proofs about both axes cite as well; a lemma per
action of `AxisController`, `StepIInv` over all of them, and PTL at the end.

Four of these go beyond `IInv`. *Drift*: most operations are `Quiet` (of a trusted axis
they neither count nor make a pulse; they may start a move, which arms the pulse of its
first step), so that the distance astray and the pulses left over add up to what they
did; `CountingPays` and `AlarmsPay` deal
with the rest, the counting of a pulse and the two alarms. Without a timer nothing can
be left over, and `CoopInv` (no pulse armed or completed, no drift of a trusted axis) makes
of it an invariant. *Completions*: a second invariant, `Numbered`, orders
`lastCompleted`, the id under way and the last id issued; operations that are `InOrder`
keep it, and complete at most the id under way.

### Both axes

`PhysicalMotionController_proofs` proves, for every configuration that the assumptions
admit, any commands, and any number of pulses counted in one `service()`, about
`Behaviours == Spec \/ HomedSpec \/ ScheduledSpec`:

| Theorem | Property |
|---|---|
| `TypeCorrectness` | `TypeOK` |
| `LockedOutIsOff` | `OffWhenLockedOut` |
| `StatusIsHonest` | `StatusHidesNothing` |
| `BothOrNone` | `OneFailsBothStop` |
| `Implements` | `HonoursContract`, the refinement of `MotionContract` |

The inductive invariant is `TypeOK /\ Good(ctl) /\ Contract!Consistent`. `Good` has two
parts. `Sound`: each axis is sane as in the proofs of one axis, no pulse of it is half
made between two calls, and it is dormant while the controller is locked out or not
initialised. `Honest`: the copy STATUS reads shows motion and fault, which needs that
each early return without `synchronize_state()` leaves the copy above the truth. Each
handler is shown to be `Obeyed` (a command: types, `Good`, and of each axis one of the
changes the contract has for an order accepted, refused or called off) or `Served` (what
happens unasked). At the level of an axis these are `Obeys` and `Serves` of
`Operations_proofs`, one lemma for each operator.

`service()` counts the completed pulses of an axis at once, by the recursive function
`CreditPulses`. What the proof needs of it holds of each pulse and is kept by the next,
an induction over Nat that the library's theorem cannot give here, as it takes an
operator. `NatSetInduction` states it with a set instead, from the library's facts that
< is well-founded on Nat and that what is not empty has then a least element; `Iterates`
and `CreditPulsesKeeps` apply it.

The proof corrected the contract. It had said that an order only ends while the axis works
on it, as every run showed; but a HOME that is stopped in its backoff and again in its slow
approach ends, at the switch, at rest (`apply_home_offset` with nothing left to go).
`MaxCommands = 4` shows it to TLC.

### The protocol engine

`ProtocolEngine_proofs` proves, for any configuration and any set of lines, about
`ProtocolBehaviours == ProtocolSpec \/ HomedProtocolSpec`:

| Theorem | Property |
|---|---|
| `ProtocolTypes` | `ProtocolTypeOK` |
| `CompletionsAreTrue` | `CompletionIsTrue` |
| `NothingOlderStarts` | `OlderCommandsNeverStart` |
| `CompletionsComeInOrder` | `AnnouncedOnce`, if every line has an id |
| `EngineKeepsController` | `OffWhenLockedOut`, `StatusHidesNothing` |

`EngineInv` conjoins the controller's `Good`, which each handler of the protocol keeps
because it makes calls of `MotionController` only (and `fault()` only overwrites the
fault of the copy), with `IdsPart`: no axis works on or has completed a command beyond
the engine's last id, and an event names none. Where every line has an id,
`AnnouncedPart` adds that what was announced last is no later than what some axis
completed last, that an axis at work has completed nothing later than what it works on,
and that from an announcement to the next line nothing moves. `Given` is what a line may
do to ids, `Followed` what `service()` may: an axis keeps its ids, or completes the one
under way. That `EngineInv` is inductive was checked by TLC on `ProtocolMoves.cfg`, and
with homings from power-on, before the proof.

The proof corrected `AnnouncedOnce`, which did not except homings: no run was long enough
for a homing to be announced twice with the id of the command before (deviation 8).

### The tasks and the host

`ControllerRuntime_proofs` proves, for any lengths of the queues, any lines or calls, any
number of edges, ticks and polls, and any configuration of the axes:

| Theorem | Of | Property |
|---|---|---|
| `AnsweredInTurn` | `RuntimeSpec` | `OnlyOverdueLinger` |
| `RuntimeTypes` | `RuntimeSpec`, under `OpenSwitches` | `RuntimeTypeOK` |
| `ReturnedCallsArrived` | `HostSpec`, under `OpenSwitches` | `ReturnedMeansArrived` |
| `ClientTypes` | `HostSpec`, under `OpenSwitches` | `ClientTypeOK` |

*Answers.* The property is not inductive: that the reply which ends a wait is the only
trace of its line needs that no token is there twice. The invariant, `OneUnderWay`, says
that every message of a line in the motion queue and every reply in the outbound queue is
of an overdue line or of the one waited for, and of that one that there is either a
message or a reply, not both and at most once; no overdue token is beyond the one last
issued. A reply that is dropped leaves the task waiting
with both queues clear of it. The theorem assumes nothing: replies may be dropped or take
any time, and `Handled` is not opened, so that it does not rest on the controller.

*Calls that return.* Late and dropped replies are allowed here too. Seen from the end of a call
the property says nothing of what leads there, so the invariant, `ClientInv`, says of a
motion call under way what may be on the wire, in the queues and in the host's buffers:

- `Unanswered`: until the call's line is handled and its answer read, nothing on the way
  to the host carries the call's id as a reply that accepts it;
- `Accepted`: or the engine has handled it, each axis it is for has done it (`DoneBy`),
  works on it (`WorksOn`) or has broken it off with a fault (`BrokenOff`), and as long as
  one has not done it the client is still waiting and nothing on the way says `OK` or
  `MOTION_COMPLETE` with its id.

It rests on the ids being in order. `Lines`: of the lines the host has on their way only
one has the call's id, and those after it ask or stop. `Lawful`: what comes back names no
command as complete that the engine has not handled. `UpTo`: no axis works on or has done
a command beyond the engine's last id. `Operations_proofs` has, for each operator of an
axis, how it treats ids wherever the emergency interrupt falls: it begins no order but the
one it is given (`Onward`), and if it accepts one, the axis has taken it up (`TakesUp`).
An axis that gives up its order without having done it is left with a fault. Nothing
clears that before the call is over, and under a fault the engine announces no completion.

What the theorem does not say: `OpenSwitches` (`SwitchLevels` holds the released ones
only) and timers and drivers that do their part, so that a HOME gets no further than its
fast approach. With switches that close, every leg of a homing that comes to its distance counts as
completed (`axis_controller.cpp:390`), and the call may return between two legs
(deviation 8).

*Types.* `RuntimeInv` gives each task its own part (`OwnedPart` of the motion task,
`QueuedPart`, `LocalPart`); it needs that no order reaches the controller but one that
`ProtocolEngine` can parse (`AllOrders`), which the modules assume of their lines and
calls. The client's types follow from `ClientInv`.

### The driver

`Tmc2209Driver_proofs` proves about `Tmc2209Driver!DriverSpec`, for any profile, counter
width and number of supply losses:

| Theorem | Property |
|---|---|
| `LostDriverOff` | `LostDriverIsOff` |
| `DriverImplements` | `Stepper!StepperSpec`, the safety part of `DrivesAsExpected` |
| `DisconnectsForLosses` | `OnlyLossesDisconnect` |
| `HealthyConfigured` | `HealthyMeansConfigured`, if `OneRange` (deviation 15) |
| `DriverTypeCorrectness` | `DriverTypeOK` |

That the chip is what the driver believes cannot be an invariant while writes are
pending, so it is one about the future: `BeliefPart` says that what each register will
hold once the pending writes are done (`Ends`) is what the operation will have made the
driver believe, as long as no reset of the chip is there to be noticed (`Noticed`: none
was `unseen`, and GSTAT does not tell of one, or is still to be cleared). `CountPart` is the argument of
`write_register_verified()`: if the counter has moved on by one since it was read, the
write at the head of the queue has been done. `QueuePart` says that GSTAT is cleared
before all else, `SensePart` that the sense range in memory is the profile's.

### Simulator, contract, startup, scan

`AxisConfig_proofs` proves of the simulator, for any profile, commands and failures,
`SimTypeCorrectness` (`SimTypeOK`), `SimTrust` (`SimTrustIsReady`) and `SimImplements`:
`SimSpec => SimHonoursContract`. Each method is `Lawful`: it leaves the record `Good` and
changes each axis in one of the four ways that the contract has for an axis that does
all it does within a call.

`MotionContract` holds one theorem, `ContractKeepsConsistent`: what a caller may rely on
(`Consistent`) follows from the steps the contract allows. With a refinement it is so of
the class that implements it.

And of the startup `AxisConfig_proofs` proves, for any board, any pins and whichever
step fails, `StartupTypeCorrectness` (`StartupTypeOK`), `ValidationIsExact`
(`AcceptsExactlySound`), `StartupLeavesOff` (`StartsUnpowered`) and `UpIsWired`
(`UpMeansWired`). `LoopPart` is the invariant of the two loops of
`validate_esp32_gpio()`: the entries gone through are sound. Hence an accepted map is
(`ValidPart`, `VerdictPart`), the pins of a sound map are distinct, and no later step
undoes what an earlier one did to a line (`OffPart`, `WiredPart`).

And of the scan it proves, for any ranges, steps, samples and retries that
`ScanAssumption` admits, `ScanTypes` (`ScanTypeOK`), `EveryPointOnce` (`RasterIsWalked`) and
`BudgetIsUsed` (`RetriesAreUsed`). The values of an axis ascend by at most a step and are
the angles wanted (`ValuesAscend`, from what div and mod are); numbering the cells of the
raster by row and place is one-to-one (`Cells`); so `RasterPoints` is a bijection from
`1 .. Len(points)` to the pairs of angles wanted, which gives their number. For the
readings, `Capturing` says that accepted, rejected and left add up to the budget.

### Only model-checked

- Liveness (`MovesEnd`, `HomingEnds`, `HeldInputLatches`, `CoordinationEnds`,
  `LinesAreAnswered`, `LostHostIsGivenUp`, `EdgesLatch`, `CallsEnd`, and that the
  driver's calls return in `DrivesAsExpected`): it needs ENABLED or fairness, out of
  reach.
- `MovesAreHeardOf`, that the end of a move is not lost on the host: it is so within the
  bounds of its run and not for every value of the constants. A move of one step may end
  before the first `service()` after it (deviation 3, `HostShortMove.cfg`), and a full
  outbound queue drops the event.

## What is not modelled

- Speed, acceleration and step timing; rounding of degrees. Whether a speed is legal is
  a Boolean, an angle a number of whole steps.
- The wording of replies; the parser and its numeric limits, and with them malformed
  headers such as `CMD 0`; characters and over-long lines.
- The time a handler takes: so not that a UART exchange with one driver may delay the
  pulses of the other axis, nor the task watchdog.
- Wrap-around of command ids and of the microsecond clock.
- The host's serial port coming and going; STATUS and configuration queries beyond what a
  call waits for; units, warnings and averages of readings.
- The bytes of the UART and the registers of the ESP32 (`idf_hardware_platform.cpp`); of
  the platform the model keeps the mode and level of each pin.
- Value types, command line and scripts, which keep no state.

## Plan

Done, in this order: the axis and its proofs; two axes; protocol; runtime; driver; client;
scan; the contract of `MotionController` with the two classes that implement it; the
`StepperDriver` interface and its refinement; the simulator; startup and pin validation;
the proofs about driver, simulator, contract and startup, and about drift and
completions of the axis; those about both axes, the protocol engine, the tasks, the
scan and the calls of the host.

What is left:

1. Home switches that close in the proofs and runs of the host, with what a leg of a homing
   means for a call that waits (deviation 8).
2. Malformed headers and their answers; that every latch is announced.
3. An abstract serial session (one request, one answer, in order) that `ControllerRuntime`
   implements, and the client's recovery after a lost or late answer.
4. The time a handler takes, as a bound on what passes between two `service()` calls.
