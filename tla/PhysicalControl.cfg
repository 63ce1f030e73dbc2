SPECIFICATION ScheduledSpec
CONSTANTS
  HasScheduler = TRUE
  HasHomeSwitch = TRUE
  HomeSide <- MCHomeSide
  MinAngle = 0
  MaxAngle = 1
  HomeOffset = 0
  Backoff = 1
  BenchLimit = 1
  MicrostepChoices = {1}
  StartMicrosteps = 1
  Debounce = 1
  MotionTimeout = 1
  HomingTimeout = 2
  EmergencyDebounce = 1
  StartupKinds = {"ready", "no_driver", "misconfigured", "critical", "unvisited"}
  MaxCommands = 2
  Positions <- MCPositions
  Deltas = {1}
  StepCounts = {1}
  SwitchLevels <- AzimuthSwitch
  InputLevels = {FALSE, TRUE}
  WriteOutcomes = {"lost"}
INVARIANTS
  OffWhenLockedOut
  StatusHidesNothing
PROPERTIES
  HeldInputLatches
  CoordinationEnds
  OneFailsBothStop
  HonoursContract
