SPECIFICATION HomedProtocolSpec
CONSTANTS
  HasScheduler = TRUE
  HasHomeSwitch = TRUE
  HomeSide <- MCHomeSide
  MinAngle = 0
  MaxAngle = 2
  HomeOffset = 0
  Backoff = 1
  BenchLimit = 1
  MicrostepChoices = {1}
  StartMicrosteps = 1
  Debounce = 1
  MotionTimeout = 1
  HomingTimeout = 1
  EmergencyDebounce = 1
  StartupKinds = {"ready"}
  MaxCommands = 3
  Positions <- MCPositions
  Deltas = {1}
  StepCounts = {1}
  SwitchLevels <- Released
  InputLevels = {FALSE, TRUE}
  WriteOutcomes = {"written"}
  HostOrders <- MovingHost
  WithoutIds = FALSE
INVARIANTS
  CompletionIsTrue
PROPERTIES
  OlderCommandsNeverStart
  AnnouncedOnce
