SPECIFICATION ProtocolSpec
CONSTANTS
  HasScheduler = TRUE
  HasHomeSwitch = TRUE
  HomeSide <- MCHomeSide
  MinAngle = 0
  MaxAngle = 1
  HomeOffset = 0
  Backoff = 1
  BenchLimit = 1
  MicrostepChoices = {1}
  StartMicrosteps = 1
  Debounce = 1
  MotionTimeout = 2
  HomingTimeout = 2
  EmergencyDebounce = 1
  StartupKinds = {"ready"}
  MaxCommands = 1
  Positions <- MCPositions
  Deltas = {1}
  StepCounts = {1}
  SwitchLevels <- AzimuthSwitch
  InputLevels = {FALSE}
  WriteOutcomes = {"written"}
  HostOrders <- HomingHost
  WithoutIds = FALSE
INVARIANTS
  CompletionIsFinal
