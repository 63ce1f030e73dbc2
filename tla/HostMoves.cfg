SPECIFICATION MovesSpec
CONSTANTS
  HasScheduler = TRUE
  HasHomeSwitch = TRUE
  HomeSide <- MCHomeSide
  MinAngle = 0
  MaxAngle = 4
  HomeOffset = 0
  Backoff = 1
  BenchLimit = 1
  MicrostepChoices = {1}
  StartMicrosteps = 1
  Debounce = 1
  MotionTimeout = 1
  HomingTimeout = 1
  EmergencyDebounce = 1
  MaxLines = 0
  MaxTicks = 0
  MotionCapacity = 1
  OutboundCapacity = 2
  SafetyCapacity = 1
  HostTimeout = 2
  SwitchLevels <- AllOpen
  LineOrders <- TwoStepsLines
  MaxEdges = 0
  Calls <- TwoSteps
  MaxCalls = 2
  MaxPolls = 1
INVARIANTS
  ReturnedMeansArrived
  OnlyOverdueLinger
