SPECIFICATION HostSpec
CONSTANTS
  HasScheduler = TRUE
  HasHomeSwitch = TRUE
  HomeSide <- MCHomeSide
  MinAngle = 0
  MaxAngle = 2
  HomeOffset = 0
  Backoff = 1
  BenchLimit = 1
  MicrostepChoices = {1}
  StartMicrosteps = 1
  Debounce = 1
  MotionTimeout = 1
  HomingTimeout = 1
  EmergencyDebounce = 1
  MaxLines = 0
  MaxTicks = 0
  MotionCapacity = 2
  OutboundCapacity = 2
  SafetyCapacity = 1
  HostTimeout = 2
  SwitchLevels <- AllOpen
  LineOrders <- StopAndMoveLines
  MaxEdges = 0
  Calls <- StopAndMove
  MaxCalls = 3
  MaxPolls = 1
INVARIANTS
  RestBetweenCalls
