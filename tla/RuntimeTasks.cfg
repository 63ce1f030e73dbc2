SPECIFICATION TasksSpec
CONSTANTS
  HasScheduler = TRUE
  HasHomeSwitch = TRUE
  HomeSide <- MCHomeSide
  MinAngle = 0
  MaxAngle = 1
  HomeOffset = 0
  Backoff = 1
  BenchLimit = 1
  MicrostepChoices = {1}
  StartMicrosteps = 1
  Debounce = 1
  MotionTimeout = 1
  HomingTimeout = 1
  EmergencyDebounce = 1
  LineOrders <- HomeAndPower
  MaxLines = 1
  MaxEdges = 2
  MaxTicks = 1
  MotionCapacity = 1
  OutboundCapacity = 1
  SafetyCapacity = 1
  HostTimeout = 1
  SwitchLevels <- AzimuthSwitch
PROPERTIES
  LinesAreAnswered
  LostHostIsGivenUp
  EdgesLatch
