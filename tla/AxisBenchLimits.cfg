SPECIFICATION Spec
CONSTANTS
  HasScheduler = TRUE
  HasHomeSwitch = TRUE
  HomeSide <- MCHomeSide
  MinAngle = 0
  MaxAngle = 1
  HomeOffset = 0
  Backoff = 1
  BenchLimit = 1
  MicrostepChoices = {1}
  StartMicrosteps = 1
  Debounce = 1
  MotionTimeout = 2
  HomingTimeout = 4
  MaxCommands = 3
  MoveAngles = {1, 2}
  MoveDeltas = {1}
  BenchMoves <- OneTwoSteps
INVARIANTS
  TrustedWithinLimits
