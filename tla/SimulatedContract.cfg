SPECIFICATION SimSpec
CONSTANTS
  MaxCount = 1000
  Profile <- const_Profile
  Turn = 12
  Nowhere = 999
  BenchLimit = 2
  MicrostepChoices = {1, 2}
  Positions <- const_Positions
  Deltas <- const_Deltas
  StepCounts <- const_StepCounts
  Statuses = {"ok", "lost"}
  Failures = {"homing_timeout"}
  MaxCommands = 3
  MaxSimulated = 1
INVARIANTS
  SimTrustIsReady
PROPERTIES
  SimHonoursContract
