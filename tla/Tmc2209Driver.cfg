SPECIFICATION FairDriverSpec
CONSTANTS
  Counters = 4
  Microsteps = {16, 32}
  Currents <- MCCurrents
  Scale <- MCScale
  Configured <- MCConfigured
  MaxResets = 2
INVARIANTS
  LostDriverIsOff
  HealthyMeansConfigured
PROPERTIES
  OnlyLossesDisconnect
  DrivesAsExpected
