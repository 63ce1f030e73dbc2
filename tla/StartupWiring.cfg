SPECIFICATION StartupSpec
CONSTANTS
  MaxCount = 1000
  Boards <- const_Boards
  LastGpio <- const_LastGpio
  InputOnly <- const_InputOnly
  Bootstrapping <- const_Bootstrapping
  EnableActiveLow = TRUE
INVARIANTS
  AcceptsExactlySound
  UpMeansWired
  StartsUnpowered
CHECK_DEADLOCK FALSE
