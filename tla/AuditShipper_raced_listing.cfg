SPECIFICATION Spec
CONSTANTS
  MaxFiles = 3
  MaxLen = 2
  MaxLine = 2
  ReuseInodes = FALSE
  Truncates = FALSE
  MaxB = 2
  RecoverDays = 2
  MaxOutage = 1
  RotateWhileListing = TRUE
  MaxDay = 0
  MaxFaults = 1
  MaxLostAcks = 1
  MaxCrashes = 1
INVARIANTS
  NoSilentSkip
CHECK_DEADLOCK FALSE
