SPECIFICATION Spec
CONSTANTS
  MaxFiles = 3
  MaxLen = 2
  MaxLine = 2
  ReuseInodes = FALSE
  Truncates = FALSE
  MaxB = 2
  RecoverDays = 2
  MaxOutage = 1
  RotateWhileListing = FALSE
  MaxDay = 0
  MaxFaults = 0
  MaxLostAcks = 1
  MaxCrashes = 1
INVARIANTS
  TypeOK
  NoSilentSkip
  NoFalseGap
PROPERTIES
  Delivers
CHECK_DEADLOCK FALSE
