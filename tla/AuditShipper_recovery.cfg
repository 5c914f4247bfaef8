SPECIFICATION Spec
CONSTANTS
  MaxFiles = 2
  MaxLen = 2
  MaxLine = 2
  ReuseInodes = FALSE
  Truncates = TRUE
  MaxB = 2
  RecoverDays = 2
  MaxOutage = 1
  RotateWhileListing = FALSE
  MaxDay = 2
  MaxFaults = 1
  MaxLostAcks = 1
  MaxCrashes = 2
INVARIANTS
  EofIsFinal
  RepeatsNeedALostAck
PROPERTIES
  NeverGoesBack
CHECK_DEADLOCK FALSE
