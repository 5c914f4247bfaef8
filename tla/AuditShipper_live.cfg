SPECIFICATION FairSpec
CONSTANTS
  MaxFiles = 2
  MaxLen = 2
  MaxLine = 2
  ReuseInodes = FALSE
  Truncates = FALSE
  MaxB = 2
  RecoverDays = 2
  MaxOutage = 1
  RotateWhileListing = FALSE
  MaxDay = 2
  MaxFaults = 1
  MaxLostAcks = 1
  MaxCrashes = 1
INVARIANTS
  CursorIsAcked
  WholeLines
PROPERTIES
  CycleIsBounded
  EventuallyAccounted
CHECK_DEADLOCK FALSE
