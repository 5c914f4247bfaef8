CONSTANTS
    DumpMaxAge = 1  DumpDays = 3
    SinkNodes = {1}  SinkDays = 3  PerDay = 3
    Soon = 2  StaleDays = 3  VexMaxDays = 3
SPECIFICATION Spec
INVARIANTS AcceptedIsRight RefusedIsWrong HistoriesKeepFaith
\* A run judges one case.
CHECK_DEADLOCK FALSE
