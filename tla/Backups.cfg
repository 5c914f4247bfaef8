CONSTANTS
    Modes = {"latest", "pitr"}
    NTargets <- MCTargets
    HealthyTimeout = 1
    DeleteTimeout = 1
    Grace = 0
    SweepAge = 2
    Keep = 2
    MaxGap = 1
    MaxHours = 3
    BackupMaxAge = 2
    Ids = {1, 2}
    Timelines = {1}
    Segments = {1, 2}
    SampleWals = 1
    MinPrune = 2
    MaxFaults = 2
    TestFaults = 2
    StoreFaults = 1
SPECIFICATION Spec
INVARIANTS JudgesItsOwnCopy LeftoversAreDead NextWriteSucceeds NoFalseAlarm
    PassMeansWhole GreenMeansRestorable PassLeavesNothing
PROPERTIES AnnouncedWhole ErasedOnlyUnread
