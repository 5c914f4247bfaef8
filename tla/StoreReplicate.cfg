CONSTANTS
    Ids = {1, 2}
    Timelines = {1}
    Segments = {1, 2}
    SampleWals = 1
    MinPrune = 2
    MaxFaults = 1
SPECIFICATION Spec
INVARIANTS ReplicaBackupIsWhole
