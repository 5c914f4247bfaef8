SPECIFICATION Spec
CONSTANTS
    GitTimeout = 2
    SafeAge = 3
    FreshAge = 1
    OldAge = 5
    MaxAge = 6
    MaxFaults = 2
PROPERTIES LiveLockKept StaleLockGoes
