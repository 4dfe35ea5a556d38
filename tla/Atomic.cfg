CONSTANTS
    Absent = Absent
    Torn = Torn
    MaxSaves = 6
    MaxInterruptions = 4
    MaxUnreported = 1
SPECIFICATION Spec
INVARIANTS
    SavedIsLoaded
    OneInterruptionLosesNothing
    TwoInterruptionsLeaveOne
    UnreportedErrorCostsOne
CHECK_DEADLOCK FALSE
