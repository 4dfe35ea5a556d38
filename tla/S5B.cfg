CONSTANTS
    Ini = "ini"
    Tgt = "tgt"
    Closers = {"ini", "tgt"}
    MaxBreaks = 1
SPECIFICATION FairSpec
INVARIANTS
    TypeOK
    StartsClean
    NoDeadObjectUsed
    NoOrphanSocket
    WrongHostOnlyIfEarly
PROPERTIES
    ImplementsAgreement
    
CHECK_DEADLOCK FALSE
