SPECIFICATION FairSpec
CONSTANTS
    Sizes = {0, 3, 9}
    SendBuf = 2
    IntMod = 8
    Block = 4
    MaxAttempts = 2
    MaxFaults = 2
INVARIANTS
    
    AgreeUnlessInterrupted
PROPERTIES
    CrashOnlyIfClosed
    
CHECK_DEADLOCK FALSE
