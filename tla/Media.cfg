CONSTANTS
    pcmu = pcmu
    Known = {pcmu}
    Noise = Noise
    Other = Other
    None = None
    MaxBlocks = 2
    MaxPackets = 2
    MaxStarts = 3
SPECIFICATION Spec
INVARIANTS
    AloneWhenReplacing
    SentInOrder
    PlayedOncePerSession
    SilentOnlyIfEarly
PROPERTIES
    StopReturns
    
CHECK_DEADLOCK FALSE
