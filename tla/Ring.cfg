CONSTANTS
    low = low
    high = high
    Unset = Unset
    Sample = {low, high}
    Blocks <- MCBlocks
    DefaultSize = 1
    FrameSize = 2
    Chunk = 2
    MaxStored = 4
SPECIFICATION Spec
INVARIANTS
    AccessesInside
PROPERTIES
    Queue
CHECK_DEADLOCK FALSE
