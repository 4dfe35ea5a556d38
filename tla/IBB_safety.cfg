CONSTANTS
    alice = alice
    bob = bob
    i1 = i1
    t1 = t1
    t2 = t2
    NoObj = NoObj
    Peer = {alice, bob}
    Other <- MCOther
    Initiators = {i1}
    Pool = {t1, t2}
    Home <- MCHome
    PacketSize = 1
    MaxBytes <- SafetyMaxBytes
    MaxAttempts = 2
SPECIFICATION Spec
INVARIANTS
    PipeUntilOverflow
    BytesAccounted
    ReceivedStaysReadable
    DataErrorOnlyIfAbandoned
CHECK_DEADLOCK FALSE
