CONSTANTS
    alice = alice
    bob = bob
    i1 = i1
    t1 = t1
    t2 = t2
    NoObj = NoObj
    Peer = {alice, bob}
    Other <- MCOther
    Initiators = {i1}
    Pool = {t1, t2}
    Home <- MCHome
    PacketSize = 2
    MaxBytes <- LiveMaxBytes
    MaxAttempts = 1
SPECIFICATION FairSpec
PROPERTIES
    CloseCompletes
    WrittenIsAcked
CHECK_DEADLOCK FALSE
