SPECIFICATION Spec
CONSTANTS
    a = a
    b = b
    n = n
    v1 = v1
    v2 = v2
    e = e
    NoVersion = NoVersion
    Nothing = Nothing
    Jids = {a, b}
    Nodes = {n}
    Versions = {v1, v2}
    Exts = {e}
    Clients <- MCClients
    MaxAnnounced = 3
    MaxBreaks = 1
SYMMETRY MCSymmetry
INVARIANTS
    ListedIsAnnounced
    UnknownOnlyIfFailed
    RightUnlessRoom
    ShownIsCurrent
CHECK_DEADLOCK FALSE
