CONSTANTS
    Accounts = {a, b}
    Contacts = {c, d}
    MaxEvents = 3
    MaxBreaks = 3
    MaxFaults = 1
SPECIFICATION Spec
SYMMETRY Symmetry
INVARIANTS  GlobalIsUnion NumbersAreUnique
CHECK_DEADLOCK FALSE
