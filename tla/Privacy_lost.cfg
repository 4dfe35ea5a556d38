CONSTANTS
    Contacts = {a, b}
    Authorized = {a}
    MaxChanges = 3
    MaxBreaks = 1
SPECIFICATION Spec
INVARIANTS ConfirmedIsBlocked
CHECK_DEADLOCK FALSE
