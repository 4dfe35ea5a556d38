CONSTANTS
    Contacts = {a, b}
    Authorized = {a}
    MaxChanges = 4
    MaxBreaks = 1
SPECIFICATION Spec
INVARIANTS CopyIsCurrent  BlockedIsHidden AllowedIsBack
CHECK_DEADLOCK FALSE
