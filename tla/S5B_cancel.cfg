CONSTANTS
    Ini = "ini"
    Tgt = "tgt"
    Closers = {"ini", "tgt"}
    MaxBreaks = 1
SPECIFICATION Spec
INVARIANT CancelNamesARequest
CHECK_DEADLOCK FALSE
