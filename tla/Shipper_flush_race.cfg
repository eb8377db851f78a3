SPECIFICATION Spec
CONSTANTS
    MaxBytes = 4
    MaxRecords = 2
    Sizes = {1, 3}
    Producers = {p1, p2}
    MinBackoff = 2
    MaxBackoff = 3
    WarnLogged = TRUE
    WarnSize = 1
    MaxFrames = 2
    MaxFaults = 0
INVARIANT FlushWaitsForInflight
CHECK_DEADLOCK FALSE
