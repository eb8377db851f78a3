SPECIFICATION FairSpec
CONSTANTS
    MaxBytes = 4
    MaxRecords = 3
    Sizes <- FrameSizes
    Producers = {p1, p2}
    MinBackoff = 2
    MaxBackoff = 3
    WarnLogged = TRUE
    WarnSize = 1
    MaxFrames = 4
    MaxFaults = 2
INVARIANTS BufferInv Accounting NoLostWake
PROPERTIES InOrder EventuallySettled ImplementsLog
CHECK_DEADLOCK FALSE
