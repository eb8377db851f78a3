SPECIFICATION FairSpec
CONSTANTS
    s1 = s1
    s2 = s2
    InKeys = {i1, i2}
    OutKeys = {o1}
    Settings = {s1, s2}
    Off = Off
    Configs <- TwoConfigs
    SigCap = 2
PROPERTY StartReturns
CHECK_DEADLOCK FALSE
