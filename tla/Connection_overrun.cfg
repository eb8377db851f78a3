SPECIFICATION FairSpec
CONSTANTS
    Kinds <- ProxyKinds
    MaxData = 1
PROPERTY ForcedShutdownReturns
CHECK_DEADLOCK FALSE
