SPECIFICATION FairSpec
CONSTANTS
    Ports = {p1, p2}
    Configs <- LogConfigs
    MaxReloads = 2
INVARIANTS SinkInv NoWriteAfterClose OutboundConfigInv
PROPERTIES ShutdownReturns ImplementsServer
CHECK_DEADLOCK FALSE
