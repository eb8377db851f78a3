SPECIFICATION Spec
CONSTANTS
    Addrs = {a1, a2}
    Targets = {t1, t2}
    Configs <- AllConfigs
    Conns = {c1}
    MaxReloads = 2
SYMMETRY AddrSymmetry
INVARIANTS InboundConfigInv KeptStaysBound RoutedByCommitted
PROPERTY ImplementsServer
CHECK_DEADLOCK FALSE
