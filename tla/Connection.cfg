SPECIFICATION FairSpec
CONSTANTS
    Kinds <- AllKinds
    MaxData = 2
INVARIANTS SocketInv NoDataLoss
PROPERTIES DialsSettle DrainBounded SweepEnds
CHECK_DEADLOCK FALSE
