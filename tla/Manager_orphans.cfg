SPECIFICATION FairSpec
CONSTANTS
    Units = {u1}
    Policies <- RestartingPolicies
    ExitCodes = {0, 3}
    Orphans = TRUE
    MaxTime = 0
PROPERTY ShutdownCompletes
CHECK_DEADLOCK FALSE
