SPECIFICATION FairSpec
CONSTANTS
    Units = {u1, u2}
    Policies <- CorePolicies
    ExitCodes = {0, 3}
    Orphans = FALSE
    MaxTime = 1
INVARIANTS OneJobPerUnit NoChildLeftBehind ShutdownReachesAll RestartBudget ExitCodeHonest
PROPERTIES NoSpawnInShutdown ShutdownCompletes TriggersEndRun
CHECK_DEADLOCK FALSE
