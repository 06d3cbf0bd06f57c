SPECIFICATION FairSpec
CONSTANTS
    Cmds = {c1, c2}
    MaxThreads = 6
    InitCount = 2
    Targets = {1, 3}
    MaxResizes = 1
    Boots = {c1}
CHECK_DEADLOCK FALSE
INVARIANTS
    FinishedOnce
    UnresizedCompletes
PROPERTIES
    PoolConverges
    ShutdownReturns
