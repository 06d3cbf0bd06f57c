SPECIFICATION FairSpec
CONSTANTS
    Threads = {t1, t2, t3}
    Cmds = {c1, c2, c3}
    Priorities <- MCPriorities
    Asked <- MCAskedAny
    MinRunning <- MCMin
    MaxRunning <- MCMax
CHECK_DEADLOCK FALSE
INVARIANTS
    DrainedAtShutdown
PROPERTIES
    QueuedRuns
    ThreadsEnd
