CONSTANTS
    Workers = {1, 2, 3}
    Chunks = {1, 2}
    Databases = {"d1", "d2"}
    Overflow = 9
    SizeT = 256
    Levels = {1, 2, 3}
    Purges = {FALSE, TRUE}
    Threads = 1
    MaxFaults = 1
    FaultyPlaces <- MCFaulty
    QuietPlaces <- MCQuiet
    Initial <- MCInitial
    Faults <- MCFaults
SPECIFICATION Spec
INVARIANTS
    NeverFewer
    LocksHaveAnOwner
    KeepsData
PROPERTIES
    ImplementsCycle
    Recovers
