CONSTANTS
    Workers = {1, 2, 3}
    Chunks = {1, 2, 3, 9}
    Databases = {"d1", "d2"}
    Overflow = 9
    SizeT = 256
    Scattered = {1, 2}
    Spread = {1, 2, 3}
    Damaged = {1}
    Levels = {1, 2, 3}
    Initial <- MCInitial
SPECIFICATION Spec
PROPERTIES
    PurgeKeepsLevel
    Converges
