SPECIFICATION FairSpec
CONSTANTS
    create = create
    delete = delete
    echo = echo
    Requests = {create, delete, echo}
    Threads = {t1, t2}
    Chunk <- MCChunk
    NoChunk = NoChunk
    Priority <- MCPriority
    Atomic = {delete}
    Slices = 2
    MaxStops = 1
CHECK_DEADLOCK FALSE
INVARIANTS
    ThreadsSurvive
    NoConflict
PROPERTIES
    ResultsAreFinal
    RequestsFinish
    StopEnds
