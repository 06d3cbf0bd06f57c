CONSTANTS
    Attempts = {a1, a2}
    Threads = {t1, t2}
    Finalizer = fin
    NoThread = noThread
    Unpublished = unpublished
    MaxMsgs = 1
SPECIFICATION FairSpec
CHECK_DEADLOCK FALSE
INVARIANTS
    NoWriteDuringDelete
    InvalidRowsTracked
    AckedRowsKept
    
PROPERTIES
    
    MergeReturns
    FinalizeReturns
