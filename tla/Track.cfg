SPECIFICATION FairSpec
CONSTANTS
    NoMsg = NoMsg
    Reqs = {r1, r2}
    MaxFaults = 2
    CutFaults = 2
CHECK_DEADLOCK FALSE
INVARIANTS
    SuccessIsReal
    SentOnce
    Attended
PROPERTIES
    FinishedIsFinal
    Answered
