SPECIFICATION FairSpec
CONSTANTS
    Jobs = {j1}
    MaxAttempts = 1
    MaxBlocks = 1
    Failures = {"payload", "response", "data", "merge"}
CHECK_DEADLOCK FALSE
PROPERTIES
    QueryEnds
