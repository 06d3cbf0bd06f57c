SPECIFICATION Spec
CONSTANTS
    Jobs = {j1, j2}
    MaxAttempts = 0
    MaxBlocks = 1
    Failures = {"payload", "response", "merge"}
SYMMETRY Symmetry
INVARIANTS
    NoBug
    JoinedJobsMerged
