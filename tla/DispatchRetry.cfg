SPECIFICATION Spec
CONSTANTS
    Jobs = {j1}
    MaxAttempts = 1
    MaxBlocks = 2
    Failures = {"payload", "response", "data", "merge"}
INVARIANTS
    NoDuplicateRows
    TrackedJobsAlive
