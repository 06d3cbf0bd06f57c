SPECIFICATION Spec
CONSTANTS
  Order <- GroupAndScan
  Tasks <- FourTasks
  SchedOf <- MCSchedOf
  ChunkOf <- MCChunkOf
  Slowness <- MCSlowness
  Files <- MCFiles
  MaxReserve <- EveryOne
  MaxActive <- EveryOne
  JobOf <- EveryJobOnce
  Bootable = {"a1"}
  Large = {"b1"}
  PoolSize = 3
  MaxGroupSize = 1
  MaxBytes = 1
INVARIANTS
    CountsAreExact
    MemoryHasAnOwner
    MemoryGranted
PROPERTIES
    QueuedRuns
