------------------------------ MODULE FindAllJob ------------------------------
(***************************************************************************)
(* What the replication controller concludes from one scan of the workers  *)
(* (replica/FindAllJob.cc).  A scan is a disposition: for every worker,    *)
(* chunk and database the status the worker reported, "NONE" when it       *)
(* reported nothing.  The operators are the derived collections of         *)
(* FindAllJobResult that the planners of ReplicationPlans read.            *)
(*                                                                         *)
(* Workers and chunks are numbers: the C++ code keeps them in ordered maps *)
(* and breaks ties by taking the first, which is the smallest here.        *)
(***************************************************************************)
EXTENDS Naturals, FiniteSets

CONSTANTS
    Workers,        \* the enabled workers
    Chunks,         \* the chunk numbers of one database family
    Databases,      \* the databases of the family
    Overflow        \* overflowChunkNumber, "must be present on all workers"

ASSUME WorkersAssumption == Workers \subseteq Nat /\ IsFiniteSet(Workers)
ASSUME ChunksAssumption == Chunks \subseteq Nat /\ IsFiniteSet(Chunks)

\* ReplicaInfo::Status; CORRUPT is never reported by the workers' FIND_ALL
Status == {"NONE", "INCOMPLETE", "COMPLETE"}

Disposition == [Workers -> [Chunks -> [Databases -> Status]]]

\* replicaData.databases[chunk]: the databases some worker has the chunk of
ChunkDatabases(info, c) == {d \in Databases : \E w \in Workers : info[w][c][d] # "NONE"}

\* the keys of isColocated[chunk] and isGood[chunk]: workers with any replica
Hosts(info, c) == {w \in Workers : \E d \in Databases : info[w][c][d] # "NONE"}

\* replicaData.complete[chunk][database]
Complete(info, c, d) == {w \in Workers : info[w][c][d] = "COMPLETE"}

\* isColocated[chunk][worker]: all databases of the chunk, whatever their status
IsColocated(info, c, w) == \A d \in ChunkDatabases(info, c) : info[w][c][d] # "NONE"

\* isGood[chunk][worker], for a host of the chunk
IsGood(info, c, w) ==
    /\ IsColocated(info, c, w)
    /\ \A d \in ChunkDatabases(info, c) : info[w][c][d] = "COMPLETE"

GoodHosts(info, c) == {w \in Hosts(info, c) : IsGood(info, c, w)}

\* the good chunks of a worker
GoodChunks(info, w) == {c \in Chunks : w \in GoodHosts(info, c)}

===============================================================================
