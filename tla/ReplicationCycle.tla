--------------------------- MODULE ReplicationCycle ---------------------------
(***************************************************************************)
(* The cycle of replica/ReplicationTask.cc when nothing fails: FixUpJob,   *)
(* ReplicateJob, RebalanceJob and, when configured, PurgeJob, over and     *)
(* over.  Each job is one step that scans the workers and carries its plan *)
(* out as a whole, with the jobs and requests it starts (CreateReplicaJob, *)
(* MoveReplicaJob, DeleteReplicaJob).  How those interleave, and what      *)
(* happens when they fail, is the subject of module ReplicationJobs.       *)
(***************************************************************************)
EXTENDS ReplicationPlans

CONSTANTS
    Initial,            \* the dispositions the controller may find when it starts
    Levels              \* the replication levels to consider

VARIABLES
    info,               \* what the workers have on their disks
    level,              \* _numReplicas
    purge,              \* _purge
    turn,               \* the next job of ReplicationTask::onRun
    locks               \* ServiceProvider::chunkLocker(): chunks left locked

vars == <<info, level, purge, turn, locks>>

Jobs == {"FIXUP", "REPLICATE", "REBALANCE", "PURGE"}

Init ==
    /\ info \in Initial
    /\ level \in Levels
    /\ purge \in BOOLEAN
    /\ turn = "FIXUP"
    /\ locks = {}

\* the replicas that the requests of CreateReplicaJob create: one for each
\* database the source has in the replica table, which lists complete ones only
Created(disk, c, src, dst) ==
    [disk EXCEPT ![dst][c] = [d \in Databases |->
        IF disk[src][c][d] = "COMPLETE" /\ @[d] = "NONE" THEN "COMPLETE" ELSE @[d]]]

\* the replicas that the requests of DeleteReplicaJob delete, which are also
\* taken from the table: an incomplete replica is not in it, and stays
Deleted(disk, c, w) ==
    [disk EXCEPT ![w][c] = [d \in Databases |->
        IF @[d] = "COMPLETE" THEN "NONE" ELSE @[d]]]

\* MoveReplicaJob with purge
Moved(disk, m) == Deleted(Created(disk, m.chunk, m.src, m.dst), m.chunk, m.src)

ApplyFixUp(disk, requests) ==
    [w \in Workers |-> [c \in Chunks |-> [d \in Databases |->
        IF \E r \in requests : r.dst = w /\ r.chunk = c /\ r.db = d THEN "COMPLETE"
        ELSE disk[w][c][d]]]]

\* An exception thrown in a callback is caught by no one: the controller dies.
Terminate == turn' = "TERMINATED" /\ UNCHANGED <<info, locks>>

\* FixUpJob: a chunk that could not be locked makes it call _restart, which
\* throws because _findAllJob is still set
FixUp ==
    /\ turn = "FIXUP"
    /\ LET plan == FixUpPlan(info, locks)
       IN  IF plan.thrown \/ plan.failedLocks > 0 THEN Terminate
           ELSE /\ info' = ApplyFixUp(info, plan.requests)
                /\ turn' = "REPLICATE"
                /\ UNCHANGED locks
    /\ UNCHANGED <<level, purge>>

\* ReplicateJob: two creations of one chunk at one destination make one replica
Replicate ==
    /\ turn = "REPLICATE"
    /\ LET plan == ReplicatePlan(info, level)
       IN  info' = IF plan.failed THEN info
                   ELSE FoldLeft(LAMBDA disk, j : Created(disk, j.chunk, j.src, j.dst),
                                 info, plan.jobs)
    /\ turn' = "REBALANCE"
    /\ UNCHANGED <<level, purge, locks>>

Rebalance ==
    /\ turn = "REBALANCE"
    /\ \E moves \in RebalancePlans(info) :
           info' = FoldLeft(LAMBDA disk, m : Moved(disk, m), info, SetToSeq(moves))
    /\ turn' = IF purge THEN "PURGE" ELSE "FIXUP"
    /\ UNCHANGED <<level, purge, locks>>

\* PurgeJob.  A failed plan cancels the deletions it has started, but does not
\* stop them at the workers: any of them may be carried out.  The chunk that
\* failed stays locked when none of its deletions is there to release it.
Purge ==
    /\ turn = "PURGE"
    /\ LET plan == PurgePlan(info, level, locks)
           jobs == ToSet(plan.jobs)
       IN  IF ~plan.failed /\ plan.failedLocks > 0 THEN Terminate
           ELSE /\ \E done \in SUBSET jobs :
                       /\ plan.failed \/ done = jobs
                       /\ info' = FoldLeft(LAMBDA disk, j : Deleted(disk, j.chunk, j.worker),
                                           info, SetToSeq(done))
                /\ locks' = locks \cup (plan.locked \ {j.chunk : j \in jobs})
                /\ turn' = "FIXUP"
    /\ UNCHANGED <<level, purge>>

\* The operator restarts the controller; the locks were in its memory.
Restart ==
    /\ turn = "TERMINATED"
    /\ turn' = "FIXUP"
    /\ locks' = {}
    /\ UNCHANGED <<info, level, purge>>

Next == FixUp \/ Replicate \/ Rebalance \/ Purge \/ Restart

\* The thread of the task goes on from cycle to cycle: ReplicationTask::onRun
\* returns TRUE.  (A step is always possible, so this is WF_vars(Next).)
Fairness == []<>(turn = "FIXUP") /\ []<>(turn # "FIXUP")

Spec == Init /\ [][Next]_vars /\ Fairness

-------------------------------------------------------------------------------

\* The workers, chunks and databases keep their shape.
TypeOK ==
    /\ info \in Disposition
    /\ level \in Levels
    /\ purge \in BOOLEAN
    /\ turn \in Jobs \cup {"TERMINATED"}
    /\ locks \subseteq Chunks

Incomplete == \E w \in Workers, c \in Chunks, d \in Databases : info[w][c][d] = "INCOMPLETE"

\* No job but PurgeJob takes a good replica of a chunk away without having made
\* another one: whatever the scan found, incomplete replicas included.
OnlyPurgeRemoves ==
    [][turn # "PURGE" => \A c \in Chunks : Cardinality(GoodHosts(info', c)) >= Cardinality(GoodHosts(info, c))]_vars

\* RebalanceJob.h: "the operation won't affect the number of replicas"; and it
\* leaves the overflow chunk alone.
RebalanceKeepsCounts ==
    [][turn = "REBALANCE" =>
        /\ \A c \in Chunks : Cardinality(Hosts(info', c)) = Cardinality(Hosts(info, c))
        /\ \A w \in Workers : (Overflow \in Chunks) => info'[w][Overflow] = info[w][Overflow]]_vars

Load(disk, w) == Cardinality(Movable(disk, w))

\* RebalanceJob takes no worker across the average: a source does not become a
\* destination of the next cycle, which is what keeps chunks from moving forever.
RebalanceStopsAtAverage ==
    [][turn = "REBALANCE" =>
        \A w \in Workers :
            \/ AvgChunks(info) <= Load(info', w) /\ Load(info', w) <= Load(info, w)
            \/ Load(info, w) <= Load(info', w) /\ Load(info', w) <= AvgChunks(info)]_vars

\* ReplicateJob places a replica only where the chunk was absent, and only
\* copies of a good replica: every replica it makes is good.
ReplicateMakesGood ==
    [][turn = "REPLICATE" =>
        \A c \in Chunks : Hosts(info', c) \ Hosts(info, c) \subseteq GoodHosts(info', c)]_vars

\* PurgeJob, when the workers hold no incomplete replica: exactly the extra
\* replicas go, what is left is good, and the overflow chunk is not touched.
PurgeKeepsLevel ==
    [][turn = "PURGE" /\ ~Incomplete =>
        \A c \in Chunks :
            IF c = Overflow \/ Cardinality(Hosts(info, c)) <= level
            THEN Hosts(info', c) = Hosts(info, c)
            ELSE GoodHosts(info', c) = Hosts(info', c) /\ Cardinality(Hosts(info', c)) = level]_vars

\* What the cycle is for: every chunk on `level' workers, all databases together,
\* and nothing left to move.
Settled ==
    /\ \A c \in Chunks : LET n == Cardinality(GoodHosts(info, c))
                         IN  \/ Hosts(info, c) = {}
                             \/ n = level
                             \/ n > level /\ (~purge \/ c = Overflow)
    /\ \A w \in Workers, c \in Chunks : w \in Hosts(info, c) => IsGood(info, c, w)
    /\ RebalancePlans(info) = {{}}

\* Whatever complete replicas the cycle starts from, however scattered, it gets
\* there and stays there; replicas do not circulate.
Converges == ~Incomplete => <>[]Settled

\* (violated) A chunk with no source for a database fails the job ("failed to
\* find a source worker"); it does not bring the controller down.
NeverTerminated == turn # "TERMINATED"

===============================================================================
