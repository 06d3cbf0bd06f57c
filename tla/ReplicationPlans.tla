--------------------------- MODULE ReplicationPlans ---------------------------
(***************************************************************************)
(* The planners of the replication controller, as functions of one scan:   *)
(* what ReplicateJob, RebalanceJob, PurgeJob and FixUpJob decide to do     *)
(* once their precursor FindAllJob has succeeded.  Each follows its        *)
(* _onPrecursorJobFinish (FixUpJob, PurgeJob: up to the launch).           *)
(***************************************************************************)
EXTENDS FindAllJob, Sequences, SequencesExt

CONSTANT SizeT          \* the range of size_t: counters are modulo this

\* In the operators below, level is the number of replicas the job is to
\* leave (_numReplicas: Configuration::replicationLevel of the family).

Ascending(S) == SetToSortSeq(S, <)

\* the member of S with the least f, the first on ties
First(S, f) == CHOOSE x \in S : \A y \in S : f[x] < f[y] \/ (f[x] = f[y] /\ x <= y)

\* the member of S with the greatest f, the first on ties
Most(S, f) == CHOOSE x \in S : \A y \in S : f[x] > f[y] \/ (f[x] = f[y] /\ x <= y)

(***************************************************************************)
(* ReplicateJob.  The plan is a sequence of replicas to create.  "failed"  *)
(* stands for finish(FAILED) inside the loops: nothing has been launched   *)
(* yet, so nothing is created at all.                                      *)
(***************************************************************************)

Creation(c, src, dst) == [chunk |-> c, src |-> src, dst |-> dst]

\* one turn of the loop over numReplicas2create; the black list worker2chunks
\* is what the scan found and is not extended by the plan
PlanReplica(info, c, src, plan) ==
    LET free == Workers \ Hosts(info, c)
        dst  == First(free, plan.occupancy)
    IN  IF plan.failed \/ free = {} THEN [plan EXCEPT !.failed = TRUE]
        ELSE [plan EXCEPT !.jobs = Append(@, Creation(c, src, dst)),
                          !.occupancy[dst] = @ + 1,
                          !.allocations[src] = @ + 1]

\* Mutant: one replica too few
PlanChunkOneLess(info, level, c, plan) ==
    LET good == GoodHosts(info, c)
        src  == First(good, plan.allocations)
    IN  IF plan.failed \/ good = {} THEN [plan EXCEPT !.failed = TRUE]
        ELSE FoldLeft(LAMBDA p, i : PlanReplica(info, c, src, p), plan,
                      [i \in 1..(level - 1 - Cardinality(Hosts(info, c))) |-> i])

\* the whole loop body for one chunk that has too few replicas
PlanChunk(info, level, c, plan) ==
    LET good == GoodHosts(info, c)
        src  == First(good, plan.allocations)
    IN  IF plan.failed \/ good = {} THEN [plan EXCEPT !.failed = TRUE]
        ELSE FoldLeft(LAMBDA p, i : PlanReplica(info, c, src, p), plan,
                      [i \in 1..(level - Cardinality(Hosts(info, c))) |-> i])

ReplicatePlan(info, level) ==
    FoldLeft(LAMBDA p, c : PlanChunk(info, level, c, p),
             [failed      |-> FALSE,
              jobs        |-> <<>>,
              occupancy   |-> [w \in Workers |-> Cardinality(GoodChunks(info, w))],
              allocations |-> [w \in Workers |-> 0]],
             Ascending({c \in Chunks : Cardinality(Hosts(info, c)) \in 1..(level - 1)}))

(***************************************************************************)
(* RebalanceJob.  std::sort leaves the order of equal elements open, so    *)
(* there is a set of plans: any order of equally loaded sources, and any   *)
(* of the eligible destinations with the most slots.                       *)
(***************************************************************************)

\* the good chunks RebalanceJob counts: the overflow chunk stays where it is
Movable(info, w) == GoodChunks(info, w) \ {Overflow}

AvgChunks(info) ==
    FoldLeft(LAMBDA n, w : n + Cardinality(Movable(info, w)), 0, Ascending(Workers))
        \div Cardinality(Workers)

\* sourceWorkers, strictly above the average, the most loaded first
SourceOrders(info) ==
    LET load(w) == Cardinality(Movable(info, w))
    IN  {s \in SetToSeqs({w \in Workers : load(w) > AvgChunks(info)}) :
            \A i, j \in DOMAIN s : i < j => load(s[i]) >= load(s[j])}

\* one turn of the loop over a source's chunks
PlanMove(src, c, plan) ==
    LET eligible == {w \in Workers : plan.slots[w] > 0 /\ c \notin plan.chunks[w]}
        best     == {w \in eligible : \A v \in eligible : plan.slots[v] <= plan.slots[w]}
    IN  IF plan.extra[src] = 0 \/ eligible = {} THEN {plan}
        ELSE {[plan EXCEPT !.jobs = @ \cup {Creation(c, src, dst)},
                           !.chunks[dst] = @ \cup {c},
                           !.slots[dst] = @ - 1,
                           !.extra[src] = @ - 1] : dst \in best}

RebalancePlans(info) ==
    LET avg     == AvgChunks(info)
        load(w) == Cardinality(Movable(info, w))
        above(n, m) == IF n > m THEN n - m ELSE 0
        start == [jobs   |-> {},
                  chunks |-> [w \in Workers |-> {c \in Chunks \ {Overflow} : w \in Hosts(info, c)}],
                  slots  |-> [w \in Workers |-> above(avg, load(w))],
                  extra  |-> [w \in Workers |-> above(load(w), avg)]]
        moves(order) == FlattenSeq([i \in DOMAIN order |->
                            LET cs == Ascending(Movable(info, order[i]))
                            IN  [j \in DOMAIN cs |-> <<order[i], cs[j]>>]])
        plans(order) == FoldLeft(LAMBDA ps, m : UNION {PlanMove(m[1], m[2], p) : p \in ps},
                                 {start}, moves(order))
    IN  IF avg = 0 THEN {{}}
        ELSE {p.jobs : p \in UNION {plans(order) : order \in SourceOrders(info)}}

(***************************************************************************)
(* PurgeJob.  `busy' are the chunks another owner has locked.  A failed    *)
(* plan finishes the job as FAILED; by then the deletions of plan.jobs     *)
(* have been started, and the locks of plan.locked been taken.             *)
(***************************************************************************)

\* one turn of the loop over numReplicas2delete
PlanDeletion(info, c, plan) ==
    LET target == Most(plan.left, plan.occupancy)
    IN  IF plan.failed \/ plan.left = {} \/ plan.occupancy[target] = 0
        THEN [plan EXCEPT !.failed = TRUE]
        ELSE [plan EXCEPT !.left = @ \ {target},
                          !.jobs = Append(@, [chunk |-> c, worker |-> target]),
                          !.occupancy[target] =
                              (@ + SizeT - Cardinality(ChunkDatabases(info, c))) % SizeT]

\* Mutant: one replica too many is deleted
PlanPurgeOneMore(info, level, busy, c, plan) ==
    IF plan.failed THEN plan
    ELSE IF c \in busy THEN [plan EXCEPT !.failedLocks = @ + 1]
    ELSE FoldLeft(LAMBDA p, i : PlanDeletion(info, c, p),
                  [plan EXCEPT !.left = Hosts(info, c), !.locked = @ \cup {c}],
                  [i \in 1..(Cardinality(Hosts(info, c)) - level + 1) |-> i])

\* the loop body for one chunk that has too many replicas, good or not
PlanPurge(info, level, busy, c, plan) ==
    IF plan.failed THEN plan
    ELSE IF c \in busy THEN [plan EXCEPT !.failedLocks = @ + 1]
    ELSE FoldLeft(LAMBDA p, i : PlanDeletion(info, c, p),
                  [plan EXCEPT !.left = Hosts(info, c), !.locked = @ \cup {c}],
                  [i \in 1..(Cardinality(Hosts(info, c)) - level) |-> i])

\* worker2occupancy counts every replica of every database
Occupancy(info, w) == Cardinality({cd \in Chunks \X Databases : info[w][cd[1]][cd[2]] # "NONE"})

PurgePlan(info, level, busy) ==
    FoldLeft(LAMBDA p, c : PlanPurge(info, level, busy, c, p),
             [failed      |-> FALSE,
              jobs        |-> <<>>,
              left        |-> {},
              locked      |-> {},
              failedLocks |-> 0,
              occupancy   |-> [w \in Workers |-> Occupancy(info, w)]],
             Ascending({c \in Chunks \ {Overflow} : Cardinality(Hosts(info, c)) > level}))

(***************************************************************************)
(* FixUpJob.  The requests for the databases a host of a chunk lacks.      *)
(* complete.at(chunk).at(database) throws when no worker has a complete    *)
(* replica: `thrown'.  Otherwise the first complete worker is the source   *)
(* (it cannot be the destination, which has no replica at all).            *)
(***************************************************************************)

Misplaced(info) == {cw \in Chunks \X Workers :
                        cw[2] \in Hosts(info, cw[1]) /\ ~IsColocated(info, cw[1], cw[2])}

Gaps(info, busy) == {g \in Chunks \X Workers \X Databases :
                        /\ <<g[1], g[2]>> \in Misplaced(info)
                        /\ g[1] \notin busy
                        /\ g[3] \in ChunkDatabases(info, g[1])
                        /\ info[g[2]][g[1]][g[3]] = "NONE"}

FixUpPlan(info, busy) ==
    LET gaps == Gaps(info, busy)
    IN  [thrown      |-> \E g \in gaps : Complete(info, g[1], g[3]) = {},
         requests    |-> {[chunk |-> g[1], dst |-> g[2], db |-> g[3],
                           src |-> First(Complete(info, g[1], g[3]), [w \in Workers |-> 0])] :
                             g \in {x \in gaps : Complete(info, x[1], x[3]) # {}}},
         locked      |-> {g[1] : g \in gaps},
         failedLocks |-> Cardinality({cw \in Misplaced(info) : cw[1] \in busy})]

===============================================================================
