---------------------------- MODULE ReplicationJobs ----------------------------
(***************************************************************************)
(* The jobs of the replication cycle with everything that can go wrong     *)
(* between the controller and the workers.  A job first scans the workers  *)
(* (FindAllJob), which also rewrites the table of replicas, then makes its *)
(* plan and starts sub-jobs: CreateReplicaJob, MoveReplicaJob,             *)
(* DeleteReplicaJob, or the plain requests of FixUpJob.  A sub-job has one *)
(* request per database.  The requests are queued and carried out at the   *)
(* workers, and tracked by the controller.                                 *)
(*                                                                         *)
(* When a job or a request expires, or the controller dies, the controller *)
(* forgets its requests; the workers do not.  (cancelImpl means to stop    *)
(* them, but tests for a state that cancel() has just changed.)            *)
(***************************************************************************)
EXTENDS ReplicationPlans

CONSTANTS
    Initial,        \* what the workers may have on their disks at the start
    Faults(_),      \* how many faults a behaviour from a disposition may have
    Levels,         \* replication levels
    Purges,         \* values of ReplicationTask's _purge
    Threads         \* workerNumProcessingThreads

VARIABLES
    disk,           \* the replicas at the workers
    table,          \* DatabaseServices: the complete replicas last saved
    queue,          \* the requests queued or in progress at the workers
    turn,           \* the job of ReplicationTask::onRun that is next or running
    stage,          \* "IDLE", "SCAN", "RUN", "DOWN" (the controller died)
    scan,           \* what FindAllJob has collected
    subs,           \* the sub-jobs in progress
    waiting,        \* _jobs: sub-jobs not started yet
    ok,             \* all finished sub-jobs succeeded
    locks,          \* the chunks the running job has locked
    stale,          \* chunks still locked by a job that is over
    failedLocks,    \* _numFailedLocks
    level, purge,   \* the parameters of the task
    base,           \* disk when the current job started
    first,          \* disk at the start of the behaviour
    budget,         \* faults to come
    miscounted      \* history: chunks of which a PurgeJob counted a replica that is
                    \* not good, or that an earlier job's deletion was to take

vars == <<disk, table, queue, turn, stage, scan, subs, waiting, ok, locks, stale, failedLocks,
          level, purge, base, first, budget, miscounted>>
steady == <<level, purge, first, miscounted>>

Jobs == {"FIXUP", "REPLICATE", "REBALANCE", "PURGE"}
NotScanned == [c \in Chunks |-> "NOT SCANNED"]
NoScan == [w \in Workers |-> [d \in Databases |-> NotScanned]]

Init ==
    /\ disk \in Initial
    /\ table = [w \in Workers |-> [c \in Chunks |-> {}]]
    /\ queue = {}
    /\ turn = "FIXUP" /\ stage = "IDLE"
    /\ scan = NoScan
    /\ subs = {} /\ waiting = <<>> /\ ok = TRUE
    /\ locks = {} /\ stale = {} /\ failedLocks = 0
    /\ level \in Levels /\ purge \in Purges
    /\ base = disk /\ first = disk
    /\ budget = Faults(disk)
    /\ miscounted = {}

-------------------------------------------------------------------------------
(***************************************************************************)
(* Starting sub-jobs and their requests.                                   *)
(***************************************************************************)

\* the worker a sub-job's requests go to: the destination, or the owner of a
\* replica to be deleted
At(sub) == IF sub.op = "DELETE" THEN sub.src ELSE sub.dst

Request(sub, d) == [op |-> sub.op, worker |-> At(sub), chunk |-> sub.chunk, db |-> d, src |-> sub.src]

\* ifDuplicateRequest: a request for the same chunk and database, of either kind
Clash(q, w, c, d) == {r \in q : r.worker = w /\ r.chunk = c /\ r.db = d}

\* CreateReplicaJob::startImpl, DeleteReplicaJob::startImpl: the databases to
\* send requests for; none means that the sub-job fails at once
Participating(sub) ==
    IF sub.op = "REPLICATE" /\ table[sub.dst][sub.chunk] # {} THEN {}
    ELSE table[sub.src][sub.chunk]

\* A duplicate of the same kind is tracked in place of the request.  One of the
\* other kind is tracked as well, but the worker does not know the identifier
\* as one of that kind, and the request fails.
Send(state, sub, dbs) ==
    LET clash(d) == Clash(state.queue, At(sub), sub.chunk, d)
    IN  [subs  |-> state.subs \cup
             {[sub EXCEPT !.reqs = [d \in dbs |->
                 IF \A r \in clash(d) : r.op = sub.op THEN "SENT" ELSE "FAIL"]]},
         queue |-> state.queue \cup {Request(sub, d) : d \in {x \in dbs : clash(x) = {}}}]

Begin(state, sub) == Send(state, sub, Participating(sub))

NewSub(id, kind, op, c, src, dst) ==
    [id |-> id, kind |-> kind, op |-> op, chunk |-> c, src |-> src, dst |-> dst, reqs |-> <<>>]

\* one turn of the loop in _launchNextJobs: the pair of workers with the least
\* to do, the last one on ties
Launch(state) ==
    LET load(j) == Cardinality({s \in state.subs : s.dst = j.dst})
                     + Cardinality({s \in state.subs : s.src = j.src})
        w == state.waiting
        i == CHOOSE k \in DOMAIN w : \A n \in DOMAIN w :
                 load(w[k]) < load(w[n]) \/ (load(w[k]) = load(w[n]) /\ k >= n)
        begun == Begin(state, w[i])
    IN  IF w = <<>> THEN state
        ELSE [subs |-> begun.subs, queue |-> begun.queue, waiting |-> RemoveAt(w, i)]

\* Mutant: the counting stops one too early.
LaunchNextJobsLess(state, n) == FoldLeft(LAMBDA s, i : Launch(s), state, [i \in 1..(n - 1) |-> i])

LaunchNextJobs(state, n) == FoldLeft(LAMBDA s, i : Launch(s), state, [i \in 1..n |-> i])

\* ReplicationTask::onRun: the job after this one
NextTurn ==
    CASE turn = "FIXUP" -> "REPLICATE"
      [] turn = "REPLICATE" -> "REBALANCE"
      [] turn = "REBALANCE" -> IF purge THEN "PURGE" ELSE "FIXUP"
      [] turn = "PURGE" -> "FIXUP"

\* Mutant: the locks of the job are not released.
JobOverLocked ==
    /\ stage' = "IDLE"
    /\ turn' = NextTurn
    /\ subs' = {} /\ waiting' = <<>> /\ ok' = TRUE /\ failedLocks' = 0 /\ locks' = locks
    /\ base' = disk
    /\ scan' = NoScan

\* Job::finish: the task goes on with the next job; queue' is set by the caller
JobOver ==
    /\ stage' = "IDLE"
    /\ turn' = NextTurn
    /\ subs' = {} /\ waiting' = <<>> /\ ok' = TRUE /\ failedLocks' = 0 /\ locks' = {}
    /\ base' = disk
    /\ scan' = NoScan

\* The process ends: an exception in a callback, or a crash.  The table stays.
Die ==
    /\ stage' = "DOWN" /\ turn' = "FIXUP"
    /\ subs' = {} /\ waiting' = <<>> /\ ok' = TRUE /\ failedLocks' = 0
    /\ locks' = {} /\ stale' = {}
    /\ base' = disk
    /\ scan' = NoScan

-------------------------------------------------------------------------------
(***************************************************************************)
(* FindAllJob.                                                             *)
(***************************************************************************)

StartJob ==
    /\ stage = "IDLE"
    /\ stage' = "SCAN"
    /\ miscounted' = miscounted \cup {r.chunk : r \in {q \in queue : turn = "PURGE" /\ q.op = "DELETE"}}
    /\ UNCHANGED <<disk, table, queue, turn, scan, subs, waiting, ok, locks, stale, failedLocks, base, budget,
                   level, purge, first>>

Unscanned == {wd \in Workers \X Databases : scan[wd[1]][wd[2]] = NotScanned}

\* WorkerFindAllRequest: what a worker reports of a database
Report(w, d) == [c \in Chunks |-> disk[w][c][d]]

\* FIND_ALL at a set of workers; saveReplicaInfoCollection replaces the rows of
\* the worker and the database by the complete replicas found
ScanOf(S) ==
    /\ scan' = [w \in Workers |-> [d \in Databases |->
                   IF <<w, d>> \in S THEN Report(w, d) ELSE scan[w][d]]]
    /\ table' = [w \in Workers |-> [c \in Chunks |->
                    {d \in Databases : IF <<w, d>> \in S THEN Report(w, d)[c] = "COMPLETE"
                                       ELSE d \in table[w][c]}]]

\* The requests are independent of each other.  Their order matters only when
\* the workers have other work, and is left open then.
Scan ==
    /\ stage = "SCAN"
    /\ \E S \in IF queue = {} THEN {Unscanned} ELSE {{wd} : wd \in Unscanned} :
           S # {} /\ ScanOf(S)
    /\ UNCHANGED <<disk, queue, turn, stage, subs, waiting, ok, locks, stale, failedLocks, base, budget, steady>>

Found == [w \in Workers |-> [c \in Chunks |-> [d \in Databases |-> scan[w][d][c]]]]

-------------------------------------------------------------------------------
(***************************************************************************)
(* _onPrecursorJobFinish: the plan, and the first sub-jobs.                *)
(***************************************************************************)

Scanned == stage = "SCAN" /\ Unscanned = {}

\* the job goes on with the sub-jobs of `state', or ends if there are none
Proceed(state) ==
    IF state.subs = {} THEN JobOver
    ELSE /\ stage' = "RUN"
         /\ subs' = state.subs /\ waiting' = state.waiting
         /\ UNCHANGED <<turn, scan, ok, base>>

PlanFixUp ==
    /\ Scanned /\ turn = "FIXUP"
    /\ LET plan  == FixUpPlan(Found, stale)
           start(rs) == FoldLeft(LAMBDA s, r :
                            Send(s, NewSub(<<r.chunk, r.dst, r.db>>, "FIX", "REPLICATE", r.chunk, r.src, r.dst), {r.db}),
                            [subs |-> {}, queue |-> queue], SetToSeq(rs))
           state == start(plan.requests)
       IN  IF plan.thrown
           THEN /\ \E rs \in SUBSET plan.requests : queue' = start(rs).queue
                /\ Die
           ELSE IF state.subs = {} /\ plan.failedLocks > 0 THEN Die /\ UNCHANGED queue
           ELSE /\ queue' = state.queue
                /\ Proceed([subs |-> state.subs, waiting |-> <<>>])
                /\ state.subs # {} => locks' = plan.locked /\ failedLocks' = plan.failedLocks
                /\ UNCHANGED stale
    /\ UNCHANGED <<disk, table, budget, steady>>

\* ReplicateJob and RebalanceJob: the first batch has as many sub-jobs as there
\* are destinations, times the number of threads
StartBatch(jobs) ==
    LET state == LaunchNextJobs([subs |-> {}, queue |-> queue, waiting |-> jobs],
                                Cardinality({jobs[i].dst : i \in DOMAIN jobs}) * Threads)
    IN  /\ queue' = state.queue
        /\ Proceed(state)
        /\ state.subs # {} => UNCHANGED <<locks, failedLocks>>

PlanReplicate ==
    /\ Scanned /\ turn = "REPLICATE"
    /\ LET plan == ReplicatePlan(Found, level)
       IN  StartBatch(IF plan.failed THEN <<>>
                      ELSE [i \in DOMAIN plan.jobs |->
                               NewSub(<<i>>, "CREATE", "REPLICATE", plan.jobs[i].chunk,
                                      plan.jobs[i].src, plan.jobs[i].dst)])
    /\ UNCHANGED <<disk, table, stale, budget, steady>>

\* the plan is kept in a map by chunk and source: the order of the jobs
PlanRebalance ==
    /\ Scanned /\ turn = "REBALANCE"
    /\ \E moves \in RebalancePlans(Found) :
           LET order == SetToSortSeq(moves, LAMBDA a, b :
                            a.chunk < b.chunk \/ (a.chunk = b.chunk /\ a.src < b.src))
           IN  StartBatch([i \in DOMAIN order |->
                   NewSub(<<i>>, "MOVE", "REPLICATE", order[i].chunk, order[i].src, order[i].dst)])
    /\ UNCHANGED <<disk, table, stale, budget, steady>>

PlanPurgeJob ==
    /\ Scanned /\ turn = "PURGE"
    /\ LET plan  == PurgePlan(Found, level, stale)
           state == FoldLeft(LAMBDA s, j :
                        Begin(s, NewSub(<<j.chunk, j.worker>>, "DELETE", "DELETE", j.chunk, j.worker, j.worker)),
                        [subs |-> {}, queue |-> queue], plan.jobs)
       IN  IF plan.failed
           THEN /\ queue' = state.queue
                /\ stale' = stale \cup (plan.locked \ {s.chunk : s \in state.subs})
                /\ JobOver
           ELSE IF state.subs = {} /\ plan.failedLocks > 0 THEN Die /\ UNCHANGED queue
           ELSE /\ queue' = state.queue
                /\ Proceed([subs |-> state.subs, waiting |-> <<>>])
                /\ state.subs # {} => locks' = plan.locked /\ failedLocks' = plan.failedLocks
                /\ UNCHANGED stale
    /\ miscounted' = miscounted \cup {c \in Chunks : Hosts(Found, c) # GoodHosts(Found, c)}
    /\ UNCHANGED <<disk, table, budget, level, purge, first>>

-------------------------------------------------------------------------------
(***************************************************************************)
(* Callbacks of the sub-jobs.                                              *)
(***************************************************************************)

Done(sub) == \A d \in DOMAIN sub.reqs : sub.reqs[d] # "SENT"
\* Mutant: a job is taken for successful once it has finished.
SucceededAnyway(sub) == TRUE

Succeeded(sub) == DOMAIN sub.reqs # {} /\ \A d \in DOMAIN sub.reqs : sub.reqs[d] = "OK"

\* saveReplicaInfo for each request that succeeded
Saved(sub) ==
    LET good == {d \in DOMAIN sub.reqs : sub.reqs[d] = "OK"}
    IN  [table EXCEPT ![At(sub)][sub.chunk] = IF sub.op = "DELETE" THEN @ \ good ELSE @ \cup good]

\* MoveReplicaJob::_onCreateJobFinish: the replica is there, delete the original
CreatedForMove(sub) ==
    /\ stage = "RUN" /\ sub \in subs /\ Done(sub)
    /\ sub.kind = "MOVE" /\ sub.op = "REPLICATE" /\ Succeeded(sub)
    /\ LET state == Begin([subs |-> subs \ {sub}, queue |-> queue], [sub EXCEPT !.op = "DELETE"])
       IN  subs' = state.subs /\ queue' = state.queue
    /\ table' = Saved(sub)
    /\ UNCHANGED <<disk, turn, stage, scan, waiting, ok, locks, stale, failedLocks, base, budget, steady>>

\* the last callback of a sub-job, but for the creation that a move begins with
Ended(sub, kind) ==
    /\ stage = "RUN" /\ sub \in subs /\ Done(sub)
    /\ sub.kind = kind /\ ~(kind = "MOVE" /\ sub.op = "REPLICATE" /\ Succeeded(sub))
    /\ table' = Saved(sub)
    /\ UNCHANGED <<disk, budget, steady>>

\* ReplicateJob and RebalanceJob start one more sub-job; without one left, and
\* with all finished, the job is over
LaunchOneMore(sub) ==
    LET state == LaunchNextJobs([subs |-> subs \ {sub}, queue |-> queue, waiting |-> waiting], 1)
    IN  /\ queue' = state.queue
        /\ IF state.subs = {} THEN JobOver
           ELSE /\ subs' = state.subs /\ waiting' = state.waiting
                /\ ok' = (ok /\ Succeeded(sub))
                /\ UNCHANGED <<turn, stage, scan, locks, failedLocks, base>>
        /\ UNCHANGED stale

\* FixUpJob and PurgeJob release a chunk with the last sub-job for it; a chunk
\* they could not lock makes them call _restart after all, which throws
ReleaseChunk(sub) ==
    LET left  == subs \ {sub}
        allOk == ok /\ Succeeded(sub)
    IN  /\ IF left # {}
           THEN /\ subs' = left /\ ok' = allOk
                /\ locks' = IF \E s \in left : s.chunk = sub.chunk THEN locks ELSE locks \ {sub.chunk}
                /\ UNCHANGED <<turn, stage, scan, waiting, stale, failedLocks, base>>
           ELSE IF allOk /\ failedLocks > 0 THEN Die
           ELSE JobOver /\ UNCHANGED stale
        /\ UNCHANGED queue

OnCreateJobFinish(sub) == Ended(sub, "CREATE") /\ LaunchOneMore(sub)
OnMoveJobFinish(sub) == Ended(sub, "MOVE") /\ LaunchOneMore(sub)
OnDeleteJobFinish(sub) == Ended(sub, "DELETE") /\ ReleaseChunk(sub)
OnRequestFinish(sub) == Ended(sub, "FIX") /\ ReleaseChunk(sub)

-------------------------------------------------------------------------------
(***************************************************************************)
(* The workers.                                                            *)
(***************************************************************************)

\* the requests of sub-jobs that track r learn its outcome
Told(r, outcome) ==
    {[s EXCEPT !.reqs = [d \in DOMAIN @ |->
        IF At(s) = r.worker /\ s.chunk = r.chunk /\ d = r.db /\ @[d] = "SENT" THEN outcome ELSE @[d]]] :
            s \in subs}

Replica(r) == disk[r.worker][r.chunk][r.db]

\* a request leaves the worker's queues, and the replica as `left'
Answer(r, outcome, left) ==
    /\ r \in queue
    /\ queue' = queue \ {r}
    /\ disk' = [disk EXCEPT ![r.worker][r.chunk][r.db] = left]
    /\ subs' = Told(r, outcome)
    /\ UNCHANGED <<table, turn, stage, scan, waiting, ok, locks, stale, failedLocks, base, steady>>

\* WorkerReplicationRequest fails without a complete source, or if it finds
\* files of the replica
Feasible(r) == disk[r.src][r.chunk][r.db] = "COMPLETE" /\ Replica(r) = "NONE"

ExecuteReplicate(r) ==
    /\ r.op = "REPLICATE"
    /\ \/ Feasible(r) /\ Answer(r, "OK", "COMPLETE")
       \/ ~Feasible(r) /\ Answer(r, "FAIL", Replica(r))
    /\ UNCHANGED budget

\* WorkerDeleteRequest does not mind missing files
ExecuteDelete(r) == r.op = "DELETE" /\ Answer(r, "OK", "NONE") /\ UNCHANGED budget

-------------------------------------------------------------------------------
(***************************************************************************)
(* Faults.                                                                 *)
(***************************************************************************)

Fault == budget > 0 /\ budget' = budget - 1

\* A copy fails before the first file has its final name, with one file that
\* could not be renamed, or with all of them in place but for a time stamp.
FailReplicate(r) ==
    /\ Fault
    /\ r.op = "REPLICATE" /\ Feasible(r)
    /\ \E left \in Status : Answer(r, "FAIL", left)

\* A deletion goes on after an error: none, some or all of the files are gone.
FailDelete(r) ==
    /\ Fault
    /\ r.op = "DELETE"
    /\ \E left \in {"NONE", "INCOMPLETE", Replica(r)} :
           (Replica(r) = "NONE" => left = "NONE") /\ Answer(r, "FAIL", left)

\* Request::expired: the controller gives up on a request
RequestExpires(sub, d) ==
    /\ Fault
    /\ sub \in subs /\ d \in DOMAIN sub.reqs /\ sub.reqs[d] = "SENT"
    /\ subs' = (subs \ {sub}) \cup {[sub EXCEPT !.reqs[d] = "FAIL"]}
    /\ UNCHANGED <<disk, table, queue, turn, stage, scan, waiting, ok, locks, stale, failedLocks, base, steady>>

\* Job::_expired, or a failed FIND_ALL: the sub-jobs are cancelled, and their
\* callbacks release the locks; the requests stay at the workers
JobExpires ==
    /\ Fault
    /\ stage \in {"SCAN", "RUN"}
    /\ JobOver
    /\ UNCHANGED <<disk, table, queue, stale, steady>>

\* a worker restarts without its queue: the requests are unknown to it
WorkerRestarts(w) ==
    /\ Fault
    /\ \E r \in queue : r.worker = w
    /\ queue' = {r \in queue : r.worker # w}
    /\ subs' = {[s EXCEPT !.reqs = [d \in DOMAIN @ |->
                   IF At(s) = w /\ @[d] = "SENT" THEN "FAIL" ELSE @[d]]] : s \in subs}
    /\ UNCHANGED <<disk, table, turn, stage, scan, waiting, ok, locks, stale, failedLocks, base, steady>>

ControllerDies ==
    /\ Fault
    /\ stage # "DOWN"
    /\ Die
    /\ UNCHANGED <<disk, table, queue, steady>>

ControllerRestarts ==
    /\ stage = "DOWN"
    /\ stage' = "IDLE"
    /\ base' = disk
    /\ UNCHANGED <<disk, table, queue, turn, scan, subs, waiting, ok, locks, stale, failedLocks, budget, steady>>

-------------------------------------------------------------------------------

Next ==
    \/ StartJob \/ Scan
    \/ PlanFixUp \/ PlanReplicate \/ PlanRebalance \/ PlanPurgeJob
    \/ \E sub \in subs : CreatedForMove(sub) \/ OnCreateJobFinish(sub) \/ OnMoveJobFinish(sub)
                            \/ OnDeleteJobFinish(sub) \/ OnRequestFinish(sub)
    \/ \E r \in queue : ExecuteReplicate(r) \/ ExecuteDelete(r)
                            \/ FailReplicate(r) \/ FailDelete(r)
    \/ \E sub \in subs : \E d \in DOMAIN sub.reqs : RequestExpires(sub, d)
    \/ JobExpires
    \/ \E w \in Workers : WorkerRestarts(w)
    \/ ControllerDies \/ ControllerRestarts

\* Nothing that can go on is left undone for ever: the threads of the controller
\* run the callbacks that are due, the workers carry out what is queued, and the
\* task goes from one job to the next.
Fairness ==
    /\ []<>(stage # "IDLE")
    /\ []<>(stage # "DOWN")
    /\ []<>(stage # "SCAN")
    /\ []<>(~\E sub \in subs : Done(sub))
    /\ []<>(queue = {})

Spec == Init /\ [][Next]_vars /\ Fairness

-------------------------------------------------------------------------------

TypeOK ==
    /\ disk \in Disposition
    /\ table \in [Workers -> [Chunks -> SUBSET Databases]]
    /\ \A r \in queue : r.op \in {"REPLICATE", "DELETE"} /\ r.worker \in Workers
    /\ \A r, q \in queue : r # q => q \notin Clash({r, q}, r.worker, r.chunk, r.db)
    /\ turn \in Jobs /\ stage \in {"IDLE", "SCAN", "RUN", "DOWN"}
    /\ (stage = "RUN") = (subs # {})
    /\ waiting # <<>> => turn \in {"REPLICATE", "REBALANCE"}
    /\ locks \cup stale \subseteq Chunks /\ locks \cap stale = {}

\* Without PurgeJob no chunk ever has fewer good replicas than at the start,
\* whatever fails, expires or restarts, and whatever requests of jobs long
\* over the workers still carry out: a replica is deleted only after its copy
\* has been made (MoveReplicaJob), and the copy is not deleted in turn.
NeverFewer ==
    ~purge => \A c \in Chunks :
        Cardinality(GoodHosts(disk, c)) >= Cardinality(GoodHosts(first, c))

\* A lock is held only for a sub-job in progress: the callbacks release it.
LocksHaveAnOwner == \A c \in locks : \E sub \in subs : sub.chunk = c

\* The jobs, their sub-jobs and requests implement the plan of the job as one
\* step, when no fault is to come and no earlier one has left its traces.
Cycle == INSTANCE ReplicationCycle WITH
    info <- IF stage = "IDLE" THEN disk ELSE base,
    turn <- IF stage = "DOWN" THEN "TERMINATED" ELSE turn,
    locks <- stale

ImplementsCycle ==
    [][Faults(first) = 0 => (UNCHANGED Cycle!vars \/ Cycle!Next)]_vars

\* a replica of the chunk lacks some of its files
Incomplete(c) == \E w \in Workers, d \in Databases : disk[w][c][d] = "INCOMPLETE"

\* Once there are no more faults the cycle repairs what they left: every chunk
\* some worker had at the start gets its good replicas, and keeps them.  The
\* exceptions are a chunk with an incomplete replica, which no job repairs or
\* removes, and one of which a PurgeJob has miscounted the replicas.
Recovers ==
    <>[](\A c \in Chunks :
            \/ Hosts(first, c) = {}
            \/ Incomplete(c)
            \/ c \in miscounted
            \/ Cardinality(GoodHosts(disk, c)) >= level)

DataKept(c) ==
    GoodHosts(first, c) # {} => \A d \in ChunkDatabases(first, c) : Complete(disk, c, d) # {}

\* PurgeJob included, a fault loses no data, whatever copies or deletions linger
\* at the workers: of a chunk that has had a good replica there is, for each of
\* its databases, a complete replica somewhere.  There are two ways to lose one,
\* both through a PurgeJob that counts a replica it should not: one that lacks
\* files or databases, or one that a deletion queued by an expired or dead job
\* takes after the PurgeJob has started.
KeepsData == \A c \in Chunks : c \in miscounted \/ DataKept(c)

\* (violated) "the algorithm will only consider 'good' chunks": PurgeJob never
\* deletes the last complete replica.
PurgeKeepsData == \A c \in Chunks : DataKept(c)

\* (violated) "To ensure no lingering side effects will be left after cancelling
\* this job": when a job is over the workers do nothing more for it.
NothingLingers == stage = "IDLE" => queue = {}

===============================================================================
