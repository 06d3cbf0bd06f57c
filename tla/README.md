# A TLA+ model of Qserv

Qserv is a distributed SQL database for sky surveys. A **czar** parses a user
query, splits it into one job per chunk of sky, sends the jobs to **workers** over
XRootD SSI and merges what comes back into one MySQL table. A **replication
system** of controllers and workers of its own keeps copies of the chunks. This
directory models the parts in which threads, callbacks, retries and failures
interact, checks them with TLC on small instances, and proves the safety of the
result merger, of both thread pools, of the replication worker's queues and of the
replication controller's requests with TLAPS, for instances of every size.

Paths below are relative to `src/core/modules/`.

## 1. The system

| Part | Source | State | Operations | What is hard |
|---|---|---|---|---|
| User queries | `czar`, `ccontrol/UserQuery*` | maps of running queries, killed flag, status in QMeta | submit, join, kill, discard | a kill at any time, two writers of the status |
| Query analysis | `parser`, `query`, `qana`, `qproc` | trees | parse, rewrite | sequential |
| Dispatch | `qdisp/Executive`, `JobQuery`, `QueryRequest` | jobs not yet complete, attempts, finish status of each request, pointers that keep objects alive | add, runJob, SSI callbacks, cancel, squash, join | callbacks, pool threads and the kill in any order; retries; object lifetime |
| Result merger | `rproc/InfileMerger`, `ccontrol/MergingHandler` | invalid attempts, merges in progress, rows | merge, prepScrub, hold and delete, finalize | loads without a lock beside deletes |
| Pools | `util/ThreadPool`, `util/EventThread`, `qdisp/QdispPool` | command queue, threads, target size, counters per priority | queue, take, resize, leave, shutdown | wakeups, threads that leave in the midst of a command |
| Worker service | `xrdsvc`, `wcontrol`, `wbase`, `wdb` | tasks, channels | queue, run, cancel | cancellation against the query in MySQL |
| Worker scheduling | `wsched`, `memman`, `wpublish` | chunk queues, active chunk, locked memory, statistics per query | queue, ready, take, finish, move to the snail scheduler | limits, lost wakeups, tasks between queues |
| Replication worker | `replica/Worker*` | three queues of requests, status of each, threads | enqueue, cancel, status, drain, run, stop | a status and a queue that change in two steps |
| Replication controller | `replica/Request`, `Messenger`, `Job`, `Controller`, `ChunkLocker` | request and job states, connections, locked chunks | start, expire, cancel, answer, plan, launch | late answers, reconnects, workers that restart, plans made from an old scan |
| Metadata and configuration | `qmeta`, `css`, `replica/Configuration*`, `DatabaseServices*` | tables in MySQL | transactions | the status column of a query |
| The rest | `proto`, `sql`, `mysql`, `qhttp`, `proxy`, `global`, `wconfig`, `wmgr`, `admin` | none that is shared | conversions, wrappers, scripts | - |

How they meet: `Czar::submitQuery` makes a `UserQuerySelect` and a thread that
submits and joins it. `submit` puts one command per job on the `QdispPool`; each
calls `Executive::add`, which runs the job. `JobQuery::runJob` hands a
`QueryRequest` to SSI. SSI calls back; `ProcessResponse` queues a command that
asks for the data and waits for `ProcessResponseData`, then flushes the block
through `MergingHandler` into `InfileMerger`. On the worker, tasks go through
`BlendScheduler`, itself the command queue of a `ThreadPool`. The replication
system shares nothing with this path but the files: `ReplicationTask` runs its jobs
one after the other; a job scans the workers, plans, and starts sub-jobs; a sub-job
makes one `Request` per database, which the `MessengerConnector` of the worker
carries to the `WorkerProcessor` over there.

`PROJECT.json` lists every part ("components") with its status, and the hazards of
the code with the line where each one bites.

## 2. The modules

| Module | Models | Extends |
|---|---|---|
| `ResultTable` | what the merger promises: a table from which an attempt's rows vanish when it is given up before the table is closed, and what is published of the others | |
| `InvalidJobAttemptMgr` | `rproc/InfileMerger.cc` | |
| `InvalidJobAttemptMgrProofs` | theorems about it | `InvalidJobAttemptMgr` |
| `Executive` | `qdisp/Executive.cc`, and `UserQuerySelect` as its caller | |
| `JobQuery` | `qdisp/JobQuery.cc`, `JobDescription.cc` | `Executive` |
| `QueryRequest` | `qdisp/QueryRequest.cc`, XrdSsi as far as it is used | `JobQuery` |
| `QueryDispatch` | the composition of the three | `QueryRequest` |
| `QueryDispatchStacks`, `QueryDispatchSteps`, `QueryDispatchProofs` | theorems about it: what most steps leave alone; the other steps; the results | `QueryDispatch` |
| `ThreadPool` | `util/ThreadPool.cc`, `util/EventThread.cc` | |
| `ThreadPoolProofs` | theorems about it | `ThreadPool` |
| `QdispPool` | `qdisp/QdispPool.cc` | |
| `QdispPoolProofs` | theorems about it | `QdispPool` |
| `MemMan` | `memman/MemManReal.cc`, `MemFileSet.cc`, `MemFile.cc`, `Memory.cc` | |
| `ChunkTasksQueue` | `wsched/ChunkTasksQueue.cc` | `MemMan` |
| `BlendScheduler` | `wsched/BlendScheduler.cc`, `ScanScheduler.cc`, `GroupScheduler.cc`, `SchedulerBase.cc`, the booting of `wpublish/QueriesAndChunks.cc` | `ChunkTasksQueue` |
| `WorkerProcessor` | `replica/WorkerProcessor.cc`, `WorkerProcessorThread.cc`, `WorkerRequest.cc` | |
| `WorkerProcessorProofs` | theorems about it | `WorkerProcessor` |
| `FindAllJob` | what `replica/FindAllJob.cc` concludes from a scan | |
| `ReplicationPlans` | the planners of `ReplicateJob`, `RebalanceJob`, `PurgeJob`, `FixUpJob` | `FindAllJob` |
| `ReplicationCycle` | what the cycle of `ReplicationTask` promises: each job in one step | `ReplicationPlans` |
| `ReplicationJobs` | the same jobs by sub-jobs and requests, with faults | `ReplicationPlans` |
| `MessengerConnector` | `replica/MessengerConnector.cc` | |
| `RequestTracking` | `replica/Request.cc`, `ReplicationRequest.cc`, `RequestMessenger.cc` over the connector, and the worker's end | `MessengerConnector` |
| `RequestTrackingProofs` | theorems about both | `RequestTracking` |
| `MC...` | instances for TLC | the module of that name |

**Granularity.** A step is one critical section, one SQL statement or one write
other threads can see. What a thread does between two such points is local and
belongs to the step before it.

### The merger: `InvalidJobAttemptMgr`

Pool threads call `merge()`, which loads a message into the merge table with no
lock held. A retry calls `prepScrub()` for the attempt it gives up. Rows of such
attempts are deleted by `holdMergingForRowDelete()`, from `merge()` or
`finalize()`. One mutex, one condition variable, the flag `_waitFlag` and the count
`_concurrentMergeCount` keep loads and deletes apart. The module has a variable for
each of these and for the three sets of attempts, `rows` for the table, and a
program counter per thread; waits on the condition variable are the states
`flagWait` and `countWait` with `cvWaiters`. A load or a delete may fail.

`prepScrub()` may come at any time, also after `finalize()` has got past its own hold: a
`runJob()` that found the query not cancelled gives up its attempt although the query may have been
squashed, joined and finalized in between (`qdisp/JobQuery.cc:73`). Such a scrub is too late: the rows of
the attempt are published unless a `merge()` that deletes comes first. The history variable `dropped`
holds the attempts given up in time, or caught by a later delete; `ResultTable` makes its promise for those,
and says of the others that their rows may be read.

### Dispatch: `Executive`, `JobQuery`, `QueryRequest`, `QueryDispatch`

The three classes call each other from many threads, so each thread has a stack of
frames. Threads are: one pool thread per job that adds it, one SSI callback thread
and one pool thread with the command for each request, and the thread that kills the
query. `req[r]` is a `QueryRequest` with its finish status, flags, pointers and
command; an object is destroyed when nothing refers to it (`Destroyed`). Failures
come from `Failures`: the payload cannot be built, the response is an error, the
read fails, the merge fails.

Taken as given: XrdSsi answers a request once, delivers one block per
`GetResponseData`, and starts no callback after `Finished()`. The Executive is alive
for `markCompleted` calls that come after `discard`. `GetRequest()` only reads.
`MergingHandler::_flushed` is never set, so `reset()` always succeeds.

### Pools: `ThreadPool`, `QdispPool`

`ThreadPool` has the event loop of each thread, the joiner, `resize`, `leavePool`
called from outside while the command runs, and `shutdownPool`. A notification is
part of the step that queues. A thread id is used again once nothing refers to the
old thread. `release()` erases a thread from the pool and then hands it to the joiner
(`handed`, `AddThread`), both under `_poolMutex`; `waitForResize` reads the size of the pool
without that mutex and may look in between. `QdispPool` has `PriorityQueue`'s queues with their limits, the single
flag `_changed`, the counters raised in `commandStart`, and the chain of `MsgEnd`
commands that ends the threads one after the other.

### The replication worker: `WorkerProcessor`

The queues `new`, `inProgress`, `finished`, the status of each request, and the
threads of `WorkerProcessorThread::run()`. `Atomic` requests (delete, find all,
replicate by POSIX) do all their work in one `execute()` and never look at the
status; the others work in `Slices` and look before each. Creating and deleting the
same replica conflict (`Chunk`). Clients enqueue, cancel and ask for the status at
any time, and the service is stopped and run again. Every request has its own id. An
exception `logic_error` is recorded in `logicError`.

### The worker's scheduler: `MemMan`, `ChunkTasksQueue`, `BlendScheduler`

`BlendScheduler` is the command queue of the worker's pool. `queCmd` gives a task to the group
scheduler or to a scan; `getCmd` asks the schedulers in `Order` for a task, under limits that
depend on the tasks in flight everywhere. A scan keeps its tasks by chunk (`ChunkTasksQueue`:
a record with the active chunk, its pending tasks and the one that is ready) and starts one
only with the memory for its tables (`MemMan`). The threads of the pool are counted, not
named: `idle`, `asleep` on `_cv`, or busy. `_ready()` takes one step per scheduler
(`GetReady`, then `TrySched` with `turn`), because tasks finish and are booted, which needs
only the scheduler's own mutex, while it goes through the list; of the threads available it
knows what it computed at the start. A task goes through `at`; the end of its command through
`fin`, in the separate critical sections of `commandFinish`. `QueriesAndChunks::examineAll`
boots a slow task out of the pool, and a task with a large result leaves its scheduler early.
A booted task's thread that was told to leave is replaced at once, even while the examination
is still inside `commandFinish`. Time is not modelled: which task is slow is a choice within
`Bootable`.

Left out: changes while the available threads are added up, and between a scheduler's
`applyAvailableThreads` and its `ready()`, each of which is one step; `moveUserQuery`, which
no caller reaches; the pool's control queue; errors of `mmap` and `stat`; the statistics
themselves; `ChunkDisk` and `FifoScheduler`, which no server schedules with. `ThreadPool`
shows on its own that a thread that leaves is replaced.

### The replication cycle: `FindAllJob`, `ReplicationPlans`, `ReplicationCycle`

A disposition gives the status of every replica. `FindAllJob` derives from it which
chunks are complete, colocated and good; `ReplicationPlans` has the four planners as
functions, with the order of the C++ maps and of ties (`RebalancePlans` is a set, since
equally loaded sources are sorted in no fixed order) and with counters of type
`size_t` modulo `SizeT`. In `ReplicationCycle` a job carries its plan out in one step.

### The jobs request by request: `ReplicationJobs`

A job is a scan, which rewrites `table`, a plan, and sub-jobs of which each has a request
per database. Requests wait in `queue` at the worker and are carried out, fail with none, some or
all of the files in place, or expire; a job expires; a worker restarts without its queue; the
controller dies and is started again. Requests the controller has given up stay at the
worker, and are carried out while later jobs run. `ReplicationCycle` is the abstract
specification: `ImplementsCycle` maps the disk between jobs to its `info`.

Simplifications: the synchronisation with Qserv and the separate `FindAllJob` of
`ReplicationTask` are left out (each job scans by itself); Qserv is not notified
(`xrootdAutoNotify` is off, the default); a request is queued at the worker when it is
started; a worker's operation and a scan are single steps; what a sub-job's requests save in
the database is saved with the callback of the last one; cancelled sub-jobs release their
locks at once. A deletion or copy whose last step fails with all files in place
is covered by an expired request that is carried out.

### Requests and connection: `MessengerConnector`, `RequestTracking`

The connector is a record `con`; each method of the class is a function of it. `ops`
counts the asynchronous operations by kind and result, so that a handler that is due
can run after others have changed the connector, as the handlers run on several threads
(`controllerThreads`). Closing the socket aborts what is pending on it. Messages to the worker
are in `wire`, answers in `back`; `lag` holds what was sent on a connection closed since. An
exception nobody catches sets `dead`: `cancel()` on a socket that is not open, an answer
whose frame does not parse or that belongs to another message. A body that does not parse
(`replica/MessengerConnector.h:186`) is left out: it ends the request like any exchange without success.

A request is started, polls with STATUS messages, and is given up (`GiveUp`: expiration
or cancellation) or ends with an answer, the first one if it does not keep tracking (`once`); `finish()`
does nothing for a request that has finished. `notes` holds the callbacks that run outside the
connector's mutex. `finish()` asks `exists()` and then calls `cancel()`; if the message
has become the current one in between, `cancel()` closes the connection under its operations.
The variable `cut` remembers that; it counts as `CutFaults` faults. Faults, at most `MaxFaults`: a host that does
not resolve, a lost connection, a worker that dies with its queue and is started again. The
worker takes a request or refuses it (as a duplicate of another one, or because of bad parameters),
and carries it out with success or not; a request it was told to cancel answers like one that failed.
Not modelled: `stop()`,
and requests to stop another request.

## 3. What TLC checks

| Run | Instance | Shows |
|---|---|---|
| `Merge` | 2 threads, 2 attempts of one message, the finalizer | `NoWriteDuringDelete`, `InvalidRowsTracked`, `AckedRowsKept`, `PublishedExact`; `ImplementsResultTable`; `MergeReturns`, `FinalizeReturns` |
| `DispatchTwoJobs` | 2 jobs, one attempt and one block each, a kill, every failure but a failed read | `NoBug` (the exception in `markCompleted` is unreachable), `JoinedJobsMerged`; every state in which nothing can move is the end of the query, up to stuck commands |
| `DispatchRetry` | 1 job, 2 attempts, 2 blocks, every failure, a kill | `NoDuplicateRows`, `TrackedJobsAlive`; deadlock as above |
| `DispatchLive` | 1 job, 2 attempts, 1 block, every failure, a kill | `QueryEnds`: join returns, and in the end no thread waits for a mutex or for data; the one exception is a command stuck in the self-deadlock that `DispatchSelfDeadlock` shows |
| `Pool` | 2 commands, 2 threads at first, a resize to 1 or 3, a thread that leaves, a shutdown | `FinishedOnce`, `UnresizedCompletes`, `PoolConverges`, `ShutdownReturns` |
| `Priority` | 3 threads, 3 commands, 2 queues and an unknown priority, a shutdown | `DrainedAtShutdown`, `QueuedRuns`, `ThreadsEnd` |
| `Worker` | 2 threads, requests that create, delete and echo, one stop and restart | `ThreadsSurvive`, `NoConflict`, `ResultsAreFinal`, `RequestsFinish`, `StopEnds` |
| `Sched` | a group scheduler and a scan, 3 threads, 4 tasks that come again and again, 2 chunks, memory for one of two tables; one task may be booted, one may have a large result | `CountsAreExact`, `MemoryHasAnOwner`, `MemoryGranted`, `QueuedRuns` |
| `Cycle` | 3 workers, levels 1 to 3, with and without purge; every placement of 2 chunks with two databases, of 3 chunks with one database and the overflow chunk, and of 1 chunk with incomplete replicas | `PurgeKeepsLevel`, `Converges` |
| `Jobs` | 3 workers, 2 chunks, levels 1 to 3, with and without purge; every placement of one database and three of two databases without a fault, and five dispositions with one fault, among them all chunks on all workers and a chunk of two databases on two workers | `NeverFewer`, `LocksHaveAnOwner`, `KeepsData`, `Recovers`; `ImplementsCycle`, for behaviours without faults |
| `Track` | 2 requests to one worker, up to 2 faults; or one message cut off by `cancel()` | `SuccessIsReal`, `SentOnce`, `Attended`, `FinishedIsFinal`, `Answered` |

The comments above the properties say what each means for the code.

The modules define further, plainer properties, and a type invariant each. All of them hold on the
instances of the runs; to check one again, name it in the configuration of the run:

| Run | Beside `TypeOK` |
|---|---|
| `DispatchTwoJobs` | `TrackedJobsAlive` |
| `DispatchRetry` | `NoBug`, `JoinedJobsMerged`, `KeepsItself` |
| `Pool` | `NoStrayThread` |
| `Priority` | `RunningIsCounted`, `SomebodyAwake` |
| `Worker` | `OneThreadEach` |
| `Sched` | `QueuedInOnePlace`, `ThreadsConserved`, `ChunkLimit` |
| `Cycle` | `OnlyPurgeRemoves`, `RebalanceKeepsCounts`, `RebalanceStopsAtAverage`, `ReplicateMakesGood` (as PROPERTY) |
| `Track` | `AnswersMatch`, which holds as long as at most one message is cancelled in flight; its comment says what happens after the second |
| `Merge`, `Pool`, `Priority`, `Worker`, `Track` | `IndInv`, the invariant the proofs of section 4 are about |

`UnresizedCompletes` is about a pool that is not resized and that fewer commands are made to
leave than it has threads. Once `shutdownPool()` has set the target to 0, a thread that leaves is
not replaced; if all of them leave, `waitForResize(0)` finds the pool empty, and a command that
is still queued is never run. `SentOnce`, `Attended` and `Answered` are stated for behaviours in which `cut` is false, and
`Answered` for a controller that is alive: what happens otherwise is in the table below.

`KeepsData` and `Recovers` except the chunks in `miscounted`, and `Recovers` those with an incomplete
replica, which nothing repairs. `PurgeJob` miscounts the replicas of a chunk in two ways. It counts
replicas that are not good, with files missing or without one of the databases (`JobsPurgeLoss`). And it
counts a replica that a deletion left at a worker by an expired or dead job is going to take (`JobsLinger`).
Without the exception TLC shows that the second alone loses a chunk: both chunks are on three workers, the level is 1, the
first purge expires with deletions queued, the second sees the replicas they have not reached, and keeps
the one that is deleted next.

`JobsPurgeLoss` ends in a counterexample (`PurgeKeepsData`): a copy that fails
halfway leaves an incomplete replica, `PurgeJob` counts it as one of the replicas and
deletes complete ones until no complete one is left. `PROJECT.json` quotes the comment
that promises otherwise ("findings").

The following disagreements between the code and a comment or document have a property and a
configuration of their own too, to be run by hand (`tlc -config X.cfg M` with the
MC module of the component); each ends in a counterexample:

| Configuration | Property | What happens | What is said |
|---|---|---|---|
| `DispatchSelfDeadlock` | `NoSelfDeadlock` | a command drops the last pointer to its request while it holds the mutex that the destructor locks | `qdisp/QueryRequest.cc:188` |
| `DispatchLateRequest` | `SuccessReported` | `runJob` writes REQUEST over COMPLETE, and join() reports a failure nobody had | `qdisp/Executive.h:104` |
| `DispatchKillSubmit` | `SuccessMeansAll` | a kill during submit() leaves jobs out, and join() can report success | `qdisp/Executive.h:104` |
| `PoolShutdownDoc` | `CommandsComplete` | after a resize a superfluous MsgEnd can end the last thread before a command that was queued earlier than the shutdown | `util/ThreadPool.h:95` |
| `WorkerCancelDoc` | `CancelKept` | a request that was reported cancelled goes back to the queue and is executed | `replica/WorkerProcessor.cc:537` |
| `SchedLostTask` | `QueuedStarts` | booting the running attempt of a job removes the queued next attempt of the same job, which is never started | `wsched/ScanScheduler.cc:234` |
| `SchedRoomDoc` | `AlwaysRoom` | a scheduler with nothing in flight is left without a thread | `wsched/BlendScheduler.h:72` |
| `SchedChunkLimit` | `ChunkLimit` | with two active chunks allowed a scan works on more | `wsched/SchedulerBase.h:148` |
| `JobsLinger` | `NothingLingers` | requests of a cancelled or expired job stay at the workers | `replica/DeleteReplicaJob.cc:302` |
| `TrackAborted` | `AbortedIsCleared` | an aborted handler restarts a connection that is at the next message; that message stays current without a write, and the connector sends nothing any more | `replica/MessengerConnector.cc:397` |
| `TrackResolve` | `Survives` | after a failure to resolve the host, the restart calls `cancel()` on a socket that is not open, and the exception ends the process | `replica/MessengerConnector.h:209` |

Six more need no configuration of their own: named in the configuration given, as the
only property, each is violated.

| Configuration | Property | What happens |
|---|---|---|
| `PoolShutdownDoc` | `ShutdownJoinsAll` | `waitForResize(0)` finds the pool empty between `erase()` and `addThread()` of its last thread; the joiner ends first, and that thread is never joined (`util/ThreadPool.cc:167`) |
| `Worker` | `StatusAnswered` | `_checkStatusImpl` throws for a request between `rollback` and `_processingRefused` |
| `Merge`, with `MaxMsgs = 2` | `HoldStopsMerging` | a merge can begin while a thread waits in `holdMergingForRowDelete`, though it never overlaps the delete |
| `Priority` | `MaxRunningHonoured` | a queue exceeds its limit because a command is counted after it was taken |
| `Priority` | `MinRunningHonoured` | of two commands queued together one waits although threads are idle |
| `Cycle` | `NeverTerminated` | a chunk without a source makes `FixUpJob::_restart` throw, which ends the controller |

**Bounds.** `MaxMsgs`, `MaxAttempts`, `MaxBlocks`, `MaxThreads`, `MaxResizes`,
`Slices`, `MaxStops` are bounds. Two attempts are the least for a retry, two blocks
the least for an attempt that fails with rows in the table, two jobs the least for one
job's failure to squash another. `MaxThreads` never binds: in every reachable state of `Pool`
there are as many unused ids as the target asks for. In `Pool`, one resize beside a
departure and a shutdown is enough for a stale MsgEnd. In `Worker`, one stop lets
a request be refused, return to the queue and run again. The dispatch safety runs take
several jobs and several attempts apart to stay small: two jobs that both retry are not
checked. The safety of the merger, the pools, the replication worker and the requests is proved
for all bounds (section 4), so their runs can be small. In `Sched`, three threads for two schedulers that each reserve
one leave one to compete for, and one of two tables fits in memory, so that a
task waits for it. Two tasks of one chunk and one of the next make the active chunk change
while tasks come for it. In `Cycle` three workers are the least for a copy to have a choice
of destinations beside its source; `SizeT` is far above every count, so that only a subtraction
that goes below zero wraps. `Jobs` allows one fault in a behaviour. In `Track` two requests are the least for
one message to wait behind another, and two faults the least for a connection that is lost
while it is being restored. `CutFaults` is 2 too: a behaviour with a cut-off message has no other fault there; with one
other fault the safety and liveness properties were also checked once, by hand.

**Fairness** is weak and per thread: each thread's steps, as an operating system
schedules threads. Condition variables wake without it, because a wakeup is a step of the
thread that sleeps. `QueryDispatch` adds that SSI answers every request it holds and that the query's
own thread goes on. `ThreadPool` adds the joiner, a `resize`, `leavePool` or
`shutdownPool` that has begun. Nobody has to kill, cancel, stop, or begin any of these. `WorkerProcessor`
adds that a stopped service is run again; its requests end because there are at most
`MaxStops` stops, since a service that is suspended for ever again and again may refuse a
request each time. Commands and executions end, which the code assumes too.
`BlendScheduler` is fair to every running task, and again and again no thread is inside `getCmd`
or `commandFinish`: those take no time next to a query. `ReplicationCycle` and
`ReplicationJobs` go on to the next job, callbacks that are due run, workers carry out what is
queued, and a controller that died is started again. In `RequestTracking` operations end,
handlers run, a worker answers and a dead one is started again; nothing has to expire.

**Deadlock** is checked in the dispatch safety runs, where the end of a query is an
explicit action (`Terminating`), which counts stuck commands as ended, and in `Sched`, `Cycle` and
`Jobs`, which never end. The other models end in states where everything
is done, so their configurations switch the check off; their liveness properties
cover it.

**Mutants.** For every property of a listed run `PROJECT.json` names a plausible bug, written as an
operator beside the one it replaces, that the property catches: a wakeup not sent, a
condition not tested again after a wait, a status not reset.

## 4. What is proved

TLAPS checks every theorem down to its leaves. Each of the six developments has the same
form: an inductive invariant `IndInv`, defined beside the properties of the
component and checked by TLC on its run, one lemma per action that the action keeps it, and the
results as consequences. The assumptions are those on the constants in the
component's module, which TLC evaluates in the runs.

### The merger

`InvalidJobAttemptMgrProofs` proves, for any sets of threads and attempts and any number
of messages:

- `IndInvariant`: `Spec => []IndInv`;
- `DeleteExclusion`: no LOAD overlaps a DELETE;
- `InvalidRowsAreTracked`: rows of an invalid attempt, present or about to be written,
  are scheduled for deletion;
- `AckedRowsAreKept`: a message that `merge()` acknowledged stays while its attempt
  is valid;
- `PublishedRowsAreExact`: the published table has every acknowledged message of a valid attempt and
  nothing of an attempt given up before `finalize()` got past its hold;
- `MergerRefinesResultTable`: the merger implements `ResultTable`.

The invariants are not inductive as they stand. `NoWriteDuringDelete` needs that
the count equals the number of merges between increment and decrement (`CountInv`) and
that whoever deletes holds the mutex with the count at zero (`DeleteInv`).
`InvalidRowsTracked` needs that every attempt with rows, or with a load under way, is in
`_jobIdAttemptsHaveRows` (`SetsInv`). `AckedRowsKept` needs the loads that are done but
not yet acknowledged to be counted (`AckInv`). `PublishedExact` and the refinement need that every
attempt given up until `finalize()` has passed its hold is in `dropped`, and that from then on no row of a dropped
attempt is left or coming (`PublishInv`); a scrub that comes later does not disturb this, because it drops nothing. `IndInv` is their
conjunction with the type invariant, `ControlInv` (which places each kind of thread can be at)
and `FinalInv` (the table is published exactly when the finalizer is done); each action has a lemma with one step per conjunct it can disturb. The
assumptions are those on the constants in `InvalidJobAttemptMgr`: the thread
set is finite, the finalizer is not one of the threads, the special values differ
from the others, and `MaxMsgs` is a natural number.

### Query dispatch

`QueryDispatchStacks`, `QueryDispatchSteps` and `QueryDispatchProofs`, for any set of jobs, any
numbers of attempts and blocks and any kinds of failures:

- `BugUnreachable` (`NoBug`): `markCompleted()` never throws its Bug, in whatever order requests
  end, are retried and are killed;
- `RowsOnce` (`NoDuplicateRows`): at most one attempt of a job has rows that count;
- `SuccessIsMerged` (`JoinedJobsMerged`): a success reported by `join()` means that each job it
  counted has the whole result of an attempt that was never given up;
- `TrackedJobsKept` (`TrackedJobsAlive`): a job that `join()` waits for has an active request or a
  call on its way, unless the query is cancelled;
- `KeepAliveIsSelf` (`KeepsItself`) and `DispatchTypes` (`TypeOK`).

They follow from `DispatchInvariant`: `Spec => [](IndInv /\ AddSubmitted)`. A thread is a stack of
calls, and what it will do next is in its first frame; `IndInv` speaks of first frames, and of the frames
below only says which call may be waiting for which (`StackOK`). This is enough because a call returns
at most a truth value to the frame that waits for it; all else is in the state of the job and the request.
The other conjuncts:

- `FlowOK`: the response callback, the data callbacks and the command of a request take turns, so that two
  of them never decide the end of the same request from the same block.
- `StartsOK`: at most one thread is on its way to the next attempt of a job, and then no request of the job is
  active and the last attempt is `Doomed`: it is not merged and nothing under way can merge it any
  more. `RowsOK` says the same of every scrubbed attempt, and that all attempts but the last are scrubbed.
  Without `Doomed`, a scrub followed by a late merge could not be excluded.
- `TrackOK`: while the query is not cancelled each job in `_incompleteJobs` is in exactly one
  hand, an active request or one thread between the end of a request and
  `_unTrack`. That there is one gives `TrackedJobsAlive`; that there is no second gives `NoBug`.
- `MainOK`: what `submit()` and `join()` rely on. `AddSubmitted`, which the proof of `Submit` asks for, says
  that the thread that adds a job has nothing to do before the job is submitted.

Most steps change the first frame of one thread and nothing else the invariant looks at;
`QueryDispatchStacks` proves once what such steps keep (`QuietStep`, `CalmStep` and the lemmas
named `...Keep`). What `_requestCount` and `join()` need of the sizes of finite sets is `CardinalityCounts`; the
lemmas of `QueryDispatchSteps` suppose it, and `QueryDispatchProofs` proves it from the library's
theorems. Assumed are only the types of the constants in `Executive`.

### The thread pool

`ThreadPoolProofs`, for any numbers of threads, commands, resizes and
departures:

- `CommandsFinishOnce` (`FinishedOnce`): `commandFinish` is called once for each command, whether
  the thread or `leavePool()` gets to it first;
- `ThreadsAreJoined` (`NoStrayThread`): a thread that runs is in the pool, with the joiner or on its
  way to it, and outside the pool it has no command the queue was not told of;
- `ShutdownCompletes` (`UnresizedCompletes`): when `shutdownPool()` returns, every command has
  run, under the condition given in section 3.

`FinishedOnce` rests on `Told`: `_commandFinishCalled` of a thread says whether the queue was told of
the command *in hand*. `leavePool()` compares the command first and raises the flag later, and in
between the thread could have taken the next command; `LeavesAfter` says why it has
not: `_loop` was lowered before the comparison. `OnePlace` (a command is in the queue
once, or with one thread) and `Membership` (who is in the pool and who is with the joiner, once) carry both.
`NoStrayThread` needs `Left`: where a thread outside the pool can be in its loop.
`UnresizedCompletes` is a count: as long as a command waits, the threads in the pool that will go on, and
the departures so far, are together at least `InitCount` (`Unresized`), and a MsgEnd is
never in front of a command. `Closing` relates the stages of the shutdown to
target, pool and joiner. Assumed: `InitCount` and the targets lie in `1..MaxThreads`, booted
commands are commands, and MsgEnd is not a user's command.

### The priority queues

`QdispPoolProofs`, for any finite sets of threads and priorities, any commands and any limits with
`MinRunning <= MaxRunning` and `MaxRunning > 0`:

- `CountersAreExact` (`RunningIsCounted`): each counter is the number of running commands
  of its queue;
- `ShutdownDrains` (`DrainedAtShutdown`): the last thread ends only when every command has run.

A MsgEnd can be taken while a command waits in a queue that is at its limit. What
makes that harmless is `WorkerLeft`: while a command waits, a thread is left
that no MsgEnd has reached. It is inductive only with exact counters, since a queue can be at its
limit only if some thread runs one of its commands, and with `EndsLast`: MsgEnd is in the default queue
alone, behind all commands. `NothingLost` follows a command from the queue to its thread.

### The replication worker

`WorkerProcessorProofs`, for any sets of requests and threads, any assignment of chunks and any
number of slices and stops:

- `NoThreadThrows` (`ThreadsSurvive`): no `logic_error` ends a thread;
- `ActiveRequestsDiffer` (`NoConflict`): two active requests are never about the same replica;
- `RequestsHaveOneThread` (`OneThreadEach`);
- `ResultsStay` (`ResultsAreFinal`), an action property: a result does not change, and a finished
  request stays finished.

The status of a request and the queue it is in change in two steps, and a client may cancel in
between. `StatusInv` lists, for each point of `WorkerProcessorThread::run()`, the statuses that the
thread's request can have there, and for each queue those of its requests; `OwnerInv` says that a request
in progress belongs to one thread at such a point.

### Requests and connection

`RequestTrackingProofs`, for any numbers of requests, faults and cancellations:

- `SuccessIsNeverMadeUp` (`SuccessIsReal`): a request that ends as a success was carried out;
- `NothingIsSentTwice` (`SentOnce`), `TheChainNeverBreaks` (`Attended`): until `cancel()` has met
  the current message, the worker has a request at most once, and the connector always has an operation under way
  for what it waits for;
- `FinishedStays` (`FinishedIsFinal`), an action property: no answer, expiration or timer changes
  a request that has finished, and the connector is given no further message of it.

`Attended` says that there is an operation; inductive is only that there is *exactly one* (`Chain`):
one that makes a connection while the state is CONNECTING, one that carries
the current message, never both. `SentOnce` needs, with it, where the QUEUED message of a request
can be before the worker has it (`Messaged`): in one place of the queue, at the socket with its write not
successful, or on one connection. `ReportsAreReal` follows a success from the worker through
the connection and the callbacks to the request. The first part of the module shows what each
method of the connector does to the chain and to the place of a message, the second one goes through the
handlers. Assumed: `NoMsg` is not a message.

### Only model-checked

- Liveness: fairness and `ENABLED` are beyond the prover.
- `BlendScheduler`, `MemMan`, `ChunkTasksQueue`: the counts are sums over schedulers and tasks, folded
  by operators of the community modules, of which the prover knows nothing; `ReplicationPlans`: the plans are
  folds too, and what they compute is an induction over data. So `CountsAreExact`,
  `MemoryHasAnOwner`, `MemoryGranted`, `NeverFewer`, `LocksHaveAnOwner` and `KeepsData` are checked by TLC
  only: each depends on what such a fold returns (`LocksHaveAnOwner` on every locked chunk being in the plan).

## 5. What is not modelled, and the plan

`PROJECT.json` gives the reason for each part. Data races are read as atomic accesses: on the size
of the pool's vector (`util/ThreadPool.cc:251`, before or after a change, never in the middle), on the pointers `cleanup()` clears
(`qdisp/QueryRequest.cc:503`) and `discard()` resets (`ccontrol/UserQuerySelect.cc:366`), and on the list
of active sub-jobs (`replica/ReplicateJob.cc:503`). Outside the models too: what log calls do to `errno`
before it is read (`wsched/ChunkTasksQueue.cc:401`), a response stream that ends early
(`qdisp/QueryRequest.cc:417`), how long `execute()` keeps the mutex of a request
(`replica/WorkerSqlRequest.cc:113`), and deletions that first ask Qserv
(`replica/DeleteReplicaJob.cc:265`, only with `xrootd.auto-notify`).

Modelled in part only, and what is missing:

- **User queries**: `submit`, `kill` and `discard` as far as the Executive sees them. `Czar`'s
  maps (`czar/Czar.cc:340`: an insertion that does not replace the client's earlier query) and the status
  in QMeta, which `join` and `kill` both write (`ccontrol/UserQuerySelect.cc:335`), are not modelled.
- **Worker service** (`xrdsvc`, `wdb`, `wbase`): a task's life as the schedulers see it. The
  cancellation of a query in MySQL, the response states of `SsiRequest` and the reference
  counts of `ChunkResource` are not modelled.
- **Replication controller**: `MasterControllerHttpApp` with its health monitor and the
  eviction of workers (`DeleteWorkerJob`), `VerifyJob`, the Qserv management requests, and the
  jobs of the command line tools are not modelled. `MessengerConnector::stop` is not either: its
  aborted handlers restart the connection, so that with the worker down the I/O service may never
  run out of work (`replica/MessengerConnector.cc:98`).
- **Parser, query analysis, wrappers, scripts**: sequential code, or none of its own state.

Next, in this order:

1. **User queries**: a query ends once, in one final state of QMeta. Instance: two
   queries of one client thread, a kill.
2. **Eviction of workers**: `HealthMonitorTask`, `DeleteWorkerJob` and the tasks that are stopped
   and started around it, on `ReplicationCycle`.
3. **Worker service**: `SsiRequest`, `Task` cancellation, `ChunkResource`.
4. **Proofs**: `CountsAreExact` and `MemoryHasAnOwner` of `BlendScheduler`, with sums that
   are not folds.
