--------------------------- MODULE BlendScheduler ---------------------------
(***************************************************************************)
(* wsched: the scheduler of a worker.  BlendScheduler puts each task on    *)
(* the GroupScheduler or on one of the ScanSchedulers and hands the tasks  *)
(* to the threads of the worker's pool; QueriesAndChunks examines the      *)
(* running tasks and boots slow ones.  The threads of the pool are not     *)
(* told apart: a thread is idle (about to call getCmd), asleep on _cv, or  *)
(* busy with a task.  A thread that leaves the pool is replaced.           *)
(***************************************************************************)
EXTENDS ChunkTasksQueue, Integers, FiniteSetsExt

CONSTANTS Order,        \* _schedulers: the group scheduler, the scans, the snail scan
          SchedOf,      \* the scheduler queCmd() chooses for each task
          MaxReserve,   \* SchedulerBase::_maxReserve
          MaxActive,    \* SchedulerBase::_maxActiveChunks
          PoolSize,     \* _schedMaxThreads, _maxThreads, and the threads of the pool
          MaxGroupSize, \* GroupScheduler::_maxGroupSize
          Bootable,     \* bound: the tasks that may run for too long
          Large         \* bound: the tasks that may have a large result

Group == Head(Order)
Scheds == ToSet(Order)
Scans == Scheds \ {Group}

ASSUME EveryReserveFits ==
    /\ \A s \in Scheds : MaxReserve[s] \in Nat \ {0} /\ MaxActive[s] \in Nat \ {0}
    /\ SumFunction(MaxReserve) =< PoolSize

VARIABLES
    groups,    \* GroupScheduler::_queue
    queue,     \* ScanScheduler::_taskQueue of each scan
    inFlight,  \* SchedulerBase::_inFlight
    chunkTasks,\* SchedulerBase::_chunkTasks
    hold,      \* ScanScheduler::_memManHandleToUnlock
    mem,       \* MemMan
    mx,        \* _mx: free, or held in getCmd() that looks for a task, has one or is about to wait
    turn,      \* the scheduler that is looked at, and the availableThreads so far
    readySched,\* BlendScheduler::_readySched
    idle,      \* threads awake and about to call getCmd()
    asleep,    \* threads waiting on BlendScheduler::_cv
    at,        \* where each task is
    fin,       \* how far commandFinish() of each task is
    pet,       \* the tasks with CommandThreadPool::_poolEventThread set
    left,      \* the tasks whose thread was replaced while it called commandFinish()
    exam       \* the task examineAll() is about to boot, and where it is

schedVars == <<groups, queue, inFlight, chunkTasks, hold, mem>>
threadVars == <<mx, turn, readySched, idle, asleep>>
taskVars == <<at, fin, pet, left>>
vars == <<schedVars, threadVars, taskVars, exam>>

NoSched == "none"
NoTurn == [i |-> 0, avail |-> 0]
NoExam == [at |-> "idle", t |-> NoTask]
Init ==
    /\ groups = <<>>
    /\ queue = [s \in Scans |-> EmptyQueue]
    /\ inFlight = [s \in Scheds |-> 0]
    /\ chunkTasks = [s \in Scheds |-> [c \in Range(ChunkOf) |-> 0]]
    /\ hold = [s \in Scans |-> NoTask]
    /\ mem = NoMemory
    /\ mx = "free" /\ turn = NoTurn /\ readySched = NoSched /\ idle = PoolSize /\ asleep = 0
    /\ at = [t \in Tasks |-> "none"]
    /\ fin = [t \in Tasks |-> "no"]
    /\ pet = {} /\ left = {}
    /\ exam = NoExam

\* BlendScheduler::notify(true).
NotifyAll == idle' = idle + asleep /\ asleep' = 0

-----------------------------------------------------------------------------
(* Queueing a task                                                           *)

\* A group takes tasks of its chunk until it has accepted _maxAccepted.
Accepts(g, t) == g.chunk = ChunkOf[t] /\ g.accepted < MaxGroupSize
GroupQueue(gs, t) ==
    IF \E i \in DOMAIN gs : Accepts(gs[i], t)
    THEN LET i == Smallest({j \in DOMAIN gs : Accepts(gs[j], t)})
         IN [gs EXCEPT ![i].accepted = @ + 1, ![i].tasks = Append(@, t)]
    ELSE Append(gs, [chunk |-> ChunkOf[t], accepted |-> 1, tasks |-> <<t>>])

\* The slot of a task of the model is used again when nothing refers to it.
Free(t) == at[t] = "none" /\ exam.t # t /\ \A s \in Scans : hold[s] # t

\* Foreman::processTask() and BlendScheduler::queCmd().
QueCmd(t) ==
    /\ mx = "free" /\ Free(t)
    /\ IF SchedOf[t] = Group
       THEN groups' = GroupQueue(groups, t) /\ UNCHANGED queue
       ELSE queue' = [queue EXCEPT ![SchedOf[t]] = QueueTask(@, t)] /\ UNCHANGED groups
    /\ at' = [at EXCEPT ![t] = "queued"]
    /\ NotifyAll
    /\ UNCHANGED <<inFlight, chunkTasks, hold, mem, mx, turn, readySched, fin, pet, left, exam>>
-----------------------------------------------------------------------------
(* BlendScheduler::getCmd(true)                                              *)

AtLeast0(n) == Max({0, n})
DesiredThreadReserve(s) == Min({inFlight[s] + 1, MaxReserve[s]})
CalcAvailableThreads == PoolSize - MapThenSumSet(DesiredThreadReserve, Scheds)
MaxInFlight(s, avail) == Min({PoolSize, avail + DesiredThreadReserve(s)})
Remaining(s, avail) == avail - AtLeast0(inFlight[s] - MaxReserve[s])
Busy(s) == {c \in DOMAIN chunkTasks[s] : chunkTasks[s][c] > 0}

\* ScanScheduler::_ready(): the handle of the task that finished last is given
\* back after a first attempt, and a failed attempt is made again.
UnlockHeld(m, h) == IF h = NoTask THEN m ELSE Unlock(m, h)
Attempt(s, q, m) == Ready(q, m, inFlight[s] < 1, Busy(s), MaxActive[s])
Retry(s, r, h) ==
    LET m == UnlockHeld(r.mem, h)
    IN IF r.ok \/ h = NoTask THEN [r EXCEPT !.mem = m] ELSE Attempt(s, r.q, m)
ScanReady(s) == Retry(s, Attempt(s, queue[s], mem), hold[s])

\* What a scheduler's ready() says, and what it leaves behind.
GroupTurn(room, ok) ==
    /\ ok = (room /\ groups # <<>>)
    /\ UNCHANGED <<queue, mem, hold>>
ScanTurn(s, room, ok) ==
    IF ~room THEN ~ok /\ UNCHANGED <<queue, mem, hold>>
    ELSE LET r == ScanReady(s)
         IN /\ ok = r.ok
            /\ queue' = [queue EXCEPT ![s] = r.q] /\ mem' = r.mem
            /\ hold' = [hold EXCEPT ![s] = NoTask]

\* BlendScheduler::_ready() begins.
GetReady ==
    /\ mx = "free" /\ idle > 0
    /\ mx' = "look" /\ turn' = [i |-> 1, avail |-> CalcAvailableThreads]
    /\ idle' = idle - 1
    /\ UNCHANGED <<schedVars, readySched, asleep, taskVars, exam>>

\* One turn of its loop: the scheduler is asked under its own mutex, and tasks of all
\* schedulers may end between two turns.
TrySched == \E ok \in BOOLEAN :
    LET s == Order[turn.i]
        room == inFlight[s] < MaxInFlight(s, turn.avail)
    IN /\ mx = "look"
       /\ IF s = Group THEN GroupTurn(room, ok) ELSE ScanTurn(s, room, ok)
       /\ readySched' = IF ok THEN s ELSE NoSched
       /\ IF ok \/ turn.i = Len(Order)
          THEN mx' = (IF ok THEN "ready" ELSE "wait") /\ turn' = NoTurn
          ELSE mx' = mx /\ turn' = [i |-> turn.i + 1, avail |-> Remaining(s, turn.avail)]
       /\ UNCHANGED <<groups, inFlight, chunkTasks, idle, asleep, taskVars, exam>>

\* _cv.wait() gives the mutex back; a notify() before it is not seen.
Sleep ==
    /\ mx = "wait"
    /\ mx' = "free" /\ asleep' = asleep + 1
    /\ UNCHANGED <<schedVars, turn, readySched, idle, taskVars, exam>>

\* getCmd(false) of the ready scheduler.
Taken(t) ==
    LET s == readySched
    IN /\ inFlight' = [inFlight EXCEPT ![s] = @ + 1]
       /\ chunkTasks' = [chunkTasks EXCEPT ![s][ChunkOf[t]] = @ + 1]
       /\ at' = [at EXCEPT ![t] = "taken"]
       /\ mx' = "free" /\ readySched' = NoSched
       /\ NotifyAll
       /\ UNCHANGED <<turn, fin, pet, left, exam>>

GroupGetCmd ==
    /\ readySched = Group
    /\ LET g == Head(groups)
       IN /\ groups' = IF Len(g.tasks) = 1 THEN Tail(groups)
                       ELSE [groups EXCEPT ![1].tasks = Tail(@)]
          /\ Taken(Head(g.tasks))
    /\ UNCHANGED <<queue, hold, mem>>

ScanGetCmd(s) ==
    /\ readySched = s
    /\ queue' = [queue EXCEPT ![s] = GetTask(@)]
    /\ mem' = UnlockHeld(mem, hold[s])
    /\ hold' = [hold EXCEPT ![s] = NoTask]
    /\ Taken(queue[s].ready)
    /\ UNCHANGED groups
-----------------------------------------------------------------------------
(* EventThread::handleCmds(): commandStart(), the action, commandFinish()    *)

\* commandStart() and specialActions(), then the action up to the end of
\* Task::waitForMemMan(): a lock() that fails has released the handle.
Start(t) ==
    /\ at[t] = "taken"
    /\ at' = [at EXCEPT ![t] = "query"]
    /\ pet' = pet \cup {t}
    /\ \/ UNCHANGED mem
       \/ SchedOf[t] # Group /\ MayFail(mem, t) /\ mem' = Unlock(mem, t)
    /\ UNCHANGED <<groups, queue, inFlight, chunkTasks, hold, threadVars, fin, left, exam>>

\* When the action and commandFinish() are both over the task is gone.
Over(t) == /\ at' = [at EXCEPT ![t] = "none"]
           /\ fin' = [fin EXCEPT ![t] = "no"]
           /\ pet' = pet \ {t}
           /\ left' = left \ {t}

\* Mutant: a commandFinish() that was called is called again.
ActionEndAgain(t) ==
    /\ at[t] = "query"
    /\ at' = [at EXCEPT ![t] = "ended"] /\ fin' = [fin EXCEPT ![t] = "called"]
    /\ UNCHANGED <<schedVars, threadVars, pet, left, exam>>

\* QueryRunner::_fillRows() on a result of several messages leaves the pool.
LargeResult(t) ==
    /\ t \in Large /\ at[t] = "query" /\ t \in pet
    /\ at' = [at EXCEPT ![t] = "large"]
    /\ fin' = [fin EXCEPT ![t] = "called"]
    /\ pet' = pet \ {t}
    /\ UNCHANGED <<schedVars, threadVars, left, exam>>

\* The action ends, after leavePool() when that call has returned, and
\* callCommandFinish() does something if nobody called it before.  A thread that was
\* told to leave meanwhile goes to its finishup() and is replaced at once, though
\* the examination may still be in commandFinish().
ActionEnd(t) ==
    /\ at[t] = "query" \/ (at[t] = "large" /\ fin[t] = "done")
    /\ \/ fin[t] = "done" /\ Over(t) /\ UNCHANGED idle
       \/ /\ fin[t] = "no" /\ fin' = [fin EXCEPT ![t] = "called"]
          /\ at' = [at EXCEPT ![t] = "ended"]
          /\ UNCHANGED <<pet, left, idle>>
       \/ /\ fin[t] \notin {"no", "done"} /\ left' = left \cup {t} /\ idle' = idle + 1
          /\ at' = [at EXCEPT ![t] = "ended"]
          /\ UNCHANGED <<pet, fin>>
    /\ UNCHANGED <<schedVars, mx, turn, readySched, asleep, exam>>

\* ScanScheduler::commandFinish(), first the queue and then the scheduler.
FinComplete(t) ==
    /\ fin[t] = "called" /\ SchedOf[t] \in Scans
    /\ fin' = [fin EXCEPT ![t] = "complete"]
    /\ queue' = [queue EXCEPT ![SchedOf[t]] = TaskComplete(@, t)]
    /\ UNCHANGED <<groups, inFlight, chunkTasks, hold, mem, threadVars, at, pet, left, exam>>

Uncount(t) == /\ fin' = [fin EXCEPT ![t] = "told"]
              /\ inFlight' = [inFlight EXCEPT ![SchedOf[t]] = @ - 1]
              /\ chunkTasks' = [chunkTasks EXCEPT ![SchedOf[t]][ChunkOf[t]] = @ - 1]
              /\ UNCHANGED <<groups, queue, threadVars, at, pet, left, exam>>

\* Mutant: the handle held so far is forgotten.
FinScanForget(t) ==
    /\ fin[t] = "complete"
    /\ hold' = [hold EXCEPT ![SchedOf[t]] = t]
    /\ UNCHANGED mem /\ Uncount(t)

FinScan(t) ==
    LET s == SchedOf[t]
        m == UnlockHeld(mem, hold[s])
        keep == DOMAIN queue[s].map # {}
    IN /\ fin[t] = "complete"
       /\ hold' = [hold EXCEPT ![s] = IF keep THEN t ELSE NoTask]
       /\ mem' = IF keep THEN m ELSE Unlock(m, t)
       /\ Uncount(t)

FinGroup(t) ==
    /\ fin[t] = "called" /\ SchedOf[t] = Group
    /\ Uncount(t)
    /\ UNCHANGED <<hold, mem>>

\* BlendScheduler::commandFinish() goes on with finishedTask() and notify(true).
\* Then the thread comes back for a command, or its replacement does, if it was not
\* replaced before.
FinNotify(t) ==
    /\ fin[t] = "told"
    /\ IF at[t] = "ended" THEN Over(t)
       ELSE fin' = [fin EXCEPT ![t] = "done"] /\ UNCHANGED <<at, pet, left>>
    /\ idle' = idle + asleep + (IF t \in left THEN 0 ELSE 1)
    /\ asleep' = 0
    /\ UNCHANGED <<schedVars, mx, turn, readySched, exam>>
-----------------------------------------------------------------------------
(* QueriesAndChunks::examineAll() and _bootTask()                            *)

\* examineAll() picks a running task of a scan.  ScanScheduler::removeTask()
\* first removes what has the ids of the task from the queue; otherwise the
\* thread of the task is to leave the pool.  (A task that ends between the two
\* has no thread left to lose.)
Removable(t) == WithIds(queue[SchedOf[t]], ChunkOf[t], JobOf[t])
BootTask(t) ==
    /\ exam = NoExam /\ t \in Bootable /\ SchedOf[t] \in Scans
    /\ at[t] \in {"query", "large", "ended"} /\ fin[t] # "done"
    /\ IF Removable(t) = {}
       THEN /\ t \in pet /\ pet' = pet \ {t}
            /\ exam' = [at |-> "leave", t |-> t]
            /\ UNCHANGED <<queue, at>>
       ELSE \E u \in Removable(t) :
            /\ queue' = [queue EXCEPT ![SchedOf[t]] = RemoveTask(@, ChunkOf[t], u)]
            /\ at' = [at EXCEPT ![u] = "removed"]
            /\ UNCHANGED <<pet, exam>>
    /\ UNCHANGED <<groups, inFlight, chunkTasks, hold, mem, threadVars, fin, left>>

\* PoolEventThread::leavePool(task) finds the thread running the task, calling
\* commandFinish() for it, or past it.
ExamLeave ==
    LET t == exam.t
    IN /\ exam.at = "leave"
       /\ \/ /\ at[t] = "query"
             /\ fin' = [fin EXCEPT ![t] = "called"]
             /\ exam' = [exam EXCEPT !.at = "finish"]
             /\ UNCHANGED <<left, idle>>
          \/ /\ at[t] = "ended"
             /\ left' = left \cup {t} /\ idle' = idle + 1
             /\ exam' = NoExam
             /\ UNCHANGED fin
          \/ /\ at[t] = "none"
             /\ exam' = NoExam
             /\ UNCHANGED <<left, idle, fin>>
       /\ UNCHANGED <<schedVars, mx, turn, readySched, asleep, at, pet>>

ExamEnd ==
    /\ exam.at = "finish" /\ fin[exam.t] \in {"no", "done"}
    /\ exam' = NoExam
    /\ UNCHANGED <<schedVars, threadVars, taskVars>>
-----------------------------------------------------------------------------
RunTask(t) == Start(t) \/ ActionEnd(t)
Finish(t) == FinComplete(t) \/ FinScan(t) \/ FinGroup(t) \/ FinNotify(t)
GetCmd == GetReady \/ TrySched \/ Sleep \/ GroupGetCmd \/ \E s \in Scans : ScanGetCmd(s)
Examine == ExamLeave \/ ExamEnd

Next == \/ \E t \in Tasks : QueCmd(t) \/ RunTask(t) \/ LargeResult(t) \/ Finish(t) \/ BootTask(t)
        \/ GetCmd
        \/ Examine

\* Queries end; tasks need not come, nor the examination.  getCmd() and
\* commandFinish() take no time next to a query, so that again and again no
\* thread is inside one of them.  (Fairness to a thread alone would let every
\* query end before the next thread is through getCmd().)
\* []<>~Running(t) says what WF_vars(RunTask(t)) does: RunTask(t) can take place
\* exactly when t is running, and t is not once its action has ended.
Running(t) == at[t] \in {"taken", "query"} \/ (at[t] = "large" /\ fin[t] = "done")
Settled == mx = "free" /\ idle = 0 /\ \A t \in Tasks : fin[t] \in {"no", "done"}
Fairness == []<>Settled /\ \A t \in Tasks : []<>~Running(t)
Spec == Init /\ [][Next]_vars /\ Fairness
-----------------------------------------------------------------------------
InPool == {t \in Tasks : at[t] \in {"taken", "query", "large", "ended"} /\ fin[t] # "done"}
Counted == {t \in InPool : fin[t] # "told"}
Queued(t) == at[t] = "queued"

TypeOK ==
    /\ idle \in 0..PoolSize /\ asleep \in 0..PoolSize
    /\ mx \in {"free", "look", "ready", "wait"} /\ turn.i \in 0..Len(Order)
    /\ readySched \in Scheds \cup {NoSched}
    /\ at \in [Tasks -> {"none", "queued", "taken", "query", "large", "ended", "removed"}]
    /\ fin \in [Tasks -> {"no", "called", "complete", "told", "done"}]

\* No task is lost or run twice: a queued task is in exactly one place of one
\* scheduler, the one queCmd() chose, whatever was booted, advanced or erased.
QueuedInOnePlace ==
    /\ \A i, j \in DOMAIN groups : i # j => ToSet(groups[i].tasks) \cap ToSet(groups[j].tasks) = {}
    /\ {t \in Tasks : Queued(t) /\ SchedOf[t] = Group} = UNION {ToSet(groups[i].tasks) : i \in DOMAIN groups}
    /\ \A s \in Scans : {t \in Tasks : Queued(t) /\ SchedOf[t] = s} = QueuedIn(queue[s])

\* The counts that limit the schedulers are those of the tasks they run, for
\* tasks that end, that send large results and that are booted, in any order.
CountsAreExact ==
    /\ \A s \in Scheds : inFlight[s] = Cardinality({t \in Counted : SchedOf[t] = s})
    /\ \A s \in Scheds : \A c \in DOMAIN chunkTasks[s] :
         chunkTasks[s][c] = Cardinality({t \in Counted : SchedOf[t] = s /\ ChunkOf[t] = c})

\* The pool keeps its size: a thread that leaves is replaced once.
ThreadsConserved ==
    idle + asleep + (IF mx = "free" THEN 0 ELSE 1)
      + Cardinality({t \in InPool : t \notin left}) = PoolSize

\* A handle that somebody still has to give back is the only kind there is.
MemoryHasAnOwner ==
    mem.han \subseteq {t \in Tasks : \/ t \in Counted \/ \E s \in Scans : hold[s] = t
                                     \/ \E s \in Scans : queue[s].ready = t}

\* Memory is not given out twice, and what was granted to a task that must have
\* it stays while the handles of other tasks on the same tables come and go.
MemoryGranted ==
    /\ Cardinality(mem.rsv) =< MaxBytes
    /\ \A t \in mem.req : ToSet(Files[t]) \subseteq mem.rsv \cup mem.flex

\* "Limit the number of chunks this scheduler can work on at one time."
\* A task that taskComplete() was called for does not count.
ChunkLimit ==
    \A s \in Scans :
      Cardinality({ChunkOf[t] : t \in {u \in Counted : SchedOf[u] = s /\ fin[u] # "complete"}})
        =< MaxActive[s]

\* "At any time, all sub-schedulers should be able to run at least one thread."
AlwaysRoom ==
    LET Before(s) == FoldLeft(LAMBDA a, r : IF a.done \/ r = s THEN [a EXCEPT !.done = TRUE]
                                            ELSE [a EXCEPT !.avail = Remaining(r, @)],
                              [done |-> FALSE, avail |-> CalcAvailableThreads], Order).avail
    IN \A s \in Scheds : inFlight[s] = 0 => MaxInFlight(s, Before(s)) >= 1

\* "A return value of true indicates that the task still needs to be started."
\* (ScanScheduler::removeTask): a task taken off a queue to be run is not
\* dropped, so that the czar that sent it gets an answer.
QueuedStarts == \A t \in Tasks : at[t] # "removed"

\* A queued task gets a thread, however many tasks the czars go on sending to
\* its own and to the other schedulers.
QueuedRuns == \A t \in Tasks : Queued(t) ~> ~Queued(t)
=============================================================================
