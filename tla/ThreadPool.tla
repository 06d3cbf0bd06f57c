----------------------------- MODULE ThreadPool -----------------------------
(***************************************************************************)
(* util/ThreadPool.cc with util/EventThread: a pool of threads fed by one  *)
(* CommandQueue.  The pool shrinks by MsgEnd commands on the shared queue, *)
(* is refilled when a thread is made to leave it in the middle of a        *)
(* command, and is emptied by shutdownPool().                              *)
(***************************************************************************)
EXTENDS Naturals, Sequences, FiniteSets, Functions

CONSTANTS Cmds,       \* the commands the users of the pool queue
          MaxThreads, \* bound: PoolEventThread objects alive at one time
          InitCount,  \* thrdCount of newThreadPool
          Targets,    \* the sizes resize() is called with
          MaxResizes, \* bound: calls of resize()
          Boots       \* the commands somebody makes leave the pool

ASSUME InitCountFits == MaxThreads \in Nat /\ InitCount \in 1..MaxThreads
ASSUME TargetsFit == Targets \subseteq 1..MaxThreads
ASSUME BootsKnown == Boots \subseteq Cmds

ThreadIds == 1..MaxThreads
End == "MsgEnd"
NoCmd == "none"
ASSUME CmdsAreUsers == End \notin Cmds /\ NoCmd \notin Cmds

VARIABLES
    queue,     \* CommandQueue::_qu
    pool,      \* ThreadPool::_pool
    target,    \* _targetThrdCount
    at,        \* where the event loop of each thread is
    cmd,       \* EventThread::_cmd / _currentCommand of each thread
    loop,      \* EventThread::_loop
    finished,  \* EventThread::_commandFinishCalled
    finishup,  \* PoolEventThread::_finishupOnce
    joinQueue, \* EventThreadJoiner::_eventThreads
    handed,    \* the thread release() has erased and not yet added to joinQueue
    boot,      \* leavePool(cmd) of each command, called from outside
    resizing,  \* a caller of resize() that has set the target
    resizes,   \* calls of resize() made
    down,      \* where shutdownPool() is
    finishes   \* how often commandFinish was called for each command

threadVars == <<at, cmd, loop, finished, finishup>>
vars == <<queue, pool, target, threadVars, joinQueue, handed, boot, resizing, resizes, down, finishes>>

Init ==
    /\ queue = <<>> /\ pool = 1..InitCount /\ target = InitCount
    /\ at = [t \in ThreadIds |-> IF t \in 1..InitCount THEN "get" ELSE "none"]
    /\ cmd = [t \in ThreadIds |-> NoCmd]
    /\ loop = [t \in ThreadIds |-> TRUE]
    /\ finished = [t \in ThreadIds |-> FALSE]
    /\ finishup = [t \in ThreadIds |-> FALSE]
    /\ joinQueue = <<>> /\ handed = {}
    /\ boot = [c \in Boots |-> [at |-> "idle", t |-> 0]]
    /\ resizing = FALSE /\ resizes = 0 /\ down = "no"
    /\ finishes = [c \in Cmds |-> 0]

\* A command is queued once, before the pool is shut down.
Queued(c) == c \in Range(queue)
Sent(c) == \/ Queued(c) \/ finishes[c] > 0
           \/ \E t \in ThreadIds : cmd[t] = c
QueCmd(c) ==
    /\ down = "no" /\ ~Sent(c)
    /\ queue' = Append(queue, c)
    /\ UNCHANGED <<pool, target, threadVars, joinQueue, handed, boot, resizing, resizes, down, finishes>>

-----------------------------------------------------------------------------
(* _resize(): new threads are made at once; one MsgEnd is queued when there  *)
(* are too many.                                                             *)
\* A caller of leavePool(c) keeps the thread object it acts on alive.
Leaving(c) == boot[c].at \notin {"idle", "done"}
Free == {t \in ThreadIds : at[t] = "none" /\ \A c \in Boots : Leaving(c) => boot[c].t # t}
FirstFree(n) == {S \in SUBSET Free : Cardinality(S) = n /\ \A s \in S, t \in Free \ S : s < t}

\* MsgEnd goes to the front of the queue.
ResizeFront(at1) ==
    /\ handed = {} /\ target =< Cardinality(pool)
    /\ queue' = IF target < Cardinality(pool) THEN <<End>> \o queue ELSE queue
    /\ at' = at1
    /\ UNCHANGED <<pool, cmd, loop, finished, finishup>>

\* It is done under _poolMutex, which release() holds while a thread is handed over.
Resize_(at1) ==
    LET n == Cardinality(pool)
    IN /\ handed = {}
       /\ \/ /\ target > n
             /\ \E new \in FirstFree(target - n) :
                   /\ pool' = pool \cup new
                   /\ at' = [t \in ThreadIds |-> IF t \in new THEN "get" ELSE at1[t]]
                   /\ loop' = [t \in ThreadIds |-> t \in new \/ loop[t]]
                   /\ finishup' = [t \in ThreadIds |-> finishup[t] /\ t \notin new]
             /\ UNCHANGED <<queue, cmd, finished>>
          \/ /\ target =< n
             /\ queue' = IF target < n THEN Append(queue, End) ELSE queue
             /\ at' = at1
             /\ UNCHANGED <<pool, cmd, loop, finished, finishup>>

\* release(t), up to the erase(), under _poolMutex; nothing is handed over when the
\* thread is not found.
Release(t) == handed = {} /\ pool' = pool \ {t} /\ handed' = pool \cap {t}

\* EventThreadJoiner::addThread, with which release() gives up _poolMutex.
AddThread == \E t \in handed :
    /\ handed' = {} /\ joinQueue' = Append(joinQueue, t)
    /\ UNCHANGED <<queue, pool, target, threadVars, boot, resizing, resizes, down, finishes>>

CallCommandFinishAlways(t) ==
    /\ finished' = [finished EXCEPT ![t] = TRUE]
    /\ finishes' = IF cmd[t] \notin Cmds THEN finishes ELSE [finishes EXCEPT ![cmd[t]] = @ + 1]

\* commandFinish is called by whoever raises _commandFinishCalled first.
CallCommandFinish(t) ==
    /\ finished' = [finished EXCEPT ![t] = TRUE]
    /\ finishes' = IF finished[t] \/ cmd[t] \notin Cmds THEN finishes
                   ELSE [finishes EXCEPT ![cmd[t]] = @ + 1]

-----------------------------------------------------------------------------
(* EventThread::handleCmds() *)

\* specialActions() tells the command which thread runs it.
GetCmd(t) ==
    /\ at[t] = "get" /\ queue # <<>>
    /\ cmd' = [cmd EXCEPT ![t] = Head(queue)]
    /\ queue' = Tail(queue)
    /\ finished' = [finished EXCEPT ![t] = FALSE]
    /\ boot' = [c \in Boots |-> IF c = Head(queue) THEN [at |-> "idle", t |-> t] ELSE boot[c]]
    /\ at' = [at EXCEPT ![t] = "action"]
    /\ UNCHANGED <<pool, target, loop, finishup, joinQueue, handed, resizing, resizes, down, finishes>>

\* runAction(); the action of MsgEnd stops the loop.
RunAction(t) ==
    /\ at[t] = "action"
    /\ loop' = [loop EXCEPT ![t] = @ /\ cmd[t] # End]
    /\ at' = [at EXCEPT ![t] = "finish"]
    /\ UNCHANGED <<queue, pool, target, cmd, finished, finishup, joinQueue, handed, boot, resizing,
                   resizes, down, finishes>>

CommandFinish(t) ==
    /\ at[t] = "finish"
    /\ CallCommandFinish(t)
    /\ at' = [at EXCEPT ![t] = "next"]
    /\ UNCHANGED <<queue, pool, target, cmd, loop, finishup, joinQueue, handed, boot, resizing, resizes, down>>

NextCmd(t) ==
    /\ at[t] = "next"
    /\ cmd' = [cmd EXCEPT ![t] = NoCmd]
    /\ at' = [at EXCEPT ![t] = IF loop[t] THEN "get" ELSE "finishup"]
    /\ UNCHANGED <<queue, pool, target, loop, finished, finishup, joinQueue, handed, boot, resizing,
                   resizes, down, finishes>>

FinishUp(t) ==
    /\ at[t] = "finishup"
    /\ finishup' = [finishup EXCEPT ![t] = TRUE]
    /\ \/ finishup[t] /\ at' = [at EXCEPT ![t] = "done"] /\ UNCHANGED <<pool, handed>>
       \/ ~finishup[t] /\ at' = [at EXCEPT ![t] = "release"] /\ Release(t)
    /\ UNCHANGED <<queue, target, cmd, loop, finished, joinQueue, boot, resizing, resizes, down, finishes>>

ReleasedNoResize(t) ==
    /\ at[t] = "release"
    /\ at' = [at EXCEPT ![t] = "done"]
    /\ UNCHANGED <<queue, pool, target, cmd, loop, finished, finishup, joinQueue, handed, boot, resizing,
                   resizes, down, finishes>>

Released(t) ==
    /\ at[t] = "release"
    /\ Resize_([at EXCEPT ![t] = "done"])
    /\ UNCHANGED <<target, joinQueue, handed, boot, resizing, resizes, down, finishes>>

Thread(t) == \/ GetCmd(t) \/ RunAction(t) \/ CommandFinish(t) \/ NextCmd(t)
             \/ FinishUp(t) \/ Released(t)

\* EventThreadJoiner::joinLoop: the thread object is gone after the join, and
\* the commands that pointed to it weakly point to nothing.
JoinLoop ==
    /\ down # "done" /\ joinQueue # <<>> /\ at[Head(joinQueue)] = "done"
    /\ at' = [at EXCEPT ![Head(joinQueue)] = "none"]
    /\ joinQueue' = Tail(joinQueue)
    /\ boot' = [c \in Boots |-> IF boot[c] = [at |-> "idle", t |-> Head(joinQueue)]
                                THEN [at |-> "idle", t |-> 0] ELSE boot[c]]
    /\ UNCHANGED <<queue, pool, target, cmd, loop, finished, finishup, handed, resizing, resizes,
                   down, finishes>>

-----------------------------------------------------------------------------
(* PoolEventThread::leavePool(c), called by a scheduler or by the command    *)
(* itself, on the thread the command gives away only once.                   *)

BootAt(c, a) == boot' = [boot EXCEPT ![c].at = a]

\* _loop is lowered before the thread's command is looked at.
LeavePool(c) ==
    /\ boot[c].at = "idle" /\ boot[c].t # 0
    /\ loop' = [loop EXCEPT ![boot[c].t] = FALSE]
    /\ BootAt(c, "compare")
    /\ UNCHANGED <<queue, pool, target, at, cmd, finished, finishup, joinQueue, handed, resizing, resizes,
                   down, finishes>>

LeaveCompare(c) ==
    /\ boot[c].at = "compare"
    /\ BootAt(c, IF cmd[boot[c].t] = c THEN "finish" ELSE "done")
    /\ UNCHANGED <<queue, pool, target, threadVars, joinQueue, handed, resizing, resizes, down, finishes>>

\* commandFinish(c) is called with the command that was passed in.
LeaveFinish(c) ==
    /\ boot[c].at = "finish"
    /\ LET t == boot[c].t IN
       /\ finished' = [finished EXCEPT ![t] = TRUE]
       /\ finishes' = IF finished[t] THEN finishes ELSE [finishes EXCEPT ![c] = @ + 1]
    /\ BootAt(c, "finishup")
    /\ UNCHANGED <<queue, pool, target, at, cmd, loop, finishup, joinQueue, handed, resizing, resizes, down>>

LeaveFinishUpNoResize(c) ==
    /\ boot[c].at = "finishup"
    /\ finishup' = [finishup EXCEPT ![boot[c].t] = TRUE]
    /\ Release(boot[c].t)
    /\ BootAt(c, "done")
    /\ UNCHANGED <<queue, target, at, cmd, loop, finished, joinQueue, resizing, resizes, down, finishes>>

LeaveFinishUp(c) ==
    /\ boot[c].at = "finishup"
    /\ LET t == boot[c].t IN
       /\ finishup' = [finishup EXCEPT ![t] = TRUE]
       /\ \/ finishup[t] /\ BootAt(c, "done") /\ UNCHANGED <<pool, handed>>
          \/ ~finishup[t] /\ BootAt(c, "resize") /\ Release(t)
    /\ UNCHANGED <<queue, target, at, cmd, loop, finished, joinQueue, resizing, resizes, down, finishes>>

LeaveResize(c) ==
    /\ boot[c].at = "resize"
    /\ Resize_(at)
    /\ BootAt(c, "done")
    /\ UNCHANGED <<target, joinQueue, handed, resizing, resizes, down, finishes>>

Leave(c) == LeaveCompare(c) \/ LeaveFinish(c) \/ LeaveFinishUp(c) \/ LeaveResize(c)

-----------------------------------------------------------------------------
(* resize(n); the target stays 0 once the pool is shut down.  shutdownPool() *)
(* is endAll(), waitForResize(0) and the joiner's end.                       *)

Resize(n) ==
    /\ resizes < MaxResizes /\ ~resizing
    /\ target' = IF down = "no" THEN n ELSE 0
    /\ resizing' = TRUE /\ resizes' = resizes + 1
    /\ UNCHANGED <<queue, pool, threadVars, joinQueue, handed, boot, down, finishes>>

ResizeWork ==
    /\ resizing
    /\ Resize_(at)
    /\ resizing' = FALSE
    /\ UNCHANGED <<target, joinQueue, handed, boot, resizes, down, finishes>>

ShutdownPool ==
    /\ down = "no"
    /\ down' = "flag"
    /\ UNCHANGED <<queue, pool, target, threadVars, joinQueue, handed, boot, resizing, resizes, finishes>>

EndAll ==
    /\ \/ down = "flag" /\ target' = 0 /\ down' = "resize" /\ UNCHANGED <<queue, pool, threadVars>>
       \/ down = "resize" /\ Resize_(at) /\ down' = "wait" /\ UNCHANGED target
    /\ UNCHANGED <<joinQueue, handed, boot, resizing, resizes, finishes>>

\* The size of the pool is read without _poolMutex.
WaitForResize ==
    /\ down = "wait" /\ target = Cardinality(pool)
    /\ down' = "join"
    /\ UNCHANGED <<queue, pool, target, threadVars, joinQueue, handed, boot, resizing, resizes, finishes>>

\* The joiner's loop ends when it finds its queue empty.
ShutdownJoin ==
    /\ down = "join" /\ joinQueue = <<>>
    /\ down' = "done"
    /\ UNCHANGED <<queue, pool, target, threadVars, joinQueue, handed, boot, resizing, resizes, finishes>>

Next == \/ \E c \in Cmds : QueCmd(c)
        \/ \E t \in ThreadIds : Thread(t)
        \/ \E c \in Boots : LeavePool(c) \/ Leave(c)
        \/ AddThread \/ JoinLoop
        \/ \E n \in Targets : Resize(n)
        \/ ResizeWork \/ ShutdownPool \/ EndAll \/ WaitForResize \/ ShutdownJoin

Spec == Init /\ [][Next]_vars

\* Whatever has begun goes on.  Nobody is obliged to queue, resize or boot.
Fairness == /\ \A t \in ThreadIds : WF_vars(Thread(t))
            /\ \A c \in Boots : WF_vars(Leave(c))
            /\ WF_vars(AddThread) /\ WF_vars(JoinLoop) /\ WF_vars(ResizeWork)
            /\ WF_vars(EndAll) /\ WF_vars(WaitForResize) /\ WF_vars(ShutdownJoin)

FairSpec == Spec /\ Fairness

-----------------------------------------------------------------------------
Busy == {"action", "finish", "next"}
TypeOK ==
    /\ queue \in Seq(Cmds \cup {End})
    /\ pool \in SUBSET ThreadIds
    /\ target \in 0..MaxThreads
    /\ at \in [ThreadIds -> Busy \cup {"none", "get", "finishup", "release", "done"}]
    /\ cmd \in [ThreadIds -> Cmds \cup {End, NoCmd}]
    /\ loop \in [ThreadIds -> BOOLEAN]
    /\ finished \in [ThreadIds -> BOOLEAN]
    /\ finishup \in [ThreadIds -> BOOLEAN]
    /\ joinQueue \in Seq(ThreadIds) /\ handed \in SUBSET ThreadIds
    /\ boot \in [Boots -> [at : {"idle", "compare", "finish", "finishup", "resize", "done"},
                           t : 0..MaxThreads]]
    /\ resizing \in BOOLEAN
    /\ resizes \in Nat
    /\ down \in {"no", "flag", "resize", "wait", "join", "done"}
    /\ finishes \in [Cmds -> Nat]

\* The queue is told exactly once that a command has finished, whether its
\* thread runs to the end, is made to leave the pool, or both at once: never a second
\* time, and at the latest when the thread turns to the next command.
FinishedOnce ==
    /\ \A c \in Cmds : finishes[c] =< 1
    /\ \A t \in ThreadIds : at[t] = "next" /\ cmd[t] \in Cmds => finishes[cmd[t]] = 1

\* A thread runs outside the pool only if it is with the joiner or on its way to it,
\* and has no command of which the queue was not told.
NoStrayThread == \A t \in ThreadIds :
    /\ at[t] # "none" => t \in pool \cup handed \cup Range(joinQueue)
    /\ t \notin pool /\ cmd[t] \in Cmds => finishes[cmd[t]] = 1

\* "Wait for all threads to complete [...] This includes threads that were removed from
\* the pool and not detached" (ThreadPool.cc:167).  waitForResize() may find the pool
\* empty between erase() and addThread() of its last thread: then the joiner ends first,
\* and the thread is never joined.
ShutdownJoinsAll == down = "done" => \A t \in ThreadIds : at[t] = "none"

\* The pool settles at the size that was asked for last, whatever resizes and
\* departures were going on.
PoolConverges == <>[](Cardinality(pool) = target)

\* shutdownPool() returns.
ShutdownReturns == down # "no" ~> down = "done"

\* "Every command sent to the pool before shutdown is called should complete"
\* (ThreadPool.h:95).
CommandsComplete == down = "done" => \A c \in Cmds : Sent(c) => finishes[c] = 1

\* As long as nobody resizes the pool, and fewer commands are made to leave it than it
\* has threads, it keeps that promise: the threads that leave are replaced, and the
\* MsgEnds are behind the commands.  (When all threads leave while the pool is being shut
\* down, nobody replaces them, and waitForResize(0) finds the pool empty.)
Departed == {c \in Boots : boot[c].at # "idle"}
UnresizedCompletes ==
    resizes = 0 /\ Cardinality(Departed) < InitCount => CommandsComplete

-----------------------------------------------------------------------------
(* The inductive invariant behind FinishedOnce and UnresizedCompletes.       *)

\* A thread in the pool has not begun to leave it, and a thread outside of it is on
\* its way to the joiner or with it, once, and takes no more commands.
JoinedOnce ==
    \A i, j \in 1..Len(joinQueue) : joinQueue[i] = joinQueue[j] => i = j
Outside == handed \cup Range(joinQueue)
Membership ==
    /\ \A t \in pool : at[t] \notin {"none", "release", "done"} /\ ~finishup[t]
    /\ \A t \in ThreadIds : at[t] # "none" => t \in pool \cup Outside
    /\ \A t \in Outside : t \notin pool /\ at[t] # "none"
    /\ handed \cap Range(joinQueue) = {} /\ \A s, t \in handed : s = t
    /\ JoinedOnce
Left == \A t \in Outside : ~loop[t] /\ at[t] # "get" /\ (cmd[t] \in Cmds => finished[t])

\* A command is in one place of the queue or with one thread.
QueuedOnce ==
    \A i, j \in 1..Len(queue) : queue[i] = queue[j] /\ queue[i] \in Cmds => i = j
OnePlace ==
    /\ \A t \in ThreadIds : at[t] \in Busy <=> cmd[t] # NoCmd
    /\ \A s, t \in ThreadIds : cmd[s] = cmd[t] /\ cmd[s] \in Cmds => s = t
    /\ QueuedOnce
    /\ \A c \in Cmds : Queued(c) => \A t \in ThreadIds : cmd[t] # c

\* _commandFinishCalled says whether the queue was told of the command in hand.
Told ==
    /\ \A c \in Cmds : finishes[c] \in {0, 1}
    /\ \A c \in Cmds : Queued(c) => finishes[c] = 0
    /\ \A t \in ThreadIds : cmd[t] \in Cmds => (finishes[cmd[t]] = 1 <=> finished[t])
    /\ \A t \in ThreadIds : at[t] = "next" => finished[t]

\* A thread that was told to leave takes no command after the one in hand, so that its
\* _commandFinishCalled is that of the command that leavePool() compared.
LeavesAfter ==
    \A c \in Boots :
        /\ boot[c] # [at |-> "idle", t |-> 0] =>
               finishes[c] = 1 \/ \E t \in ThreadIds : cmd[t] = c
        /\ Leaving(c) => boot[c].t \in ThreadIds /\ ~loop[boot[c].t]
        /\ boot[c].at = "finish" =>
               \/ cmd[boot[c].t] = c
               \/ finished[boot[c].t] /\ at[boot[c].t] \notin Busy \cup {"get"}
        /\ boot[c].at = "finishup" => finished[boot[c].t] /\ at[boot[c].t] # "get"

\* The stages of shutdownPool().
Closing ==
    /\ \A t \in ThreadIds : at[t] \in {"finishup", "release", "done"} => ~loop[t]
    /\ down \notin {"no", "flag"} => target = 0
    /\ down \in {"join", "done"} => pool = {}

\* While nobody resizes the pool: MsgEnds come with the shutdown and are behind the
\* commands, and the threads that go on or were told to leave are as many as at first.
EndsBehind == \A i, j \in 1..Len(queue) : i < j /\ queue[i] = End => queue[j] = End
Waiting == \E c \in Cmds : Queued(c)
Staying == {t \in pool : loop[t]}
Unresized ==
    resizes = 0 =>
        /\ ~resizing /\ IsFiniteSet(Departed)
        /\ down \in {"no", "flag"} =>
              /\ target = InitCount /\ Cardinality(pool) =< InitCount
              /\ ~Queued(End) /\ \A t \in ThreadIds : cmd[t] # End
        /\ EndsBehind
        /\ (\E t \in ThreadIds : cmd[t] = End) => ~Waiting
        /\ (down = "no" \/ Waiting) =>
              Cardinality(Staying) + Cardinality(Departed) >= InitCount

IndInv == /\ TypeOK /\ Membership /\ Left /\ OnePlace /\ Told
          /\ LeavesAfter /\ Closing /\ Unresized
=============================================================================
