----------------------------- MODULE QdispPool ------------------------------
(***************************************************************************)
(* qdisp/QdispPool.cc: the czar's thread pool and the PriorityQueue that   *)
(* feeds it.  Every priority has a FIFO queue, a number of threads it is   *)
(* meant to have and a number it is not meant to exceed.  The threads are  *)
(* those of util::ThreadPool, whose MsgEnd commands go to the default,     *)
(* lowest, priority when the pool is shut down.                            *)
(***************************************************************************)
EXTENDS Integers, Sequences, FiniteSets, FiniteSetsExt

CONSTANTS Threads,         \* the threads of the pool
          Cmds,            \* the PriorityCommands
          Priorities,      \* the priorities with a queue; lower is more urgent
          Asked,           \* the priorities callers ask for
          MinRunning, MaxRunning

Default == CHOOSE p \in Priorities : \A q \in Priorities : q =< p

ASSUME PrioritiesFinite == Priorities # {} /\ IsFiniteSet(Priorities) /\ Priorities \subseteq Nat
ASSUME LimitsFit == /\ MinRunning \in [Priorities -> Nat] /\ MaxRunning \in [Priorities -> Nat]
                    /\ \A p \in Priorities : MinRunning[p] =< MaxRunning[p] /\ MaxRunning[p] > 0
ASSUME ThreadsFinite == Threads # {} /\ IsFiniteSet(Threads)

End == "MsgEnd"
NoCmd == "none"
Unqueued == -1
ASSUME Distinct == {End, NoCmd} \cap Cmds = {} /\ Unqueued \notin Asked

VARIABLES
    queues,       \* PriorityQueue::_queues
    running,      \* PriQ::running of each queue
    changed,      \* _changed
    shuttingDown, \* _shuttingDown
    priority,     \* PriorityCommand::_priority, Unqueued before queCmd()
    at,           \* where each thread is
    cmd,          \* the command of each thread
    done          \* the commands that have run

vars == <<queues, running, changed, shuttingDown, priority, at, cmd, done>>

Init ==
    /\ queues = [p \in Priorities |-> <<>>]
    /\ running = [p \in Priorities |-> 0]
    /\ changed = FALSE /\ shuttingDown = FALSE
    /\ priority = [c \in Cmds |-> Unqueued]
    /\ at = [t \in Threads |-> "get"]
    /\ cmd = [t \in Threads |-> NoCmd]
    /\ done = {}

\* notify_all() on _cv.
Notify(at1) == [t \in Threads |-> IF at1[t] = "wait" THEN "woken" ELSE at1[t]]

\* An unknown priority falls back to the default queue, but stays in the command.
QueueFor(p) == IF p \in Priorities THEN p ELSE Default

QueCmdUnchanged(c, p) ==
    /\ priority[c] = Unqueued /\ ~shuttingDown
    /\ priority' = [priority EXCEPT ![c] = p]
    /\ queues' = [queues EXCEPT ![QueueFor(p)] = Append(@, c)]
    /\ at' = Notify(at)
    /\ UNCHANGED <<running, changed, shuttingDown, cmd, done>>

QueCmd(c, p) ==
    /\ priority[c] = Unqueued /\ ~shuttingDown
    /\ priority' = [priority EXCEPT ![c] = p]
    /\ queues' = [queues EXCEPT ![QueueFor(p)] = Append(@, c)]
    /\ changed' = TRUE
    /\ at' = Notify(at)
    /\ UNCHANGED <<running, shuttingDown, cmd, done>>

\* The mutex is held from the look at the queues to the end of the wait's
\* set-up: one step of getCmd() takes a command or starts to wait.
Starved == {p \in Priorities : ~shuttingDown /\ queues[p] # <<>> /\ running[p] < MinRunning[p]}
Open == {p \in Priorities : queues[p] # <<>> /\ running[p] < MaxRunning[p]}

GetCmdLowest(t) ==
    /\ at[t] = "get" \/ (at[t] = "woken" /\ changed)
    /\ changed' = FALSE
    /\ \/ /\ Open # {}
          /\ cmd' = [cmd EXCEPT ![t] = Head(queues[Max(Open)])]
          /\ queues' = [queues EXCEPT ![Max(Open)] = Tail(@)]
          /\ at' = [at EXCEPT ![t] = "start"]
       \/ /\ Open = {}
          /\ at' = [at EXCEPT ![t] = "wait"]
          /\ UNCHANGED <<cmd, queues>>
    /\ UNCHANGED <<running, shuttingDown, priority, done>>

GetCmd(t) ==
    /\ at[t] = "get" \/ (at[t] = "woken" /\ changed)
    /\ changed' = FALSE
    /\ \/ /\ Starved \cup Open # {}
          /\ LET p == IF Starved # {} THEN Min(Starved) ELSE Min(Open) IN
             /\ cmd' = [cmd EXCEPT ![t] = Head(queues[p])]
             /\ queues' = [queues EXCEPT ![p] = Tail(@)]
          /\ at' = [at EXCEPT ![t] = "start"]
       \/ /\ Starved \cup Open = {}
          /\ at' = [at EXCEPT ![t] = "wait"]
          /\ UNCHANGED <<cmd, queues>>
    /\ UNCHANGED <<running, shuttingDown, priority, done>>

\* A notified thread that finds _changed lowered again goes back to sleep.
SleepOn(t) ==
    /\ at[t] = "woken" /\ ~changed
    /\ at' = [at EXCEPT ![t] = "wait"]
    /\ UNCHANGED <<queues, running, changed, shuttingDown, priority, cmd, done>>

\* MsgEnd is no PriorityCommand and counts for the default queue; a command with
\* an unknown priority counts for none.
Counted(c) == {p \in Priorities : p = IF c = End THEN Default ELSE priority[c]}
IncrDecrRunningCount(c, n) ==
    running' = [p \in Priorities |-> IF p \in Counted(c) THEN running[p] + n ELSE running[p]]

CommandStart(t) ==
    /\ at[t] = "start"
    /\ IncrDecrRunningCount(cmd[t], 1)
    /\ at' = [at EXCEPT ![t] = "run"]
    /\ UNCHANGED <<queues, changed, shuttingDown, priority, cmd, done>>

\* The action of the command, then commandFinish().  The thread that MsgEnd
\* stops leaves the pool, whose release() queues the next MsgEnd.
CommandFinish(t) ==
    /\ at[t] = "run" /\ cmd[t] # End
    /\ IncrDecrRunningCount(cmd[t], -1)
    /\ done' = done \cup {cmd[t]}
    /\ at' = [at EXCEPT ![t] = "get"]
    /\ cmd' = [cmd EXCEPT ![t] = NoCmd]
    /\ UNCHANGED <<queues, changed, shuttingDown, priority>>

EndFinish(t) ==
    /\ at[t] = "run" /\ cmd[t] = End
    /\ IncrDecrRunningCount(End, -1)
    /\ at' = [at EXCEPT ![t] = "release"]
    /\ cmd' = [cmd EXCEPT ![t] = NoCmd]
    /\ UNCHANGED <<queues, changed, shuttingDown, priority, done>>

QueEnd == /\ queues' = [queues EXCEPT ![Default] = Append(@, End)]
          /\ changed' = TRUE

ReleaseNoEnd(t) ==
    /\ at[t] = "release"
    /\ at' = [at EXCEPT ![t] = "ended"]
    /\ UNCHANGED <<queues, running, changed, shuttingDown, priority, cmd, done>>

Release(t) ==
    /\ at[t] = "release"
    /\ \/ /\ \E u \in Threads \ {t} : at[u] \notin {"release", "ended"}
          /\ QueEnd
          /\ at' = Notify([at EXCEPT ![t] = "ended"])
       \/ /\ \A u \in Threads \ {t} : at[u] \in {"release", "ended"}
          /\ at' = [at EXCEPT ![t] = "ended"]
          /\ UNCHANGED <<queues, changed>>
    /\ UNCHANGED <<running, shuttingDown, priority, cmd, done>>

\* prepareShutdown(), then the endAll() of the pool.
ShutdownPool ==
    /\ ~shuttingDown
    /\ shuttingDown' = TRUE
    /\ QueEnd
    /\ at' = Notify(at)
    /\ UNCHANGED <<running, priority, cmd, done>>

Thread(t) == \/ GetCmd(t) \/ SleepOn(t) \/ CommandStart(t) \/ CommandFinish(t)
             \/ EndFinish(t) \/ Release(t)

Next == \/ \E c \in Cmds, p \in Asked : QueCmd(c, p)
        \/ \E t \in Threads : Thread(t)
        \/ ShutdownPool

Spec == Init /\ [][Next]_vars

\* Every thread runs, and every command it runs comes to its end.
FairSpec == Spec /\ \A t \in Threads : WF_vars(Thread(t))

-----------------------------------------------------------------------------
TypeOK ==
    /\ queues \in [Priorities -> Seq(Cmds \cup {End})]
    /\ running \in [Priorities -> Nat]
    /\ changed \in BOOLEAN /\ shuttingDown \in BOOLEAN
    /\ priority \in [Cmds -> Asked \cup {Unqueued}]
    /\ at \in [Threads -> {"get", "wait", "woken", "start", "run", "release", "ended"}]
    /\ cmd \in [Threads -> Cmds \cup {End, NoCmd}]
    /\ done \subseteq Cmds

\* The running counter of a queue is the number of threads that run its
\* commands: what commandStart() adds commandFinish() takes away from the same
\* queue, so the limits of the queue never drift.
Runners(p) == {t \in Threads : at[t] = "run" /\ p \in Counted(cmd[t])}
RunningIsCounted == \A p \in Priorities : running[p] = Cardinality(Runners(p))

\* No thread sleeps through the last chance to run a command: while commands
\* are queued some thread is awake or running a command it will come back from.
SomebodyAwake ==
    (\E p \in Priorities : queues[p] # <<>>) =>
        \E t \in Threads : at[t] \in {"get", "start", "run", "release"}
                           \/ (at[t] = "woken" /\ changed)

\* When the last thread of a pool that was shut down has ended, every command
\* queued before the shutdown has run: MsgEnd never overtakes one for good.
DrainedAtShutdown ==
    (\A t \in Threads : at[t] = "ended") => \A c \in Cmds : priority[c] # Unqueued => c \in done

Queued(c) == \E p \in Priorities : \E i \in 1..Len(queues[p]) : queues[p][i] = c

\* A command that was queued waits, is held by a thread or has run.
NothingLost ==
    \A c \in Cmds :
        /\ Queued(c) \/ (\E t \in Threads : cmd[t] = c) => priority[c] # Unqueued
        /\ priority[c] # Unqueued => c \in done \/ Queued(c) \/ \E t \in Threads : cmd[t] = c

\* MsgEnd is in the default queue alone, and no command is behind one.
Ordered(qs) ==
    \A p \in Priorities : \A i \in 1..Len(qs[p]) :
        qs[p][i] = End => p = Default /\ \A j \in i..Len(qs[p]) : qs[p][j] = End

\* MsgEnd appears with the shutdown.
EndsLast ==
    /\ ~shuttingDown => ~Queued(End) /\ \A t \in Threads : at[t] \notin {"release", "ended"} /\ cmd[t] # End
    /\ Ordered(queues)

\* While a command waits, a thread is left that MsgEnd has not reached.
WorkerLeft ==
    (\E c \in Cmds : Queued(c)) => \E t \in Threads : at[t] \notin {"release", "ended"} /\ cmd[t] # End

\* The inductive invariant behind DrainedAtShutdown.
IndInv ==
    /\ TypeOK /\ RunningIsCounted /\ NothingLost /\ EndsLast /\ WorkerLeft
    /\ \A t \in Threads : cmd[t] # NoCmd <=> at[t] \in {"start", "run"}

\* Every queued command runs in the end, also after a wakeup went to a thread
\* that could not use it and while its queue was full.
QueuedRuns == \A c \in Cmds : priority[c] # Unqueued ~> c \in done

\* A pool that is shut down loses all its threads.
ThreadsEnd == shuttingDown ~> \A t \in Threads : at[t] = "ended"

\* "maximum number of threads for this PriQ to use" (QdispPool.h:77).
MaxRunningHonoured ==
    \A p \in Priorities : running[p] =< MaxRunning[p]

\* "minimum number of threads (unless nothing on this queue to run)"
\* (QdispPool.h:76): no thread idles while a queue below its minimum has commands.
MinRunningHonoured ==
    (\A t \in Threads : at[t] \in {"wait", "run"}) /\ (\E t \in Threads : at[t] = "wait")
        => Starved = {}
=============================================================================
