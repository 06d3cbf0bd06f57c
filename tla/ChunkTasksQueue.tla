-------------------------- MODULE ChunkTasksQueue --------------------------
(***************************************************************************)
(* wsched/ChunkTasksQueue: the task queue of one scan scheduler.  Tasks    *)
(* are kept by chunk; the tasks of the active chunk run first, and the     *)
(* chunks after it are looked at while its tasks are all in flight.  New   *)
(* tasks of the active chunk wait in its pending list for the next round.  *)
(* The operators work on the value of one queue, under its mutex _mapMx.   *)
(***************************************************************************)
EXTENDS MemMan, Functions

CONSTANTS Tasks,   \* the tasks the czars send
          ChunkOf, \* Task::getChunkId()
          JobOf,   \* the query and job ids of each task
          Slowness \* the order of the heap: compareTables(), ties broken

NoChunk == 0
NoTask == "none"

ASSUME ChunksAreIds == \A t \in Tasks : ChunkOf[t] \in Nat \ {NoChunk}

\* _chunkMap, _activeChunk, and the _readyTask of _readyChunk.
EmptyQueue == [map |-> <<>>, cur |-> NoChunk, ready |-> NoTask]
NewChunk == [active |-> FALSE, act |-> {}, pend |-> {}, fly |-> {}]
QueuedIn(q) == UNION {q.map[c].act \cup q.map[c].pend : c \in DOMAIN q.map} \cup ({q.ready} \ {NoTask})

Put(q, c, e) == [q EXCEPT !.map = (c :> e) @@ @]
Erase(q, c) == [q EXCEPT !.map = Restrict(@, DOMAIN @ \ {c})]

\* Mutant: a task of the active chunk does not wait for the next round.
QueTaskActive(e, t) == [e EXCEPT !.act = @ \cup {t}]
QueTask(e, t) == IF e.active THEN [e EXCEPT !.pend = @ \cup {t}]
                 ELSE [e EXCEPT !.act = @ \cup {t}]
QueueTask(q, t) ==
    LET c == ChunkOf[t]
    IN Put(q, c, QueTask(IF c \in DOMAIN q.map THEN q.map[c] ELSE NewChunk, t))

MovePendingToActive(e) == [e EXCEPT !.act = @ \cup e.pend, !.pend = {}]
SetActive(e) == [e EXCEPT !.active = TRUE]
SetInactive(e) == [(IF e.active THEN MovePendingToActive(e) ELSE e) EXCEPT !.active = FALSE]
ReadyToAdvance(e) == e.act = {} /\ e.fly = {}

\* The map is ordered by chunk id, and searched in that order, wrapping round.
Smallest(S) == CHOOSE c \in S : \A d \in S : c =< d
FirstFrom(S, c) == LET up == {d \in S : d >= c} IN Smallest(IF up # {} THEN up ELSE S)
After(S, c) == FirstFrom(S, c + 1)

\* Move on to the next chunk; the old one goes when nothing is left on it.
Advance(q) ==
    LET c   == q.cur
        old == SetInactive(q.map[c])
        q1  == IF old.act \cup old.pend = {} THEN Erase(q, c) ELSE Put(q, c, old)
        n   == After(DOMAIN q.map, c)
    IN IF n \notin DOMAIN q1.map THEN [q1 EXCEPT !.cur = NoChunk]
       ELSE [Put(q1, n, SetActive(MovePendingToActive(q1.map[n]))) EXCEPT !.cur = n]

\* ChunkTasks::ready() with a task on the heap: its memory has to be granted.
Top(S) == CHOOSE t \in S : \A u \in S : Slowness[u] =< Slowness[t]
Granted(q, c, t, p) ==
    [ok |-> p.ok, mem |-> p.mem,
     q |-> IF p.ok THEN [q EXCEPT !.ready = t, !.map[c].act = @ \ {t}] ELSE q]
Grant(q, m, c, flexible) ==
    LET t == Top(q.map[c].act) IN Granted(q, c, t, Prepare(m, t, flexible))

\* From the active chunk on, the first chunk with a task to run decides, or
\* the first that the limit on active chunks (full, busy) keeps closed.
Scan(q, m, flexible, full, busy) ==
    LET Closed(d) == d # q.cur /\ full /\ d \notin busy
        stop == {d \in DOMAIN q.map : q.map[d].act # {} \/ Closed(d)}
        c == FirstFrom(stop, q.cur)
    IN IF q.cur = NoChunk \/ stop = {} \/ Closed(c) THEN [ok |-> FALSE, q |-> q, mem |-> m]
       ELSE Grant(q, m, c, flexible)

\* _ready(): busy are the chunks the scheduler counts tasks in flight for.
Activate(q) ==
    LET c == Smallest(DOMAIN q.map)
    IN IF q.cur # NoChunk THEN q ELSE [Put(q, c, SetActive(q.map[c])) EXCEPT !.cur = c]
AdvanceIfReady(q) == IF ReadyToAdvance(q.map[q.cur]) THEN Advance(q) ELSE q
Ready(q, m, flexible, busy, maxActive) ==
    IF q.ready # NoTask THEN [ok |-> TRUE, q |-> q, mem |-> m]
    ELSE IF DOMAIN q.map = {} THEN [ok |-> FALSE, q |-> q, mem |-> m]
    ELSE Scan(AdvanceIfReady(Activate(q)), m, flexible, Cardinality(busy) >= maxActive, busy)

\* getTask() takes the ready task.
GetTask(q) == [q EXCEPT !.ready = NoTask, !.map[ChunkOf[q.ready]].fly = @ \cup {q.ready}]

TaskComplete(q, t) ==
    IF ChunkOf[t] \in DOMAIN q.map THEN [q EXCEPT !.map[ChunkOf[t]].fly = @ \ {t}] ELSE q

\* removeTask() looks for the ids of a task in the heap and then in pending.
WithIds(q, c, ids) ==
    LET Match(S) == {u \in S : JobOf[u] = ids}
    IN IF c \notin DOMAIN q.map THEN {}
       ELSE IF Match(q.map[c].act) # {} THEN Match(q.map[c].act) ELSE Match(q.map[c].pend)
RemoveTask(q, c, u) == [q EXCEPT !.map[c].act = @ \ {u}, !.map[c].pend = @ \ {u}]
=============================================================================
