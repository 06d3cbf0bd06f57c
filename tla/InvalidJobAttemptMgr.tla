------------------------ MODULE InvalidJobAttemptMgr ------------------------
(***************************************************************************)
(* The result merger of one user query (rproc/InfileMerger.cc): pool       *)
(* threads load result messages into the merge table while job attempts    *)
(* are declared invalid and their rows deleted, and one thread finalizes.  *)
(*                                                                         *)
(* One action per critical section of _iJAMtx and per SQL statement.  The  *)
(* DELETE statements run with _iJAMtx held: "mutex" names the thread       *)
(* inside them.  Every other section is one atomic step and needs the      *)
(* mutex free.  A thread in _cv.wait is in "cvWaiters" until a notify_all  *)
(* removes it; only then does it look at its predicate again.              *)
(***************************************************************************)
EXTENDS Naturals, FiniteSets

CONSTANTS Attempts,     \* jobIdAttempt numbers, see makeJobIdAttempt
          Threads,      \* threads that call InfileMerger::merge
          Finalizer,    \* the thread that calls InfileMerger::finalize
          NoThread,     \* nobody holds the mutex
          Unpublished,  \* the target table does not exist yet
          MaxMsgs       \* bound: result messages a worker sends per attempt

Procs == Threads \cup {Finalizer}

ASSUME ThreadsFinite == IsFiniteSet(Threads)
ASSUME ProcsDistinct == Finalizer \notin Threads /\ NoThread \notin Procs
ASSUME UnpublishedFresh == Unpublished \notin [Attempts -> Nat]
ASSUME MaxMsgsNat == MaxMsgs \in Nat

VARIABLES
    waitFlag,              \* _waitFlag
    invalidJobAttempts,    \* _invalidJobAttempts
    invalidJAWithRows,     \* _invalidJAWithRows
    jobIdAttemptsHaveRows, \* _jobIdAttemptsHaveRows
    concurrentMergeCount,  \* _concurrentMergeCount
    cvWaiters,             \* threads inside _cv.wait, not yet notified
    mutex,                 \* holder of _iJAMtx across a DELETE, or NoThread
    toDelete,              \* attempts the running _deleteInvalidRows has left
    rows,                  \* messages of each attempt in the merge table
    published,             \* the target table, once finalize has made it
    dropped,               \* history: attempts whose rows can no longer be published
    left,                  \* messages of each attempt still to be merged
    acked,                 \* messages of each attempt merge() reported loaded
    pc,                    \* where each thread is
    att,                   \* jobIdAttempt of a thread's current message
    ret                    \* local "ret" of merge(): did the LOAD succeed

mgrVars == <<waitFlag, invalidJobAttempts, invalidJAWithRows,
             jobIdAttemptsHaveRows, concurrentMergeCount>>
tableVars == <<rows, published>>
vars == <<mgrVars, tableVars, dropped, cvWaiters, mutex, toDelete, left, acked,
          pc, att, ret>>

PCs == {"idle", "flagWait", "load", "decr", "hold", "countWait", "delete",
        "publish", "failed", "done"}

Init ==
    /\ waitFlag = FALSE
    /\ invalidJobAttempts = {}
    /\ invalidJAWithRows = {}
    /\ jobIdAttemptsHaveRows = {}
    /\ concurrentMergeCount = 0
    /\ cvWaiters = {}
    /\ mutex = NoThread
    /\ toDelete = {}
    /\ rows = [a \in Attempts |-> 0]
    /\ published = Unpublished
    /\ dropped = {}
    /\ left = [a \in Attempts |-> MaxMsgs]
    /\ acked = [a \in Attempts |-> 0]
    /\ pc = [p \in Procs |-> IF p = Finalizer THEN "hold" ELSE "idle"]
    /\ att \in [Threads -> Attempts]
    /\ ret = [t \in Threads |-> FALSE]

\* finalize() has not got past its holdMergingForRowDelete.
BeforeClose == pc[Finalizer] \in {"hold", "countWait", "delete"}

Goto(p, l) == pc' = [pc EXCEPT ![p] = l]

-----------------------------------------------------------------------------
(* merge() and the two ends of its critical region.                        *)

\* Tail of incrConcurrentMergeCount, reached at once or after the wait.
EnterOrLeave(t, a) ==
    \/ /\ a \in invalidJobAttempts
       /\ Goto(t, "idle")
       /\ UNCHANGED <<jobIdAttemptsHaveRows, concurrentMergeCount>>
    \/ /\ a \notin invalidJobAttempts
       /\ jobIdAttemptsHaveRows' = jobIdAttemptsHaveRows \cup {a}
       /\ concurrentMergeCount' = concurrentMergeCount + 1
       /\ Goto(t, "load")

\* Bug seeded by a mutant: the invalid set is not looked at again.
EnterUnchecked(t, a) ==
    /\ jobIdAttemptsHaveRows' = jobIdAttemptsHaveRows \cup {a}
    /\ concurrentMergeCount' = concurrentMergeCount + 1
    /\ Goto(t, "load")

\* merge() up to incrConcurrentMergeCount's return or its wait.  A message
\* with an error or without rows returns before it touches any shared state.
IncrConcurrentMergeCount(t, a) ==
    /\ pc[t] = "idle"
    /\ mutex = NoThread
    /\ left[a] > 0
    /\ left' = [left EXCEPT ![a] = @ - 1]
    /\ att' = [att EXCEPT ![t] = a]
    /\ \/ /\ waitFlag /\ a \notin invalidJobAttempts
          /\ cvWaiters' = cvWaiters \cup {t}
          /\ Goto(t, "flagWait")
          /\ UNCHANGED <<jobIdAttemptsHaveRows, concurrentMergeCount>>
       \/ /\ ~waitFlag \/ a \in invalidJobAttempts
          /\ EnterOrLeave(t, a)
          /\ UNCHANGED cvWaiters
    /\ UNCHANGED <<waitFlag, invalidJobAttempts, invalidJAWithRows, tableVars,
                   dropped, mutex, toDelete, acked, ret>>

\* Bug seeded by a mutant: no second look at the invalid set after the wait.
FlagWakeNoRecheck(t) ==
    /\ pc[t] = "flagWait" /\ t \notin cvWaiters /\ mutex = NoThread /\ ~waitFlag
    /\ EnterUnchecked(t, att[t])
    /\ UNCHANGED <<waitFlag, invalidJobAttempts, invalidJAWithRows, tableVars,
                   dropped, cvWaiters, mutex, toDelete, left, acked, att, ret>>

\* A notified thread re-evaluates the predicate of its wait on _waitFlag.
FlagWake(t) ==
    /\ pc[t] = "flagWait"
    /\ t \notin cvWaiters
    /\ mutex = NoThread
    /\ \/ /\ waitFlag
          /\ cvWaiters' = cvWaiters \cup {t}
          /\ UNCHANGED <<jobIdAttemptsHaveRows, concurrentMergeCount, pc>>
       \/ /\ ~waitFlag
          /\ EnterOrLeave(t, att[t])
          /\ UNCHANGED cvWaiters
    /\ UNCHANGED <<waitFlag, invalidJobAttempts, invalidJAWithRows, tableVars,
                   dropped, mutex, toDelete, left, acked, att, ret>>

\* _applyMysql: the LOAD DATA succeeds, or fails before or after it wrote
\* rows.  Once finalize has dropped the table (or its jobId column) it fails.
ApplyMysql(t) ==
    /\ pc[t] = "load"
    /\ \E ok \in BOOLEAN, wrote \in BOOLEAN :
          /\ ok => wrote
          /\ wrote => published = Unpublished
          /\ rows' = IF wrote THEN [rows EXCEPT ![att[t]] = @ + 1] ELSE rows
          /\ ret' = [ret EXCEPT ![t] = ok]
    /\ Goto(t, "decr")
    /\ UNCHANGED <<mgrVars, published, dropped, cvWaiters, mutex, toDelete, left,
                   acked, att>>

Acknowledge(t) ==
    acked' = IF ret[t] THEN [acked EXCEPT ![att[t]] = @ + 1] ELSE acked

\* Bug seeded by a mutant: the last merge to leave wakes nobody.
DecrWithoutNotify(t) ==
    /\ pc[t] = "decr" /\ mutex = NoThread
    /\ concurrentMergeCount' = concurrentMergeCount - 1
    /\ \/ Goto(t, "idle") /\ Acknowledge(t)
       \/ Goto(t, "hold") /\ UNCHANGED acked
    /\ UNCHANGED <<waitFlag, invalidJobAttempts, invalidJAWithRows, cvWaiters,
                   jobIdAttemptsHaveRows, tableVars, dropped, mutex, toDelete,
                   left, att, ret>>

\* decrConcurrentMergeCount, then merge() returns ret or finds the result
\* table over _maxResultTableSizeMB and goes on to delete invalid rows.
DecrConcurrentMergeCount(t) ==
    /\ pc[t] = "decr"
    /\ mutex = NoThread
    /\ concurrentMergeCount' = concurrentMergeCount - 1
    /\ cvWaiters' = IF concurrentMergeCount' = 0 THEN {} ELSE cvWaiters
    /\ \/ Goto(t, "idle") /\ Acknowledge(t)
       \/ Goto(t, "hold") /\ UNCHANGED acked
    /\ UNCHANGED <<waitFlag, invalidJobAttempts, invalidJAWithRows,
                   jobIdAttemptsHaveRows, tableVars, dropped, mutex, toDelete,
                   left, att, ret>>

-----------------------------------------------------------------------------
(* prepScrub: the attempt a is given up before its job is retried.          *)

\* _waitFlag is raised and lowered again by _cleanupIJA in the same section.
\* It may come at any time: a runJob that found the query not cancelled scrubs
\* even if the query is squashed, joined and finalized meanwhile.  A scrub after
\* the finalizer's hold is too late to drop the rows by itself.
PrepScrub(a) ==
    /\ mutex = NoThread
    /\ a \notin invalidJobAttempts
    /\ invalidJobAttempts' = invalidJobAttempts \cup {a}
    /\ invalidJAWithRows' = IF a \in jobIdAttemptsHaveRows
                            THEN invalidJAWithRows \cup {a}
                            ELSE invalidJAWithRows
    /\ waitFlag' = FALSE
    /\ cvWaiters' = {}
    /\ dropped' = IF BeforeClose THEN dropped \cup {a} ELSE dropped
    /\ UNCHANGED <<jobIdAttemptsHaveRows, concurrentMergeCount, tableVars,
                   mutex, toDelete, left, acked, pc, att, ret>>

-----------------------------------------------------------------------------
(* holdMergingForRowDelete, called by merge() and by finalize().            *)

\* Bug seeded by a mutant: finalize() ignores what the hold returned.
AfterHoldUnchecked(p, valid) ==
    IF p = Finalizer THEN Goto(p, "publish") /\ UNCHANGED acked
                     ELSE Goto(p, "idle") /\ (Acknowledge(p) \/ UNCHANGED acked)

\* The caller continues: finalize() builds the target table or gives up,
\* merge() returns ret, or false if the table is still too large or valid is
\* FALSE.
AfterHold(p, valid) ==
    IF p = Finalizer
    THEN Goto(p, IF valid THEN "publish" ELSE "failed") /\ UNCHANGED acked
    ELSE /\ Goto(p, "idle")
         /\ \/ valid /\ Acknowledge(p)
            \/ UNCHANGED acked

\* Bug seeded by a mutant: the flag is lowered, but nobody is notified.
CleanupWithoutNotify == waitFlag' = FALSE /\ UNCHANGED cvWaiters

\* _cleanupIJA
CleanupIJA == waitFlag' = FALSE /\ cvWaiters' = {}

\* Bug seeded by a mutant: every attempt with rows is deleted.
StartDeleteAll(p) ==
    mutex' = p /\ toDelete' = jobIdAttemptsHaveRows /\ Goto(p, "delete")

\* holdMergingForRowDelete calls _deleteFunc(_invalidJAWithRows).
StartDelete(p) ==
    /\ mutex' = p
    /\ toDelete' = invalidJAWithRows
    /\ Goto(p, "delete")

\* From the lock to the first return, the wait, or the first DELETE.
HoldMergingForRowDelete(p) ==
    /\ pc[p] = "hold"
    /\ mutex = NoThread
    /\ \/ /\ invalidJAWithRows = {}
          /\ CleanupIJA
          /\ AfterHold(p, TRUE)
          /\ UNCHANGED <<mutex, toDelete>>
       \/ /\ invalidJAWithRows # {}
          /\ concurrentMergeCount > 0
          /\ waitFlag' = TRUE
          /\ cvWaiters' = cvWaiters \cup {p}
          /\ Goto(p, "countWait")
          /\ UNCHANGED <<mutex, toDelete, acked>>
       \/ /\ invalidJAWithRows # {}
          /\ concurrentMergeCount = 0
          /\ waitFlag' = TRUE
          /\ StartDelete(p)
          /\ UNCHANGED <<cvWaiters, acked>>
    /\ UNCHANGED <<invalidJobAttempts, invalidJAWithRows, jobIdAttemptsHaveRows,
                   concurrentMergeCount, tableVars, dropped, left, att, ret>>

\* Bug seeded by a mutant: any notification lets the delete start.
CountWakeNoRecheck(p) ==
    /\ pc[p] = "countWait" /\ p \notin cvWaiters /\ mutex = NoThread
    /\ StartDelete(p)
    /\ UNCHANGED <<mgrVars, tableVars, dropped, cvWaiters, left, acked, att, ret>>

\* A notified thread re-evaluates the predicate of its wait on the count.
CountWake(p) ==
    /\ pc[p] = "countWait"
    /\ p \notin cvWaiters
    /\ mutex = NoThread
    /\ \/ /\ concurrentMergeCount > 0
          /\ cvWaiters' = cvWaiters \cup {p}
          /\ UNCHANGED <<mutex, toDelete, pc>>
       \/ /\ concurrentMergeCount = 0
          /\ StartDelete(p)
          /\ UNCHANGED cvWaiters
    /\ UNCHANGED <<mgrVars, tableVars, dropped, left, acked, att, ret>>

\* One successful DELETE of _deleteInvalidRows, for the attempts whose
\* numbers fit in one statement.  It fails once finalize has dropped the table
\* or its jobId column.
DeleteBatch(p) ==
    /\ pc[p] = "delete"
    /\ published = Unpublished
    /\ \E batch \in SUBSET toDelete \ {{}} :
          /\ rows' = [a \in Attempts |-> IF a \in batch THEN 0 ELSE rows[a]]
          /\ toDelete' = toDelete \ batch
          /\ dropped' = dropped \cup batch
    /\ UNCHANGED <<mgrVars, published, cvWaiters, mutex, left, acked, pc, att, ret>>

\* _deleteInvalidRows has returned: TRUE when no batch is left, FALSE when
\* a DELETE failed (its rows, and those of the batches after it, remain).
HoldReturn(p) ==
    /\ pc[p] = "delete"
    /\ \E res \in BOOLEAN :
          /\ res <=> toDelete = {}
          /\ invalidJAWithRows' = IF res THEN {} ELSE invalidJAWithRows
          /\ AfterHold(p, res)
    /\ CleanupIJA
    /\ mutex' = NoThread
    /\ toDelete' = {}
    /\ UNCHANGED <<invalidJobAttempts, jobIdAttemptsHaveRows,
                   concurrentMergeCount, tableVars, dropped, left, att, ret>>

\* Rest of finalize(): the aggregating CREATE TABLE ... SELECT, or the DROP
\* COLUMN, which may fail.
FinalizeTable ==
    /\ pc[Finalizer] = "publish"
    /\ \/ published' = rows /\ Goto(Finalizer, "done")
       \/ Goto(Finalizer, "failed") /\ UNCHANGED published
    /\ UNCHANGED <<mgrVars, rows, dropped, cvWaiters, mutex, toDelete, left, acked,
                   att, ret>>

-----------------------------------------------------------------------------
MergeStep(t) ==
    \/ \E a \in Attempts : IncrConcurrentMergeCount(t, a)
    \/ FlagWake(t)
    \/ ApplyMysql(t)
    \/ DecrConcurrentMergeCount(t)

HoldStep(p) ==
    \/ HoldMergingForRowDelete(p)
    \/ CountWake(p)
    \/ DeleteBatch(p)
    \/ HoldReturn(p)

Next ==
    \/ \E t \in Threads : MergeStep(t)
    \/ \E p \in Procs : HoldStep(p)
    \/ \E a \in Attempts : PrepScrub(a)
    \/ FinalizeTable

Spec == Init /\ [][Next]_vars

\* Every thread that can run does run, and SQL statements return: a call in
\* progress keeps being scheduled.  Nothing obliges a worker to send another
\* message, an attempt to be given up, or finalize to be called.
FlagWaitStep(t) == FlagWake(t) \/ ApplyMysql(t) \/ DecrConcurrentMergeCount(t)
MergeHoldStep(t) == FlagWaitStep(t) \/ HoldStep(t)
FinalizeStep == CountWake(Finalizer) \/ DeleteBatch(Finalizer)
                \/ HoldReturn(Finalizer) \/ FinalizeTable

Fairness == /\ \A t \in Threads : WF_vars(MergeHoldStep(t))
            /\ WF_vars(FinalizeStep)

FairSpec == Spec /\ Fairness
-----------------------------------------------------------------------------
(* Properties.                                                              *)

\* The type of every variable; concurrentMergeCount \in Nat is the assertion
\* of decrConcurrentMergeCount.
TypeOK ==
    /\ waitFlag \in BOOLEAN
    /\ invalidJobAttempts \in SUBSET Attempts
    /\ invalidJAWithRows \in SUBSET Attempts
    /\ jobIdAttemptsHaveRows \in SUBSET Attempts
    /\ concurrentMergeCount \in Nat
    /\ cvWaiters \in SUBSET Procs
    /\ mutex \in Procs \cup {NoThread}
    /\ toDelete \in SUBSET Attempts
    /\ rows \in [Attempts -> Nat]
    /\ published \in [Attempts -> Nat] \cup {Unpublished}
    /\ dropped \in SUBSET Attempts
    /\ left \in [Attempts -> Nat]
    /\ acked \in [Attempts -> Nat]
    /\ pc \in [Procs -> PCs]
    /\ att \in [Threads -> Attempts]
    /\ ret \in [Threads -> BOOLEAN]

Merging == {t \in Threads : pc[t] \in {"load", "decr"}}
Loading(a) == \E t \in Threads : pc[t] = "load" /\ att[t] = a

\* "The rows can only be safely deleted from the result table when nothing is
\* writing to the table": no LOAD DATA runs beside a DELETE, although the LOAD
\* holds no lock, the flag may have been lowered by a scrub while the deleter
\* waited, and several threads may want to delete.
NoWriteDuringDelete ==
    \A p \in Procs : pc[p] = "delete" => Merging = {}

\* Rows of an invalid attempt, those in the table and those a merge is about
\* to write, are always remembered in _invalidJAWithRows, so that the next
\* successful hold deletes them; in particular there are none once
\* holdMergingForRowDelete has returned true.
InvalidRowsTracked ==
    \A a \in invalidJobAttempts :
        rows[a] > 0 \/ Loading(a) => a \in invalidJAWithRows

\* A message that merge() reported as loaded stays in the table as long as its
\* attempt is valid, whatever deletes ran for other attempts.
AckedRowsKept ==
    \A a \in Attempts \ invalidJobAttempts : acked[a] =< rows[a]

\* What finalize() publishes: nothing of an attempt that was given up before
\* finalize got past its hold, or whose rows a delete caught later, and every
\* message that merge() reported, before or after, as loaded for an attempt
\* that is still valid.
PublishedExact ==
    published # Unpublished =>
        \A a \in Attempts : /\ a \in dropped => published[a] = 0
                            /\ a \notin invalidJobAttempts => acked[a] =< published[a]

\* The merger implements the table of module ResultTable: an attempt's rows
\* count as gone when the attempt is given up in time, and what is published is
\* exactly what the other attempts loaded.
LogicalTable == [a \in Attempts |-> IF a \in dropped THEN 0 ELSE rows[a]]
Table == INSTANCE ResultTable WITH table <- LogicalTable,
                                   invalid <- invalidJobAttempts,
                                   closed <- ~BeforeClose
ImplementsResultTable == Table!Spec

\* A merge() that has started returns: no wait of it is for ever and no
\* notification it needs is lost.
MergeReturns == \A t \in Threads : pc[t] # "idle" ~> pc[t] = "idle"

\* A finalize() that waits for merges to end, or deletes, finishes.
FinalizeReturns ==
    pc[Finalizer] \in {"countWait", "delete", "publish"}
        ~> pc[Finalizer] \in {"done", "failed"}

\* InfileMerger.h: holdMergingForRowDelete "will stop all merging to the result
\* table".  While some caller of it sleeps until the merges have ended, no new
\* merge begins to write.
HoldStopsMerging ==
    [][(\E p \in cvWaiters : pc[p] = "countWait")
          => concurrentMergeCount' =< concurrentMergeCount]_vars

-----------------------------------------------------------------------------
(* The inductive invariant behind the three safety properties.              *)

\* _concurrentMergeCount counts the merges between incr and decr.
CountInv == concurrentMergeCount = Cardinality(Merging)

\* The mutex is held across the DELETEs by the one thread inside them, and
\* nothing merges meanwhile.
DeleteInv ==
    /\ \A p \in Procs : pc[p] = "delete" <=> mutex = p
    /\ mutex # NoThread => /\ concurrentMergeCount = 0
                           /\ toDelete \subseteq invalidJAWithRows
                           /\ \A a \in invalidJAWithRows \ toDelete : rows[a] = 0

\* What the three sets know about the rows of the table.
SetsInv ==
    /\ invalidJAWithRows \subseteq invalidJobAttempts
    /\ \A a \in Attempts : rows[a] > 0 \/ Loading(a) => a \in jobIdAttemptsHaveRows
    /\ InvalidRowsTracked

\* A thread between its LOAD and its return knows that its rows are there.
Unreported(a) == {t \in Threads : /\ pc[t] \in {"decr", "hold", "countWait", "delete"}
                                 /\ att[t] = a
                                 /\ ret[t]}
AckInv ==
    \A a \in Attempts \ invalidJobAttempts :
        acked[a] + Cardinality(Unreported(a)) =< rows[a]

\* Until finalize() gets past its hold every attempt given up is dropped; from
\* then on no row of a dropped attempt is left or coming, and the table stays as
\* published.
PublishInv ==
    /\ dropped \subseteq invalidJobAttempts
    /\ BeforeClose => dropped = invalidJobAttempts
    /\ pc[Finalizer] \in {"publish", "done"} =>
          \A a \in dropped : rows[a] = 0 /\ ~Loading(a)
    /\ published # Unpublished => published = rows

\* "failed" without a published table, "done" with one.
FinalInv == published # Unpublished <=> pc[Finalizer] = "done"

ControlInv == /\ \A t \in Threads : pc[t] \notin {"publish", "failed", "done"}
              /\ pc[Finalizer] \notin {"idle", "flagWait", "load", "decr"}

IndInv == /\ TypeOK
          /\ ControlInv
          /\ CountInv
          /\ DeleteInv
          /\ SetsInv
          /\ AckInv
          /\ PublishInv
          /\ FinalInv
=============================================================================
