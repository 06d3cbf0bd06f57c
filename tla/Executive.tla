----------------------------- MODULE Executive ------------------------------
(***************************************************************************)
(* qdisp/Executive.cc: the jobs of one user query on the czar, and the     *)
(* state shared by the modules JobQuery, QueryRequest and QueryDispatch,   *)
(* which extend this one in that order.                                    *)
(*                                                                         *)
(* The three classes call each other from many threads: the pool threads   *)
(* that add jobs and fetch results, SSI callbacks, the thread that kills   *)
(* the query.  Each thread has a stack of frames, its first element being  *)
(* the call in progress, with "at" naming the next step of that call.  A   *)
(* step is one critical section or one write that other threads can see.   *)
(***************************************************************************)
EXTENDS Naturals, Sequences, FiniteSets

CONSTANTS Jobs,         \* the jobs (chunk queries) of the user query
          MaxAttempts,  \* bound for JobQuery::_getMaxAttempts (5 in the code)
          MaxBlocks,    \* bound: result blocks one request delivers
          Failures      \* what may go wrong outside: a subset of FailureKinds

FailureKinds == {"payload", "response", "data", "merge"}

ASSUME MaxAttemptsNat == MaxAttempts \in Nat
ASSUME MaxBlocksNat == MaxBlocks \in Nat \ {0}
ASSUME FailuresKnown == Failures \subseteq FailureKinds

\* One QueryRequest per attempt, numbered from 0 by JobDescription.
Reqs == Jobs \X (0..MaxAttempts)
NoReq == <<>>
NoJob == <<>>

Threads == {<<"add", j>> : j \in Jobs} \cup {<<"ssi", r>> : r \in Reqs}
           \cup {<<"cmd", r>> : r \in Reqs} \cup {<<"kill">>}
NoThread == <<>>

VARIABLES
    cancelled,    \* Executive::_cancelled
    jobMap,       \* Executive::_jobMap
    incomplete,   \* Executive::_incompleteJobs
    requestCount, \* Executive::_requestCount
    complete,     \* jobs whose JobStatus counts as success
    bug,          \* markCompleted threw "failed to find TRACKED"
    attempt,      \* JobDescription::_attemptCount, one more than in the code
    inSsi,        \* JobQuery::_inSsi
    request,      \* JobQuery::_queryRequestPtr
    rmutex,       \* owner of JobQuery::_rmutex, or NoThread
    req,          \* the QueryRequest objects and their AskForResponseDataCmd
    stack,        \* the calls in progress of each thread
    submitted,    \* jobs whose start command has been queued
    main,         \* where UserQuerySelect's submit() and join() are
    joined,       \* what Executive::join returned
    scrubbed,     \* requests whose rows prepScrubResults has invalidated
    flushed,      \* requests of which at least one block was merged
    merged        \* requests all of whose blocks were merged

execVars == <<cancelled, jobMap, incomplete, requestCount, bug>>
jobVars == <<attempt, inSsi, request, rmutex>>
mainVars == <<submitted, main, joined>>
histVars == <<scrubbed, flushed, merged>>

-----------------------------------------------------------------------------
\* v is what the last call made from the frame returned.
Frame(at, j, r, b) == [at |-> at, j |-> j, r |-> r, b |-> b, v |-> FALSE, todo |-> {}]

Top(t) == Head(stack[t])
At(t, l) == Top(t).at = l

\* Go to another step of the same call (or into a call in tail position).
Goto(t, f) == stack' = [stack EXCEPT ![t] = <<f>> \o Tail(@)]
\* Call f, to come back to the step "next" of this call.
Call(t, f, next) ==
    stack' = [stack EXCEPT ![t] = <<f, [Top(t) EXCEPT !.at = next]>> \o Tail(@)]
Return(t, v) ==
    stack' = [stack EXCEPT ![t] = IF Len(@) = 1 THEN <<>>
                                  ELSE <<[@[2] EXCEPT !.v = v]>> \o Tail(Tail(@))]

\* Mutant: a job whose data has arrived counts as done.
SetStatusData(j, s) ==
    complete' = IF s \in {"RESPONSE_DATA", "COMPLETE"} THEN complete \cup {j} ELSE complete \ {j}

\* JobStatus::updateInfo.  The last writer wins; of all the states join() only
\* tells success from the rest.
SetStatus(j, s) ==
    complete' = IF s \in {"RESPONSE_DONE", "COMPLETE"} THEN complete \cup {j} ELSE complete \ {j}

-----------------------------------------------------------------------------
(* add().  The map insertions happen under _cancelled's mutex, so a job is  *)
(* in the map before the query is cancelled or it is never added.           *)
Add(t) ==
    /\ At(t, "add")
    /\ LET j == Top(t).j IN
       \/ /\ cancelled
          /\ Return(t, FALSE)
          /\ UNCHANGED execVars
       \/ /\ ~cancelled
          /\ jobMap' = jobMap \cup {j}
          /\ incomplete' = incomplete \cup {j}
          /\ requestCount' = requestCount + 1
          /\ Goto(t, Frame("run.check", j, NoReq, FALSE))
          /\ UNCHANGED <<cancelled, bug>>
    /\ UNCHANGED <<complete, jobVars, req, mainVars, histVars>>

\* Mutant: the flag is not raised before the jobs are cancelled.
SquashNoFlag(t) ==
    /\ At(t, "squash")
    /\ \/ cancelled /\ Return(t, FALSE)
       \/ ~cancelled /\ Goto(t, [Top(t) EXCEPT !.at = "squash.loop", !.todo = jobMap])
    /\ UNCHANGED <<execVars, complete, jobVars, req, mainVars, histVars>>

(* squash().  No job can be added once the flag is up, so the map copied    *)
(* after the exchange is the map at the exchange.                           *)
Squash(t) ==
    /\ At(t, "squash")
    /\ \/ cancelled /\ Return(t, FALSE)
       \/ ~cancelled /\ Goto(t, [Top(t) EXCEPT !.at = "squash.loop", !.todo = jobMap])
    /\ cancelled' = TRUE
    /\ UNCHANGED <<jobMap, incomplete, requestCount, bug, complete, jobVars, req,
                   mainVars, histVars>>

SquashLoop(t) ==
    /\ At(t, "squash.loop")
    /\ \/ Top(t).todo = {} /\ Return(t, TRUE)
       \/ \E j \in Top(t).todo :
             stack' = [stack EXCEPT ![t] = <<Frame("cancel", j, NoReq, FALSE),
                                             [Top(t) EXCEPT !.todo = @ \ {j}]>> \o Tail(@)]
    /\ UNCHANGED <<execVars, complete, jobVars, req, mainVars, histVars>>

(* markCompleted(j, false) *)
MarkFind(t) ==
    /\ At(t, "mark")
    /\ \/ /\ Top(t).j \in incomplete
          /\ Goto(t, [Top(t) EXCEPT !.at = "mark.status"])
          /\ UNCHANGED bug
       \/ /\ Top(t).j \notin incomplete
          /\ bug' = (bug \/ ~cancelled)
          /\ Return(t, FALSE)
    /\ UNCHANGED <<cancelled, jobMap, incomplete, requestCount, complete, jobVars,
                   req, mainVars, histVars>>

MarkStatus(t) ==
    /\ At(t, "mark.status")
    /\ SetStatus(Top(t).j, "RESULT_ERROR")
    /\ Goto(t, [Top(t) EXCEPT !.at = "mark.untrack"])
    /\ UNCHANGED <<execVars, jobVars, req, mainVars, histVars>>

\* _unTrack, then squash()
MarkUntrack(t) ==
    /\ At(t, "mark.untrack")
    /\ incomplete' = incomplete \ {Top(t).j}
    /\ Goto(t, [Top(t) EXCEPT !.at = "squash"])
    /\ UNCHANGED <<cancelled, jobMap, requestCount, bug, complete, jobVars, req,
                   mainVars, histVars>>

ExecutiveStep(t) == \/ Add(t) \/ Squash(t) \/ SquashLoop(t)
                    \/ MarkFind(t) \/ MarkStatus(t) \/ MarkUntrack(t)

-----------------------------------------------------------------------------
(* submit() and join() of UserQuerySelect, as far as the Executive goes.    *)

\* One round of submit()'s loop: a start command is queued for the pool.
\* Which pool thread runs it, and when, is left open.
Submit ==
    /\ main = "submit"
    /\ \/ /\ cancelled
          /\ main' = "wait"
          /\ UNCHANGED <<submitted, stack>>
       \/ /\ ~cancelled
          /\ \E j \in Jobs \ submitted :
                /\ submitted' = submitted \cup {j}
                /\ stack' = [stack EXCEPT ![<<"add", j>>] = <<Frame("add", j, NoReq, FALSE)>>]
          /\ main' = IF submitted' = Jobs THEN "wait" ELSE main
    /\ UNCHANGED <<execVars, complete, jobVars, req, joined, histVars>>

\* waitForAllJobsToStart, _waitAllUntilEmpty and the count of the successes.
Join ==
    /\ main = "wait"
    /\ \A j \in Jobs : stack[<<"add", j>>] = <<>>
    /\ incomplete = {}
    /\ joined' = (Cardinality(jobMap \cap complete) = requestCount)
    /\ main' = "joined"
    /\ UNCHANGED <<execVars, complete, jobVars, req, stack, submitted, histVars>>

\* UserQuerySelect lets go of the Executive, and so of its jobs.
Discard ==
    /\ main = "joined"
    /\ main' = "discarded"
    /\ UNCHANGED <<execVars, complete, jobVars, req, stack, submitted, joined, histVars>>

\* UserQuerySelect::kill, at any time until the query is discarded, and the
\* exchange in squash().
Kill ==
    /\ main \in {"submit", "wait", "joined"}
    /\ ~cancelled
    /\ cancelled' = TRUE
    /\ stack' = [stack EXCEPT ![<<"kill">>] =
                    <<[Frame("squash.loop", NoJob, NoReq, FALSE) EXCEPT !.todo = jobMap]>>]
    /\ UNCHANGED <<jobMap, incomplete, requestCount, bug, complete, jobVars, req, mainVars, histVars>>
=============================================================================
