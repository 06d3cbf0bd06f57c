-------------------------- MODULE WorkerProcessor ---------------------------
(***************************************************************************)
(* replica/WorkerProcessor.cc with WorkerProcessorThread and WorkerRequest: *)
(* the queue of requests a worker of the replication system processes for   *)
(* its controllers.  A step is a critical section of the processor's _mtx,  *)
(* of a request's _mtx (execute(), rollback()) or an access to _stop.       *)
(***************************************************************************)
EXTENDS Naturals, FiniteSets

CONSTANTS Requests,  \* identifiers of requests
          Threads,   \* the processing threads
          Chunk,     \* the replica a request creates or deletes, or NoChunk
          NoChunk,
          Priority,  \* priority of each request
          Atomic,    \* requests whose execute() does all in one go, whatever the status
          Slices,    \* calls of execute() each other request needs
          MaxStops   \* bound: calls of stop() on a running processor

ASSUME AtomicKnown == Atomic \subseteq Requests
ASSUME SlicesPositive == Slices \in Nat \ {0}

VARIABLES
    state,       \* WorkerProcessor::_state
    new,         \* _newRequests
    inProgress,  \* _inProgressRequests
    finished,    \* _finishedRequests
    status,      \* WorkerRequest::_status
    left,        \* calls of execute() a request still needs
    refused,     \* requests answered DUPLICATE
    at, req,     \* where each thread is, and with which request
    stopFlag,    \* WorkerProcessorThread::_stop
    running,     \* WorkerProcessorThread::_thread != nullptr
    told,        \* requests of which a client was told that they are cancelled
    logicError,  \* where a logic_error was thrown; the program ends with the first
    stops

queues == <<new, inProgress, finished>>
threadVars == <<at, req, stopFlag, running>>
vars == <<state, queues, status, left, refused, threadVars, told, logicError, stops>>

NoReq == "none"
ASSUME NoReqDistinct == NoReq \notin Requests

Ended == {"CANCELLED", "SUCCEEDED", "FAILED"}

Init ==
    /\ state = "STOPPED"
    /\ new = {} /\ inProgress = {} /\ finished = {} /\ refused = {}
    /\ status = [r \in Requests |-> "NONE"]
    /\ left = [r \in Requests |-> Slices]
    /\ at = [t \in Threads |-> "off"]
    /\ req = [t \in Threads |-> NoReq]
    /\ stopFlag = [t \in Threads |-> FALSE]
    /\ running = [t \in Threads |-> FALSE]
    /\ told = {}
    /\ logicError = {} /\ stops = 0

Active == new \cup inProgress

-----------------------------------------------------------------------------
(* The processor's interface *)

\* A thread that has stopped but not yet reported can change nothing any more.
Run ==
    /\ state = "STOPPED"
    /\ state' = "RUNNING"
    /\ at' = [t \in Threads |-> IF running[t] THEN at[t] ELSE "loop"]
    /\ running' = [t \in Threads |-> TRUE]
    /\ UNCHANGED <<queues, status, left, refused, req, stopFlag, told, logicError, stops>>

Stop ==
    /\ state = "RUNNING" /\ stops < MaxStops
    /\ stopFlag' = [t \in Threads |-> stopFlag[t] \/ running[t]]
    /\ state' = "STOPPING"
    /\ stops' = stops + 1
    /\ UNCHANGED <<queues, status, left, refused, at, req, running, told, logicError>>

DuplicateNew(r) == Chunk[r] # NoChunk /\ \E a \in new : Chunk[a] = Chunk[r]

\* A request for a replica that an active request creates or deletes is answered
\* DUPLICATE and forgotten.
Duplicate(r) == Chunk[r] # NoChunk /\ \E a \in Active : Chunk[a] = Chunk[r]
Enqueue(r) ==
    /\ r \notin Active \cup finished \cup refused
    /\ \/ Duplicate(r) /\ refused' = refused \cup {r} /\ UNCHANGED new
       \/ ~Duplicate(r) /\ new' = new \cup {r} /\ UNCHANGED refused
    /\ UNCHANGED <<state, inProgress, finished, status, left, threadVars, told, logicError, stops>>

CancelStatusAny(s) == IF s = "IN_PROGRESS" THEN "IS_CANCELLING" ELSE "CANCELLED"

\* WorkerRequest::cancel() on a request of each status.
CancelStatus(s) == IF s \in {"NONE", "CANCELLED"} THEN "CANCELLED"
                   ELSE IF s \in {"IN_PROGRESS", "IS_CANCELLING"} THEN "IS_CANCELLING"
                   ELSE s

\* _dequeueOrCancelImpl on a set of requests.
DequeueOrCancelImpl(rs) ==
    /\ status' = [r \in Requests |-> IF r \in rs \cap Active THEN CancelStatus(status[r]) ELSE status[r]]
    /\ new' = new \ rs
    /\ finished' = finished \cup (new \cap rs)
    /\ UNCHANGED <<state, inProgress, left, refused, threadVars, logicError, stops>>

DequeueOrCancel(r) ==
    /\ r \in Active \cup finished
    /\ DequeueOrCancelImpl({r})
    /\ told' = IF status'[r] = "CANCELLED" THEN told \cup {r} ELSE told

Drain == Active # {} /\ DequeueOrCancelImpl(Active) /\ UNCHANGED told

\* The statuses _checkStatusImpl accepts in each queue; it throws for others.
StatusExpected(r) == /\ r \in new => status[r] = "NONE"
                     /\ r \in inProgress => status[r] # "NONE"
                     /\ r \in finished => status[r] \in Ended
CheckStatus(r) ==
    /\ r \in Active \cup finished /\ ~StatusExpected(r)
    /\ logicError' = logicError \cup {"checkStatus"}
    /\ UNCHANGED <<state, queues, status, left, refused, threadVars, told, stops>>

-----------------------------------------------------------------------------
(* WorkerProcessorThread::run() *)

Goto(t, a) == at' = [at EXCEPT ![t] = a]
SetStatus(r, s) == status' = [status EXCEPT ![r] = s]

\* A logic_error that is thrown when a status is not among the allowed ones.
Throws(where, ok) == logicError' = IF ok THEN logicError ELSE logicError \cup {where}

Loop(t) ==
    /\ at[t] = "loop"
    /\ Goto(t, IF stopFlag[t] THEN "stopped" ELSE "fetch")
    /\ UNCHANGED <<state, queues, status, left, refused, req, stopFlag, running, told, logicError, stops>>

\* The next request by priority; without one the call times out.
FetchNextForProcessing(t) ==
    /\ at[t] = "fetch"
    /\ \/ \E r \in new :
            /\ \A q \in new : Priority[q] =< Priority[r]
            /\ new' = new \ {r}
            /\ inProgress' = inProgress \cup {r}
            /\ SetStatus(r, "IN_PROGRESS")
            /\ req' = [req EXCEPT ![t] = r]
            /\ Throws("start", status[r] = "NONE")
            /\ Goto(t, "check")
       \/ /\ new = {}
          /\ Goto(t, "loop")
          /\ UNCHANGED <<new, inProgress, status, req, logicError>>
    /\ UNCHANGED <<state, finished, left, refused, stopFlag, running, told, stops>>

CheckStop(t) ==
    /\ at[t] \in {"check", "again"}
    /\ Goto(t, IF ~stopFlag[t] THEN "execute" ELSE IF at[t] = "check" THEN "refuse" ELSE "rollback")
    /\ UNCHANGED <<state, queues, status, left, refused, req, stopFlag, running, told, logicError, stops>>

\* Requests that work in steps look for a cancellation before each one; the
\* others do not look at the status at all.
Execute(t) ==
    LET r == req[t] IN
    /\ at[t] = "execute"
    /\ \/ /\ r \in Atomic
          /\ \E s \in {"SUCCEEDED", "FAILED"} : SetStatus(r, s)
          /\ Goto(t, "finish")
          /\ UNCHANGED <<left, logicError>>
       \/ /\ r \notin Atomic /\ status[r] = "IS_CANCELLING"
          /\ SetStatus(r, "CANCELLED")
          /\ Goto(t, "finish")
          /\ UNCHANGED <<left, logicError>>
       \/ /\ r \notin Atomic /\ status[r] # "IS_CANCELLING"
          /\ Throws("execute", status[r] = "IN_PROGRESS")
          /\ left' = [left EXCEPT ![r] = @ - 1]
          /\ \/ left[r] > 1 /\ Goto(t, "again") /\ UNCHANGED status
             \/ left[r] = 1 /\ SetStatus(r, "SUCCEEDED") /\ Goto(t, "finish")
             \/ SetStatus(r, "FAILED") /\ Goto(t, "finish")
    /\ UNCHANGED <<state, queues, refused, req, stopFlag, running, told, stops>>

Rollback(t) ==
    LET r == req[t] IN
    /\ at[t] = "rollback"
    /\ Throws("rollback", status[r] \notin Ended)
    /\ \/ /\ status[r] # "IS_CANCELLING"
          /\ SetStatus(r, "NONE") /\ Goto(t, "refuse")
       \/ /\ status[r] = "IS_CANCELLING"
          /\ SetStatus(r, "CANCELLED") /\ Goto(t, "finish")
    /\ UNCHANGED <<state, queues, left, refused, req, stopFlag, running, told, stops>>

RefusedNoReset(t) ==
    /\ at[t] = "refuse"
    /\ inProgress' = inProgress \ {req[t]}
    /\ new' = new \cup {req[t]}
    /\ req' = [req EXCEPT ![t] = NoReq]
    /\ Goto(t, "loop")
    /\ UNCHANGED <<state, finished, status, left, refused, stopFlag, running, told, logicError, stops>>
RefusedDrop(t) ==
    /\ at[t] = "refuse"
    /\ SetStatus(req[t], "NONE")
    /\ req' = [req EXCEPT ![t] = NoReq]
    /\ Goto(t, "loop")
    /\ UNCHANGED <<state, queues, left, refused, stopFlag, running, told, logicError, stops>>

\* WorkerRequest::stop() resets the status, whatever it is.
ProcessingRefused(t) ==
    /\ at[t] = "refuse"
    /\ SetStatus(req[t], "NONE")
    /\ inProgress' = inProgress \ {req[t]}
    /\ new' = new \cup {req[t]}
    /\ req' = [req EXCEPT ![t] = NoReq]
    /\ Goto(t, "loop")
    /\ UNCHANGED <<state, finished, left, refused, stopFlag, running, told, logicError, stops>>

ProcessingFinished(t) ==
    /\ at[t] = "finish"
    /\ inProgress' = inProgress \ {req[t]}
    /\ finished' = finished \cup {req[t]}
    /\ req' = [req EXCEPT ![t] = NoReq]
    /\ Goto(t, "loop")
    /\ UNCHANGED <<state, new, status, left, refused, stopFlag, running, told, logicError, stops>>

StoppedStillRunning(t) ==
    /\ at[t] = "stopped"
    /\ stopFlag' = [stopFlag EXCEPT ![t] = FALSE]
    /\ Goto(t, "report")
    /\ UNCHANGED <<state, queues, status, left, refused, req, running, told, logicError, stops>>

Stopped(t) ==
    /\ at[t] = "stopped"
    /\ stopFlag' = [stopFlag EXCEPT ![t] = FALSE]
    /\ running' = [running EXCEPT ![t] = FALSE]
    /\ Goto(t, "report")
    /\ UNCHANGED <<state, queues, status, left, refused, req, told, logicError, stops>>

\* The thread is off as soon as it has reported; a new one may run before that.
ProcessorThreadStopped(t) ==
    /\ at[t] = "report"
    /\ state' = IF state = "STOPPING" /\ \A u \in Threads : ~running[u] THEN "STOPPED" ELSE state
    /\ Goto(t, "off")
    /\ UNCHANGED <<queues, status, left, refused, req, stopFlag, running, told, logicError, stops>>

Thread(t) == \/ Loop(t) \/ FetchNextForProcessing(t) \/ CheckStop(t) \/ Execute(t) \/ Rollback(t)
             \/ ProcessingRefused(t) \/ ProcessingFinished(t) \/ Stopped(t)
             \/ ProcessorThreadStopped(t)

Next == \/ Run \/ Stop \/ Drain
        \/ \E r \in Requests : Enqueue(r) \/ DequeueOrCancel(r) \/ CheckStatus(r)
        \/ \E t \in Threads : Thread(t)

Spec == Init /\ [][Next]_vars

\* The threads run, and whoever suspends the service resumes it.
FairSpec == Spec /\ WF_vars(Run) /\ \A t \in Threads : WF_vars(Thread(t))

-----------------------------------------------------------------------------
\* Where a thread has a request.
Holding == {"check", "execute", "again", "rollback", "refuse", "finish"}

TypeOK ==
    /\ state \in {"RUNNING", "STOPPING", "STOPPED"}
    /\ new \cup inProgress \cup finished \subseteq Requests
    /\ new \cap inProgress = {} /\ Active \cap finished = {}
    /\ status \in [Requests -> {"NONE", "IN_PROGRESS", "IS_CANCELLING"} \cup Ended]
    /\ left \in [Requests -> 0..Slices]
    /\ at \in [Threads -> Holding \cup {"off", "loop", "fetch", "stopped", "report"}]
    /\ req \in [Threads -> Requests \cup {NoReq}]
    /\ stopFlag \in [Threads -> BOOLEAN] /\ running \in [Threads -> BOOLEAN]

\* No thread of the processor ever meets a request in a status its start(),
\* execute() or rollback() does not allow: the logic_error would end the worker,
\* for no caller of these methods catches it.
ThreadsSurvive == logicError \cap {"start", "execute", "rollback"} = {}

\* Each request in progress has exactly one thread, also across refusals,
\* cancellations and restarts of the threads.
OneThreadEach ==
    \A r \in Requests : Cardinality({t \in Threads : req[t] = r}) =
                        IF r \in inProgress THEN 1 ELSE 0

\* Two requests that create or delete the same replica are never active at the
\* same time.
NoConflict == \A a, b \in Active : a # b /\ Chunk[a] = Chunk[b] => Chunk[a] = NoChunk

\* A request that has succeeded or failed keeps its result, whatever clients
\* cancel while the thread has not reported it yet; finished requests stay.
ResultsAreFinal ==
    [][/\ finished \subseteq finished'
       /\ \A r \in Requests : status[r] \in {"SUCCEEDED", "FAILED"} => status'[r] = status[r]]_vars

\* Every request that was accepted ends, through all suspensions of the service.
RequestsFinish == \A r \in Requests : r \in Active ~> r \in finished

\* A processor that is told to stop comes to a stop.
StopEnds == state = "STOPPING" ~> state = "STOPPED"

\* A request in progress belongs to one thread, which is at a point of the loop
\* where it has a request; a thread that was stopped has none.
OwnerInv ==
    /\ \A t \in Threads : /\ at[t] \in Holding <=> req[t] # NoReq
                          /\ req[t] # NoReq => req[t] \in inProgress
                          /\ ~running[t] => at[t] \in {"off", "report"}
    /\ \A t, u \in Threads : req[t] = req[u] /\ req[t] # NoReq => t = u
    /\ \A r \in inProgress : \E t \in Threads : req[t] = r

\* The statuses of a request that its thread may find at each point.
Expected(a) == IF a = "finish" THEN Ended
               ELSE IF a = "refuse" THEN {"NONE", "IN_PROGRESS", "IS_CANCELLING", "CANCELLED"}
               ELSE {"IN_PROGRESS", "IS_CANCELLING"}

\* Where a request is says which statuses it may have.
StatusInv ==
    /\ \A t \in Threads : at[t] \in Holding => status[req[t]] \in Expected(at[t])
    /\ \A r \in Requests \ (inProgress \cup finished) : status[r] = "NONE"
    /\ \A r \in finished : status[r] \in Ended
    /\ \A r \in Requests : left[r] = 0 => status[r] \in {"SUCCEEDED", "FAILED"}

\* The inductive invariant from which the properties above follow.
IndInv == TypeOK /\ NoConflict /\ ThreadsSurvive /\ OwnerInv /\ StatusInv

\* "The protocol will take care of moving the request into the final queue when
\* the cancellation will finish" (WorkerProcessor.cc:537): a request a client was
\* told is cancelled stays cancelled.
CancelKept == \A r \in told : status[r] = "CANCELLED"

\* A status request never meets a status that _checkStatusImpl calls unexpected
\* (WorkerProcessor.cc:651).
StatusAnswered == "checkStatus" \notin logicError

=============================================================================
