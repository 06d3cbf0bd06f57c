---------------------------- MODULE RequestTracking ----------------------------
(***************************************************************************)
(* Requests of the replication controller to a worker, from start to end   *)
(* (replica/Request.cc, ReplicationRequest.cc): a request is sent to the   *)
(* worker, which queues it, and is tracked by asking for its status until  *)
(* the worker has carried it out.  Meanwhile the request may expire or be  *)
(* cancelled, the connection may break, and the worker may be restarted.   *)
(* The messages go through a MessengerConnector.                           *)
(***************************************************************************)
EXTENDS MessengerConnector

CONSTANTS Reqs,
          MaxFaults,    \* bound on the faults of a behaviour
          CutFaults     \* how many of them a message cancelled in flight counts as

VARIABLES
    con,        \* the connector
    rq,         \* the requests: state, extended state, and what is under way
    notes,      \* callbacks of the connector under way: parseAndNotify()
    alive,      \* the worker service runs
    work,       \* what the worker knows of each request
    got,        \* how often the worker took the request in (history)
    done,       \* requests that were carried out with success (history)
    faults,     \* faults so far
    cut         \* cancel() has met the current message (history)

vars == <<con, rq, notes, alive, work, got, done, faults, cut>>
worker == <<alive, work, got, done>>

QUEUED(r) == [id |-> r, kind |-> "QUEUED"]
STATUS(r) == [id |-> r, kind |-> "STATUS"]

Init ==
    /\ con = Connector
    /\ rq = [r \in Reqs |-> [state |-> "CREATED", ext |-> "NONE", at |-> "idle"]]
    /\ notes = {}
    /\ alive = TRUE
    /\ work = [r \in Reqs |-> "NONE"] /\ got = [r \in Reqs |-> 0] /\ done = {}
    /\ faults = 0 /\ cut = FALSE

-------------------------------------------------------------------------------
(***************************************************************************)
(* The request.  Its mutex makes each method a step; finish() alone takes  *)
(* two, because it asks the connector for the message and then cancels it. *)
(***************************************************************************)

Finish(r, ext) ==
    rq' = IF rq[r].state = "FINISHED" THEN rq
          ELSE [rq EXCEPT ![r] = [state |-> "FINISHED", ext |-> ext,
                                  at    |-> IF Exists(con, r) THEN "cancel" ELSE "idle"]]

\* "once": keepTracking is false, and the first answer ends the request.
Start(r) ==
    /\ rq[r].state = "CREATED"
    /\ con' = SendImpl(con, QUEUED(r))
    /\ \E at \in {"sent", "once"} : rq' = [rq EXCEPT ![r].state = "IN_PROGRESS", ![r].at = at]
    /\ UNCHANGED <<notes, worker, faults, cut>>

\* Mutant: the timer asks for the status of a request that has ended.
AwakenLate(r) ==
    /\ \/ rq[r].at = "wait"
       \/ rq[r].state = "FINISHED" /\ rq[r].at = "idle" /\ ~Exists(con, r)
    /\ con' = SendImpl(con, STATUS(r))
    /\ rq' = [rq EXCEPT ![r].at = "sent"]
    /\ UNCHANGED <<notes, worker, faults, cut>>

\* the timer of wait() goes off
Awaken(r) ==
    /\ rq[r].state = "IN_PROGRESS" /\ rq[r].at = "wait"
    /\ con' = SendImpl(con, STATUS(r))
    /\ rq' = [rq EXCEPT ![r].at = "sent"]
    /\ UNCHANGED <<notes, worker, faults, cut>>

\* The request expires or is cancelled; GIVEN_UP stands for both results.
GiveUp(r) ==
    /\ rq[r].state = "IN_PROGRESS"
    /\ Finish(r, "GIVEN_UP")
    /\ UNCHANGED <<con, notes, worker, faults, cut>>

\* cancel() meets the current message, and cuts its operations off, which counts
\* as CutFaults faults.
Cut == faults + CutFaults <= MaxFaults /\ faults' = faults + CutFaults /\ cut' = TRUE

\* RequestMessenger::finishImpl, after the connector said that it has the message.
FinishImpl(r) ==
    /\ rq[r].at = "cancel"
    /\ IF IsCurrent(con, r) THEN Cut ELSE UNCHANGED <<cut, faults>>
    /\ con' = Cancel(con, r)
    /\ rq' = [rq EXCEPT ![r].at = "idle"]
    /\ UNCHANGED <<notes, worker>>

\* The request is queued or under way at the worker.  QUEUED stands for IN_PROGRESS
\* and IS_CANCELLING, too, and FAILED below for CANCELLED.
Tracked(r) ==
    IF rq[r].at = "once" THEN Finish(r, "SERVER_QUEUED") ELSE rq' = [rq EXCEPT ![r].at = "wait"]

\* Mutant: the response is looked at without a test of "success".
AnalyzeFailed(note) ==
    LET r == note.id
    IN  /\ notes' = notes \ {note}
        /\ IF rq[r].state = "FINISHED" THEN UNCHANGED rq
           ELSE CASE note.status = "BAD" -> Finish(r, "SERVER_BAD")
                  [] note.status = "QUEUED" -> Tracked(r)
                  [] note.status = "SUCCESS" -> Finish(r, "SUCCESS")
                  [] note.status = "FAILED" -> Finish(r, "SERVER_ERROR")
        /\ UNCHANGED <<con, worker, faults, cut>>

Analyze(note) ==
    LET r == note.id
    IN  /\ notes' = notes \ {note}
        /\ IF rq[r].state = "FINISHED" THEN UNCHANGED rq
           ELSE IF ~note.success THEN Finish(r, "CLIENT_ERROR")
           ELSE CASE note.status = "BAD" -> Finish(r, "SERVER_BAD")
                  [] note.status = "QUEUED" -> Tracked(r)
                  [] note.status = "SUCCESS" -> Finish(r, "SUCCESS")
                  [] note.status = "FAILED" -> Finish(r, "SERVER_ERROR")
        /\ UNCHANGED <<con, worker, faults, cut>>

-------------------------------------------------------------------------------
(***************************************************************************)
(* The handlers of the connector, and the operations they wait for.        *)
(***************************************************************************)

Due(o, x) == con.ops[o][x] > 0

OnResolve == \E x \in {"ok", "error"} :
    /\ Due("resolve", x)
    /\ con' = Resolved(Handled(con, "resolve", x), x)
    /\ UNCHANGED <<rq, notes, worker, faults, cut>>

OnConnect == \E x \in {"ok", "error"} :
    /\ Due("connect", x)
    /\ con' = Connected(Handled(con, "connect", x), x)
    /\ UNCHANGED <<rq, notes, worker, faults, cut>>

OnTimer ==
    /\ Due("timer", "ok")
    /\ con' = AwakenForRestart(Handled(con, "timer", "ok"))
    /\ UNCHANGED <<rq, notes, worker, faults, cut>>

OnWrite == \E x \in {"ok", "error", "aborted"} :
    /\ Due("write", x)
    /\ con' = RequestSent(Handled(con, "write", x), x)
    /\ UNCHANGED <<rq, notes, worker, faults, cut>>

\* What the owner of a message is told; a response that was not read has the
\* default status of its type.
Note(m, success, status) == [id |-> m.id, success |-> success, status |-> status]
Failure(m) == Note(m, FALSE, "SUCCESS")

\* Mutant: nobody is told of a message whose answer was lost.
NotifiedOfSuccess(x, found) ==
    {Note(m, TRUE, Head(con.back).status) : m \in {m \in {con.current} : m # NoMsg /\ found = "answer"}}

\* The owner of the current message is told, unless the read was aborted.
Notified(x, found) ==
    {IF found = "answer" THEN Note(m, TRUE, Head(con.back).status) ELSE Failure(m) :
        m \in {m \in {con.current} : m # NoMsg /\ x # "aborted"}}

\* The owner is told outside the mutex: parseAndNotify().
OnRead == \E x \in {"ok", "stale", "error", "aborted"} :
    /\ Due("read", x)
    /\ \E found \in ReadResults(con, x) :
         /\ con' = ResponseReceived(Handled(con, "read", x), x, found)
         /\ notes' = IF con'.dead THEN notes ELSE notes \cup Notified(x, found)
    /\ UNCHANGED <<rq, worker, faults, cut>>

Handler == OnResolve \/ OnConnect \/ OnTimer \/ OnWrite \/ OnRead

\* an operation completes: its handler is due
Completes(o, x) == con.ops[o]["pending"] > 0 /\ con' = [con EXCEPT !.ops[o]["pending"] = @ - 1, !.ops[o][x] = @ + 1]

\* the socket of a connection that was refused
Unconnected == con.socket = "open" /\ con.ops["connect"]["pending"] = 0

ResolveEnds ==
    /\ \/ Completes("resolve", "ok") /\ UNCHANGED faults
       \/ Completes("resolve", "error") /\ faults < MaxFaults /\ faults' = faults + 1
    /\ UNCHANGED <<rq, notes, worker, cut>>

TimerEnds == Completes("timer", "ok") /\ UNCHANGED <<rq, notes, worker, faults, cut>>

ConnectEnds ==
    /\ con.ops["connect"]["pending"] > 0
    /\ con' = IF alive
              THEN [con EXCEPT !.ops["connect"]["pending"] = @ - 1, !.ops["connect"]["ok"] = @ + 1, !.socket = "connected"]
              ELSE [con EXCEPT !.ops["connect"]["pending"] = @ - 1, !.ops["connect"]["error"] = @ + 1]
    /\ UNCHANGED <<rq, notes, worker, faults, cut>>

\* A message written to a broken connection may be lost without an error.
WriteEnds ==
    /\ con.ops["write"]["pending"] > 0
    /\ \/ /\ con.socket = "connected"
          /\ con' = [con EXCEPT !.ops["write"]["pending"] = @ - 1, !.ops["write"]["ok"] = @ + 1,
                                !.wire = @ \cup {m \in {con.current} : m # NoMsg}]
       \/ con.socket = "broken" /\ \E x \in {"ok", "error"} : Completes("write", x)
       \/ Unconnected /\ Completes("write", "error")
    /\ UNCHANGED <<rq, notes, worker, faults, cut>>

ReadEnds ==
    /\ \/ con.back # <<>> /\ Completes("read", "ok")
       \/ con.socket = "broken" /\ con.back = <<>> /\ Completes("read", "error")
       \/ Unconnected /\ Completes("read", "error")
    /\ UNCHANGED <<rq, notes, worker, faults, cut>>

Operation == ResolveEnds \/ TimerEnds \/ ConnectEnds \/ WriteEnds \/ ReadEnds

-------------------------------------------------------------------------------
(***************************************************************************)
(* The worker (WorkerServerConnection.cc, WorkerProcessor.cc).             *)
(***************************************************************************)

\* The worker queues the request unless it refuses it, for its parameters or as the
\* duplicate of another one, or looks it up.  A request that comes again is reported
\* as a duplicate, for which the controller waits as for the original.
Taken(msg) ==
    IF msg.kind = "STATUS" THEN {work[msg.id]}
    ELSE {"QUEUED"} \cup {w \in {"NONE"} : work[msg.id] = w}

Reply(msg, w) == [id |-> msg.id, status |-> IF w = "NONE" THEN "BAD" ELSE w]

Received(msg, w) ==
    /\ alive
    /\ work' = [work EXCEPT ![msg.id] = w]
    /\ got' = [got EXCEPT ![msg.id] = IF msg.kind = "QUEUED" /\ w = "QUEUED" THEN @ + 1 ELSE @]
    /\ UNCHANGED <<rq, notes, alive, done, faults, cut>>

Serve == \E msg \in con.wire : \E w \in Taken(msg) :
    /\ con' = [con EXCEPT !.wire = @ \ {msg}, !.back = Append(@, Reply(msg, w))]
    /\ Received(msg, w)

\* A message on a connection that the controller has closed may still arrive.
ServeLate == \E msg \in con.lag : \E w \in Taken(msg) :
    /\ con' = [con EXCEPT !.lag = @ \ {msg}]
    /\ Received(msg, w)

Execute(r) ==
    /\ alive /\ work[r] = "QUEUED"
    /\ \/ work' = [work EXCEPT ![r] = "SUCCESS"] /\ done' = done \cup {r}
       \/ work' = [work EXCEPT ![r] = "FAILED"] /\ UNCHANGED done
    /\ UNCHANGED <<con, rq, notes, alive, got, faults, cut>>

\* The connection breaks: what is on its way may be lost, at either end.
Broken(lag, back) ==
    [con EXCEPT !.socket = IF @ = "connected" THEN "broken" ELSE @,
                !.wire = {}, !.lag = lag, !.back = back]

Disconnect ==
    /\ faults < MaxFaults /\ con.socket = "connected"
    /\ faults' = faults + 1
    /\ \E back \in {con.back, <<>>}, lag \in {con.lag, con.lag \cup con.wire} : con' = Broken(lag, back)
    /\ UNCHANGED <<rq, notes, worker, cut>>

\* The queues of the worker are not persistent.
WorkerDies ==
    /\ faults < MaxFaults /\ alive
    /\ faults' = faults + 1 /\ alive' = FALSE
    /\ work' = [r \in Reqs |-> "NONE"]
    /\ \E back \in {con.back, <<>>} : con' = Broken({}, back)
    /\ UNCHANGED <<rq, notes, got, done, cut>>

WorkerStarts ==
    /\ ~alive /\ alive' = TRUE
    /\ UNCHANGED <<con, rq, notes, work, got, done, faults, cut>>

-------------------------------------------------------------------------------
Owner(r) == Start(r) \/ GiveUp(r) \/ Awaken(r) \/ FinishImpl(r)

Worker == Serve \/ ServeLate \/ Disconnect \/ WorkerDies \/ WorkerStarts \/ \E r \in Reqs : Execute(r)

\* Nothing is modelled after the end of the controller's process.
Next ==
    /\ ~con.dead
    /\ Handler \/ Operation \/ Worker \/ (\E r \in Reqs : Owner(r)) \/ (\E n \in notes : Analyze(n))

Spec == Init /\ [][Next]_vars

(***************************************************************************)
(* The threads of the controller run every handler that is due, operations *)
(* end, the worker answers, timers go off, and a worker that died is       *)
(* started again and works through its queue.  No request needs to expire. *)
(* A step that disables itself is weakly fair if it is disabled again and  *)
(* again, which spares TLC its enabledness.                                *)
(***************************************************************************)
Fairness ==
    /\ WF_vars(~con.dead /\ (Handler \/ Operation \/ Serve))
    /\ []<>alive
    /\ \A r \in Reqs :
         /\ []<>(~alive \/ work[r] # "QUEUED")
         /\ []<>(con.dead \/ \A n \in notes : n.id # r)
         /\ []<>(con.dead \/ rq[r].state # "IN_PROGRESS" \/ rq[r].at # "wait")

FairSpec == Spec /\ Fairness

-------------------------------------------------------------------------------
(***************************************************************************)
(* Properties.                                                             *)
(***************************************************************************)
Messages == [id : Reqs, kind : {"QUEUED", "STATUS"}]
ASSUME NoMsgDistinct == NoMsg \notin Messages

Statuses == {"BAD", "QUEUED", "SUCCESS", "FAILED"}

ConnectorType ==
    [state    : {"INITIAL", "CONNECTING", "COMMUNICATING"},
     current  : Messages \cup {NoMsg},
     requests : Seq(Messages),
     socket   : {"closed", "open", "connected", "broken"},
     ops      : [Ops -> [Results -> Nat]],
     wire     : SUBSET Messages,
     lag      : SUBSET Messages,
     back     : Seq([id : Reqs, status : Statuses]),
     dead     : BOOLEAN]

TypeOK ==
    /\ con \in ConnectorType
    /\ rq \in [Reqs -> [state : {"CREATED", "IN_PROGRESS", "FINISHED"},
                        ext   : {"NONE", "SUCCESS", "CLIENT_ERROR", "SERVER_QUEUED", "SERVER_BAD", "SERVER_ERROR", "GIVEN_UP"},
                        at    : {"idle", "sent", "once", "wait", "cancel"}]]
    /\ notes \subseteq [id : Reqs, success : BOOLEAN, status : Statuses]
    /\ work \in [Reqs -> {"NONE", "QUEUED", "SUCCESS", "FAILED"}]
    /\ got \in [Reqs -> Nat] /\ done \subseteq Reqs
    /\ alive \in BOOLEAN /\ cut \in BOOLEAN

\* A request that ends as a SUCCESS was carried out by the worker, whatever was
\* lost or cancelled on the way (ReplicationRequest::_analyze).
SuccessIsReal == \A r \in Reqs : rq[r].ext = "SUCCESS" => r \in done

\* As long as cancel() has not met the current message, the worker takes in
\* a request at most once: only a message whose write failed is sent again, never
\* one that may have been received (_requestSent, _responseReceived).
SentOnce == ~cut => \A r \in Reqs : got[r] <= 1

\* The answer at the head of the connection belongs to the current message:
\* _syncReadVerifyHeader does not find the id of another request, as long as at most
\* one message is cancelled in flight.  With CutFaults = 0 cancel() may meet the
\* current message again and again, and then this fails: a handler of the closed
\* connection sends the next message while the state is STATE_CONNECTING, cancel()
\* drops that one without a restart, and its answer is left for the message after it.
AnswersMatch ==
    con.back # <<>> /\ con.current # NoMsg => Head(con.back).id = con.current.id

\* As long as cancel() has not met the current message: the current message is
\* being written or read, a connection that is being made is on its way, and a
\* message in the queue has a connection.
Attended ==
    ~con.dead /\ ~cut =>
        /\ con.current # NoMsg => Outstanding(con, "write") \/ Outstanding(con, "read")
        /\ con.state = "CONNECTING" => \E o \in {"resolve", "connect", "timer"} : Outstanding(con, o)
        /\ con.requests # <<>> => con.state = "CONNECTING" \/ con.current # NoMsg

\* A report of success, wherever it is on its way from the worker to the
\* request, is about a request that was carried out.
ReportsAreReal ==
    /\ SuccessIsReal
    /\ \A r \in Reqs : work[r] = "SUCCESS" => r \in done
    /\ \A i \in 1..Len(con.back) : con.back[i].status = "SUCCESS" => con.back[i].id \in done
    /\ \A n \in notes : n.success /\ n.status = "SUCCESS" => n.id \in done

\* The chain of operations, as long as cancel() has not cut it: one operation
\* makes a connection, or one carries the current message.
Total(c, o) == c.ops[o]["pending"] + c.ops[o]["ok"] + c.ops[o]["stale"] + c.ops[o]["error"] + c.ops[o]["aborted"]
Chain(c) ==
    LET making   == Total(c, "resolve") + Total(c, "connect") + Total(c, "timer")
        carrying == Total(c, "write") + Total(c, "read")
    IN  /\ making = (IF c.state = "CONNECTING" THEN 1 ELSE 0)
        /\ carrying = (IF c.current # NoMsg THEN 1 ELSE 0)
        /\ c.ops["write"]["aborted"] = 0 /\ c.ops["read"]["aborted"] = 0
        /\ c.current # NoMsg => c.state = "COMMUNICATING"
        /\ c.requests # <<>> => c.state = "CONNECTING" \/ c.current # NoMsg
        /\ Total(c, "connect") > 0 => c.socket # "closed"

\* The QUEUED message of a request is at one place on its way to the worker, and
\* the worker has not had it: in the queue, at the socket, or underway.
InQueue(c, m) == \E i \in 1..Len(c.requests) : c.requests[i] = m
Unwritten(c, m) == c.current = m /\ (c.ops["write"]["pending"] > 0 \/ c.ops["write"]["error"] > 0)
OnePlace(c, m) ==
    /\ \A i, j \in 1..Len(c.requests) : c.requests[i] = m /\ c.requests[j] = m => i = j
    /\ InQueue(c, m) => c.current # m
    /\ InQueue(c, m) \/ Unwritten(c, m) => m \notin c.wire \cup c.lag
    /\ m \notin c.wire \cap c.lag
Ahead(c, m) == InQueue(c, m) \/ Unwritten(c, m) \/ m \in c.wire \cup c.lag
Messaged ==
    \A r \in Reqs :
        /\ OnePlace(con, QUEUED(r))
        /\ Ahead(con, QUEUED(r)) => got[r] = 0
        /\ rq[r].state = "CREATED" => got[r] = 0 /\ ~Ahead(con, QUEUED(r)) /\ con.current # QUEUED(r)

\* The inductive invariant behind SuccessIsReal, SentOnce and Attended.
IndInv == TypeOK /\ ReportsAreReal /\ SentOnce /\ (~con.dead /\ ~cut => Chain(con) /\ Messaged)

\* The end of a request is final: an answer, an expiration or a timer that comes
\* later changes nothing, and the connector is given no further message of the
\* request (Request::finish, ReplicationRequest::_awaken).
Holds(c, r) == Exists(c, r) \/ IsCurrent(c, r)
FinishedIsFinal ==
    [][\A r \in Reqs : rq[r].state = "FINISHED" =>
            /\ rq'[r].state = "FINISHED" /\ rq'[r].ext = rq[r].ext
            /\ Holds(con', r) => Holds(con, r)]_vars

\* A request that was started ends without its expiration timer, in spite of
\* lost connections and restarts of the worker, unless cancel() has met a
\* current message or the process of the controller is over.
Answered ==
    \A r \in Reqs : rq[r].state = "IN_PROGRESS" ~> (rq[r].state = "FINISHED" \/ cut \/ con.dead)

\* A comment in _requestSent() and _responseReceived() says of an aborted handler:
\* "_currentRequest should already be nullified and request removed from all data
\* structures".  It need not be: after a cancel() the connector may have gone on
\* to the next message, which the handler's restart then leaves without a write.
AbortedIsCleared == Due("write", "aborted") \/ Due("read", "aborted") => con.current = NoMsg

\* "It provides connection multiplexing and automatic reconnects"
\* (MessengerConnector.h): no fault ends the process.  After a failure to resolve
\* the host, _restart() calls cancel() on a socket that is not open, which throws.
Survives == ~con.dead

===============================================================================
