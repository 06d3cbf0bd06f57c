--------------------------- MODULE QueryDispatch ----------------------------
(***************************************************************************)
(* The dispatch of one user query: Executive, JobQuery and QueryRequest    *)
(* composed, with the threads that run them.                               *)
(***************************************************************************)
EXTENDS QueryRequest

vars == <<execVars, complete, jobVars, req, stack, mainVars, histVars>>

Init ==
    /\ cancelled = FALSE /\ jobMap = {} /\ incomplete = {} /\ requestCount = 0
    /\ bug = FALSE
    /\ complete = {}
    /\ attempt = [j \in Jobs |-> 0]
    /\ inSsi = [j \in Jobs |-> FALSE]
    /\ request = [j \in Jobs |-> NoReq]
    /\ rmutex = [j \in Jobs |-> NoThread]
    /\ req = [r \in Reqs |-> ReqUnused]
    /\ stack = [t \in Threads |-> <<>>]
    /\ submitted = {} /\ main = "submit" /\ joined = FALSE
    /\ scrubbed = {} /\ flushed = {} /\ merged = {}

Step(t) == /\ stack[t] # <<>>
           /\ ExecutiveStep(t) \/ JobQueryStep(t) \/ QueryRequestStep(t)

\* The query is over: nothing runs but threads that can never go on.
Over == main = "discarded" /\ \A t \in Threads : stack[t] # <<>> => At(t, "stuck")
Terminating == Over /\ UNCHANGED vars

Next == \/ \E t \in Threads : Step(t)
        \/ \E r \in Reqs : SsiRespond(r) \/ SsiData(r)
        \/ Submit \/ Join \/ Discard \/ Kill \/ Terminating

Spec == Init /\ [][Next]_vars

\* Every thread runs, and SSI answers every request it still has.  Nobody has
\* to kill the query.
Fairness == /\ \A t \in Threads : WF_vars(Step(t))
            /\ \A r \in Reqs : WF_vars(SsiRespond(r)) /\ WF_vars(SsiData(r))
            /\ WF_vars(Submit) /\ WF_vars(Join) /\ WF_vars(Discard)

FairSpec == Spec /\ Fairness

-----------------------------------------------------------------------------
ReqType == [finish : {"NONE", "ACTIVE", "FINISHED", "ERROR"}, cancelled : BOOLEAN,
            retried : BOOLEAN, marked : BOOLEAN, hasJob : BOOLEAN,
            keepAlive : Reqs \cup {NoReq},
            ssi : {"none", "sent", "idle", "asked", "finished"},
            cmd : {"STARTED0", "DATAREADY1", "DONE2"}, blocks : 0..MaxBlocks]

\* The type invariant of the whole composition.
TypeOK ==
    /\ cancelled \in BOOLEAN /\ bug \in BOOLEAN
    /\ jobMap \subseteq Jobs /\ incomplete \subseteq jobMap
    /\ requestCount = Cardinality(jobMap)
    /\ complete \subseteq jobMap
    /\ attempt \in [Jobs -> 0..MaxAttempts + 1]
    /\ inSsi \in [Jobs -> BOOLEAN]
    /\ request \in [Jobs -> Reqs \cup {NoReq}]
    /\ rmutex \in [Jobs -> Threads \cup {NoThread}]
    /\ req \in [Reqs -> ReqType]
    /\ submitted \subseteq Jobs /\ joined \in BOOLEAN
    /\ main \in {"submit", "wait", "joined", "discarded"}
    /\ scrubbed \subseteq Reqs /\ merged \subseteq flushed /\ flushed \subseteq Reqs

\* markCompleted never meets a job that is not tracked in a query that is not
\* cancelled: the Bug thrown at Executive.cc:307 is unreachable.
NoBug == ~bug

\* When join() reports success, every job of the map has the whole result of
\* one attempt in the table, and that attempt was never scrubbed.
JoinedJobsMerged == joined => \A j \in jobMap : \E r \in merged \ scrubbed : r[1] = j

\* At any time at most one attempt of a job has rows that are not marked
\* invalid: a retry never adds the rows of a chunk a second time.
NoDuplicateRows ==
    \A q, r \in flushed \ scrubbed : q[1] = r[1] => q = r

\* _keepAlive only ever points to the request that owns it ("shared pointer
\* to this"), so a retry cannot keep the wrong object.
KeepsItself == \A r \in Reqs : req[r].keepAlive \in {NoReq, r}

\* When the query is not cancelled, a tracked job is always looked after: its
\* start is under way, or its newest request is active, or some thread is
\* finishing that request.
TrackedJobsAlive ==
    ~cancelled => \A j \in incomplete :
        \/ request[j] # NoReq /\ Active(request[j])
        \/ \E t \in Threads : HoldsJob(t, j)

\* Whatever fails, and whenever the query is killed, join() returns, and in the
\* end no thread waits for a job's _rmutex or for data that will never come
\* (NoSelfDeadlock is about the threads that are stuck).
QueryEnds == <>[]Over

\* "we really don't want to leave this blocking the pool" (QueryRequest.cc:188)
NoSelfDeadlock == \A r \in Reqs : stack[<<"cmd", r>>] # <<>> => ~At(<<"cmd", r>>, "stuck")

\* "@return true if execution was successful" (Executive.h:104), one way: if
\* nothing made the query fail (any failure squashes it) and nobody killed it,
\* join() says so.
SuccessReported == main = "joined" /\ ~cancelled => joined

\* The other way: when join() says so, every job of the query was executed.
SuccessMeansAll == joined => \A j \in Jobs : \E r \in merged \ scrubbed : r[1] = j
-----------------------------------------------------------------------------
(* The inductive invariant behind NoBug, JoinedJobsMerged, NoDuplicateRows,  *)
(* TrackedJobsAlive and KeepsItself.  It speaks of the first frame of each   *)
(* thread; of the frames below it only says which calls can be waiting.      *)
In(t, labels) == stack[t] # <<>> /\ Top(t).at \in labels

RespLabels == {"resp", "resp.active", "resp.type"}
DataLabels == {"data", "data.check", "data.block"}
CmdLabels == {"ask", "ask.get", "wait", "flush"}
MarkLabels == {"mark", "mark.status", "mark.untrack"}
CancelLabels == {"squash.loop", "cancel", "cancel.asked", "cancel.end"}
RunLabels == {"run.check", "run.lock", "run.started", "run.fail"}
ReqLabels == {"qcancel", "efin", "efin.decide", "efin.retry", "efin.rerun", "efin.mark",
              "clean", "fin", "fin.mark", "wait.drop", "stuck"}
             \cup RespLabels \cup DataLabels \cup CmdLabels
JobLabels == {"add", "squash"} \cup MarkLabels \cup CancelLabels \cup RunLabels

FrameType == [at : JobLabels \cup ReqLabels, j : Jobs \cup {NoJob}, r : Reqs \cup {NoReq},
              b : BOOLEAN, v : BOOLEAN, todo : SUBSET Jobs]

\* The attempt was made.
Started(r) == r[2] < attempt[r[1]]

FrameOK(f) ==
    /\ f.at \in ReqLabels => f.r \in Reqs /\ Started(f.r) /\ f.j = f.r[1]
    /\ f.at \notin {"add", "squash.loop"} => f.j \in jobMap
    /\ f.todo \subseteq jobMap
    /\ f.at \in CancelLabels => cancelled

\* A frame at the step b waits for the one above it, which is at the step a.
WaitsFor(a, b) ==
    /\ b \in {"squash.loop", "run.fail", "cancel.asked", "cancel.end", "efin.rerun",
              "clean", "wait.drop"}
    /\ b = "run.fail" => a \in {"squash", "squash.loop"}
    /\ b = "efin.rerun" => a \in RunLabels

StackOK ==
    /\ stack \in [Threads -> Seq(FrameType)]
    /\ \A t \in Threads : \A i \in 1..Len(stack[t]) : FrameOK(stack[t][i])
    /\ \A t \in Threads : \A i \in 2..Len(stack[t]) : WaitsFor(stack[t][i - 1].at, stack[t][i].at)
    /\ \A t \in Threads :
          /\ In(t, RespLabels \cup DataLabels) => t = <<"ssi", Top(t).r>>
          /\ In(t, CmdLabels) => t = <<"cmd", Top(t).r>>
          /\ In(t, {"add"}) => /\ t = <<"add", Top(t).j>>
                               /\ Top(t).j \in submitted \ jobMap
                               /\ attempt[Top(t).j] = 0

\* The callbacks and the command of a request follow each other.
Flow(r) ==
    LET S == <<"ssi", r>>
        C == <<"cmd", r>>
    IN /\ stack[S] # <<>> \/ stack[C] # <<>> \/ req[r].ssi # "none" \/ Active(r) => Started(r)
       /\ req[r].ssi = "sent" \/ In(S, RespLabels) =>
             stack[C] = <<>> /\ req[r].cmd = "STARTED0" /\ r \notin merged
       /\ req[r].ssi = "asked" \/ In(S, DataLabels) =>
             ~In(C, {"ask", "ask.get", "flush"}) /\ req[r].cmd = "STARTED0" /\ r \notin merged
       /\ In(S, RespLabels \cup DataLabels) => req[r].ssi \notin {"sent", "asked"}
       /\ In(C, {"ask", "ask.get"}) => req[r].cmd = "STARTED0"
       /\ In(C, CmdLabels) => r \notin merged

FlowOK == \A r \in Reqs : Flow(r)

\* Blocks of r may still be merged.
Flowing(r) == \/ req[r].ssi = "sent"
              \/ In(<<"ssi", r>>, RespLabels)
              \/ In(<<"cmd", r>>, {"ask", "ask.get", "flush"})
              \/ In(<<"cmd", r>>, {"wait"}) /\ req[r].cmd # "DONE2"
Doomed(r) == ~Flowing(r) /\ r \notin merged

\* t is on its way to the next attempt of j.
Starts(t, j) == /\ \/ In(t, {"add", "run.check", "run.lock", "efin.retry"})
                   \/ In(t, {"efin.decide"}) /\ ~Top(t).b
                /\ Top(t).j = j

\* No other thread does that, and the last attempt has ended without its whole
\* result.
StartsAlone(t, j) ==
    /\ \A u \in Threads : Starts(u, j) => u = t
    /\ \A r \in Reqs : r[1] = j => ~Active(r)
    /\ attempt[j] > 0 => Doomed(<<j, attempt[j] - 1>>)
    /\ In(t, {"efin.decide", "efin.retry"}) => request[j] = Top(t).r

StartsOK ==
    /\ \A t \in Threads : \A j \in Jobs : Starts(t, j) => StartsAlone(t, j)
    /\ \A r \in Reqs : Active(r) => r[2] + 1 = attempt[r[1]] /\ request[r[1]] = r
    /\ \A t \in Threads : In(t, {"efin"}) /\ ~Top(t).b =>
          (Active(Top(t).r) /\ req[Top(t).r].hasJob => Doomed(Top(t).r))

\* t will mark or untrack j, or start it again.
Finishes(t, j) == /\ In(t, {"run.check", "run.lock", "efin.decide", "efin.retry", "efin.mark",
                            "fin.mark"} \cup MarkLabels)
                  /\ Top(t).j = j

\* No other thread does that, and no request of j can end any more.
FinishesAlone(t, j) ==
    /\ j \in incomplete
    /\ \A u \in Threads : Finishes(u, j) => u = t
    /\ \A r \in Reqs : r[1] = j => ~Active(r)
    /\ In(t, {"efin.decide", "efin.retry", "efin.mark", "fin.mark"}) => ~req[Top(t).r].marked

Attended(j) == \/ \E r \in Reqs : r[1] = j /\ Active(r)
               \/ \E t \in Threads : Finishes(t, j) \/ (In(t, {"squash"}) /\ Top(t).j = j)

\* In a query that is not cancelled each tracked job is in one hand.
TrackOK ==
    ~cancelled =>
       /\ \A t \in Threads : \A j \in Jobs : Finishes(t, j) => FinishesAlone(t, j)
       /\ \A r \in Reqs : Active(r) => r[1] \in incomplete /\ ~req[r].marked
       /\ \A j \in incomplete : Attended(j)
       /\ \A t \in Threads : ~In(t, {"run.fail"}) /\ (In(t, {"efin.rerun"}) => Top(t).v)

RowsOK ==
    /\ \A r \in Reqs : r[2] + 1 < attempt[r[1]] => r \in scrubbed
    /\ \A r \in flushed : Started(r)
    /\ \A r \in scrubbed : Started(r) /\ Doomed(r)
    /\ \A j \in complete : \E r \in merged : r[1] = j

MainOK ==
    /\ IsFiniteSet(jobMap) /\ jobMap \subseteq submitted
    /\ \A j \in Jobs : attempt[j] > 0 => j \in jobMap
    /\ \A j \in Jobs : inSsi[j] => /\ request[j] \in Reqs /\ request[j][1] = j
                                   /\ Started(request[j])
    /\ main \in {"joined", "discarded"} => \A t \in Threads : ~In(t, {"add"})
    /\ joined => /\ main \in {"joined", "discarded"}
                 /\ \A j \in jobMap : \E r \in merged : r[1] = j

\* Nothing runs for a job before it is submitted.
AddSubmitted == \A j \in Jobs : stack[<<"add", j>>] # <<>> => j \in submitted

IndInv == /\ TypeOK /\ StackOK /\ FlowOK /\ StartsOK /\ TrackOK /\ RowsOK /\ MainOK
          /\ NoBug /\ KeepsItself
=============================================================================
