------------------------------ MODULE JobQuery ------------------------------
(***************************************************************************)
(* qdisp/JobQuery.cc: one job, run as one attempt after another.           *)
(***************************************************************************)
EXTENDS Executive

\* _rmutex is recursive: the owner may lock it again (squash() called with
\* it held cancels the caller's own job).
CanLock(t, j) == rmutex[j] \in {NoThread, t}

\* The QueryRequest made by startQuery, handed to SSI.
NewRequest == [finish |-> "ACTIVE", cancelled |-> FALSE, retried |-> FALSE,
               marked |-> FALSE, hasJob |-> TRUE, keepAlive |-> NoReq,
               ssi |-> "sent", cmd |-> "STARTED0", blocks |-> 0]

(* runJob().  The flag is read, and the response handler reset, before      *)
(* _rmutex is taken.                                                        *)
RunCheck(t) ==
    /\ At(t, "run.check")
    /\ \/ cancelled /\ Return(t, FALSE)
       \/ ~cancelled /\ Goto(t, [Top(t) EXCEPT !.at = "run.lock"])
    /\ UNCHANGED <<execVars, complete, jobVars, req, mainVars, histVars>>

\* No attempt left, or a payload that does not parse: squash the whole query,
\* holding _rmutex.
CriticalErr(t, j) ==
    /\ rmutex' = [rmutex EXCEPT ![j] = t]
    /\ Call(t, Frame("squash", j, NoReq, FALSE), "run.fail")
    /\ UNCHANGED <<inSsi, request, req>>

\* Mutant: the scrub is forgotten.
IncrAttemptCountNoScrub(j) ==
    attempt' = [attempt EXCEPT ![j] = @ + 1] /\ UNCHANGED scrubbed

\* The previous attempt, if any, is registered as invalid.
IncrAttemptCountScrubResults(j) ==
    /\ attempt' = [attempt EXCEPT ![j] = @ + 1]
    /\ scrubbed' = IF attempt[j] > 0 THEN scrubbed \cup {<<j, attempt[j] - 1>>} ELSE scrubbed

\* Executive::startQuery looks at the flag again, and hands a new QueryRequest
\* to SSI if it is down.
StartQuery(t, j) ==
    LET r == <<j, attempt[j]>> IN
    \/ /\ cancelled
       /\ inSsi' = [inSsi EXCEPT ![j] = FALSE]
       /\ Return(t, FALSE)
       /\ UNCHANGED <<request, req, rmutex>>
    \/ /\ ~cancelled
       /\ inSsi' = [inSsi EXCEPT ![j] = TRUE]
       /\ request' = [request EXCEPT ![j] = r]
       /\ req' = [req EXCEPT ![r] = NewRequest]
       /\ rmutex' = [rmutex EXCEPT ![j] = t]
       /\ Goto(t, [Top(t) EXCEPT !.at = "run.started"])

\* The section under _rmutex up to the return of startQuery.
RunLock(t) ==
    /\ At(t, "run.lock")
    /\ LET j == Top(t).j IN
       /\ CanLock(t, j)
       /\ \/ /\ attempt[j] > MaxAttempts
             /\ CriticalErr(t, j)
             /\ UNCHANGED <<attempt, scrubbed>>
          \/ /\ attempt[j] =< MaxAttempts
             /\ IncrAttemptCountScrubResults(j)
             /\ \/ "payload" \in Failures /\ CriticalErr(t, j)
                \/ StartQuery(t, j)
    /\ UNCHANGED <<execVars, complete, mainVars, flushed, merged>>

\* The request is already with SSI when its job's status becomes REQUEST.
RunStarted(t) ==
    /\ At(t, "run.started")
    /\ SetStatus(Top(t).j, "REQUEST")
    /\ rmutex' = [rmutex EXCEPT ![Top(t).j] = NoThread]
    /\ Return(t, TRUE)
    /\ UNCHANGED <<execVars, attempt, inSsi, request, req, mainVars, histVars>>

RunFail(t) ==
    /\ At(t, "run.fail")
    /\ rmutex' = [rmutex EXCEPT ![Top(t).j] = NoThread]
    /\ Return(t, FALSE)
    /\ UNCHANGED <<execVars, complete, attempt, inSsi, request, req, mainVars, histVars>>

\* Mutant: a job that is not with SSI is not marked.
CancelOnlySsi(t) ==
    /\ At(t, "cancel")
    /\ CanLock(t, Top(t).j)
    /\ IF inSsi[Top(t).j]
       THEN /\ rmutex' = [rmutex EXCEPT ![Top(t).j] = t]
            /\ stack' = [stack EXCEPT ![t] =
                   <<Frame("qcancel", Top(t).j, request[Top(t).j], FALSE),
                     [Top(t) EXCEPT !.b = rmutex[Top(t).j] = NoThread, !.at = "cancel.asked"]>>
                   \o Tail(@)]
       ELSE Return(t, TRUE) /\ UNCHANGED rmutex
    /\ UNCHANGED <<execVars, complete, attempt, inSsi, request, req, mainVars, histVars>>

(* cancel(), called once per job by the one squash() that got through.  The *)
(* frame's b says whether this call took _rmutex or its caller had it.      *)
Cancel(t) ==
    /\ At(t, "cancel")
    /\ LET j == Top(t).j
           f == [Top(t) EXCEPT !.b = rmutex[j] = NoThread]
       IN /\ CanLock(t, j)
          /\ rmutex' = [rmutex EXCEPT ![j] = t]
          /\ stack' = [stack EXCEPT ![t] =
                 <<IF inSsi[j] THEN Frame("qcancel", j, request[j], FALSE)
                               ELSE Frame("mark", j, NoReq, FALSE),
                   [f EXCEPT !.at = IF inSsi[j] THEN "cancel.asked" ELSE "cancel.end"]>>
                 \o Tail(@)]
    /\ UNCHANGED <<execVars, complete, attempt, inSsi, request, req, mainVars, histVars>>

\* The request could not be cancelled (it was no longer active): the job is
\* marked as completed with an error here.
CancelFailed(t) ==
    /\ At(t, "cancel.asked")
    /\ ~Top(t).v
    /\ Call(t, Frame("mark", Top(t).j, NoReq, FALSE), "cancel.end")
    /\ UNCHANGED <<execVars, complete, jobVars, req, mainVars, histVars>>

CancelEnd(t) ==
    /\ At(t, "cancel.end") \/ (At(t, "cancel.asked") /\ Top(t).v)
    /\ rmutex' = IF Top(t).b THEN [rmutex EXCEPT ![Top(t).j] = NoThread] ELSE rmutex
    /\ Return(t, TRUE)
    /\ UNCHANGED <<execVars, complete, attempt, inSsi, request, req, mainVars, histVars>>

JobQueryStep(t) == \/ RunCheck(t) \/ RunLock(t) \/ RunStarted(t) \/ RunFail(t)
                   \/ Cancel(t) \/ CancelFailed(t) \/ CancelEnd(t)
=============================================================================
