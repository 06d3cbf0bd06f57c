---------------------------- MODULE QueryRequest ----------------------------
(***************************************************************************)
(* qdisp/QueryRequest.cc: one attempt of a job as an SSI request, and the  *)
(* AskForResponseDataCmd that a pool thread runs for each block of its     *)
(* result.  Fields of req[r]: finish, cancelled, retried, marked, hasJob   *)
(* and keepAlive are _finishStatus, _cancelled, _retried,                  *)
(* _calledMarkComplete, _jobQuery # nullptr and _keepAlive; cmd is the     *)
(* _state of the current command; blocks counts the blocks merged.         *)
(*                                                                         *)
(* External: XrdSsi (field ssi) answers a request once, then delivers one  *)
(* block per GetResponseData, and starts no callback after Finished().     *)
(***************************************************************************)
EXTENDS JobQuery

ReqUnused == [NewRequest EXCEPT !.finish = "NONE", !.hasJob = FALSE, !.ssi = "none"]
Active(r) == req[r].finish = "ACTIVE"

\* Executive::getCancelled through a weak pointer: a dead Executive counts as
\* cancelled.  isQueryCancelled() of a request without a job asks the request.
ExecCancelled == cancelled \/ main = "discarded"
IsQueryCancelled(r) == IF req[r].hasJob THEN ExecCancelled ELSE req[r].cancelled

(* Shared pointers.  A job lives while the Executive, a request or a        *)
(* running call holds it; a request while its job, a _keepAlive or the      *)
(* command's local "qr" holds it.  The command itself has weak pointers.    *)
Frames(t) == {stack[t][i] : i \in DOMAIN stack[t]}
HoldsQr(r) == \E f \in Frames(<<"cmd", r>>) : f.at \notin {"ask", "wait"}
HoldsJob(t, j) == \E f \in Frames(t) :
                     f.j = j /\ f.at \notin {"ask", "wait", "wait.drop", "stuck"}
JobLive(j) == \/ main # "discarded" \/ stack[<<"kill">>] # <<>>
              \/ \E r \in Reqs : r[1] = j /\ req[r].hasJob
              \/ \E t \in Threads : HoldsJob(t, j)
HeldElsewhere(r) == \/ request[r[1]] = r /\ JobLive(r[1])
                    \/ \E q \in Reqs : req[q].keepAlive = r
Destroyed(r) == ~HeldElsewhere(r) /\ ~HoldsQr(r)

-----------------------------------------------------------------------------
(* _errorFinish(shouldCancel), with b = shouldCancel.                       *)
ErrorFinish(t) ==
    /\ At(t, "efin")
    /\ LET r == Top(t).r IN
       \/ /\ ~Active(r) \/ ~req[r].hasJob
          /\ Return(t, FALSE)
          /\ UNCHANGED req
       \/ /\ Active(r) /\ req[r].hasJob
          /\ req' = [req EXCEPT ![r].finish = "ERROR", ![r].ssi = "finished"]
          /\ Goto(t, [Top(t) EXCEPT !.at = "efin.decide"])
    /\ UNCHANGED <<execVars, complete, jobVars, mainVars, histVars>>

\* At most one retry per request, none when cancelled.
ErrorDecide(t) ==
    /\ At(t, "efin.decide")
    /\ LET r == Top(t).r
           retry == ~req[r].retried /\ ~Top(t).b
       IN /\ req' = [req EXCEPT ![r].retried = TRUE]
          /\ Goto(t, [Top(t) EXCEPT !.at = IF retry THEN "efin.retry" ELSE "efin.mark"])
    /\ UNCHANGED <<execVars, complete, jobVars, mainVars, histVars>>

\* getQueryRequest() takes _rmutex; then runJob().
ErrorRetry(t) ==
    /\ At(t, "efin.retry")
    /\ LET r == Top(t).r IN
       /\ CanLock(t, r[1])
       /\ req' = [req EXCEPT ![r].keepAlive = request[r[1]]]
       /\ Call(t, Frame("run.check", r[1], NoReq, FALSE), "efin.rerun")
    /\ UNCHANGED <<execVars, complete, jobVars, mainVars, histVars>>

ErrorRerun(t) ==
    /\ At(t, "efin.rerun")
    /\ Goto(t, [Top(t) EXCEPT !.at = IF Top(t).v THEN "clean" ELSE "efin.mark"])
    /\ UNCHANGED <<execVars, complete, jobVars, req, mainVars, histVars>>

\* _callMarkComplete(false)
ErrorMark(t) ==
    /\ At(t, "efin.mark")
    /\ LET r == Top(t).r IN
       /\ req' = [req EXCEPT ![r].marked = TRUE]
       /\ \/ /\ ~req[r].marked
             /\ Call(t, Frame("mark", r[1], NoReq, FALSE), "clean")
          \/ /\ req[r].marked
             /\ Goto(t, [Top(t) EXCEPT !.at = "clean"])
    /\ UNCHANGED <<execVars, complete, jobVars, mainVars, histVars>>

\* cleanup(), the last thing _errorFinish and _finish do.
Cleanup(t) ==
    /\ At(t, "clean")
    /\ req' = [req EXCEPT ![Top(t).r].hasJob = FALSE, ![Top(t).r].keepAlive = NoReq]
    /\ Return(t, TRUE)
    /\ UNCHANGED <<execVars, complete, jobVars, mainVars, histVars>>

(* _finish() *)
Finish(t) ==
    /\ At(t, "fin")
    /\ LET r == Top(t).r IN
       \/ /\ ~Active(r)
          /\ Return(t, FALSE)
          /\ UNCHANGED req
       \/ /\ Active(r)
          /\ req' = [req EXCEPT ![r].finish = "FINISHED", ![r].ssi = "finished"]
          /\ Goto(t, [Top(t) EXCEPT !.at = "fin.mark"])
    /\ UNCHANGED <<execVars, complete, jobVars, mainVars, histVars>>

\* _callMarkComplete(true): markCompleted of a success only untracks.
FinishMark(t) ==
    /\ At(t, "fin.mark")
    /\ LET r == Top(t).r IN
       /\ req' = [req EXCEPT ![r].marked = TRUE]
       /\ incomplete' = IF req[r].marked THEN incomplete ELSE incomplete \ {r[1]}
    /\ Goto(t, [Top(t) EXCEPT !.at = "clean"])
    /\ UNCHANGED <<cancelled, jobMap, requestCount, bug, complete, jobVars, mainVars, histVars>>

(* cancel() *)
RequestCancel(t) ==
    /\ At(t, "qcancel")
    /\ LET r == Top(t).r IN
       \/ /\ req[r].cancelled
          /\ Return(t, FALSE)
          /\ UNCHANGED <<req, complete>>
       \/ /\ ~req[r].cancelled
          /\ req' = [req EXCEPT ![r].cancelled = TRUE, ![r].retried = TRUE]
          /\ IF Active(r) /\ req[r].hasJob THEN SetStatus(r[1], "CANCEL") ELSE UNCHANGED complete
          /\ Goto(t, Frame("efin", r[1], r, TRUE))
    /\ UNCHANGED <<execVars, jobVars, mainVars, histVars>>

-----------------------------------------------------------------------------
(* The SSI callbacks, on the thread <<"ssi", r>>.                           *)

Callback(r, from, at) ==
    /\ req[r].ssi = from
    /\ stack[<<"ssi", r>>] = <<>>
    /\ req' = [req EXCEPT ![r].ssi = "idle"]
    /\ stack' = [stack EXCEPT ![<<"ssi", r>>] = <<Frame(at, r[1], r, FALSE)>>]
    /\ UNCHANGED <<execVars, complete, jobVars, mainVars, histVars>>

SsiRespond(r) == Callback(r, "sent", "resp")
SsiData(r) == Callback(r, "asked", "data")

(* ProcessResponse() *)
ProcessResponse(t) ==
    /\ At(t, "resp")
    /\ LET r == Top(t).r IN
       Goto(t, [Top(t) EXCEPT !.at = IF IsQueryCancelled(r) THEN "qcancel" ELSE "resp.active"])
    /\ UNCHANGED <<execVars, complete, jobVars, req, mainVars, histVars>>

\* The request may have been cancelled in between.
ResponseActive(t) ==
    /\ At(t, "resp.active")
    /\ \/ ~Active(Top(t).r) /\ Return(t, TRUE)
       \/ Active(Top(t).r) /\ Goto(t, [Top(t) EXCEPT !.at = "resp.type"])
    /\ UNCHANGED <<execVars, complete, jobVars, req, mainVars, histVars>>

\* An error response is reported and finishes the request; a stream makes a
\* command that is queued for the pool.
ResponseType(t) ==
    /\ At(t, "resp.type")
    /\ LET r == Top(t).r IN
       \/ /\ "response" \in Failures
          /\ SetStatus(r[1], "RESPONSE_ERROR")
          /\ Goto(t, [Top(t) EXCEPT !.at = "efin"])
       \/ /\ SetStatus(r[1], "RESPONSE_READY")
          /\ stack' = [stack EXCEPT ![t] = Tail(@),
                                    ![<<"cmd", r>>] = <<Frame("ask", r[1], r, FALSE)>>]
    /\ UNCHANGED <<execVars, jobVars, req, mainVars, scrubbed, flushed, merged>>

(* ProcessResponseData().  For a request that is no longer active the       *)
(* waiting command is not notified.                                         *)
ProcessData(t) ==
    /\ At(t, "data")
    /\ LET r == Top(t).r IN
       Goto(t, [Top(t) EXCEPT !.at = IF Active(r) /\ req[r].hasJob THEN "data.check" ELSE "efin"])
    /\ UNCHANGED <<execVars, complete, jobVars, req, mainVars, histVars>>

DataCheck(t) ==
    /\ At(t, "data.check")
    /\ Goto(t, IF ExecCancelled THEN [Top(t) EXCEPT !.at = "efin", !.b = TRUE]
                                ELSE [Top(t) EXCEPT !.at = "data.block"])
    /\ UNCHANGED <<execVars, complete, jobVars, req, mainVars, histVars>>

\* An error (blen < 0): notifyFailed(), then _errorFinish().  A block:
\* notifyDataSuccess().
DataBlock(t) ==
    /\ At(t, "data.block")
    /\ LET r == Top(t).r IN
       \/ /\ "data" \in Failures
          /\ SetStatus(r[1], "RESPONSE_DATA_NACK")
          /\ req' = [req EXCEPT ![r].cmd = "DONE2"]
          /\ Goto(t, [Top(t) EXCEPT !.at = "efin"])
       \/ /\ SetStatus(r[1], "RESPONSE_DATA")
          /\ req' = [req EXCEPT ![r].cmd = "DATAREADY1"]
          /\ Return(t, TRUE)
    /\ UNCHANGED <<execVars, jobVars, mainVars, scrubbed, flushed, merged>>

-----------------------------------------------------------------------------
(* AskForResponseDataCmd::action(), on the thread <<"cmd", r>>.  The command *)
(* for the next block replaces the one that queues it.                       *)

\* Both weak pointers are locked, or the command ends; a cancelled request is
\* finished.
Ask(t) ==
    /\ At(t, "ask")
    /\ LET r == Top(t).r IN
       \/ /\ Destroyed(r)
          /\ Return(t, FALSE)
       \/ /\ ~Destroyed(r) /\ IsQueryCancelled(r)
          /\ Goto(t, [Top(t) EXCEPT !.at = "efin", !.b = TRUE])
       \/ /\ ~Destroyed(r) /\ ~IsQueryCancelled(r)
          /\ Goto(t, [Top(t) EXCEPT !.at = "ask.get"])
    /\ UNCHANGED <<execVars, complete, jobVars, req, mainVars, histVars>>

\* GetResponseData().  The pointers are dropped before the wait.
AskGet(t) ==
    /\ At(t, "ask.get")
    /\ LET r == Top(t).r IN
       req' = IF req[r].ssi = "finished" THEN req ELSE [req EXCEPT ![r].ssi = "asked"]
    /\ Goto(t, [Top(t) EXCEPT !.at = "wait"])
    /\ UNCHANGED <<execVars, complete, jobVars, mainVars, histVars>>

\* The wait on _cv, which ~QueryRequest also ends.  After a failure
\* _errorFinish is called with _mtx held.  With data, both weak pointers are
\* locked again and _processData() looks at the flag.
Wait(t) ==
    /\ At(t, "wait")
    /\ LET r == Top(t).r IN
       \/ /\ Destroyed(r)
          /\ Return(t, FALSE)
       \/ /\ ~Destroyed(r) /\ req[r].cmd = "DONE2"
          /\ Call(t, Frame("efin", r[1], r, FALSE), "wait.drop")
       \/ /\ ~Destroyed(r) /\ req[r].cmd = "DATAREADY1" /\ ExecCancelled
          /\ Goto(t, [Top(t) EXCEPT !.at = "efin", !.b = TRUE])
       \/ /\ ~Destroyed(r) /\ req[r].cmd = "DATAREADY1" /\ ~ExecCancelled
          /\ Goto(t, [Top(t) EXCEPT !.at = "flush"])
    /\ UNCHANGED <<execVars, complete, jobVars, req, mainVars, histVars>>

\* The local pointer goes while _mtx is still held.  If it was the last one,
\* ~QueryRequest calls notifyFailed(), which locks _mtx again.
WaitDrop(t) ==
    /\ At(t, "wait.drop")
    /\ \/ HeldElsewhere(Top(t).r) /\ Return(t, FALSE)
       \/ ~HeldElsewhere(Top(t).r) /\ Goto(t, [Top(t) EXCEPT !.at = "stuck"])
    /\ UNCHANGED <<execVars, complete, jobVars, req, mainVars, histVars>>

\* Mutant: the request is ended without reporting it to the Executive.
FlushFailedUnreported(t, r) ==
    /\ "merge" \in Failures
    /\ SetStatus(r[1], "MERGE_ERROR")
    /\ req' = [req EXCEPT ![r].finish = "ERROR", ![r].ssi = "finished"]
    /\ Return(t, FALSE)
    /\ UNCHANGED <<flushed, merged>>

FlushFailed(t, r) ==
    /\ "merge" \in Failures
    /\ SetStatus(r[1], "MERGE_ERROR")
    /\ req' = [req EXCEPT ![r].retried = TRUE]
    /\ Goto(t, [Top(t) EXCEPT !.at = "efin", !.b = TRUE])
    /\ UNCHANGED <<flushed, merged>>

FlushMore(t, r) ==
    /\ req[r].blocks + 1 < MaxBlocks
    /\ flushed' = flushed \cup {r}
    /\ req' = [req EXCEPT ![r].cmd = "STARTED0", ![r].blocks = @ + 1]
    /\ Goto(t, [Top(t) EXCEPT !.at = "ask"])
    /\ UNCHANGED <<complete, merged>>

\* The worker ends the stream with the last message of the result, and
\* MergingHandler::flush raises "last" for it if SSI has not.
FlushLast(t, r) ==
    /\ flushed' = flushed \cup {r}
    /\ merged' = merged \cup {r}
    /\ SetStatus(r[1], "COMPLETE")
    /\ Goto(t, [Top(t) EXCEPT !.at = "fin"])
    /\ UNCHANGED req

ProcessFlush(t) ==
    /\ At(t, "flush")
    /\ \/ FlushFailed(t, Top(t).r) \/ FlushMore(t, Top(t).r) \/ FlushLast(t, Top(t).r)
    /\ UNCHANGED <<execVars, jobVars, mainVars, scrubbed>>

QueryRequestStep(t) ==
    \/ ErrorFinish(t) \/ ErrorDecide(t) \/ ErrorRetry(t) \/ ErrorRerun(t) \/ ErrorMark(t)
    \/ Cleanup(t) \/ Finish(t) \/ FinishMark(t) \/ RequestCancel(t)
    \/ ProcessResponse(t) \/ ResponseActive(t) \/ ResponseType(t)
    \/ ProcessData(t) \/ DataCheck(t) \/ DataBlock(t)
    \/ Ask(t) \/ AskGet(t) \/ Wait(t) \/ WaitDrop(t) \/ ProcessFlush(t)
=============================================================================
