----------------------- MODULE WorkerProcessorProofs -----------------------
(***************************************************************************)
(* IndInv is an inductive invariant of the worker's request processor, for *)
(* any set of requests and threads and any number of suspensions.          *)
(***************************************************************************)
EXTENDS WorkerProcessor, FiniteSetTheorems, TLAPS

USE NoReqDistinct, SlicesPositive, AtomicKnown

LEMMA InitIndInv == Init => IndInv
<1> SUFFICES ASSUME Init PROVE IndInv OBVIOUS
<1> USE DEF Init
<1>1. TypeOK BY DEF TypeOK, Active, Holding, Ended
<1>2. NoConflict /\ ThreadsSurvive BY DEF NoConflict, Active, ThreadsSurvive
<1>3. OwnerInv BY DEF OwnerInv, Holding
<1>4. StatusInv BY DEF StatusInv, Holding
<1> QED BY <1>1, <1>2, <1>3, <1>4 DEF IndInv

\* run(), stop() and a status request leave the requests alone.
LEMMA InterfaceIndInv ==
    ASSUME IndInv, Run \/ Stop \/ \E r \in Requests : CheckStatus(r)
    PROVE  IndInv'
<1> USE DEF IndInv, Run, Stop, CheckStatus, queues, threadVars
<1>1. TypeOK' BY ZenonT(30) DEF TypeOK, Active, Holding
<1>2. NoConflict' /\ ThreadsSurvive' BY DEF NoConflict, Active, ThreadsSurvive
<1>3. OwnerInv' BY DEF OwnerInv, TypeOK, Holding
<1>4. StatusInv' BY DEF OwnerInv, StatusInv, TypeOK, Holding
<1> QED BY <1>1, <1>2, <1>3, <1>4

LEMMA EnqueueIndInv ==
    ASSUME IndInv, NEW r \in Requests, Enqueue(r)
    PROVE  IndInv'
<1> USE DEF IndInv, Enqueue, Active, threadVars
<1>1. TypeOK' BY DEF TypeOK
<1>2. NoConflict' BY DEF NoConflict, Duplicate
<1>3. ThreadsSurvive' BY DEF ThreadsSurvive
<1>4. OwnerInv' BY DEF OwnerInv
<1>5. StatusInv' BY DEF StatusInv, TypeOK
<1> QED BY <1>1, <1>2, <1>3, <1>4, <1>5

LEMMA CancelIndInv ==
    ASSUME IndInv, NEW rs \in SUBSET Requests, DequeueOrCancelImpl(rs)
    PROVE  IndInv'
<1> USE DEF IndInv, DequeueOrCancelImpl, Active, threadVars
<1>0. \A r \in Requests : CancelStatus(status[r]) \in {"IS_CANCELLING"} \cup Ended
  BY DEF TypeOK, CancelStatus, Ended
<1>1. TypeOK' BY <1>0 DEF TypeOK
<1>2. NoConflict' BY DEF NoConflict
<1>3. ThreadsSurvive' BY DEF ThreadsSurvive
<1>4. OwnerInv' BY DEF OwnerInv
<1>5. StatusInv'
  BY DEF StatusInv, OwnerInv, TypeOK, CancelStatus, Expected, Ended, Holding
<1> QED BY <1>1, <1>2, <1>3, <1>4, <1>5

\* The steps of a thread that has no request, and those that take or test _stop.
LEMMA LoopIndInv ==
    ASSUME IndInv, NEW t \in Threads,
           Loop(t) \/ CheckStop(t) \/ Stopped(t) \/ ProcessorThreadStopped(t)
    PROVE  IndInv'
<1> USE DEF IndInv, Loop, CheckStop, Stopped, ProcessorThreadStopped, Goto, queues
<1>1. TypeOK' BY ZenonT(30) DEF TypeOK, Active, Holding
<1>2. NoConflict' /\ ThreadsSurvive' BY DEF NoConflict, Active, ThreadsSurvive
<1>3. OwnerInv' BY DEF OwnerInv, TypeOK, Holding
<1>4. StatusInv' BY DEF StatusInv, TypeOK, Holding, Expected
<1> QED BY <1>1, <1>2, <1>3, <1>4

LEMMA FetchIndInv ==
    ASSUME IndInv, NEW t \in Threads, FetchNextForProcessing(t)
    PROVE  IndInv'
<1> USE DEF IndInv, FetchNextForProcessing, Goto
<1>1. CASE new = {} /\ at' = [at EXCEPT ![t] = "loop"]
           /\ UNCHANGED <<new, inProgress, status, req, logicError>>
  <2>1. TypeOK' BY <1>1 DEF TypeOK, Active, Holding
  <2>2. NoConflict' /\ ThreadsSurvive' BY <1>1 DEF NoConflict, Active, ThreadsSurvive
  <2>3. OwnerInv' BY <1>1 DEF OwnerInv, TypeOK, Holding
  <2>4. StatusInv' BY <1>1 DEF StatusInv, TypeOK, Holding
  <2> QED BY <2>1, <2>2, <2>3, <2>4
<1>2. ASSUME NEW r \in new,
             new' = new \ {r}, inProgress' = inProgress \cup {r},
             SetStatus(r, "IN_PROGRESS"), req' = [req EXCEPT ![t] = r],
             Throws("start", status[r] = "NONE"), at' = [at EXCEPT ![t] = "check"]
      PROVE  IndInv'
  <2> USE <1>2 DEF SetStatus
  <2>0. r \in Requests /\ r \notin inProgress /\ r \notin finished /\ status[r] = "NONE"
    BY DEF TypeOK, StatusInv, Active
  <2>1. TypeOK' BY <2>0 DEF TypeOK, Active, Holding
  <2>2. NoConflict' /\ ThreadsSurvive' BY <2>0 DEF NoConflict, Active, ThreadsSurvive, Throws
  <2>3. OwnerInv' BY <2>0 DEF OwnerInv, TypeOK, Holding
  <2>4. StatusInv' BY <2>0 DEF StatusInv, OwnerInv, TypeOK, Holding, Expected
  <2> QED BY <2>1, <2>2, <2>3, <2>4
<1> QED BY <1>1, <1>2

\* What the steps of a thread with a request change: the status of that request.
LEMMA WorkIndInv ==
    ASSUME IndInv, NEW t \in Threads, Execute(t) \/ Rollback(t)
    PROVE  IndInv'
<1> DEFINE r == req[t]
<1> USE DEF IndInv
<1>0. /\ at[t] \in {"execute", "rollback"} /\ at[t] \in Holding /\ r \in Requests /\ r \in inProgress
      /\ r \notin new /\ r \notin finished /\ status[r] \in {"IN_PROGRESS", "IS_CANCELLING"}
      /\ left[r] \in 1..Slices
      /\ \A u \in Threads : u # t => req[u] # r
  BY DEF Execute, Rollback, TypeOK, OwnerInv, StatusInv, Expected, Holding, Active
<1>1. PICK s \in {"NONE", "IN_PROGRESS", "IS_CANCELLING"} \cup Ended, a \in {"again", "refuse", "finish"} :
        /\ status' = [status EXCEPT ![r] = s]
        /\ at' = [at EXCEPT ![t] = a]
        /\ s \in Expected(a)
        /\ left'[r] = 0 => s \in {"SUCCEEDED", "FAILED"}
        /\ left' \in [Requests -> 0..Slices]
        /\ \A q \in Requests : q # r => left'[q] = left[q]
  <2>1. CASE Execute(t)
    BY <1>0, <2>1 DEF Execute, SetStatus, Goto, Expected, Ended, TypeOK
  <2>2. CASE Rollback(t)
    BY <1>0, <2>2 DEF Rollback, SetStatus, Goto, Expected, Ended, TypeOK
  <2> QED BY ZenonT(30), <2>1, <2>2
<1>2. UNCHANGED <<state, queues, refused, req, stopFlag, running, told, stops>>
  BY DEF Execute, Rollback
<1>3. UNCHANGED logicError
  BY <1>0 DEF Execute, Rollback, Throws, Ended
<1> HIDE DEF r
<1>4. TypeOK' BY <1>0, <1>1, <1>2 DEF TypeOK, queues, Active, Holding
<1>5. NoConflict' /\ ThreadsSurvive' BY <1>2, <1>3 DEF NoConflict, Active, ThreadsSurvive, queues
<1>6. OwnerInv' BY <1>0, <1>1, <1>2 DEF OwnerInv, TypeOK, Holding, queues, r
<1>7. StatusInv' BY <1>0, <1>1, <1>2 DEF StatusInv, OwnerInv, TypeOK, Holding, queues, r
<1> QED BY <1>4, <1>5, <1>6, <1>7

\* A thread gives its request back to the processor, to wait or as finished.
LEMMA GiveBackIndInv ==
    ASSUME IndInv, NEW t \in Threads, ProcessingRefused(t) \/ ProcessingFinished(t)
    PROVE  IndInv'
<1> USE DEF IndInv
<1>0. /\ at[t] \in Holding /\ req[t] \in Requests /\ req[t] \in inProgress
      /\ req[t] \notin new /\ req[t] \notin finished /\ status[req[t]] \in Expected(at[t])
      /\ \A u \in Threads : u # t => req[u] # req[t]
  BY DEF ProcessingRefused, ProcessingFinished, TypeOK, OwnerInv, StatusInv, Holding, Active
<1>1. CASE ProcessingRefused(t)
  <2> USE <1>0, <1>1 DEF ProcessingRefused, SetStatus, Goto
  <2>0. left[req[t]] # 0 BY DEF StatusInv, Expected
  <2>1. TypeOK' BY DEF TypeOK, Active, Holding
  <2>2. NoConflict' /\ ThreadsSurvive' BY DEF NoConflict, Active, ThreadsSurvive
  <2>3. OwnerInv' BY DEF OwnerInv, TypeOK, Holding
  <2>4. StatusInv' BY <2>0 DEF StatusInv, OwnerInv, TypeOK, Holding
  <2> QED BY <2>1, <2>2, <2>3, <2>4
<1>2. CASE ProcessingFinished(t)
  <2> USE <1>0, <1>2 DEF ProcessingFinished, Goto
  <2>1. TypeOK' BY DEF TypeOK, Active, Holding
  <2>2. NoConflict' /\ ThreadsSurvive' BY DEF NoConflict, Active, ThreadsSurvive
  <2>3. OwnerInv' BY DEF OwnerInv, TypeOK, Holding
  <2>4. StatusInv' BY DEF StatusInv, OwnerInv, TypeOK, Holding, Expected
  <2> QED BY <2>1, <2>2, <2>3, <2>4
<1> QED BY <1>1, <1>2

LEMMA NextIndInv == IndInv /\ [Next]_vars => IndInv'
<1> SUFFICES ASSUME IndInv, [Next]_vars PROVE IndInv' OBVIOUS
<1>1. ASSUME NEW r \in Requests, DequeueOrCancel(r) PROVE IndInv'
  BY <1>1, CancelIndInv DEF DequeueOrCancel
<1>2. CASE Drain
  <2>1. Active \in SUBSET Requests BY DEF IndInv, TypeOK, Active
  <2> QED BY <1>2, <2>1, CancelIndInv DEF Drain
<1>3. ASSUME NEW t \in Threads, Thread(t) PROVE IndInv'
  BY <1>3, LoopIndInv, FetchIndInv, WorkIndInv, GiveBackIndInv, SMTT(30) DEF Thread
<1>4. CASE UNCHANGED vars
  BY <1>4 DEF vars, queues, threadVars, IndInv, TypeOK, Active, NoConflict, ThreadsSurvive,
              OwnerInv, StatusInv
<1> QED BY <1>1, <1>2, <1>3, <1>4, InterfaceIndInv, EnqueueIndInv DEF Next

\* In every reachable state each request in progress has one thread, and its
\* status is one that the next step of this thread allows (WorkerProcessorThread::run).
THEOREM IndInvariant == Spec => []IndInv
BY InitIndInv, NextIndInv, PTL DEF Spec

\* No thread of the processor meets a logic_error in start(), execute() or
\* rollback(), however cancellations, refusals and restarts interleave.
THEOREM NoThreadThrows == Spec => []ThreadsSurvive
<1>1. IndInv => ThreadsSurvive BY DEF IndInv
<1> QED BY <1>1, IndInvariant, PTL

\* The duplicate test of enqueueForReplication() keeps two requests for one replica
\* from being active together, although requests move between the queues.
THEOREM ActiveRequestsDiffer == Spec => []NoConflict
<1>1. IndInv => NoConflict BY DEF IndInv
<1> QED BY <1>1, IndInvariant, PTL

\* A thread is the only one with its request, and a request in progress has one:
\* processingRefused() and processingFinished() take out what was fetched.
THEOREM RequestsHaveOneThread == Spec => []OneThreadEach
<1>1. IndInv => OneThreadEach
  <2> SUFFICES ASSUME IndInv, NEW r \in Requests
               PROVE  Cardinality({t \in Threads : req[t] = r}) = IF r \in inProgress THEN 1 ELSE 0
    BY DEF OneThreadEach
  <2> USE DEF IndInv, OwnerInv, TypeOK
  <2>1. CASE r \in inProgress
    <3>1. PICK t \in Threads : req[t] = r BY <2>1
    <3>2. {u \in Threads : req[u] = r} = {t} BY <3>1
    <3> QED BY ZenonT(30), <2>1, <3>2, FS_Singleton
  <2>2. CASE r \notin inProgress
    <3>1. {u \in Threads : req[u] = r} = {} BY <2>2
    <3> QED BY ZenonT(30), <2>2, <3>1, FS_EmptySet
  <2> QED BY <2>1, <2>2
<1> QED BY <1>1, IndInvariant, PTL

\* A result is never taken back: neither cancel() nor stop() nor rollback() meets a
\* request with a result, and no request leaves the queue of the finished ones.
THEOREM ResultsStay == Spec => ResultsAreFinal
<1> DEFINE A == /\ finished \subseteq finished'
                /\ \A r \in Requests : status[r] \in {"SUCCEEDED", "FAILED"} => status'[r] = status[r]
<1>1. ASSUME IndInv, Next PROVE A
  <2> USE <1>1 DEF IndInv
  <2>1. CASE Run \/ Stop \/ (\E r \in Requests : CheckStatus(r)) \/ (\E r \in Requests : Enqueue(r))
    BY <2>1 DEF Run, Stop, CheckStatus, Enqueue, queues
  <2>2. ASSUME NEW rs, DequeueOrCancelImpl(rs) PROVE A
    BY <2>2, SMTT(30) DEF DequeueOrCancelImpl, CancelStatus
  <2>3. ASSUME NEW t \in Threads, Thread(t) PROVE A
    <3>1. CASE Loop(t) \/ CheckStop(t) \/ Stopped(t) \/ ProcessorThreadStopped(t) \/ ProcessingFinished(t)
      BY <3>1 DEF Loop, CheckStop, Stopped, ProcessorThreadStopped, ProcessingFinished, queues
    <3>2. CASE FetchNextForProcessing(t)
      <4>1. \A r \in new : status[r] = "NONE" BY DEF StatusInv, TypeOK, Active
      <4> QED BY ZenonT(30), <3>2, <4>1 DEF FetchNextForProcessing, SetStatus, TypeOK
    <3>3. CASE Execute(t) \/ Rollback(t) \/ ProcessingRefused(t)
      <4>1. status[req[t]] \notin {"SUCCEEDED", "FAILED"}
        BY ZenonT(30), <3>3 DEF Execute, Rollback, ProcessingRefused, StatusInv, Expected, Holding
      <4>2. /\ finished' = finished
            /\ \A r \in Requests : r # req[t] => status'[r] = status[r]
        BY <3>3 DEF Execute, Rollback, ProcessingRefused, SetStatus, queues, TypeOK
      <4> QED BY <4>1, <4>2
    <3> QED BY SMTT(30), <2>3, <3>1, <3>2, <3>3 DEF Thread
  <2> QED BY ZenonT(30), <1>1, <2>1, <2>2, <2>3 DEF Next, DequeueOrCancel, Drain
<1>2. IndInv /\ [Next]_vars => [A]_vars BY <1>1
<1> QED BY <1>2, IndInvariant, PTL DEF Spec, ResultsAreFinal
=============================================================================
