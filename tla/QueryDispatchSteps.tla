------------------------- MODULE QueryDispatchSteps -------------------------
(***************************************************************************)
(* The other steps of a query keep the inductive invariant: the end of a   *)
(* request, the next attempt, and the threads from outside.                *)
(***************************************************************************)
EXTENDS QueryDispatchStacks

-----------------------------------------------------------------------------
(* QueryRequest: _errorFinish() and _finish().                              *)

\* The end of the active request of a job: it becomes the thread's to go on
\* with.  EndStarts is about the attempts of the job, EndTracks about the job.
Ends(t, r, f) ==
    /\ stack[t] # <<>> /\ Top(t).at \in {"efin", "fin"} /\ Top(t).r = r /\ Top(t).j = r[1] /\ Active(r)
    /\ stack'[t] # <<>> /\ Top(t)' = f /\ f.r = r /\ f.j = r[1]
    /\ f.at \in {"efin.decide", "fin.mark"}
    /\ f.at = "efin.decide" /\ ~f.b => Doomed(r)
    /\ req'[r].finish # "ACTIVE" /\ req'[r].marked = req[r].marked
    /\ \A p \in Reqs : p # r => req'[p] = req[p]

\* StartsOK after the step that ends a request.
LEMMA EndStarts ==
    ASSUME TypeOK, TypeOK', Shape, StartsOK, NEW t \in Threads, Others(t), NEW r \in Reqs, NEW f,
           Ends(t, r, f), UNCHANGED <<attempt, request>>, \A p \in Reqs : Doomed(p) => Doomed(p)'
    PROVE  StartsOK'
<1>1. \A u \in Threads : \A k \in Jobs : u # t => (Starts(u, k)' <=> Starts(u, k))
  BY Zenon DEF Others, Starts, In
<1>2. /\ \A k \in Jobs : Starts(t, k)' => k = r[1] /\ f.at = "efin.decide" /\ ~f.b
      /\ ~Active(r)' /\ \A p \in Reqs : Active(p)' => Active(p) /\ req'[p].hasJob = req[p].hasJob
      /\ r[1] \in Jobs /\ r[2] \in Nat /\ r = <<r[1], r[2]>>
  BY MaxAttemptsNat DEF Ends, Starts, In, Active, Reqs
<1>3. \A p \in Reqs : Active(p) => p[2] + 1 = attempt[p[1]] /\ request[p[1]] = p
  BY Zenon DEF StartsOK
<1>4. Active(r) /\ r[2] + 1 = attempt[r[1]] /\ request[r[1]] = r
  BY <1>3, Zenon DEF Ends
<1>5. ASSUME NEW u \in Threads, NEW k \in Jobs, Starts(u, k) PROVE StartsAlone(u, k) /\ k # r[1]
  BY <1>4, <1>5, Zenon DEF StartsOK, StartsAlone
<1>6. ASSUME NEW u \in Threads, NEW k \in Jobs, Starts(u, k)' PROVE StartsAlone(u, k)'
  <2>1. CASE u = t
    <3>1. k = r[1] /\ f.at = "efin.decide" /\ Doomed(r)' /\ Top(t)'.r = r
      BY <1>2, <1>6, <2>1, Zenon DEF Ends
    <3>2. \A w \in Threads : Starts(w, k)' => w = t
      BY <1>1, <1>5, <3>1, Zenon
    <3>3. \A p \in Reqs : p[1] = k => ~Active(p)'
      BY <1>2, <1>3, <1>4, <3>1
    <3>4. <<k, attempt'[k] - 1>> = r
      <4>1. attempt'[k] - 1 = r[2]
        BY <1>2, <1>4, <3>1
      <4> QED
        BY <1>2, <3>1, <4>1, Zenon
    <3> QED
      BY <1>4, <2>1, <3>1, <3>2, <3>3, <3>4, Zenon DEF StartsAlone
  <2>2. CASE u # t
    <3>1. StartsAlone(u, k) /\ k # r[1]
      BY <1>1, <1>5, <1>6, <2>2, Zenon
    <3>2. \A w \in Threads : Starts(w, k)' => w = u
      BY <1>1, <1>2, <3>1, Zenon DEF StartsAlone
    <3>3. \A p \in Reqs : p[1] = k => ~Active(p)'
      BY <1>2, <3>1, Zenon DEF StartsAlone
    <3>4. ASSUME attempt'[k] > 0 PROVE Doomed(<<k, attempt[k] - 1>>)'
      <4>1. attempt[k] > 0 /\ Doomed(<<k, attempt[k] - 1>>)
        BY <3>1, <3>4, Zenon DEF StartsAlone
      <4>2. PICK p \in Reqs : p = <<k, attempt[k] - 1>>
        BY <4>1, MaxAttemptsNat DEF TypeOK, Reqs
      <4>3. Doomed(p)'
        BY <4>1, <4>2, Zenon
      <4> QED
        BY <4>2, <4>3, Zenon
    <3>5. In(u, {"efin.decide", "efin.retry"})' => request'[k] = Top(u)'.r
      BY <2>2, <3>1, Zenon DEF Others, In, StartsAlone
    <3> QED
      BY <3>2, <3>3, <3>4, <3>5, Zenon DEF StartsAlone
  <2> QED
    BY <2>1, <2>2, Zenon
<1>7. ASSUME NEW u \in Threads, In(u, {"efin"})', ~Top(u)'.b,
             req'[Top(u)'.r].finish = "ACTIVE", req'[Top(u)'.r].hasJob
      PROVE  \E p \in Reqs : p = Top(u)'.r /\ Doomed(p)'
  <2>1. u # t
    BY <1>7, Zenon DEF Ends, In
  <2>2. Top(u)' = Top(u) /\ In(u, {"efin"})
    BY <1>7, <2>1, Zenon DEF Others, In
  <2>3. PICK p \in Reqs : p = Top(u).r
    BY <2>2, TopFrame, Zenon DEF In, FrameOK, ReqLabels
  <2>4. Active(p) /\ req[p].hasJob
    BY <1>2, <1>7, <2>2, <2>3, Zenon DEF Active
  <2>5. Doomed(p)
    BY <1>7, <2>2, <2>3, <2>4, Zenon DEF StartsOK
  <2> QED
    BY <2>2, <2>3, <2>5, Zenon
<1>8. \A u \in Threads : In(u, {"efin"})' /\ ~Top(u)'.b =>
          (Active(Top(u).r)' /\ req'[Top(u)'.r].hasJob => Doomed(Top(u).r)')
  BY <1>7, Zenon DEF Active
<1> QED
  BY <1>2, <1>3, <1>6, <1>8, Zenon DEF StartsOK

\* TrackOK after the step that ends a request.
LEMMA EndTracks ==
    ASSUME TypeOK, TypeOK', Shape, StartsOK, TrackOK, NEW t \in Threads, Others(t), NEW r \in Reqs,
           NEW f, Ends(t, r, f), UNCHANGED <<cancelled, incomplete>>
    PROVE  TrackOK'
<1>1. r[1] \in Jobs
  BY Zenon DEF Reqs
<1>2. ASSUME ~cancelled' PROVE ~cancelled /\ HandsOver(t, r[1]) /\ InHand(t, r[1])
  <2>1. /\ \A u \in Threads : \A k \in Jobs : Finishes(u, k) => FinishesAlone(u, k)
        /\ \A p \in Reqs : Active(p) => p[1] \in incomplete /\ ~req[p].marked
        /\ Active(r)
    BY <1>2, Zenon DEF TrackOK, Ends
  <2>2. /\ \A u \in Threads : ~Finishes(u, r[1])
        /\ r[1] \in incomplete' /\ ~req'[r].marked
    BY <1>1, <2>1, Zenon DEF FinishesAlone, Ends
  <2>3. /\ \A k \in Jobs \ {r[1]} : ~Finishes(t, k) /\ ~Finishes(t, k)'
        /\ ~In(t, {"squash"}) /\ ~In(t, {"run.fail", "efin.rerun"})'
        /\ Finishes(t, r[1])' /\ Top(t)'.r = r
    BY Zenon DEF Ends, Finishes, In, MarkLabels
  <2>4. \A p \in Reqs : p # r => (Active(p)' <=> Active(p)) /\ req'[p].marked = req[p].marked
    BY Zenon DEF Ends, Active
  <2>5. \A p \in Reqs : p[1] = r[1] => ~Active(p)'
    <3> SUFFICES ASSUME NEW p \in Reqs, p[1] = r[1], Active(p)' PROVE FALSE
      OBVIOUS
    <3>1. p # r /\ Active(p)
      BY <2>4, Zenon DEF Ends, Active
    <3> QED
      BY <2>1, <3>1, Zenon DEF StartsOK
  <2>6. HandsOver(t, r[1])
    BY <1>2, <2>2, <2>3, <2>4, Zenon DEF HandsOver
  <2>7. InHand(t, r[1])
    BY <2>2, <2>3, <2>5, Zenon DEF InHand, Attended
  <2> QED
    BY <1>2, <2>6, <2>7, Zenon
<1> QED
  BY <1>1, <1>2, TrackHand, Zenon

\* The two ways a request ends.
LEMMA EndStep ==
    ASSUME IndInv, NEW t \in Threads, stack[t] # <<>>, NEW r \in Reqs, r = Top(t).r,
           Top(t).at \in {"efin", "fin"}, Active(r), NEW e \in {"ERROR", "FINISHED"},
           req' = [req EXCEPT ![r].finish = e, ![r].ssi = "finished"],
           NEW f, Moved(f, Top(t)), f.at \in {"efin.decide", "fin.mark"}, Goto(t, f),
           f.at = "efin.decide" /\ ~f.b => Doomed(r),
           UNCHANGED <<execVars, complete, jobVars, mainVars, histVars>>
    PROVE  IndInv'
<1>1. /\ UNCHANGED <<cancelled, jobMap, incomplete, requestCount, bug, attempt, inSsi, request, rmutex,
                     submitted, main, joined, merged, scrubbed, flushed>>
      /\ Top(t).at \in ReqLabels /\ Top(t) \in FrameType
  BY TopInv, Zenon DEF execVars, jobVars, mainVars, histVars, ReqLabels
<1>2. /\ TypeOK /\ Shape /\ FlowOK /\ StartsOK /\ TrackOK /\ KeepsItself
      /\ Started(r) /\ Top(t).j = r[1] /\ req \in [Reqs -> ReqType]
  BY <1>1, StackParts, ReqOfTop, Zenon DEF IndInv, TypeOK
<1>3. /\ req' \in [Reqs -> ReqType] /\ req'[r].finish = e /\ req'[r].ssi = "finished"
      /\ req'[r].marked = req[r].marked /\ req'[r].cmd = req[r].cmd /\ req'[r].keepAlive = req[r].keepAlive
      /\ \A p \in Reqs : p # r => req'[p] = req[p]
  BY <1>2, SMTT(30) DEF ReqType
<1>4. TypeOK' /\ Grow
  BY <1>1, <1>2, <1>3 DEF TypeOK, Grow
<1>5. Shape' /\ stack'[t] # <<>> /\ Top(t)' = f /\ Others(t)
  <2>1. f \in FrameType
    BY Zenon DEF Moved
  <2> QED
    BY <1>1, <1>2, <1>4, <2>1, MovedFrame, GotoShape, Zenon
<1>6. Ends(t, r, f)
  BY <1>2, <1>3, <1>5, Zenon DEF Ends, Moved
<1>7. InFlow(t) /\ SameTop(t)
  BY <1>5, Zenon DEF InFlow, SameTop, In, RespLabels, DataLabels, CmdLabels
<1>8. SameFlow
  <2>1. \A p \in Reqs : Active(p)' => Active(p)
    BY <1>3, Zenon DEF Active
  <2> QED
    BY <1>1, <1>2, <1>3, <2>1, Zenon DEF SameFlow
<1>9. KeepsItself'
  BY <1>1, <1>2, <1>3, Zenon DEF KeepsItself
<1>10. \A p \in Reqs : Doomed(p) => Doomed(p)'
  BY <1>2, <1>4, <1>5, <1>7, <1>8, FlowKeep, Zenon
<1>11. StartsOK'
  BY <1>1, <1>2, <1>4, <1>5, <1>6, <1>10, EndStarts, Zenon
<1>12. TrackOK'
  BY <1>1, <1>2, <1>4, <1>5, <1>6, EndTracks, Zenon
<1> QED
  BY <1>1, <1>4, <1>5, <1>7, <1>8, <1>9, <1>11, <1>12, CalmStep, Zenon

\* QueryRequest::_errorFinish() ends the request at most once.
LEMMA ErrorFinishStep ==
    ASSUME IndInv, NEW t \in Threads, stack[t] # <<>>, ErrorFinish(t)
    PROVE  IndInv'
<1> DEFINE f == [Top(t) EXCEPT !.at = "efin.decide"]
<1>1. /\ Top(t) \in FrameType /\ Top(t).at = "efin" /\ Top(t).at \in ReqLabels
      /\ Top(t).at \notin Finishing \cup {"squash", "squash.loop", "run.fail"}
      /\ UNCHANGED <<execVars, complete, jobVars, mainVars, histVars>> /\ cancelled' = cancelled
  BY TopInv, Zenon DEF ErrorFinish, At, ReqLabels, Finishing, MarkLabels, execVars
<1>2. PICK r \in Reqs : r = Top(t).r
  BY <1>1, ReqOfTop, Zenon
<1>3. CASE ~(Active(r) /\ req[r].hasJob)
  <2>1. Return(t, FALSE) /\ req' = req
    BY <1>2, <1>3, ZenonT(30) DEF ErrorFinish
  <2>2. Quiet
    BY <1>1, <2>1, QuietSame DEF IndInv, TypeOK, execVars, jobVars
  <2> QED
    BY <1>1, <2>1, <2>2, ReturnQuiet, Zenon
<1>4. CASE Active(r) /\ req[r].hasJob
  <2>1. /\ Active(r) /\ req[r].hasJob /\ Goto(t, f)
        /\ req' = [req EXCEPT ![r].finish = "ERROR", ![r].ssi = "finished"]
    BY <1>2, <1>4, Zenon DEF ErrorFinish
  <2>2. Moved(f, Top(t)) /\ f.at = "efin.decide" /\ f.b = Top(t).b
    BY <1>1, Zenon DEF Moved, FrameType, ReqLabels
  <2>3. ~Top(t).b => Doomed(r)
    BY <1>1, <1>2, <2>1, Zenon DEF IndInv, StartsOK, In
  <2> HIDE DEF f
  <2> QED
    BY <1>1, <1>2, <2>1, <2>2, <2>3, EndStep, Zenon
<1> QED
  BY <1>3, <1>4, Zenon

\* QueryRequest::_finish() ends the request at most once.
LEMMA FinishStep ==
    ASSUME IndInv, NEW t \in Threads, stack[t] # <<>>, Finish(t)
    PROVE  IndInv'
<1> DEFINE f == [Top(t) EXCEPT !.at = "fin.mark"]
<1>1. /\ Top(t) \in FrameType /\ Top(t).at = "fin" /\ Top(t).at \in ReqLabels
      /\ Top(t).at \notin Finishing \cup {"squash", "squash.loop", "run.fail"}
      /\ UNCHANGED <<execVars, complete, jobVars, mainVars, histVars>> /\ cancelled' = cancelled
  BY TopInv, Zenon DEF Finish, At, ReqLabels, Finishing, MarkLabels, execVars
<1>2. PICK r \in Reqs : r = Top(t).r
  BY <1>1, ReqOfTop, Zenon
<1>3. CASE ~Active(r)
  <2>1. Return(t, FALSE) /\ req' = req
    BY <1>2, <1>3, ZenonT(30) DEF Finish
  <2>2. Quiet
    BY <1>1, <2>1, QuietSame DEF IndInv, TypeOK, execVars, jobVars
  <2> QED
    BY <1>1, <2>1, <2>2, ReturnQuiet, Zenon
<1>4. CASE Active(r)
  <2>1. Goto(t, f) /\ req' = [req EXCEPT ![r].finish = "FINISHED", ![r].ssi = "finished"]
    BY <1>2, <1>4, Zenon DEF Finish
  <2>2. Moved(f, Top(t)) /\ f.at = "fin.mark"
    BY <1>1, Zenon DEF Moved, FrameType, ReqLabels
  <2> HIDE DEF f
  <2> QED
    BY <1>1, <1>2, <1>4, <2>1, <2>2, EndStep, Zenon
<1> QED
  BY <1>3, <1>4, Zenon

\* Calling markComplete once changes nothing else of a request.
LEMMA MarkedReq ==
    ASSUME req \in [Reqs -> ReqType], NEW r \in Reqs, req' = [req EXCEPT ![r].marked = TRUE]
    PROVE  /\ req' \in [Reqs -> ReqType]
           /\ \A p \in Reqs : /\ req'[p].finish = req[p].finish /\ req'[p].ssi = req[p].ssi
                              /\ req'[p].cmd = req[p].cmd /\ req'[p].keepAlive = req[p].keepAlive
                              /\ req'[p].hasJob = req[p].hasJob
                              /\ p # r => req'[p].marked = req[p].marked
<1> DEFINE q == [req[r] EXCEPT !.marked = TRUE]
<1>1. req[r] \in ReqType
  OBVIOUS
<1>2. /\ q \in ReqType /\ q.finish = req[r].finish /\ q.ssi = req[r].ssi /\ q.cmd = req[r].cmd
      /\ q.keepAlive = req[r].keepAlive /\ q.hasJob = req[r].hasJob
  BY <1>1, Zenon DEF ReqType
<1>3. req' = [req EXCEPT ![r] = q]
  OBVIOUS
<1> HIDE DEF q
<1> QED
  BY <1>2, <1>3, Zenon

\* A request marks its job complete: the job is untracked, or markCompleted()
\* has it in hand.
LEMMA MarkedStep ==
    ASSUME IndInv, NEW t \in Threads, stack[t] # <<>>, NEW r \in Reqs, Top(t).r = r,
           Top(t).at \in {"fin.mark", "efin.mark"}, req' = [req EXCEPT ![r].marked = TRUE],
           Shape', stack'[t] # <<>>, Others(t), Top(t)'.at \in {"mark", "clean"}, Top(t)'.j = r[1],
           incomplete' \in SUBSET incomplete,
           ~cancelled => incomplete' = IF Top(t)'.at = "mark" THEN incomplete ELSE incomplete \ {r[1]},
           UNCHANGED <<cancelled, jobMap, requestCount, bug, complete, jobVars, mainVars, histVars>>
    PROVE  IndInv'
<1>1. /\ UNCHANGED <<attempt, inSsi, request, rmutex, submitted, main, joined, merged, scrubbed, flushed>>
      /\ Top(t).at \in ReqLabels
  BY ZenonT(30) DEF jobVars, mainVars, histVars, ReqLabels
<1>2. /\ TypeOK /\ Shape /\ FlowOK /\ StartsOK /\ TrackOK /\ KeepsItself
      /\ Started(r) /\ Top(t).j = r[1] /\ r[1] \in Jobs /\ req \in [Reqs -> ReqType]
  BY <1>1, StackParts, ReqOfTop, Zenon DEF IndInv, TypeOK
<1>3. /\ req' \in [Reqs -> ReqType]
      /\ \A p \in Reqs : /\ req'[p].finish = req[p].finish /\ req'[p].ssi = req[p].ssi
                         /\ req'[p].cmd = req[p].cmd /\ req'[p].keepAlive = req[p].keepAlive
                         /\ req'[p].hasJob = req[p].hasJob
                         /\ p # r => req'[p].marked = req[p].marked
  BY <1>2, MarkedReq, Zenon
<1>4. TypeOK' /\ Grow
  BY <1>1, <1>2, <1>3 DEF TypeOK, Grow
<1>5. SameFlow /\ KeepsItself' /\ \A p \in Reqs : Active(p)' <=> Active(p)
  BY <1>1, <1>2, <1>3, Zenon DEF SameFlow, Active, KeepsItself
<1>6. InFlow(t) /\ SameTop(t) /\ StartsLess(t)
  BY Zenon DEF InFlow, SameTop, StartsLess, Starts, In, RespLabels, DataLabels, CmdLabels
<1>7. \A p \in Reqs : Doomed(p) => Doomed(p)'
  BY <1>2, <1>4, <1>5, <1>6, FlowKeep, Zenon
<1>8. StartsOK'
  BY <1>1, <1>2, <1>3, <1>4, <1>5, <1>6, <1>7, StartsKeep, Zenon
<1>9. ASSUME ~cancelled' PROVE ~cancelled /\ HandsOver(t, r[1]) /\ InHand(t, r[1])
  <2>1. ~cancelled /\ Finishes(t, r[1]) /\ FinishesAlone(t, r[1])
    BY <1>2, <1>9, MarkFinds, Zenon DEF Finishing
  <2>2. /\ \A k \in Jobs \ {r[1]} : ~Finishes(t, k) /\ ~Finishes(t, k)'
        /\ ~In(t, {"squash"}) /\ ~In(t, {"run.fail", "efin.rerun"})'
        /\ ~In(t, {"efin.decide", "efin.retry", "efin.mark", "fin.mark"})'
        /\ Finishes(t, r[1])' <=> Top(t)'.at = "mark"
    BY <1>2, Zenon DEF Finishes, In, MarkLabels
  <2>3. /\ \A u \in Threads \ {t} : ~Finishes(u, r[1])
        /\ \A p \in Reqs : p[1] = r[1] => ~Active(p)'
        /\ r[1] \in incomplete
    BY <1>5, <2>1, Zenon DEF FinishesAlone
  <2>4. incomplete' \ {r[1]} = incomplete \ {r[1]} /\ (r[1] \in incomplete' <=> Top(t)'.at = "mark")
    BY <2>1, <2>3, Zenon
  <2>5. HandsOver(t, r[1])
    BY <1>3, <1>5, <2>2, <2>3, <2>4, Zenon DEF HandsOver
  <2>6. InHand(t, r[1])
    BY <2>2, <2>3, <2>4, Zenon DEF InHand, Attended
  <2> QED
    BY <2>1, <2>5, <2>6, Zenon
<1>10. TrackOK'
  BY <1>2, <1>4, <1>9, TrackHand, Zenon
<1> QED
  BY <1>1, <1>4, <1>5, <1>6, <1>8, <1>10, CalmStep, Zenon

\* The successful request marks its job and keeps the invariant.
LEMMA FinishMarkStep ==
    ASSUME IndInv, NEW t \in Threads, stack[t] # <<>>, FinishMark(t)
    PROVE  IndInv'
<1> DEFINE f == [Top(t) EXCEPT !.at = "clean"]
<1>1. /\ Top(t) \in FrameType /\ Top(t).at = "fin.mark" /\ Top(t).at \in ReqLabels
      /\ UNCHANGED <<cancelled, jobMap, requestCount, bug, complete, jobVars, mainVars, histVars>>
  BY TopInv, Zenon DEF FinishMark, At, ReqLabels
<1>2. PICK r \in Reqs : r = Top(t).r /\ Top(t).j = r[1]
  BY <1>1, ReqOfTop, Zenon
<1>3. /\ req' = [req EXCEPT ![r].marked = TRUE] /\ Goto(t, f)
      /\ incomplete' = IF req[r].marked THEN incomplete ELSE incomplete \ {r[1]}
  BY <1>2, Zenon DEF FinishMark
<1>4. Moved(f, Top(t)) /\ f.at = "clean" /\ f \in FrameType /\ f.j = r[1]
  BY <1>1, <1>2, Zenon DEF Moved, FrameType, ReqLabels
<1> HIDE DEF f
<1>5. TypeOK /\ TypeOK' /\ Grow /\ Shape
  <2>1. TypeOK /\ Shape /\ req \in [Reqs -> ReqType]
    BY StackParts, Zenon DEF IndInv, TypeOK
  <2>2. req' \in [Reqs -> ReqType]
    BY <1>3, <2>1, MarkedReq, Zenon
  <2> QED
    BY <1>1, <1>3, <2>1, <2>2 DEF TypeOK, Grow, jobVars, mainVars, histVars
<1>6. Shape' /\ stack'[t] # <<>> /\ Top(t)' = f /\ Others(t)
  BY <1>1, <1>3, <1>4, <1>5, MovedFrame, GotoShape, Zenon
<1>7. ~cancelled => ~req[r].marked
  BY <1>1, <1>2, MarkFinds, Zenon DEF Finishing, FinishesAlone, In
<1>8. /\ incomplete' \in SUBSET incomplete
      /\ ~cancelled => incomplete' = IF Top(t)'.at = "mark" THEN incomplete ELSE incomplete \ {r[1]}
  BY <1>3, <1>4, <1>6, <1>7, Zenon
<1> QED
  BY <1>1, <1>2, <1>3, <1>4, <1>6, <1>8, MarkedStep, Zenon

\* The failed request marks its job and keeps the invariant.
LEMMA ErrorMarkStep ==
    ASSUME IndInv, NEW t \in Threads, stack[t] # <<>>, ErrorMark(t)
    PROVE  IndInv'
<1> DEFINE f == Frame("mark", Top(t).r[1], NoReq, FALSE)
           g == [Top(t) EXCEPT !.at = "clean"]
<1>1. /\ Top(t) \in FrameType /\ Top(t).at = "efin.mark" /\ Top(t).at \in ReqLabels
      /\ UNCHANGED <<execVars, complete, jobVars, mainVars, histVars>>
      /\ UNCHANGED <<cancelled, jobMap, incomplete, requestCount, bug>>
  BY TopInv, Zenon DEF ErrorMark, At, ReqLabels, execVars
<1>2. PICK r \in Reqs : r = Top(t).r /\ Top(t).j = r[1] /\ r[1] \in jobMap /\ r[1] \in Jobs
  BY <1>1, ReqOfTop, Zenon
<1>3. /\ req' = [req EXCEPT ![r].marked = TRUE]
      /\ \/ ~req[r].marked /\ stack' = [stack EXCEPT ![t] = <<f, g>> \o Tail(@)]
         \/ req[r].marked /\ Goto(t, g)
  BY <1>2, Zenon DEF ErrorMark, Call
<1>4. /\ Moved(g, Top(t)) /\ g.at = "clean" /\ g \in FrameType /\ g.j = r[1]
      /\ f \in FrameType /\ f.at = "mark" /\ f.todo = {} /\ f.j = r[1]
  BY <1>1, <1>2, Zenon DEF Moved, FrameType, ReqLabels, Frame, JobLabels, MarkLabels
<1> HIDE DEF f, g
<1>5. TypeOK /\ TypeOK' /\ Grow /\ Shape
  <2>1. TypeOK /\ Shape /\ req \in [Reqs -> ReqType]
    BY StackParts, Zenon DEF IndInv, TypeOK
  <2>2. req' \in [Reqs -> ReqType]
    BY <1>3, <2>1, MarkedReq, Zenon
  <2> QED
    BY <1>1, <2>1, <2>2 DEF TypeOK, Grow, jobVars, mainVars, histVars
<1>6. FrameOKNext(g) /\ Replaces(g.at, Top(t).at)
  BY <1>1, <1>4, <1>5, MovedFrame, Zenon
<1>7. FrameOKNext(f) /\ WaitsFor(f.at, g.at)
  BY <1>1, <1>2, <1>4, Zenon DEF FrameOKNext, CancelLabels, RunLabels, ReqLabels, RespLabels, DataLabels, CmdLabels,
                          WaitsFor, MarkLabels
<1>8. CASE ~req[r].marked
  <2>1. Shape' /\ stack'[t] # <<>> /\ Top(t)' = f /\ Others(t)
    BY <1>3, <1>4, <1>5, <1>6, <1>7, <1>8, PushShape, Zenon
  <2> QED
    BY <1>1, <1>2, <1>3, <1>4, <2>1, MarkedStep, Zenon
<1>9. CASE req[r].marked
  <2>1. Shape' /\ stack'[t] # <<>> /\ Top(t)' = g /\ Others(t)
    BY <1>3, <1>4, <1>5, <1>6, <1>9, GotoShape, Zenon
  <2>2. cancelled
    BY <1>1, <1>2, <1>9, MarkFinds, Zenon DEF Finishing, FinishesAlone, In
  <2> QED
    BY <1>1, <1>2, <1>3, <1>4, <2>1, <2>2, MarkedStep, Zenon
<1> QED
  BY <1>8, <1>9, Zenon

-----------------------------------------------------------------------------
(* JobQuery: the section of runJob() under _rmutex.                         *)

\* The step is about the job j, and only a new attempt of it can be active.
JobOnly(j) ==
    /\ \A k \in Jobs : k # j => attempt'[k] = attempt[k] /\ request'[k] = request[k] /\ inSsi'[k] = inSsi[k]
    /\ \A p \in Reqs : p[1] # j => req'[p] = req[p]
    /\ \A p \in Reqs : p[1] = j /\ Active(p)' =>
          p[2] + 1 = attempt'[j] /\ request'[j] = p /\ ~Started(p)
DoomedStays == \A p \in Reqs : Started(p) /\ Doomed(p) => Doomed(p)'
AttemptIncr(j) == \/ UNCHANGED <<attempt, scrubbed>>
                  \/ IncrAttemptCountScrubResults(j)

\* The last attempt of a job is a request that was started.
LEMMA LastAttempt ==
    ASSUME TypeOK, NEW j \in Jobs, attempt[j] > 0
    PROVE  /\ <<j, attempt[j] - 1>> \in Reqs /\ Started(<<j, attempt[j] - 1>>)
           /\ \A p \in Reqs : p[1] = j /\ p[2] = attempt[j] - 1 => p = <<j, attempt[j] - 1>>
  BY MaxAttemptsNat DEF TypeOK, Reqs, Started

\* StartsOK after runJob() has made the attempt its thread alone was to make.
LEMMA RunStarts ==
    ASSUME TypeOK, TypeOK', Shape, StartsOK, NEW t \in Threads, NEW j \in Jobs, Starts(t, j), Others(t),
           Neutral(t), Grow, JobOnly(j), DoomedStays
    PROVE  StartsOK'
<1>1. StartsAlone(t, j) /\ \A p \in Reqs : p[1] \in Jobs /\ p[2] \in Nat /\ attempt[p[1]] \in Nat
  BY MaxAttemptsNat DEF StartsOK, Reqs, TypeOK
<1>2. \A k \in Jobs : ~Starts(t, k)'
  BY Zenon DEF Neutral, Starts, In, Special
<1>3. \A u \in Threads : \A k \in Jobs : u # t => (Starts(u, k)' <=> Starts(u, k))
  BY Zenon DEF Others, Starts, In
<1>4. ASSUME NEW u \in Threads, NEW k \in Jobs, Starts(u, k)'
      PROVE  u # t /\ k # j /\ StartsAlone(u, k)
  BY <1>1, <1>2, <1>3, <1>4 DEF StartsAlone, StartsOK
<1>5. ASSUME NEW u \in Threads, NEW k \in Jobs, Starts(u, k)' PROVE StartsAlone(u, k)'
  <2>1. u # t /\ k # j /\ StartsAlone(u, k) /\ attempt'[k] = attempt[k] /\ request'[k] = request[k]
    BY <1>4, <1>5, Zenon DEF JobOnly
  <2>2. \A w \in Threads : Starts(w, k)' => w = u
    BY <1>2, <1>3, <2>1, Zenon DEF StartsAlone
  <2>3. \A p \in Reqs : p[1] = k => ~Active(p)'
    BY <2>1, Zenon DEF StartsAlone, JobOnly, Active
  <2>4. ASSUME attempt'[k] > 0 PROVE Doomed(<<k, attempt[k] - 1>>)'
    <3>1. PICK p \in Reqs : p = <<k, attempt[k] - 1>> /\ Started(p)
      BY <2>1, <2>4, LastAttempt, Zenon
    <3>2. Doomed(p)
      BY <2>1, <2>4, <3>1, Zenon DEF StartsAlone
    <3>3. Doomed(p)'
      BY <3>1, <3>2, Zenon DEF DoomedStays
    <3> QED
      BY <2>1, <3>1, <3>3, Zenon
  <2>5. In(u, {"efin.decide", "efin.retry"})' => request'[k] = Top(u)'.r
    BY <2>1, Zenon DEF Others, In, StartsAlone
  <2> QED
    BY <2>1, <2>2, <2>3, <2>4, <2>5, Zenon DEF StartsAlone
<1>6. ASSUME NEW p \in Reqs, Active(p)' PROVE p[2] + 1 = attempt'[p[1]] /\ request'[p[1]] = p
  <2>1. CASE p[1] = j
    BY <1>6, <2>1, Zenon DEF JobOnly
  <2>2. CASE p[1] # j
    <3>1. Active(p) /\ p[1] \in Jobs
      BY <1>1, <1>6, <2>2, Zenon DEF JobOnly, Active
    <3> QED
      BY <2>2, <3>1, Zenon DEF JobOnly, StartsOK
  <2> QED
    BY <2>1, <2>2, Zenon
<1>7. ASSUME NEW u \in Threads, In(u, {"efin"})', ~Top(u)'.b,
             req'[Top(u)'.r].finish = "ACTIVE", req'[Top(u)'.r].hasJob
      PROVE  \E p \in Reqs : p = Top(u)'.r /\ Doomed(p)'
  <2>1. u # t
    BY <1>7, Zenon DEF Neutral, In
  <2>2. Top(u)' = Top(u) /\ In(u, {"efin"})
    BY <1>7, <2>1, Zenon DEF Others, In
  <2>3. PICK p \in Reqs : p = Top(u).r /\ Started(p)
    BY <2>2, TopFrame, Zenon DEF In, FrameOK, ReqLabels
  <2>4. p[1] # j
    BY <1>7, <2>2, <2>3, Zenon DEF JobOnly, Active
  <2>5. Active(p) /\ req[p].hasJob
    BY <1>7, <2>2, <2>3, <2>4 DEF JobOnly, Active
  <2>6. Doomed(p)
    BY <1>7, <2>2, <2>3, <2>5, Zenon DEF StartsOK
  <2> QED
    BY <2>2, <2>3, <2>6, Zenon DEF DoomedStays
<1>8. \A u \in Threads : In(u, {"efin"})' /\ ~Top(u)'.b =>
          (Active(Top(u).r)' /\ req'[Top(u)'.r].hasJob => Doomed(Top(u).r)')
  BY <1>7, Zenon DEF Active
<1> QED
  BY <1>5, <1>6, <1>8, ZenonT(30) DEF StartsOK

\* RowsOK after a new attempt: the rows of the one before are scrubbed.
LEMMA RunRows ==
    ASSUME TypeOK, TypeOK', Grow, RowsOK, NEW j \in Jobs, AttemptIncr(j), DoomedStays,
           attempt[j] > 0 => Doomed(<<j, attempt[j] - 1>>), UNCHANGED <<complete, merged, flushed>>
    PROVE  RowsOK'
<1>1. \A p \in Reqs : /\ p[1] \in Jobs /\ p[2] \in Nat /\ attempt[p[1]] \in Nat /\ attempt'[p[1]] \in Nat
                      /\ Started(p) => Started(p)'
  BY MaxAttemptsNat DEF Reqs, TypeOK, Started, Grow
<1>2. CASE UNCHANGED <<attempt, scrubbed>>
  BY <1>1, <1>2, Zenon DEF RowsOK, TypeOK, DoomedStays
<1>3. CASE IncrAttemptCountScrubResults(j)
  <2>1. /\ attempt'[j] = attempt[j] + 1 /\ \A k \in Jobs : k # j => attempt'[k] = attempt[k]
        /\ attempt[j] \in Nat
    BY <1>3, MaxAttemptsNat DEF IncrAttemptCountScrubResults, TypeOK
  <2>2. \A p \in scrubbed' : p \in scrubbed \/ (attempt[j] > 0 /\ p = <<j, attempt[j] - 1>>)
    BY <1>3, Zenon DEF IncrAttemptCountScrubResults
  <2>3. scrubbed \subseteq scrubbed' /\ (attempt[j] > 0 => <<j, attempt[j] - 1>> \in scrubbed')
    BY <1>3, Zenon DEF IncrAttemptCountScrubResults
  <2>4. ASSUME NEW p \in scrubbed' PROVE Started(p)' /\ Doomed(p)'
    <3>1. CASE p \in scrubbed
      BY <1>1, <3>1, Zenon DEF RowsOK, TypeOK, DoomedStays
    <3>2. CASE attempt[j] > 0 /\ p = <<j, attempt[j] - 1>>
      <4>1. p \in Reqs /\ Started(p)
        BY <3>2, LastAttempt, Zenon
      <4> QED
        BY <1>1, <3>2, <4>1, Zenon DEF DoomedStays
    <3> QED
      BY <2>2, <3>1, <3>2, Zenon
  <2>5. ASSUME NEW p \in Reqs, p[2] + 1 < attempt'[p[1]] PROVE p \in scrubbed'
    <3>1. CASE p[1] # j \/ p[2] + 1 < attempt[j]
      BY <1>1, <2>1, <2>3, <2>5, <3>1, Zenon DEF RowsOK
    <3>2. CASE p[1] = j /\ ~(p[2] + 1 < attempt[j])
      <4>1. attempt[j] > 0 /\ p[2] = attempt[j] - 1
        BY <1>1, <2>1, <2>5, <3>2
      <4> QED
        BY <2>3, <3>2, <4>1, LastAttempt, Zenon
    <3> QED
      BY <3>1, <3>2, Zenon
  <2> QED
    BY <1>1, <2>4, <2>5, Zenon DEF RowsOK, TypeOK
<1> QED
  BY <1>2, <1>3, Zenon DEF AttemptIncr
\* What the section does to the rest of the invariant, in all its outcomes.
LEMMA RunStep ==
    ASSUME IndInv, TypeOK', Grow, NEW t \in Threads, stack[t] # <<>>, Top(t).at = "run.lock",
           NEW j \in Jobs, Top(t).j = j, Shape', Others(t), Neutral(t), FlowOK', DoomedStays, TrackOK',
           JobOnly(j), AttemptIncr(j), KeepsItself',
           inSsi'[j] => request'[j] \in Reqs /\ request'[j][1] = j /\ Started(request[j])',
           UNCHANGED <<bug, complete, merged, flushed, jobMap, submitted, main, joined>>
    PROVE  IndInv'
<1>1. TypeOK /\ Shape /\ Tops /\ StartsOK /\ RowsOK /\ MainOK /\ NoBug
  BY StackParts, Zenon DEF IndInv
<1>2. /\ Starts(t, j) /\ j \in jobMap /\ (attempt[j] > 0 => Doomed(<<j, attempt[j] - 1>>))
  <2>1. Starts(t, j) /\ j \in jobMap
    BY TopInv, Zenon DEF Starts, In, FrameOK
  <2> QED
    BY <1>1, <2>1, Zenon DEF StartsOK, StartsAlone
<1>3. StartsOK'
  BY <1>1, <1>2, RunStarts, Zenon
<1>4. RowsOK'
  BY <1>1, <1>2, RunRows, Zenon
<1>5. InFlow(t) /\ SameTop(t) /\ StartsLess(t)
  BY NeutralFlow, Zenon
<1>6. StackOK'
  <2>1. \A u \in Threads : u # t /\ In(u, {"add"}) => Top(u).j \notin jobMap' /\ attempt'[Top(u).j] = 0
    BY <1>1, <1>2, Zenon DEF Tops, JobOnly, TypeOK
  <2>2. Tops'
    BY <1>1, <1>5, <2>1, TopsKeep, Zenon
  <2> QED
    BY <2>2, StackPartsNext, Zenon
<1>7. MainOK'
  <2>1. \A u \in Threads : In(u, {"add"})' => In(u, {"add"})
    BY <1>5, Zenon DEF InFlow, Others, In
  <2>2. \A k \in Jobs : attempt'[k] > 0 => k \in jobMap
    BY <1>1, <1>2, Zenon DEF MainOK, JobOnly
  <2>3. ASSUME NEW k \in Jobs, inSsi'[k]
        PROVE  request'[k] \in Reqs /\ request'[k][1] = k /\ Started(request[k])'
    <3>1. CASE k = j
      BY <2>3, <3>1, Zenon
    <3>2. CASE k # j
      <4>1. request[k] \in Reqs /\ request[k][1] = k /\ Started(request[k]) /\ request'[k] = request[k]
            /\ attempt'[k] = attempt[k]
        BY <1>1, <2>3, <3>2, Zenon DEF MainOK, JobOnly
      <4> QED
        BY <4>1, Zenon DEF Started
    <3> QED
      BY <3>1, <3>2, Zenon
  <2> QED
    BY <1>1, <2>1, <2>2, <2>3, Zenon DEF MainOK
<1> QED
  BY <1>1, <1>3, <1>4, <1>6, <1>7, Zenon DEF IndInv, NoBug

\* squash() of the whole query from within runJob().
LEMMA CriticalErrStep ==
    ASSUME IndInv, TypeOK', Grow, NEW t \in Threads, stack[t] # <<>>, Top(t).at = "run.lock",
           NEW j \in Jobs, Top(t).j = j, CriticalErr(t, j), AttemptIncr(j),
           UNCHANGED <<execVars, complete, mainVars, flushed, merged>>
    PROVE  IndInv'
<1> DEFINE f == Frame("squash", j, NoReq, FALSE)
           g == [Top(t) EXCEPT !.at = "run.fail"]
<1>1. /\ Top(t) \in FrameType /\ FrameOK(Top(t)) /\ j \in jobMap /\ Top(t).todo \subseteq jobMap
      /\ TypeOK /\ Shape /\ FlowOK /\ StartsOK /\ TrackOK /\ MainOK /\ KeepsItself
  BY TopInv, StackParts, Zenon DEF IndInv, FrameOK
<1>2. UNCHANGED <<cancelled, jobMap, incomplete, requestCount, bug, submitted, main, joined, inSsi, request, req>>
  BY Zenon DEF CriticalErr, execVars, mainVars
<1>3. stack' = [stack EXCEPT ![t] = <<f, g>> \o Tail(@)]
  BY Zenon DEF CriticalErr, Call
<1>4. /\ f \in FrameType /\ f.at = "squash" /\ f.todo = {} /\ f.j = j
      /\ g \in FrameType /\ g.at = "run.fail" /\ g.todo = Top(t).todo /\ g.j = j
  BY <1>1, Zenon DEF FrameType, Frame, JobLabels, RunLabels
<1> HIDE DEF f, g
<1>5. /\ FrameOKNext(f) /\ FrameOKNext(g) /\ WaitsFor(f.at, g.at) /\ Replaces(g.at, Top(t).at)
  BY <1>1, <1>2, <1>4, Zenon DEF FrameOKNext, WaitsFor, Replaces, RunLabels, CancelLabels, ReqLabels,
                          RespLabels, DataLabels, CmdLabels
<1>6. Shape' /\ stack'[t] # <<>> /\ Top(t)' = f /\ Others(t)
  BY <1>1, <1>3, <1>4, <1>5, PushShape, Zenon
<1>7. Neutral(t)
  BY <1>4, <1>6, Zenon DEF Neutral, Special, RespLabels, DataLabels, CmdLabels
<1>8. SameFlow /\ KeepsItself' /\ (\A p \in Reqs : Active(p)' <=> Active(p))
  BY <1>1, <1>2, Zenon DEF SameFlow, Active, KeepsItself
<1>9. FlowOK' /\ DoomedStays
  BY <1>1, <1>6, <1>7, <1>8, NeutralFlow, FlowKeep, Zenon DEF DoomedStays
<1>10. Starts(t, j) /\ StartsAlone(t, j)
  BY <1>1, Zenon DEF Starts, In, StartsOK
<1>11. JobOnly(j)
  <2>1. \A k \in Jobs : k # j => attempt'[k] = attempt[k]
    BY <1>1, Zenon DEF AttemptIncr, IncrAttemptCountScrubResults, TypeOK
  <2> QED
    BY <1>2, <1>8, <1>10, <2>1, Zenon DEF JobOnly, StartsAlone
<1>12. ASSUME ~cancelled' PROVE ~cancelled /\ HandsOver(t, j) /\ InHand(t, j)
  <2>1. ~cancelled /\ Finishes(t, j) /\ FinishesAlone(t, j)
    BY <1>2, <1>12, MarkFinds, Zenon DEF Finishing
  <2>2. /\ \A k \in Jobs : (k # j => ~Finishes(t, k)) /\ ~Finishes(t, k)'
        /\ ~In(t, {"squash"}) /\ ~In(t, {"run.fail", "efin.rerun"})'
        /\ In(t, {"squash"})' /\ Top(t)'.j = j
    BY <1>4, <1>6, Zenon DEF Finishes, In, MarkLabels
  <2>3. HandsOver(t, j)
    BY <1>2, <1>8, <2>1, <2>2, Zenon DEF HandsOver, FinishesAlone
  <2>4. InHand(t, j)
    BY <1>8, <2>1, <2>2, Zenon DEF InHand, FinishesAlone, Attended
  <2> QED
    BY <2>1, <2>3, <2>4, Zenon
<1>13. TrackOK'
  BY <1>1, <1>6, <1>12, TrackHand, Zenon
<1>14. inSsi'[j] => request'[j] \in Reqs /\ request'[j][1] = j /\ Started(request[j])'
  <2>1. \A p \in Reqs : Started(p) => Started(p)'
    BY <1>1 DEF Started, Grow, TypeOK, Reqs
  <2> QED
    BY <1>1, <1>2, <2>1, ZenonT(30) DEF MainOK
<1> QED
  BY <1>2, <1>6, <1>7, <1>8, <1>9, <1>11, <1>13, <1>14, RunStep, Zenon
\* startQuery() finds the query cancelled.
LEMMA StartRefusedStep ==
    ASSUME IndInv, TypeOK', Grow, NEW t \in Threads, stack[t] # <<>>, Top(t).at = "run.lock",
           NEW j \in Jobs, Top(t).j = j, cancelled, AttemptIncr(j),
           inSsi' = [inSsi EXCEPT ![j] = FALSE], Return(t, FALSE), UNCHANGED <<request, req, rmutex>>,
           UNCHANGED <<execVars, complete, mainVars, flushed, merged>>
    PROVE  IndInv'
<1>1. TypeOK /\ Shape /\ FlowOK /\ StartsOK /\ KeepsItself
  BY StackParts, Zenon DEF IndInv
<1>2. UNCHANGED <<cancelled, jobMap, incomplete, requestCount, bug, submitted, main, joined>>
  BY Zenon DEF execVars, mainVars
<1>3. Shape' /\ Returned(t, FALSE) /\ Others(t)
  BY <1>1, ReturnShape, Zenon
<1>4. Neutral(t)
  BY <1>3, Zenon DEF Returned, Neutral, WaitsFor, Special, RespLabels, DataLabels, CmdLabels
<1>5. SameFlow /\ KeepsItself' /\ (\A p \in Reqs : Active(p)' <=> Active(p))
  BY <1>1, Zenon DEF SameFlow, Active, KeepsItself
<1>6. FlowOK' /\ DoomedStays
  BY <1>1, <1>3, <1>4, <1>5, NeutralFlow, FlowKeep, Zenon DEF DoomedStays
<1>7. Starts(t, j) /\ StartsAlone(t, j)
  BY <1>1, Zenon DEF Starts, In, StartsOK
<1>8. JobOnly(j) /\ ~inSsi'[j]
  <2>1. \A k \in Jobs : k # j => attempt'[k] = attempt[k] /\ inSsi'[k] = inSsi[k]
    BY <1>1, Zenon DEF AttemptIncr, IncrAttemptCountScrubResults, TypeOK
  <2>2. ~inSsi'[j]
    BY <1>1, Zenon DEF TypeOK
  <2> QED
    BY <1>5, <1>7, <2>1, <2>2, Zenon DEF JobOnly, StartsAlone
<1>9. TrackOK'
  BY <1>2, Zenon DEF TrackOK
<1> QED
  BY <1>2, <1>3, <1>4, <1>5, <1>6, <1>8, <1>9, RunStep, Zenon

\* startQuery() hands a new request to SSI.
LEMMA StartedStep ==
    ASSUME IndInv, TypeOK', Grow, NEW t \in Threads, stack[t] # <<>>, Top(t).at = "run.lock",
           NEW j \in Jobs, Top(t).j = j, ~cancelled, attempt[j] =< MaxAttempts,
           IncrAttemptCountScrubResults(j), NEW r, r = <<j, attempt[j]>>,
           inSsi' = [inSsi EXCEPT ![j] = TRUE], request' = [request EXCEPT ![j] = r],
           req' = [req EXCEPT ![r] = NewRequest], Goto(t, [Top(t) EXCEPT !.at = "run.started"]),
           UNCHANGED <<execVars, complete, mainVars, flushed, merged>>
    PROVE  IndInv'
<1> DEFINE f == [Top(t) EXCEPT !.at = "run.started"]
<1>1. /\ Top(t) \in FrameType /\ FrameOK(Top(t)) /\ j \in jobMap /\ Top(t).todo \subseteq jobMap
      /\ TypeOK /\ Shape /\ FlowOK /\ StartsOK /\ TrackOK /\ RowsOK /\ KeepsItself
  BY TopInv, StackParts, Zenon DEF IndInv, FrameOK
<1>2. UNCHANGED <<cancelled, jobMap, incomplete, requestCount, bug, submitted, main, joined>>
  BY ZenonT(30) DEF execVars, mainVars
<1>3. r \in Reqs /\ r[1] = j /\ r[2] = attempt[j] /\ attempt[j] \in Nat /\ ~Started(r) /\ Started(r)'
      /\ attempt'[j] = r[2] + 1 /\ \A k \in Jobs : k # j => attempt'[k] = attempt[k]
  BY <1>1, MaxAttemptsNat, SMTT(30) DEF Reqs, TypeOK, Started, IncrAttemptCountScrubResults
<1>4. /\ inSsi'[j] /\ request'[j] = r
      /\ \A k \in Jobs : k # j => request'[k] = request[k] /\ inSsi'[k] = inSsi[k]
      /\ req'[r] = NewRequest /\ \A p \in Reqs : p # r => req'[p] = req[p]
  BY <1>1, <1>3, Zenon DEF TypeOK
<1>5. /\ f \in FrameType /\ f.at = "run.started" /\ f.todo = Top(t).todo /\ f.j = j /\ Goto(t, f)
  BY <1>1, Zenon DEF FrameType, JobLabels, RunLabels
<1> HIDE DEF f
<1>6. /\ FrameOKNext(f) /\ Replaces(f.at, Top(t).at)
  BY <1>1, <1>2, <1>5, Zenon DEF FrameOKNext, Replaces, RunLabels, CancelLabels, ReqLabels,
                          RespLabels, DataLabels, CmdLabels
<1>7. Shape' /\ stack'[t] # <<>> /\ Top(t)' = f /\ Others(t)
  BY <1>1, <1>5, <1>6, GotoShape, Zenon
<1>8. Neutral(t)
  BY <1>5, <1>7, Zenon DEF Neutral, Special, RespLabels, DataLabels, CmdLabels
<1>9. Starts(t, j) /\ StartsAlone(t, j)
  BY <1>1, Zenon DEF Starts, In, StartsOK
<1>10. \A p \in Reqs : p # r => Flow(p)' /\ (Doomed(p) => Doomed(p)')
  <2>1. \A p \in Reqs : p # r => SameFlowOf(p)
    BY <1>4, Zenon DEF SameFlowOf, Active
  <2> QED
    BY <1>1, <1>7, <1>8, <2>1, NeutralFlow, FlowKeepReq, Zenon
<1>11. Flow(r)'
  <2>1. /\ stack[<<"ssi", r>>] = <<>> /\ stack[<<"cmd", r>>] = <<>> /\ r \notin merged
    BY <1>1, <1>3, Zenon DEF FlowOK, Flow, RowsOK, TypeOK
  <2>2. stack'[<<"ssi", r>>] = <<>> /\ stack'[<<"cmd", r>>] = <<>>
    BY <1>3, <1>7, <2>1, ThreadNames, Zenon DEF Others
  <2>3. /\ \A L : ~In(<<"ssi", r>>, L)' /\ ~In(<<"cmd", r>>, L)'
        /\ req'[r].cmd = "STARTED0" /\ r \notin merged' /\ req'[r].ssi = "sent"
    BY <1>4, <2>1, <2>2 DEF In, NewRequest
  <2> QED
    BY <1>3, <2>2, <2>3, Zenon DEF Flow
<1>12. FlowOK' /\ DoomedStays
  BY <1>3, <1>10, <1>11, Zenon DEF FlowOK, DoomedStays
<1>13. JobOnly(j) /\ Active(r)' /\ \A p \in Reqs : p[1] = j /\ Active(p)' => p = r
  <2>1. \A p \in Reqs : p # r => (Active(p)' <=> Active(p))
    BY <1>4, Zenon DEF Active
  <2>2. \A p \in Reqs : p[1] = j /\ Active(p)' => p = r
    BY <1>9, <2>1, ZenonT(30) DEF StartsAlone
  <2>3. Active(r)'
    BY <1>4 DEF Active, NewRequest
  <2> QED
    BY <1>3, <1>4, <2>2, <2>3, Zenon DEF JobOnly
<1>14. HandsOver(t, j) /\ InHand(t, j)
  <2>1. Finishes(t, j) /\ FinishesAlone(t, j)
    BY MarkFinds, Zenon DEF Finishing
  <2>2. /\ \A k \in Jobs : (k # j => ~Finishes(t, k)) /\ ~Finishes(t, k)'
        /\ ~In(t, {"squash"}) /\ ~In(t, {"run.fail", "efin.rerun"})'
    BY <1>5, <1>7, Zenon DEF Finishes, In, MarkLabels
  <2>3. \A p \in Reqs : p[1] # j => (Active(p)' <=> Active(p)) /\ req'[p].marked = req[p].marked
    BY <1>3, <1>4, Zenon DEF Active
  <2>4. HandsOver(t, j)
    BY <1>2, <2>1, <2>2, <2>3, Zenon DEF HandsOver, FinishesAlone
  <2>5. ~req'[r].marked
    BY <1>4 DEF NewRequest
  <2>6. InHand(t, j)
    BY <1>2, <1>3, <1>13, <2>1, <2>2, <2>5, Zenon DEF InHand, FinishesAlone, Attended
  <2> QED
    BY <2>4, <2>6, Zenon
<1>15. TrackOK'
  BY <1>1, <1>7, <1>14, TrackHand, Zenon
<1>16. KeepsItself'
  BY <1>1, <1>4 DEF KeepsItself, NewRequest
<1>17. AttemptIncr(j) /\ request'[j] \in Reqs /\ request'[j][1] = j /\ Started(request[j])'
  BY <1>3, <1>4, Zenon DEF AttemptIncr, Started
<1> QED
  BY <1>2, <1>7, <1>8, <1>12, <1>13, <1>15, <1>16, <1>17, RunStep, Zenon

\* runJob() under _rmutex, with every outcome of incrAttemptCountScrubResults()
\* and of the payload's construction, keeps the invariant.
LEMMA RunLockStep ==
    ASSUME IndInv, NEW t \in Threads, stack[t] # <<>>, RunLock(t)
    PROVE  IndInv'
<1>1. /\ Top(t) \in FrameType /\ Top(t).at = "run.lock" /\ Top(t).j \in Jobs
      /\ UNCHANGED <<execVars, complete, mainVars, flushed, merged>> /\ TypeOK
  BY TopInv, Zenon DEF RunLock, At, FrameOK, RunLabels, IndInv, TypeOK
<1>2. PICK j \in Jobs : Top(t).j = j
  BY <1>1, Zenon
<1>3. /\ UNCHANGED <<cancelled, jobMap, incomplete, requestCount, bug, submitted, main, joined>>
  BY <1>1, Zenon DEF execVars, mainVars
<1>4. \/ attempt[j] > MaxAttempts /\ CriticalErr(t, j) /\ UNCHANGED <<attempt, scrubbed>>
      \/ /\ attempt[j] =< MaxAttempts /\ IncrAttemptCountScrubResults(j)
         /\ CriticalErr(t, j) \/ StartQuery(t, j)
  BY <1>2, Zenon DEF RunLock
<1>5. /\ attempt' \in [Jobs -> 0..MaxAttempts + 1] /\ scrubbed' \subseteq Reqs /\ AttemptIncr(j)
      /\ \A k \in Jobs : attempt[k] =< attempt'[k]
  <2>1. CASE UNCHANGED <<attempt, scrubbed>>
    BY <1>1, <2>1, MaxAttemptsNat DEF TypeOK, AttemptIncr
  <2>2. CASE attempt[j] =< MaxAttempts /\ IncrAttemptCountScrubResults(j)
    <3>1. attempt' = [attempt EXCEPT ![j] = @ + 1]
      BY <2>2, ZenonT(30) DEF IncrAttemptCountScrubResults
    <3>2. attempt' \in [Jobs -> 0..MaxAttempts + 1] /\ \A k \in Jobs : attempt[k] =< attempt'[k]
      BY <1>1, <2>2, <3>1, MaxAttemptsNat, SMTT(30) DEF TypeOK
    <3>3. scrubbed' \subseteq Reqs
      BY <1>1, <2>2, LastAttempt, Zenon DEF IncrAttemptCountScrubResults, TypeOK
    <3> QED
      BY <2>2, <3>2, <3>3, Zenon DEF AttemptIncr
  <2> QED
    BY <1>4, <2>1, <2>2, ZenonT(30)
<1>6. CASE CriticalErr(t, j)
  <2>1. /\ rmutex' \in [Jobs -> Threads \cup {NoThread}] /\ UNCHANGED <<inSsi, request, req>>
    BY <1>1, <1>6, Zenon DEF CriticalErr, TypeOK
  <2>2. TypeOK' /\ Grow
    BY <1>1, <1>3, <1>5, <2>1, Zenon DEF TypeOK, Grow
  <2> QED
    BY <1>1, <1>2, <1>5, <1>6, <2>2, CriticalErrStep, Zenon
<1>7. CASE cancelled /\ StartQuery(t, j)
  <2>1. /\ inSsi' = [inSsi EXCEPT ![j] = FALSE] /\ Return(t, FALSE) /\ UNCHANGED <<request, req, rmutex>>
    BY <1>7, Zenon DEF StartQuery
  <2>2. TypeOK' /\ Grow
    BY <1>1, <1>3, <1>5, <2>1, Zenon DEF TypeOK, Grow
  <2> QED
    BY <1>1, <1>2, <1>5, <1>7, <2>1, <2>2, StartRefusedStep, Zenon
<1>8. CASE ~cancelled /\ StartQuery(t, j) /\ attempt[j] =< MaxAttempts /\ IncrAttemptCountScrubResults(j)
  <2>1. PICK r \in Reqs : r = <<j, attempt[j]>>
    <3>1. attempt[j] \in 0..MaxAttempts
      BY <1>1, <1>8, MaxAttemptsNat DEF TypeOK
    <3> QED
      BY <3>1, Zenon DEF Reqs
  <2>2. /\ inSsi' = [inSsi EXCEPT ![j] = TRUE] /\ request' = [request EXCEPT ![j] = r]
        /\ req' = [req EXCEPT ![r] = NewRequest] /\ rmutex' = [rmutex EXCEPT ![j] = t]
        /\ Goto(t, [Top(t) EXCEPT !.at = "run.started"])
    BY <1>8, <2>1, Zenon DEF StartQuery
  <2>3. NewRequest \in ReqType
    BY MaxBlocksNat DEF NewRequest, ReqType, NoReq
  <2>4. TypeOK' /\ Grow
    BY <1>1, <1>3, <1>5, <2>2, <2>3, Zenon DEF TypeOK, Grow
  <2> QED
    BY <1>1, <1>2, <1>8, <2>1, <2>2, <2>4, StartedStep, Zenon
<1> QED
  BY <1>4, <1>6, <1>7, <1>8, ZenonT(30)

-----------------------------------------------------------------------------
(* The threads from outside: ccontrol's main thread and the kill.           *)

\* What _requestCount, counted up once per new member of _jobMap and compared by
\* join() with a number of successes, needs of the sizes of finite sets.
CardinalityCounts ==
    /\ IsFiniteSet({}) /\ Cardinality({}) = 0
    /\ \A S, x : IsFiniteSet(S) /\ x \notin S =>
           IsFiniteSet(S \cup {x}) /\ Cardinality(S \cup {x}) = Cardinality(S) + 1
    /\ \A S, T : IsFiniteSet(S) /\ T \in SUBSET S /\ Cardinality(S) = Cardinality(T) => S = T

\* A step of the main thread that starts nothing.
LEMMA MainOnly ==
    ASSUME IndInv, MainOK', main' \in {"submit", "wait", "joined", "discarded"}, joined' \in BOOLEAN,
           UNCHANGED <<execVars, complete, jobVars, req, stack, submitted, histVars>>
    PROVE  IndInv'
<1>1. UNCHANGED <<cancelled, jobMap, incomplete, requestCount, bug, complete, attempt, inSsi, request, rmutex,
                  req, stack, submitted, flushed, merged, scrubbed>>
  BY Zenon DEF execVars, jobVars, histVars
<1>2. TypeOK /\ StackOK /\ FlowOK /\ StartsOK /\ TrackOK /\ RowsOK /\ NoBug /\ KeepsItself /\ Shape
  BY StackParts, Zenon DEF IndInv
<1>3. TypeOK' /\ NoBug' /\ KeepsItself'
  BY <1>1, <1>2, Zenon DEF TypeOK, NoBug, KeepsItself
<1>4. \A u \in Threads : Still(u)
  BY <1>1, Zenon DEF Still, Top
<1>5. StackOK'
  <2>1. (\A f : FrameOK(f)' <=> FrameOK(f)) /\ (\A u : Top(u)' = Top(u)) /\ \A u, L : In(u, L)' <=> In(u, L)
    BY <1>1, Zenon DEF FrameOK, Started, Top, In
  <2> QED
    BY <1>1, <1>2, <2>1, Zenon DEF StackOK
<1>6. /\ \A r : Active(r)' <=> Active(r)
      /\ \A r : Started(r)' <=> Started(r)
      /\ \A r : Doomed(r) => Doomed(r)'
      /\ \A u, L : In(u, L)' <=> In(u, L)
  BY <1>1, Zenon DEF Active, Started, Doomed, Flowing, In, Top
<1>7. FlowOK'
  BY <1>1, <1>2, <1>6, Zenon DEF FlowOK, Flow
<1>8. StartsOK'
  BY <1>1, <1>2, <1>3, <1>4, <1>6, StartsKeepAll, Zenon
<1>9. TrackOK'
  BY <1>1, <1>2, <1>3, <1>4, <1>6, TrackKeepAll, Zenon
<1>10. RowsOK'
  BY <1>1, <1>2, <1>6, RowsKeep, Zenon
<1> QED
  BY <1>3, <1>5, <1>7, <1>8, <1>9, <1>10, Zenon DEF IndInv

\* UserQuerySelect lets go of the Executive; the invariant stays.
LEMMA DiscardStep ==
    ASSUME IndInv, Discard
    PROVE  IndInv'
<1>1. /\ UNCHANGED <<execVars, complete, jobVars, req, stack, submitted, joined, histVars>>
      /\ main = "joined" /\ main' = "discarded" /\ MainOK /\ TypeOK
  BY Zenon DEF Discard, IndInv
<1>2. UNCHANGED <<jobMap, attempt, inSsi, request, merged>>
  BY <1>1, Zenon DEF execVars, jobVars, histVars
<1>3. /\ \A r : Started(r)' <=> Started(r)
      /\ \A u, L : In(u, L)' <=> In(u, L)
  BY <1>1, <1>2, Zenon DEF Started, In, Top
<1>4. MainOK'
  BY <1>1, <1>2, <1>3, Zenon DEF MainOK
<1>5. joined' \in BOOLEAN
  BY <1>1, Zenon DEF TypeOK
<1> QED
  BY <1>1, <1>4, <1>5, MainOnly, Zenon

\* A step of a thread that is no request's.
LEMMA FlowAside ==
    ASSUME FlowOK, NEW t \in Threads, \A r \in Reqs : t # <<"ssi", r>> /\ t # <<"cmd", r>>, Others(t),
           UNCHANGED <<req, merged, attempt>>
    PROVE  FlowOK' /\ \A r \in Reqs : (Doomed(r) => Doomed(r)') /\ (Active(r)' <=> Active(r))
<1>1. ASSUME NEW r \in Reqs PROVE Flow(r)' /\ (Doomed(r) => Doomed(r)') /\ (Active(r)' <=> Active(r))
  <2>1. Still(<<"ssi", r>>) /\ Still(<<"cmd", r>>) /\ Flow(r)
    BY ThreadNames, Zenon DEF FlowOK, Others, Still
  <2>2. /\ \A L : In(<<"ssi", r>>, L)' <=> In(<<"ssi", r>>, L)
        /\ \A L : In(<<"cmd", r>>, L)' <=> In(<<"cmd", r>>, L)
    BY <2>1, InStill, Zenon
  <2>3. (Active(r)' <=> Active(r)) /\ (Started(r)' <=> Started(r))
    BY Zenon DEF Active, Started
  <2> QED
    BY <2>1, <2>2, <2>3, Zenon DEF Flow, Doomed, Flowing, Still
<1> QED
  BY <1>1, Zenon DEF FlowOK

\* The thread that calls squash() from outside.
LEMMA KillStep ==
    ASSUME IndInv, Kill
    PROVE  IndInv'
<1> DEFINE f == [Frame("squash.loop", NoJob, NoReq, FALSE) EXCEPT !.todo = jobMap]
           t == <<"kill">>
<1>1. /\ stack' = [stack EXCEPT ![t] = <<f>>] /\ cancelled'
      /\ UNCHANGED <<jobMap, incomplete, requestCount, bug, complete, attempt, inSsi, request, rmutex,
                     req, submitted, main, joined, flushed, merged, scrubbed>>
      /\ cancelled' = TRUE
  BY Zenon DEF Kill, jobVars, mainVars, histVars
<1>2. TypeOK /\ Shape /\ Tops /\ FlowOK /\ StartsOK /\ RowsOK /\ MainOK /\ NoBug /\ KeepsItself /\ t \in Threads
  BY StackParts, ThreadNames, Zenon DEF IndInv
<1>3. f \in FrameType /\ f.at = "squash.loop" /\ f.todo = jobMap
  <2>1. jobMap \subseteq Jobs
    BY <1>2, ZenonT(30) DEF TypeOK
  <2> QED
    BY <2>1, Zenon DEF Frame, FrameType, JobLabels, CancelLabels
<1> HIDE DEF f
<1>4. TypeOK' /\ Grow /\ NoBug' /\ KeepsItself'
  BY <1>1, <1>2 DEF TypeOK, Grow, NoBug, KeepsItself
<1>5. FrameOKNext(f)
  BY <1>1, <1>3, Zenon DEF FrameOKNext, CancelLabels, ReqLabels, RespLabels, DataLabels, CmdLabels
<1>6. Shape' /\ stack'[t] # <<>> /\ Top(t)' = f /\ Others(t)
  BY <1>1, <1>2, <1>3, <1>4, <1>5, NewShape, Zenon
<1>7. \A u \in Threads : u = t \/ Still(u)
  BY <1>6, Zenon DEF Others, Still
<1>8. TopPlaced(t) /\ StartsLess(t)
  BY <1>3, <1>6, Zenon DEF TopPlaced, StartsLess, Starts, In, RespLabels, DataLabels, CmdLabels
<1>9. StackOK'
  BY <1>1, <1>2, <1>6, <1>7, <1>8, TopsKeepAll, StackPartsNext, Zenon
<1>10. \A r \in Reqs : t # <<"ssi", r>> /\ t # <<"cmd", r>>
  BY ThreadsDiffer, Zenon
<1>11. FlowOK' /\ \A r \in Reqs : (Doomed(r) => Doomed(r)') /\ (Active(r)' => Active(r))
  BY <1>1, <1>2, <1>6, <1>10, FlowAside, Zenon
<1>12. StartsOK'
  BY <1>1, <1>2, <1>4, <1>6, <1>8, <1>11, StartsKeep, Zenon
<1>13. TrackOK'
  BY <1>1, Zenon DEF TrackOK
<1>14. RowsOK'
  BY <1>1, <1>2, <1>11, RowsKeep, Zenon DEF histVars
<1>15. MainOK'
  <2>1. \A u \in Threads : In(u, {"add"})' => In(u, {"add"})
    BY <1>7, <1>8, Zenon DEF Still, In, TopPlaced
  <2> QED
    BY <1>1, <1>2, <2>1, MainKeep, Zenon DEF mainVars
<1> QED
  BY <1>4, <1>9, <1>11, <1>12, <1>13, <1>14, <1>15, Zenon DEF IndInv
\* Executive::add() is called for a job that nothing is known of.
LEMMA UnknownJob ==
    ASSUME IndInv, NEW j \in Jobs, j \notin jobMap
    PROVE  /\ attempt[j] = 0 /\ \A p \in Reqs : p[1] = j => ~Active(p)
           /\ \A u \in Threads : ~Finishes(u, j) /\ (Starts(u, j) => u = <<"add", j>>)
<1>1. TypeOK /\ Shape /\ Tops /\ FlowOK /\ MainOK
  BY StackParts, Zenon DEF IndInv
<1>2. attempt[j] = 0
  BY <1>1, MaxAttemptsNat DEF TypeOK, MainOK
<1>3. ASSUME NEW p \in Reqs, p[1] = j PROVE ~Active(p)
  <2>1. Active(p) => Started(p)
    BY <1>1, Zenon DEF FlowOK, Flow
  <2>2. p[2] \in Nat /\ ~Started(p)
    BY <1>2, <1>3, MaxAttemptsNat DEF Started, Reqs
  <2> QED
    BY <2>1, <2>2, Zenon
<1>4. ASSUME NEW u \in Threads, Top(u).j = j, stack[u] # <<>> PROVE Top(u).at \in {"add", "squash.loop"}
  BY <1>1, <1>4, TopFrame, Zenon DEF FrameOK
<1>5. ASSUME NEW u \in Threads PROVE ~Finishes(u, j)
  BY <1>4, <1>5, Zenon DEF Finishes, In, MarkLabels
<1>6. ASSUME NEW u \in Threads, Starts(u, j) PROVE u = <<"add", j>>
  <2>1. In(u, {"add"}) /\ Top(u).j = j
    BY <1>4, <1>6, Zenon DEF Starts, In
  <2> QED
    BY <1>1, <2>1, Zenon DEF Tops
<1> QED
  BY <1>2, <1>3, <1>5, <1>6, Zenon

\* The new thread is the only one that starts the job.
LEMMA SubmitStarts ==
    ASSUME TypeOK, TypeOK', Shape, StartsOK, NEW t \in Threads, NEW j \in Jobs, Others(t),
           UNCHANGED <<attempt, request, req>>, attempt[j] = 0,
           \A p \in Reqs : p[1] = j => ~Active(p), \A u \in Threads : Starts(u, j) => u = t,
           \A k \in Jobs : Starts(t, k)' <=> k = j, ~In(t, {"efin"})', ~In(t, {"efin.decide", "efin.retry"})',
           \A r \in Reqs : (Doomed(r) => Doomed(r)') /\ (Active(r)' <=> Active(r))
    PROVE  StartsOK'
<1>1. \A u \in Threads : \A k \in Jobs : u # t => (Starts(u, k)' <=> Starts(u, k))
  BY Zenon DEF Others, Starts, In
<1>2. ASSUME NEW u \in Threads, NEW k \in Jobs, Starts(u, k)' PROVE StartsAlone(u, k)'
  <2>1. CASE u = t
    BY <1>1, <1>2, <2>1 DEF StartsAlone
  <2>2. CASE u # t
    <3>1. StartsAlone(u, k) /\ k # j
      BY <1>1, <1>2, <2>2, Zenon DEF StartsOK
    <3>2. \A w \in Threads : Starts(w, k)' => w = u
      BY <1>1, <3>1, Zenon DEF StartsAlone
    <3>3. ASSUME attempt'[k] > 0 PROVE Doomed(<<k, attempt[k] - 1>>)'
      <4>1. PICK p \in Reqs : p = <<k, attempt[k] - 1>>
        BY <3>3, LastAttempt, Zenon
      <4>2. Doomed(p)
        BY <3>1, <3>3, <4>1, Zenon DEF StartsAlone
      <4>3. Doomed(p)'
        BY <4>2, Zenon
      <4> QED
        BY <4>1, <4>3, Zenon
    <3>4. In(u, {"efin.decide", "efin.retry"})' => request'[k] = Top(u)'.r
      BY <2>2, <3>1, Zenon DEF Others, In, StartsAlone
    <3> QED
      BY <3>1, <3>2, <3>3, <3>4, Zenon DEF StartsAlone
  <2> QED
    BY <2>1, <2>2, Zenon
<1>3. ASSUME NEW u \in Threads, In(u, {"efin"})', ~Top(u)'.b,
             req'[Top(u)'.r].finish = "ACTIVE", req'[Top(u)'.r].hasJob
      PROVE  \E p \in Reqs : p = Top(u)'.r /\ Doomed(p)'
  <2>1. Top(u)' = Top(u) /\ In(u, {"efin"})
    BY <1>3, Zenon DEF Others, In
  <2>2. PICK p \in Reqs : p = Top(u).r
    BY <2>1, TopFrame, Zenon DEF In, FrameOK, ReqLabels
  <2>3. Doomed(p)
    BY <1>3, <2>1, <2>2, Zenon DEF StartsOK, Active
  <2> QED
    BY <2>1, <2>2, <2>3, Zenon
<1>4. \A u \in Threads : In(u, {"efin"})' /\ ~Top(u)'.b =>
          (Active(Top(u).r)' /\ req'[Top(u)'.r].hasJob => Doomed(Top(u).r)')
  BY <1>3, Zenon DEF Active
<1> QED
  BY <1>2, <1>4, Zenon DEF StartsOK

\* One round of the loop of submit() keeps the invariant.
LEMMA SubmitStep ==
    ASSUME IndInv, AddSubmitted, Submit
    PROVE  IndInv'
<1>1. /\ TypeOK /\ Shape /\ Tops /\ FlowOK /\ StartsOK /\ TrackOK /\ RowsOK /\ MainOK /\ NoBug /\ KeepsItself
      /\ main = "submit" /\ ~joined
  BY StackParts, Zenon DEF IndInv, MainOK, Submit
<1>2. /\ UNCHANGED <<execVars, complete, jobVars, req, joined, histVars>>
      /\ UNCHANGED <<cancelled, jobMap, incomplete, requestCount, bug, complete, attempt, inSsi, request, rmutex,
                     req, joined, flushed, merged, scrubbed>>
      /\ \A r : Started(r)' <=> Started(r)
  BY Zenon DEF Submit, execVars, jobVars, histVars, Started
<1>3. CASE cancelled
  <2>1. main' = "wait" /\ UNCHANGED <<submitted, stack>>
    BY <1>3, ZenonT(30) DEF Submit
  <2>2. MainOK' /\ joined' \in BOOLEAN
    BY <1>1, <1>2, <2>1 DEF MainOK, TypeOK
  <2> QED
    BY <1>2, <2>1, <2>2, MainOnly, Zenon
<1>4. CASE ~cancelled
  <2>1. PICK j \in Jobs \ submitted :
            /\ submitted' = submitted \cup {j}
            /\ stack' = [stack EXCEPT ![<<"add", j>>] = <<Frame("add", j, NoReq, FALSE)>>]
    BY <1>4, Zenon DEF Submit
  <2> DEFINE f == Frame("add", j, NoReq, FALSE)
             t == <<"add", j>>
  <2>2. f \in FrameType /\ f.at = "add" /\ f.todo = {} /\ f.j = j
    BY Zenon DEF Frame, FrameType, JobLabels
  <2>3. stack' = [stack EXCEPT ![t] = <<f>>] /\ main' \in {"submit", "wait"}
    BY <1>1, <1>4, <2>1, Zenon DEF Submit
  <2>4. j \in Jobs /\ t \in Threads /\ stack[t] = <<>> /\ j \notin jobMap
    BY <1>1, ThreadNames, ZenonT(30) DEF AddSubmitted, MainOK
  <2> HIDE DEF f
  <2>5. TypeOK' /\ Grow /\ NoBug' /\ KeepsItself'
    BY <1>1, <1>2, <2>1, <2>3 DEF TypeOK, Grow, NoBug, KeepsItself
  <2>6. FrameOKNext(f)
    BY <2>2, Zenon DEF FrameOKNext, CancelLabels, ReqLabels, RespLabels, DataLabels, CmdLabels
  <2>7. Shape' /\ stack'[t] # <<>> /\ Top(t)' = f /\ Others(t)
    BY <1>1, <2>2, <2>3, <2>4, <2>5, <2>6, NewShape, Zenon
  <2>8. attempt[j] = 0 /\ (\A p \in Reqs : p[1] = j => ~Active(p))
        /\ \A u \in Threads : ~Finishes(u, j) /\ (Starts(u, j) => u = t)
    BY <2>4, UnknownJob, Zenon
  <2>9. FlowOK' /\ \A r \in Reqs : (Doomed(r) => Doomed(r)') /\ (Active(r)' <=> Active(r))
    BY <1>1, <1>2, <2>4, <2>7, ThreadsDiffer, FlowAside, Zenon
  <2>10. /\ \A k \in Jobs : (Starts(t, k)' <=> k = j) /\ ~Finishes(t, k) /\ ~Finishes(t, k)'
         /\ ~In(t, RespLabels \cup DataLabels)' /\ ~In(t, CmdLabels)' /\ ~In(t, {"efin"})'
         /\ ~In(t, {"efin.decide", "efin.retry"})' /\ ~In(t, {"squash"}) /\ ~In(t, {"run.fail", "efin.rerun"})'
    BY <2>2, <2>4, <2>7, Zenon DEF Starts, Finishes, In, RespLabels, DataLabels, CmdLabels, MarkLabels
  <2>11. \A u \in Threads \ {t} : \A L : (In(u, L)' <=> In(u, L)) /\ Top(u)' = Top(u)
    BY <2>7, Zenon DEF Others, In
  <2>12. StackOK'
    <3>1. ASSUME NEW u \in Threads
          PROVE  /\ In(u, RespLabels \cup DataLabels)' => u = <<"ssi", Top(u)'.r>>
                 /\ In(u, CmdLabels)' => u = <<"cmd", Top(u)'.r>>
                 /\ In(u, {"add"})' => /\ u = <<"add", Top(u)'.j>>
                                       /\ Top(u)'.j \in submitted' \ jobMap'
                                       /\ attempt'[Top(u)'.j] = 0
      <4>1. CASE u = t
        BY <1>2, <2>1, <2>2, <2>4, <2>7, <2>8, <2>10, <4>1, Zenon
      <4>2. CASE u # t
        BY <1>1, <1>2, <2>1, <2>11, <4>2, Zenon DEF Tops
      <4> QED
        BY <4>1, <4>2, Zenon
    <3>2. Tops'
      BY <3>1, Zenon DEF Tops
    <3> QED
      BY <2>7, <3>2, StackPartsNext, Zenon
  <2>13. StartsOK'
    BY <1>1, <1>2, <2>4, <2>5, <2>7, <2>8, <2>9, <2>10, SubmitStarts, Zenon
  <2>14. TrackOK'
    <3>1. HandsOver(t, j) /\ InHand(t, j)
      BY <1>1, <1>2, <2>4, <2>8, <2>9, <2>10, Zenon DEF HandsOver, InHand, TypeOK
    <3> QED
      BY <1>1, <1>2, <2>4, <2>5, <2>7, <3>1, TrackHand, Zenon
  <2>15. RowsOK'
    BY <1>1, <1>2, <2>9, RowsKeep, ZenonT(30)
  <2>16. MainOK'
    BY <1>1, <1>2, <2>1, <2>3 DEF MainOK
  <2> QED
    BY <2>5, <2>9, <2>12, <2>13, <2>14, <2>15, <2>16, Zenon DEF IndInv
<1> QED
  BY <1>3, <1>4, Zenon

-----------------------------------------------------------------------------
(* What needs the size of the job map: add() and join().                    *)

\* Executive::add() keeps the invariant: _requestCount stays the size of _jobMap.
LEMMA AddStep ==
    ASSUME CardinalityCounts, IndInv, NEW t \in Threads, stack[t] # <<>>, Add(t)
    PROVE  IndInv'
<1>1. /\ TypeOK /\ Shape /\ Tops /\ FlowOK /\ StartsOK /\ TrackOK /\ RowsOK /\ MainOK /\ NoBug /\ KeepsItself
      /\ Top(t) \in FrameType /\ Top(t).at = "add" /\ In(t, {"add"})
  BY TopInv, StackParts, Zenon DEF IndInv, Add, At, In
<1>2. PICK j \in Jobs : /\ Top(t).j = j /\ t = <<"add", j>> /\ j \in submitted \ jobMap /\ attempt[j] = 0
  BY <1>1, Zenon DEF Tops, TypeOK
<1>3. UNCHANGED <<complete, attempt, inSsi, request, rmutex, req, submitted, main, joined, flushed, merged, scrubbed>>
  BY Zenon DEF Add, jobVars, mainVars, histVars
<1>4. CASE cancelled
  <2>1. Return(t, FALSE) /\ UNCHANGED execVars /\ cancelled'
    BY <1>4, Zenon DEF Add, execVars
  <2>2. Quiet
    BY <1>1, <1>3, <2>1, QuietSame, Zenon DEF TypeOK, execVars, jobVars, mainVars, histVars
  <2> QED
    BY <2>1, <2>2, ReturnQuiet, Zenon
<1>5. CASE ~cancelled
  <2> DEFINE f == Frame("run.check", j, NoReq, FALSE)
  <2>1. /\ jobMap' = jobMap \cup {j} /\ incomplete' = incomplete \cup {j} /\ requestCount' = requestCount + 1
        /\ Goto(t, f) /\ UNCHANGED <<cancelled, bug>>
    BY <1>2, <1>5, Zenon DEF Add
  <2>2. f \in FrameType /\ f.at = "run.check" /\ f.todo = {} /\ f.j = j
    BY Zenon DEF Frame, FrameType, JobLabels, RunLabels
  <2> HIDE DEF f
  <2>3. IsFiniteSet(jobMap') /\ requestCount' = Cardinality(jobMap')
    <3>1. IsFiniteSet(jobMap) /\ requestCount = Cardinality(jobMap) /\ j \notin jobMap
      BY <1>1, <1>2, Zenon DEF TypeOK, MainOK
    <3>2. IsFiniteSet(jobMap \cup {j}) /\ Cardinality(jobMap \cup {j}) = Cardinality(jobMap) + 1
      BY <3>1, Zenon DEF CardinalityCounts
    <3> QED
      BY <2>1, <3>1, <3>2, Zenon
  <2>4. TypeOK' /\ Grow /\ NoBug' /\ KeepsItself'
    <3>1. /\ jobMap' \subseteq Jobs /\ incomplete' \subseteq jobMap' /\ complete \subseteq jobMap'
          /\ \A k \in Jobs : attempt[k] =< attempt[k]
      BY <1>1, <1>2, <2>1, MaxAttemptsNat DEF TypeOK
    <3> QED
      BY <1>1, <1>3, <2>1, <2>3, <3>1, Zenon DEF TypeOK, Grow, NoBug, KeepsItself
  <2>5. FrameOKNext(f) /\ Replaces(f.at, Top(t).at)
    BY <1>1, <2>1, <2>2, Zenon DEF FrameOKNext, Replaces, RunLabels, CancelLabels, ReqLabels, RespLabels,
                            DataLabels, CmdLabels
  <2>6. Shape' /\ stack'[t] # <<>> /\ Top(t)' = f /\ Others(t)
    BY <1>1, <2>1, <2>2, <2>4, <2>5, GotoShape, Zenon
  <2>7. /\ InFlow(t) /\ SameTop(t) /\ StartsLess(t)
        /\ \A k \in Jobs : ~Finishes(t, k) /\ (Finishes(t, k)' <=> k = j)
        /\ ~In(t, {"squash"}) /\ ~In(t, {"run.fail", "efin.rerun"})'
        /\ ~In(t, {"efin.decide", "efin.retry", "efin.mark", "fin.mark"})'
    BY <1>1, <1>2, <2>2, <2>6, Zenon DEF InFlow, SameTop, StartsLess, Starts, Finishes, In,
                                  RespLabels, DataLabels, CmdLabels, MarkLabels
  <2>8. SameFlow /\ \A p \in Reqs : Active(p)' <=> Active(p)
    BY <1>3, Zenon DEF SameFlow, Active
  <2>9. FlowOK' /\ \A p \in Reqs : Doomed(p) => Doomed(p)'
    BY <1>1, <2>4, <2>6, <2>7, <2>8, FlowKeep, Zenon
  <2>10. StartsOK'
    BY <1>1, <1>3, <2>4, <2>6, <2>7, <2>8, <2>9, StartsKeep, Zenon
  <2>11. StackOK'
    <3>1. ASSUME NEW u \in Threads, u # t, In(u, {"add"})
          PROVE  Top(u).j \notin jobMap' /\ attempt'[Top(u).j] = 0
      BY <1>1, <1>2, <1>3, <2>1, <3>1, Zenon DEF Tops
    <3>2. Tops'
      BY <1>1, <1>3, <2>6, <2>7, <3>1, TopsKeep, Zenon
    <3> QED
      BY <2>6, <3>2, StackPartsNext, Zenon
  <2>12. TrackOK'
    <3>1. (\A p \in Reqs : p[1] = j => ~Active(p)) /\ \A u \in Threads : ~Finishes(u, j)
      BY <1>2, UnknownJob, Zenon
    <3>2. HandsOver(t, j)
      BY <1>3, <2>1, <2>7, <2>8, <3>1, Zenon DEF HandsOver
    <3>3. InHand(t, j)
      BY <2>1, <2>7, <2>8, <3>1, Zenon DEF InHand, Attended
    <3> QED
      BY <1>1, <2>1, <2>4, <2>6, <3>2, <3>3, TrackHand, Zenon
  <2>13. RowsOK'
    BY <1>1, <1>3, <2>9, RowsKeep, Zenon DEF histVars
  <2>14. MainOK'
    <3>1. main \notin {"joined", "discarded"} /\ ~joined
      BY <1>1, Zenon DEF MainOK
    <3>2. \A p \in Reqs : Started(p)' <=> Started(p)
      BY <1>3, Zenon DEF Started
    <3> QED
      <4>1. /\ jobMap' \subseteq submitted' /\ \A k \in Jobs : attempt'[k] > 0 => k \in jobMap'
            /\ ~joined' /\ main' \notin {"joined", "discarded"}
        BY <1>1, <1>2, <1>3, <2>1, <3>1, Zenon DEF MainOK
      <4>2. \A k \in Jobs : inSsi'[k] => /\ request'[k] \in Reqs /\ request'[k][1] = k
                                         /\ Started(request[k])'
        BY <1>1, <1>3, <3>2, Zenon DEF MainOK
      <4> QED
        BY <2>3, <4>1, <4>2, Zenon DEF MainOK
  <2> QED
    BY <2>4, <2>9, <2>10, <2>11, <2>12, <2>13, <2>14, Zenon DEF IndInv
<1> QED
  BY <1>4, <1>5, Zenon

\* join() counts the jobs that are complete against all of them.
LEMMA JoinStep ==
    ASSUME CardinalityCounts, IndInv, Join
    PROVE  IndInv'
<1>1. /\ UNCHANGED <<execVars, complete, jobVars, req, stack, submitted, histVars>>
      /\ joined' = (Cardinality(jobMap \cap complete) = requestCount) /\ main' = "joined"
      /\ \A j \in Jobs : stack[<<"add", j>>] = <<>>
      /\ TypeOK /\ Tops /\ RowsOK /\ MainOK
  BY StackParts, Zenon DEF Join, IndInv
<1>2. UNCHANGED <<jobMap, attempt, inSsi, request, merged, stack, submitted>>
  BY <1>1, Zenon DEF execVars, jobVars, histVars
<1>3. /\ \A r : Started(r)' <=> Started(r)
      /\ \A u, L : In(u, L)' <=> In(u, L)
  BY <1>2, Zenon DEF Started, In, Top
<1>4. \A u \in Threads : ~In(u, {"add"})
  BY <1>1 DEF Tops, TypeOK, In
<1>5. ASSUME joined' PROVE \A j \in jobMap : \E r \in merged : r[1] = j
  <2>1. jobMap \cap complete = jobMap
    <3>1. /\ IsFiniteSet(jobMap) /\ requestCount = Cardinality(jobMap)
          /\ (jobMap \cap complete) \in SUBSET jobMap
      BY <1>1, Zenon DEF TypeOK, MainOK
    <3>2. Cardinality(jobMap) = Cardinality(jobMap \cap complete)
      BY <1>1, <1>5, <3>1, Zenon
    <3> QED
      BY <3>1, <3>2 DEF CardinalityCounts
  <2> QED
    BY <1>1, <2>1, Zenon DEF RowsOK
<1>6. MainOK'
  BY <1>1, <1>2, <1>3, <1>4, <1>5, Zenon DEF MainOK
<1> QED
  BY <1>1, <1>6, MainOnly, Zenon

-----------------------------------------------------------------------------
(* The invariant.                                                           *)

\* A thread only moves its own stack, but for the one that starts the command.
StackOf(t) == submitted' = submitted /\ \A u \in Threads \ {t} : stack'[u] = stack[u]

\* Goto, Call and Return change the stack of their own thread only.
LEMMA MovesOwn ==
    ASSUME stack \in [Threads -> Seq(FrameType)], NEW t \in Threads, submitted' = submitted
    PROVE  /\ \A s : stack' = [stack EXCEPT ![t] = s] => StackOf(t)
           /\ \A f : Goto(t, f) => StackOf(t)
           /\ \A f, n : Call(t, f, n) => StackOf(t)
           /\ \A v : Return(t, v) => StackOf(t)
           /\ stack' = stack => StackOf(t)
<1>1. \A s : stack' = [stack EXCEPT ![t] = s] => StackOf(t)
  BY Zenon DEF StackOf
<1> QED
  BY <1>1, Zenon DEF Goto, Call, Return, StackOf

\* No step of a thread moves another job's add().
LEMMA StepMoves ==
    ASSUME stack \in [Threads -> Seq(FrameType)], NEW t \in Threads, Step(t)
    PROVE  submitted' = submitted /\ \A j \in Jobs : <<"add", j>> # t => stack'[<<"add", j>>] = stack[<<"add", j>>]
<1> USE DEF StackOf
<1>1. \A j \in Jobs : <<"add", j>> \in Threads
  BY ThreadNames, Zenon
<1>2. CASE ExecutiveStep(t)
  <2>1. submitted' = submitted
    BY <1>2, Zenon DEF ExecutiveStep, Add, Squash, SquashLoop, MarkFind, MarkStatus, MarkUntrack, mainVars
  <2>2. CASE Add(t) \/ Squash(t) \/ SquashLoop(t)
    BY <1>1, <2>1, <2>2, MovesOwn, Zenon DEF Add, Squash, SquashLoop
  <2>3. CASE MarkFind(t) \/ MarkStatus(t) \/ MarkUntrack(t)
    BY <1>1, <2>1, <2>3, MovesOwn, Zenon DEF MarkFind, MarkStatus, MarkUntrack
  <2> QED
    BY <1>2, <2>2, <2>3, Zenon DEF ExecutiveStep
<1>3. CASE JobQueryStep(t)
  <2>1. submitted' = submitted
    BY <1>3, Zenon DEF JobQueryStep, RunCheck, RunLock, RunStarted, RunFail, Cancel, CancelFailed, CancelEnd, mainVars
  <2>2. CASE RunCheck(t) \/ RunLock(t) \/ RunStarted(t) \/ RunFail(t)
    BY <1>1, <2>1, <2>2, MovesOwn, Zenon DEF RunCheck, RunLock, RunStarted, RunFail, CriticalErr, StartQuery
  <2>3. CASE Cancel(t) \/ CancelFailed(t) \/ CancelEnd(t)
    BY <1>1, <2>1, <2>3, MovesOwn, Zenon DEF Cancel, CancelFailed, CancelEnd
  <2> QED
    BY <1>3, <2>2, <2>3, Zenon DEF JobQueryStep
<1>4. CASE QueryRequestStep(t)
  <2>1. CASE ResponseType(t)
    <3>1. submitted' = submitted
      BY <2>1, Zenon DEF ResponseType, mainVars
    <3> QED
      BY <1>1, <2>1, <3>1, MovesOwn, ThreadsDiffer, Zenon DEF ResponseType
  <2>2. CASE ErrorFinish(t) \/ ErrorDecide(t) \/ ErrorRetry(t) \/ ErrorRerun(t) \/ ErrorMark(t)
    <3>1. submitted' = submitted
      BY <2>2, Zenon DEF ErrorFinish, ErrorDecide, ErrorRetry, ErrorRerun, ErrorMark, mainVars
    <3> QED
      BY <1>1, <2>2, <3>1, MovesOwn, Zenon DEF ErrorFinish, ErrorDecide, ErrorRetry, ErrorRerun, ErrorMark
  <2>3. CASE Cleanup(t) \/ Finish(t) \/ FinishMark(t) \/ RequestCancel(t)
    <3>1. submitted' = submitted
      BY <2>3, Zenon DEF Cleanup, Finish, FinishMark, RequestCancel, mainVars
    <3> QED
      BY <1>1, <2>3, <3>1, MovesOwn, Zenon DEF Cleanup, Finish, FinishMark, RequestCancel
  <2>4. CASE ProcessResponse(t) \/ ResponseActive(t) \/ ProcessData(t) \/ DataCheck(t) \/ DataBlock(t)
    <3>1. submitted' = submitted
      BY <2>4, Zenon DEF ProcessResponse, ResponseActive, ProcessData, DataCheck, DataBlock, mainVars
    <3> QED
      BY <1>1, <2>4, <3>1, MovesOwn, Zenon DEF ProcessResponse, ResponseActive, ProcessData, DataCheck, DataBlock
  <2>5. CASE Ask(t) \/ AskGet(t) \/ Wait(t) \/ WaitDrop(t) \/ ProcessFlush(t)
    <3>1. submitted' = submitted
      BY <2>5, Zenon DEF Ask, AskGet, Wait, WaitDrop, ProcessFlush, mainVars
    <3> QED
      BY <1>1, <2>5, <3>1, MovesOwn, Zenon
         DEF Ask, AskGet, Wait, WaitDrop, ProcessFlush, FlushFailed, FlushMore, FlushLast
  <2> QED
    BY <1>4, <2>1, <2>2, <2>3, <2>4, <2>5, Zenon DEF QueryRequestStep
<1> QED
  BY <1>2, <1>3, <1>4, Zenon DEF Step

\* The invariant holds at the start.
LEMMA InitInv ==
    ASSUME CardinalityCounts, Init
    PROVE  IndInv /\ AddSubmitted
<1>1. /\ \A u \in Threads : stack[u] = <<>> /\ \A L : ~In(u, L)
      /\ \A r \in Reqs : req[r] = ReqUnused /\ r[2] \in Nat /\ r[1] \in Jobs /\ attempt[r[1]] = 0
      /\ \A r \in Reqs : <<"ssi", r>> \in Threads /\ <<"cmd", r>> \in Threads
  BY ThreadNames, MaxAttemptsNat DEF Init, In, Reqs
<1>2. /\ ReqUnused \in ReqType /\ ReqUnused.finish = "NONE" /\ ReqUnused.ssi = "none"
      /\ ReqUnused.keepAlive = NoReq
  <2>1. NewRequest \in ReqType /\ NewRequest.keepAlive = NoReq
    BY MaxBlocksNat DEF NewRequest, ReqType, NoReq
  <2> QED
    BY <2>1, Zenon DEF ReqUnused, ReqType
<1>3. IsFiniteSet({}) /\ Cardinality({}) = 0
  BY Zenon DEF CardinalityCounts
<1>4. TypeOK
  <2>1. 0 \in 0..MaxAttempts + 1
    BY MaxAttemptsNat
  <2>2. attempt \in [Jobs -> 0..MaxAttempts + 1] /\ req \in [Reqs -> ReqType]
    BY <1>2, <2>1, Zenon DEF Init
  <2> QED
    BY <1>3, <2>2, Zenon DEF Init, TypeOK
<1>5. StackOK
  <2>1. stack \in [Threads -> Seq(FrameType)] /\ Len(<<>>) = 0
    BY DEF Init
  <2> QED
    BY <1>1, <2>1 DEF StackOK
<1>6. FlowOK
  BY <1>1, <1>2, Zenon DEF FlowOK, Flow, Active
<1>7. StartsOK
  BY <1>1, <1>2, Zenon DEF StartsOK, Starts, Active
<1>8. TrackOK
  BY <1>1, <1>2, Zenon DEF TrackOK, Finishes, Active, Init
<1>9. RowsOK
  BY <1>1 DEF RowsOK, Init
<1>10. MainOK
  BY <1>1, <1>3 DEF MainOK, Init
<1>11. NoBug /\ KeepsItself
  BY <1>1, <1>2, Zenon DEF NoBug, KeepsItself, Init
<1>12. AddSubmitted
  BY <1>1, ThreadNames, Zenon DEF AddSubmitted
<1> QED
  BY <1>4, <1>5, <1>6, <1>7, <1>8, <1>9, <1>10, <1>11, <1>12, Zenon DEF IndInv

\* A step that changes nothing keeps the invariant.
LEMMA StutterStep ==
    ASSUME IndInv, UNCHANGED vars
    PROVE  IndInv'
<1>1. UNCHANGED <<execVars, complete, jobVars, req, stack, mainVars, histVars>> /\ MainOK /\ TypeOK
  BY Zenon DEF vars, IndInv
<1>2. UNCHANGED <<jobMap, attempt, inSsi, request, merged, submitted, main, joined>>
  BY <1>1, Zenon DEF execVars, jobVars, mainVars, histVars
<1>3. (\A r : Started(r)' <=> Started(r)) /\ \A u, L : In(u, L)' <=> In(u, L)
  BY <1>1, <1>2, Zenon DEF Started, In, Top
<1>4. MainOK' /\ main' \in {"submit", "wait", "joined", "discarded"} /\ joined' \in BOOLEAN
  BY <1>1, <1>2, <1>3, Zenon DEF MainOK, TypeOK
<1> QED
  BY <1>1, <1>2, <1>4, MainOnly, Zenon

\* Every step of Executive, JobQuery and QueryRequest keeps the invariant.
LEMMA ThreadStep ==
    ASSUME CardinalityCounts, IndInv, NEW t \in Threads, Step(t)
    PROVE  IndInv'
<1>1. stack[t] # <<>>
  BY Zenon DEF Step
<1>2. CASE ExecutiveStep(t)
  BY <1>1, <1>2, AddStep, SquashStep, SquashLoopStep, MarkFindStep, MarkStatusStep, MarkUntrackStep, Zenon
     DEF ExecutiveStep
<1>3. CASE JobQueryStep(t)
  BY <1>1, <1>3, RunCheckStep, RunLockStep, RunStartedStep, RunFailStep, CancelStep, CancelFailedStep,
     CancelEndStep, Zenon DEF JobQueryStep
<1>4. CASE QueryRequestStep(t)
  BY <1>1, <1>4, ErrorFinishStep, ErrorDecideStep, ErrorRetryStep, ErrorRerunStep, ErrorMarkStep,
     CleanupStep, FinishStep, FinishMarkStep, RequestCancelStep, ProcessResponseStep, ResponseActiveStep,
     ResponseTypeStep, ProcessDataStep, DataCheckStep, DataBlockStep, AskStep, AskGetStep, WaitStep,
     WaitDropStep, ProcessFlushStep, Zenon DEF QueryRequestStep
<1> QED
  BY <1>2, <1>3, <1>4, Zenon DEF Step

\* Every step keeps the invariant.
LEMMA NextInv ==
    ASSUME CardinalityCounts, IndInv, AddSubmitted, [Next]_vars
    PROVE  IndInv' /\ AddSubmitted'
<1>1. /\ stack \in [Threads -> Seq(FrameType)] /\ \A j \in Jobs : <<"add", j>> \in Threads
      /\ <<"kill">> \in Threads /\ \A r \in Reqs : <<"ssi", r>> \in Threads
  BY ThreadNames, Zenon DEF IndInv, StackOK
<1>2. ASSUME submitted' = submitted, NEW t \in Threads, NEW s, stack' = [stack EXCEPT ![t] = s],
             \A j \in Jobs : <<"add", j>> # t
      PROVE  AddSubmitted'
  BY <1>1, <1>2, Zenon DEF AddSubmitted
<1>3. ASSUME NEW t \in Threads, Step(t) PROVE IndInv' /\ AddSubmitted'
  <2>1. /\ submitted' = submitted /\ stack[t] # <<>>
        /\ \A j \in Jobs : <<"add", j>> # t => stack'[<<"add", j>>] = stack[<<"add", j>>]
    BY <1>1, <1>3, StepMoves, Zenon DEF Step
  <2> QED
    BY <1>3, <2>1, ThreadStep, Zenon DEF AddSubmitted
<1>4. ASSUME NEW r \in Reqs, SsiRespond(r) \/ SsiData(r) PROVE IndInv' /\ AddSubmitted'
  <2>1. PICK from \in {"sent", "asked"}, at \in {"resp", "data"} :
            (from = "sent" <=> at = "resp") /\ Callback(r, from, at)
    BY <1>4, Zenon DEF SsiRespond, SsiData
  <2>2. submitted' = submitted /\ stack' = [stack EXCEPT ![<<"ssi", r>>] = <<Frame(at, r[1], r, FALSE)>>]
    BY <2>1, Zenon DEF Callback, mainVars
  <2>3. \A j \in Jobs : <<"add", j>> # <<"ssi", r>>
    BY ThreadsDiffer, Zenon
  <2>4. AddSubmitted'
    BY <1>1, <2>2, <2>3, Zenon DEF AddSubmitted
  <2> QED
    BY <2>1, <2>4, CallbackStep, Zenon
<1>5. CASE Submit
  <2>1. AddSubmitted'
    BY <1>1, <1>5, Zenon DEF AddSubmitted, Submit
  <2> QED
    BY <1>5, <2>1, SubmitStep, Zenon
<1>6. CASE Kill
  <2>1. submitted' = submitted /\ \E s : stack' = [stack EXCEPT ![<<"kill">>] = s]
    BY <1>6, Zenon DEF Kill, mainVars
  <2>2. AddSubmitted'
    BY <1>1, <1>2, <2>1, ThreadsDiffer, Zenon
  <2> QED
    BY <1>6, <2>2, KillStep, Zenon
<1>7. CASE Join \/ Discard
  BY <1>7, JoinStep, DiscardStep, Zenon DEF AddSubmitted, Join, Discard
<1>8. CASE UNCHANGED vars
  BY <1>8, StutterStep, Zenon DEF AddSubmitted, vars, mainVars
<1> QED
  BY <1>3, <1>4, <1>5, <1>6, <1>7, <1>8, Zenon DEF Next, Terminating
=============================================================================
