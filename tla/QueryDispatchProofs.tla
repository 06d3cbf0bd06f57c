------------------------- MODULE QueryDispatchProofs ------------------------
(***************************************************************************)
(* The dispatch of a query, for any number of jobs, attempts and blocks:   *)
(* the inductive invariant of QueryDispatch and what follows from it.      *)
(***************************************************************************)
EXTENDS QueryDispatchSteps, FiniteSetTheorems

\* The sizes of finite sets count as _requestCount and join() rely on.
LEMMA SizesCount == CardinalityCounts
<1>1. /\ \A S, x : IsFiniteSet(S) /\ x \notin S =>
             IsFiniteSet(S \cup {x}) /\ Cardinality(S \cup {x}) = Cardinality(S) + 1
  BY FS_AddElement
<1>2. \A S, T : IsFiniteSet(S) /\ T \in SUBSET S /\ Cardinality(S) = Cardinality(T) => S = T
  BY FS_Subset
<1> QED
  BY <1>1, <1>2, FS_EmptySet DEF CardinalityCounts

\* The inductive invariant of the dispatch holds throughout: whatever thread of
\* Executive, JobQuery, QueryRequest or SSI moves next, and whatever fails.
THEOREM DispatchInvariant == Spec => [](IndInv /\ AddSubmitted)
<1>1. Init => IndInv /\ AddSubmitted
  BY InitInv, SizesCount
<1>2. (IndInv /\ AddSubmitted) /\ [Next]_vars => (IndInv /\ AddSubmitted)'
  BY NextInv, SizesCount
<1> QED
  BY <1>1, <1>2, PTL DEF Spec

\* Type correctness: _requestCount is the number of jobs in _jobMap, the jobs
\* tracked as incomplete or marked complete are in it, and no attempt count
\* passes the limit.
THEOREM DispatchTypes == Spec => []TypeOK
<1>1. IndInv => TypeOK
  BY DEF IndInv
<1> QED
  BY <1>1, DispatchInvariant, PTL

\* markCompleted() never throws its Bug: it meets no untracked job while the
\* query is not cancelled, in whatever order requests end and are retried.
THEOREM BugUnreachable == Spec => []NoBug
<1>1. IndInv => NoBug
  BY DEF IndInv
<1> QED
  BY <1>1, DispatchInvariant, PTL

\* The retry in _errorFinish() only ever keeps its own request alive.
THEOREM KeepAliveIsSelf == Spec => []KeepsItself
<1>1. IndInv => KeepsItself
  BY DEF IndInv
<1> QED
  BY <1>1, DispatchInvariant, PTL

\* A retried chunk query leaves the rows of one attempt: those of every earlier
\* attempt were scrubbed before the next attempt was handed to SSI.
THEOREM RowsOnce == Spec => []NoDuplicateRows
<1>1. IndInv => NoDuplicateRows
  <2> SUFFICES ASSUME IndInv, NEW q \in flushed \ scrubbed, NEW r \in flushed \ scrubbed, q[1] = r[1]
               PROVE  q = r
    BY DEF NoDuplicateRows
  <2>1. TypeOK /\ RowsOK /\ q \in Reqs /\ r \in Reqs
    BY DEF IndInv, TypeOK
  <2>2. /\ q[2] \in Nat /\ r[2] \in Nat /\ attempt[q[1]] \in Nat
        /\ q = <<q[1], q[2]>> /\ r = <<r[1], r[2]>>
    BY <2>1, MaxAttemptsNat DEF TypeOK, Reqs
  <2>3. /\ ~(q[2] + 1 < attempt[q[1]]) /\ ~(r[2] + 1 < attempt[r[1]])
        /\ q[2] < attempt[q[1]] /\ r[2] < attempt[r[1]]
    BY <2>1 DEF RowsOK, Started
  <2>4. q[2] = r[2]
    BY <2>2, <2>3
  <2> QED
    BY <2>2, <2>4
<1> QED
  BY <1>1, DispatchInvariant, PTL

\* When join() reports success each job it counted has the whole result of an
\* attempt in the table, and that attempt was never given up: a scrubbed one
\* has ended and will never be merged.
THEOREM SuccessIsMerged == Spec => []JoinedJobsMerged
<1>1. IndInv => JoinedJobsMerged
  <2> SUFFICES ASSUME IndInv, joined, NEW j \in jobMap
               PROVE  \E r \in merged \ scrubbed : r[1] = j
    BY DEF JoinedJobsMerged
  <2>1. PICK r \in merged : r[1] = j
    BY DEF IndInv, MainOK
  <2>2. r \notin scrubbed
    BY DEF IndInv, RowsOK, Doomed
  <2> QED
    BY <2>1, <2>2
<1> QED
  BY <1>1, DispatchInvariant, PTL

\* No job is forgotten: while the query is not cancelled a job join() waits for
\* has an active request, or a call that will start, retry or mark it.
THEOREM TrackedJobsKept == Spec => []TrackedJobsAlive
<1>1. IndInv => TrackedJobsAlive
  <2> SUFFICES ASSUME IndInv, ~cancelled, NEW j \in incomplete
               PROVE  \/ request[j] # NoReq /\ Active(request[j])
                      \/ \E t \in Threads : HoldsJob(t, j)
    BY DEF TrackedJobsAlive
  <2>1. Attended(j) /\ StartsOK /\ Shape
    BY StackParts DEF IndInv, TrackOK
  <2>2. ASSUME NEW r \in Reqs, r[1] = j, Active(r) PROVE request[j] # NoReq /\ Active(request[j])
    <3>1. request[j] = r
      BY <2>1, <2>2 DEF StartsOK
    <3>2. r # NoReq
      <4>1. PICK k \in Jobs, n \in 0..MaxAttempts : r = <<k, n>>
        BY DEF Reqs
      <4>2. <<k, n>> # <<>>
        OBVIOUS
      <4> QED
        BY <4>1, <4>2 DEF NoReq
    <3> QED
      BY <2>2, <3>1, <3>2
  <2>3. ASSUME NEW t \in Threads, stack[t] # <<>>, Top(t).j = j,
               Top(t).at \notin {"ask", "wait", "wait.drop", "stuck"}
        PROVE  HoldsJob(t, j)
    <3>1. stack[t] \in Seq(FrameType)
      BY <2>1 DEF Shape, Typed
    <3>2. Top(t) = stack[t][1] /\ 1 \in DOMAIN stack[t]
      BY <2>3, <3>1 DEF Top
    <3> QED
      BY <2>3, <3>2 DEF HoldsJob, Frames
  <2>4. ASSUME NEW t \in Threads, Finishes(t, j) \/ (In(t, {"squash"}) /\ Top(t).j = j) PROVE HoldsJob(t, j)
    <3>1. /\ stack[t] # <<>> /\ Top(t).j = j
          /\ Top(t).at \notin {"ask", "wait", "wait.drop", "stuck"}
      BY <2>4 DEF Finishes, In, MarkLabels
    <3> QED
      BY <2>3, <3>1
  <2> QED
    BY <2>1, <2>2, <2>4 DEF Attended
<1> QED
  BY <1>1, DispatchInvariant, PTL
=============================================================================
