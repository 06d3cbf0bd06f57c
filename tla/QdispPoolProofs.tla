-------------------------- MODULE QdispPoolProofs ---------------------------
(***************************************************************************)
(* IndInv is an inductive invariant of the czar's pool, for any number of  *)
(* threads, commands and priorities; that a pool that was shut down has    *)
(* run every command follows from it.                                      *)
(***************************************************************************)
EXTENDS QdispPool, FiniteSetTheorems, SequenceTheorems, WellFoundedInduction, TLAPS

USE PrioritiesFinite, LimitsFit, ThreadsFinite, Distinct

\* A set of priorities has a least and a greatest element: of the subsets
\* {q \in S : q =< p}, and of the subsets {q \in S : q >= p}, one is minimal.
LEMMA MinOfPriorities ==
    ASSUME NEW S \in SUBSET Priorities, S # {}
    PROVE  Min(S) \in S /\ \A q \in S : Min(S) =< q
<1> DEFINE Below(p) == {q \in S : q =< p}
           T == {Below(p) : p \in S}
<1>1. T # {} /\ T \subseteq FiniteSubsetsOf(S)
  <2>1. IsFiniteSet(S) BY ZenonT(30), FS_Subset
  <2>2. \A p \in S : Below(p) \subseteq S /\ IsFiniteSet(Below(p)) BY <2>1, FS_Subset
  <2> HIDE DEF Below
  <2>3. T # {} OBVIOUS
  <2>4. T \subseteq FiniteSubsetsOf(S) BY <2>2 DEF FiniteSubsetsOf
  <2> QED BY <2>3, <2>4
<1>2. PICK X \in T : \A Y \in T : ~(<<Y, X>> \in StrictSubsetOrdering(S))
  <2> HIDE DEF T
  <2> QED BY <1>1, WFMin, FS_StrictSubsetOrderingWellFounded
<1>3. PICK x \in S : X = Below(x) OBVIOUS
<1>4. ASSUME NEW y \in S PROVE x =< y
  <2>1. ~(Below(y) \subseteq Below(x) /\ Below(y) # Below(x))
    <3>1. <<Below(y), Below(x)>> \in StrictSubsetOrdering(S) <=> Below(y) \subseteq Below(x) /\ Below(y) # Below(x)
      BY ZenonT(30) DEF StrictSubsetOrdering
    <3> QED BY ZenonT(30), <1>2, <1>3, <3>1
  <2>2. SUFFICES ASSUME ~(x =< y) PROVE FALSE OBVIOUS
  <2>3. S \subseteq Nat OBVIOUS
  <2>4. \A q \in S : q \in Below(y) => q \in Below(x) BY <2>2, <2>3
  <2>5. x \in Below(x) /\ x \notin Below(y) BY <2>2, <2>3
  <2> QED BY ZenonT(30), <2>1, <2>4, <2>5
<1> QED BY ZenonT(30), <1>4 DEF Min

\* The default queue is the one of the lowest urgency.
LEMMA DefaultIsLast == Default \in Priorities /\ \A q \in Priorities : q =< Default
<1> DEFINE Above(p) == {q \in Priorities : q >= p}
           T == {Above(p) : p \in Priorities}
<1>1. T # {} /\ T \subseteq FiniteSubsetsOf(Priorities)
  <2>1. IsFiniteSet(Priorities) BY FS_Subset
  <2>2. \A p \in Priorities : Above(p) \subseteq Priorities /\ IsFiniteSet(Above(p)) BY <2>1, FS_Subset
  <2> HIDE DEF Above
  <2>3. T # {} OBVIOUS
  <2>4. T \subseteq FiniteSubsetsOf(Priorities) BY <2>2 DEF FiniteSubsetsOf
  <2> QED BY <2>3, <2>4
<1>2. PICK X \in T : \A Y \in T : ~(<<Y, X>> \in StrictSubsetOrdering(Priorities))
  <2> HIDE DEF T
  <2> QED BY <1>1, WFMin, FS_StrictSubsetOrderingWellFounded
<1>3. PICK x \in Priorities : X = Above(x) OBVIOUS
<1>4. ASSUME NEW y \in Priorities PROVE y =< x
  <2>1. ~(Above(y) \subseteq Above(x) /\ Above(y) # Above(x))
    <3>1. <<Above(y), Above(x)>> \in StrictSubsetOrdering(Priorities) <=> Above(y) \subseteq Above(x) /\ Above(y) # Above(x)
      BY DEF StrictSubsetOrdering
    <3> QED BY ZenonT(30), <1>2, <1>3, <3>1
  <2>2. SUFFICES ASSUME ~(y =< x) PROVE FALSE OBVIOUS
  <2>3. Priorities \subseteq Nat OBVIOUS
  <2>4. \A q \in Priorities : q \in Above(y) => q \in Above(x) BY <2>2, <2>3
  <2>5. x \in Above(x) /\ x \notin Above(y) BY <2>2, <2>3
  <2> QED BY ZenonT(30), <2>1, <2>4, <2>5
<1> QED BY ZenonT(30), <1>4 DEF Default

LEMMA AppendElements ==
    ASSUME NEW S, NEW q \in Seq(S), NEW x \in S
    PROVE  /\ Append(q, x) \in Seq(S) /\ Len(Append(q, x)) = Len(q) + 1 /\ Len(q) \in Nat
           /\ \A i \in 1..Len(q) : Append(q, x)[i] = q[i]
           /\ Append(q, x)[Len(q) + 1] = x
BY AppendProperties, LenProperties

LEMMA TailElements ==
    ASSUME NEW S, NEW q \in Seq(S), q # <<>>
    PROVE  /\ Head(q) \in S /\ Head(q) = q[1] /\ Len(q) \in Nat \ {0}
           /\ Tail(q) \in Seq(S) /\ Len(Tail(q)) = Len(q) - 1
           /\ \A i \in 1..(Len(q) - 1) : Tail(q)[i] = q[i + 1]
<1>1. Len(q) \in Nat \ {0} BY LenProperties, EmptySeq
<1> QED BY <1>1, HeadTailProperties

\* A thread more, or one less, runs a command of a queue.
LEMMA ThreadCount ==
    ASSUME NEW S \in SUBSET Threads, NEW t \in Threads
    PROVE  /\ IsFiniteSet(S) /\ Cardinality(S) \in Nat
           /\ t \notin S => Cardinality(S \cup {t}) = Cardinality(S) + 1
           /\ t \in S => Cardinality(S \ {t}) = Cardinality(S) - 1
           /\ S = {} <=> Cardinality(S) = 0
<1>1. IsFiniteSet(S) BY FS_Subset
<1> QED BY ZenonT(30), <1>1, FS_CardinalityType, FS_AddElement, FS_RemoveElement, FS_EmptySet

LEMMA InitIndInv == Init => IndInv
<1> SUFFICES ASSUME Init PROVE IndInv OBVIOUS
<1> USE DEF Init
<1>0. \A c : ~Queued(c) BY DEF Queued
<1>1. TypeOK BY ZenonT(30), EmptySeq DEF TypeOK
<1>2. RunningIsCounted
  <2>1. \A p \in Priorities : Runners(p) = {} BY DEF Runners
  <2> QED BY ZenonT(30), <2>1, FS_EmptySet DEF RunningIsCounted
<1>3. NothingLost BY <1>0 DEF NothingLost
<1>4. EndsLast BY <1>0 DEF EndsLast, Ordered, End, NoCmd
<1>5. WorkerLeft BY <1>0 DEF WorkerLeft
<1> QED BY <1>1, <1>2, <1>3, <1>4, <1>5 DEF IndInv

\* What queCmd() and getCmd() do to the queues.
LEMMA AppendQueued ==
    ASSUME TypeOK, NEW p \in Priorities, NEW x \in Cmds \cup {End},
           queues' = [queues EXCEPT ![p] = Append(@, x)]
    PROVE  /\ queues' \in [Priorities -> Seq(Cmds \cup {End})]
           /\ \A c : Queued(c)' <=> Queued(c) \/ c = x
<1>0. \A q \in Priorities : Len(queues[q]) \in Nat BY LenProperties DEF TypeOK
<1>1. /\ Append(queues[p], x) \in Seq(Cmds \cup {End})
      /\ Len(Append(queues[p], x)) = Len(queues[p]) + 1
      /\ \A i \in 1..Len(queues[p]) : Append(queues[p], x)[i] = queues[p][i]
      /\ Append(queues[p], x)[Len(queues[p]) + 1] = x
  BY AppendElements DEF TypeOK
<1>2. queues' \in [Priorities -> Seq(Cmds \cup {End})] BY <1>1 DEF TypeOK
<1>3. /\ queues'[p] = Append(queues[p], x)
      /\ \A q \in Priorities : q # p => queues'[q] = queues[q]
  BY DEF TypeOK
<1>4. ASSUME NEW c PROVE Queued(c)' <=> Queued(c) \/ c = x
  <2>1. Queued(c)' => Queued(c) \/ c = x
    <3>1. SUFFICES ASSUME NEW q \in Priorities, NEW i \in 1..Len(queues'[q]), queues'[q][i] = c, c # x
                   PROVE  Queued(c)
      BY DEF Queued
    <3>2. i \in 1..Len(queues[q]) /\ queues[q][i] = c BY <1>0, <1>1, <1>3, <3>1
    <3> QED BY <3>2 DEF Queued
  <2>2. Queued(c) => Queued(c)'
    <3>1. SUFFICES ASSUME NEW q \in Priorities, NEW i \in 1..Len(queues[q]), queues[q][i] = c
                   PROVE  Queued(c)'
      BY DEF Queued
    <3>2. i \in 1..Len(queues'[q]) /\ queues'[q][i] = c BY <1>0, <1>1, <1>3, <3>1
    <3> QED BY <3>2 DEF Queued
  <2>3. Queued(x)'
    <3>1. Len(queues[p]) + 1 \in 1..Len(queues'[p]) BY <1>0, <1>1, <1>3
    <3> QED BY <1>1, <1>3, <3>1 DEF Queued
  <2> QED BY <2>1, <2>2, <2>3
<1> QED BY <1>2, <1>4

LEMMA TailQueued ==
    ASSUME TypeOK, NEW p \in Priorities, queues[p] # <<>>,
           queues' = [queues EXCEPT ![p] = Tail(@)]
    PROVE  /\ queues' \in [Priorities -> Seq(Cmds \cup {End})]
           /\ Head(queues[p]) \in Cmds \cup {End} /\ Queued(Head(queues[p]))
           /\ \A c : Queued(c)' => Queued(c)
           /\ \A c : Queued(c) => Queued(c)' \/ c = Head(queues[p])
<1>0. \A q \in Priorities : Len(queues[q]) \in Nat BY LenProperties DEF TypeOK
<1>1. /\ Tail(queues[p]) \in Seq(Cmds \cup {End}) /\ Head(queues[p]) \in Cmds \cup {End}
      /\ Len(Tail(queues[p])) = Len(queues[p]) - 1 /\ Len(queues[p]) # 0
      /\ \A i \in 1..(Len(queues[p]) - 1) : Tail(queues[p])[i] = queues[p][i + 1]
      /\ Head(queues[p]) = queues[p][1]
  BY TailElements DEF TypeOK
<1>2. queues' \in [Priorities -> Seq(Cmds \cup {End})] BY <1>1 DEF TypeOK
<1>3. /\ queues'[p] = Tail(queues[p])
      /\ \A q \in Priorities : q # p => queues'[q] = queues[q]
  BY DEF TypeOK
<1>4. ASSUME NEW c, Queued(c)' PROVE Queued(c)
  <2>1. PICK q \in Priorities : \E i \in 1..Len(queues'[q]) : queues'[q][i] = c BY ZenonT(30), <1>4 DEF Queued
  <2> PICK i \in 1..Len(queues'[q]) : queues'[q][i] = c BY SMTT(30), <2>1
  <2>2. CASE q = p
    <3>1. i \in 1..(Len(queues[p]) - 1) BY ZenonT(30), <1>1, <1>3, <2>2
    <3>2. queues[p][i + 1] = c BY ZenonT(30), <1>1, <1>3, <2>2, <3>1
    <3>3. i + 1 \in 1..Len(queues[p]) BY <1>0, <3>1
    <3> QED BY <3>2, <3>3 DEF Queued
  <2>3. CASE q # p BY <1>3, <2>1, <2>3 DEF Queued
  <2> QED BY <2>2, <2>3
<1>5. ASSUME NEW c, Queued(c), c # Head(queues[p]) PROVE Queued(c)'
  <2>1. PICK q \in Priorities : \E i \in 1..Len(queues[q]) : queues[q][i] = c BY <1>5 DEF Queued
  <2> PICK i \in 1..Len(queues[q]) : queues[q][i] = c BY <2>1
  <2>2. CASE q = p
    <3>1. i # 1 BY <1>1, <1>5, <2>1, <2>2
    <3>2. i - 1 \in 1..(Len(queues[p]) - 1) /\ (i - 1) + 1 = i BY <1>0, <2>2, <3>1
    <3>3. queues'[p][i - 1] = c BY ZenonT(30), <1>1, <1>3, <2>2, <3>2
    <3>4. i - 1 \in 1..Len(queues'[p]) BY <1>1, <1>3, <3>2
    <3> QED BY ZenonT(30), <3>3, <3>4 DEF Queued
  <2>3. CASE q # p BY <1>3, <2>1, <2>3 DEF Queued
  <2> QED BY <2>2, <2>3
<1>6. Queued(Head(queues[p]))
  <2>1. 1 \in 1..Len(queues[p]) BY <1>0, <1>1
  <2> QED BY <1>1, <2>1 DEF Queued
<1> QED BY <1>1, <1>2, <1>4, <1>5, <1>6

LEMMA AppendOrdered ==
    ASSUME TypeOK, Ordered(queues), NEW p \in Priorities, NEW x \in Cmds \cup {End},
           queues' = [queues EXCEPT ![p] = Append(@, x)],
           x = End => p = Default, x # End => ~Queued(End)
    PROVE  Ordered(queues')
<1>0. \A q \in Priorities : Len(queues[q]) \in Nat BY LenProperties DEF TypeOK
<1>1. /\ Len(Append(queues[p], x)) = Len(queues[p]) + 1
      /\ \A i \in 1..Len(queues[p]) : Append(queues[p], x)[i] = queues[p][i]
      /\ Append(queues[p], x)[Len(queues[p]) + 1] = x
  BY AppendElements DEF TypeOK
<1>3. /\ queues'[p] = Append(queues[p], x)
      /\ \A q \in Priorities : q # p => queues'[q] = queues[q]
  BY DEF TypeOK
<1>4. SUFFICES ASSUME NEW q \in Priorities, NEW i \in 1..Len(queues'[q]), queues'[q][i] = End
               PROVE  q = Default /\ \A j \in i..Len(queues'[q]) : queues'[q][j] = End
  BY DEF Ordered
<1>5. CASE q # p BY <1>3, <1>4, <1>5 DEF Ordered
<1>6. CASE q = p /\ i = Len(queues[p]) + 1 BY <1>0, <1>1, <1>3, <1>4, <1>6
<1>7. CASE q = p /\ i # Len(queues[p]) + 1
  <2>1. i \in 1..Len(queues[p]) /\ queues[p][i] = End BY <1>0, <1>1, <1>3, <1>4, <1>7
  <2>2. x = End BY <2>1 DEF Queued
  <2>3. p = Default /\ \A j \in i..Len(queues[p]) : queues[p][j] = End BY <2>1 DEF Ordered
  <2>4. ASSUME NEW j \in i..Len(queues'[p]) PROVE queues'[p][j] = End
    <3>1. CASE j = Len(queues[p]) + 1 BY <1>1, <1>3, <2>2, <3>1
    <3>2. CASE j # Len(queues[p]) + 1
      <4>1. j \in i..Len(queues[p]) /\ j \in 1..Len(queues[p]) BY <1>0, <1>1, <1>3, <2>1, <3>2
      <4> QED BY <1>1, <1>3, <2>3, <4>1
    <3> QED BY <3>1, <3>2
  <2> QED BY <1>7, <2>3, <2>4
<1> QED BY <1>5, <1>6, <1>7

LEMMA TailOrdered ==
    ASSUME TypeOK, Ordered(queues), NEW p \in Priorities, queues[p] # <<>>,
           queues' = [queues EXCEPT ![p] = Tail(@)]
    PROVE  /\ Ordered(queues')
           /\ Head(queues[p]) = End =>
                 p = Default /\ \A i \in 1..Len(queues'[p]) : queues'[p][i] = End
<1>0. \A q \in Priorities : Len(queues[q]) \in Nat BY LenProperties DEF TypeOK
<1>1. /\ Len(Tail(queues[p])) = Len(queues[p]) - 1 /\ Len(queues[p]) # 0
      /\ \A i \in 1..(Len(queues[p]) - 1) : Tail(queues[p])[i] = queues[p][i + 1]
      /\ Head(queues[p]) = queues[p][1]
  BY TailElements DEF TypeOK
<1>3. /\ queues'[p] = Tail(queues[p])
      /\ \A q \in Priorities : q # p => queues'[q] = queues[q]
  BY DEF TypeOK
<1>4. \A i \in 1..Len(queues'[p]) : i + 1 \in 1..Len(queues[p]) /\ queues'[p][i] = queues[p][i + 1]
  <2>1. Len(queues'[p]) = Len(queues[p]) - 1 BY ZenonT(30), <1>1, <1>3
  <2>2. \A i \in 1..(Len(queues[p]) - 1) : i + 1 \in 1..Len(queues[p]) BY <1>0
  <2> QED BY <1>1, <1>3, <2>1, <2>2
<1>5. ASSUME NEW q \in Priorities, NEW i \in 1..Len(queues'[q]), queues'[q][i] = End
      PROVE  q = Default /\ \A j \in i..Len(queues'[q]) : queues'[q][j] = End
  <2>1. CASE q # p BY <1>3, <1>5, <2>1 DEF Ordered
  <2>2. CASE q = p
    <3>1. i + 1 \in 1..Len(queues[p]) /\ queues[p][i + 1] = End BY <1>4, <1>5, <2>2
    <3>2. p = Default /\ \A j \in (i + 1)..Len(queues[p]) : queues[p][j] = End BY <3>1 DEF Ordered
    <3>3. ASSUME NEW j \in i..Len(queues'[p]) PROVE queues'[p][j] = End
      <4>0. Len(queues'[p]) = Len(queues[p]) - 1 BY ZenonT(30), <1>1, <1>3
      <4>1. i \in 1..Len(queues'[p]) BY <2>2
      <4>2. j \in 1..Len(queues'[p]) /\ j + 1 \in (i + 1)..Len(queues[p]) BY <1>0, <4>0, <4>1
      <4> QED BY ZenonT(30), <1>4, <3>2, <4>2
    <3> QED BY <2>2, <3>2, <3>3
  <2> QED BY <2>1, <2>2
<1>6. ASSUME Head(queues[p]) = End
      PROVE  p = Default /\ \A i \in 1..Len(queues'[p]) : queues'[p][i] = End
  <2>1. 1 \in 1..Len(queues[p]) /\ queues[p][1] = End BY <1>0, <1>1, <1>6
  <2>2. p = Default /\ \A j \in 1..Len(queues[p]) : queues[p][j] = End BY <2>1 DEF Ordered
  <2> QED BY <1>4, <2>2
<1> QED BY <1>5, <1>6 DEF Ordered

\* A step that starts and ends no command leaves the counts alone.
LEMMA SameRunners ==
    ASSUME IndInv, UNCHANGED running,
           \A t \in Threads : /\ at[t] = "run" <=> at'[t] = "run"
                              /\ at[t] = "run" => cmd'[t] = cmd[t],
           \A c \in Cmds : priority[c] # Unqueued => priority'[c] = priority[c]
    PROVE  RunningIsCounted'
<1>1. ASSUME NEW p \in Priorities PROVE Runners(p)' = Runners(p)
  <2>1. ASSUME NEW t \in Threads, at[t] = "run" PROVE Counted(cmd[t])' = Counted(cmd[t])
    <3>1. cmd[t] = End \/ cmd[t] \in Cmds
      BY <2>1 DEF IndInv, TypeOK
    <3>2. CASE cmd[t] = End BY <2>1, <3>2 DEF Counted
    <3>3. CASE cmd[t] \in Cmds
      <4>1. priority[cmd[t]] # Unqueued BY <3>3 DEF IndInv, NothingLost
      <4> QED BY <2>1, <3>3, <4>1 DEF Counted
    <3> QED BY <3>1, <3>2, <3>3
  <2> QED BY <2>1 DEF Runners
<1> QED BY <1>1 DEF IndInv, RunningIsCounted

LEMMA NotifyType ==
    ASSUME NEW at1 \in [Threads -> {"get", "wait", "woken", "start", "run", "release", "ended"}]
    PROVE  /\ Notify(at1) \in [Threads -> {"get", "wait", "woken", "start", "run", "release", "ended"}]
           /\ \A t \in Threads : \A x \in {"start", "run", "release", "ended"} :
                 Notify(at1)[t] = x <=> at1[t] = x
BY DEF Notify

LEMMA QueCmdIndInv ==
    ASSUME IndInv, NEW c \in Cmds, NEW p \in Asked, QueCmd(c, p)
    PROVE  IndInv'
<1> USE DEF IndInv, QueCmd
<1>0. QueueFor(p) \in Priorities BY DefaultIsLast DEF QueueFor
<1>1. /\ queues' \in [Priorities -> Seq(Cmds \cup {End})]
      /\ \A d : Queued(d)' <=> Queued(d) \/ d = c
  BY ZenonT(30), <1>0, AppendQueued
<1>2. c # End BY DEF End
<1>3. Ordered(queues') BY ZenonT(30), <1>0, <1>2, AppendOrdered DEF EndsLast
<1>4. /\ at' \in [Threads -> {"get", "wait", "woken", "start", "run", "release", "ended"}]
      /\ \A t \in Threads : \A x \in {"start", "run", "release", "ended"} : at'[t] = x <=> at[t] = x
  BY NotifyType DEF TypeOK
<1>5. TypeOK' BY <1>1, <1>4 DEF TypeOK
<1>6. RunningIsCounted' BY <1>4, SameRunners DEF TypeOK
<1>7. NothingLost' BY <1>1, <1>2 DEF NothingLost, TypeOK
<1>8. EndsLast' BY <1>1, <1>2, <1>3, <1>4 DEF EndsLast
<1>9. WorkerLeft' BY <1>4 DEF WorkerLeft, EndsLast
<1> QED BY <1>4, <1>5, <1>6, <1>7, <1>8, <1>9

LEMMA ShutdownIndInv ==
    ASSUME IndInv, ShutdownPool
    PROVE  IndInv'
<1> USE DEF IndInv, ShutdownPool, QueEnd
<1>1. /\ queues' \in [Priorities -> Seq(Cmds \cup {End})]
      /\ \A d : Queued(d)' <=> Queued(d) \/ d = End
  BY ZenonT(30), DefaultIsLast, AppendQueued
<1>3. Ordered(queues') BY ZenonT(30), DefaultIsLast, AppendOrdered DEF EndsLast
<1>4. /\ at' \in [Threads -> {"get", "wait", "woken", "start", "run", "release", "ended"}]
      /\ \A t \in Threads : \A x \in {"start", "run", "release", "ended"} : at'[t] = x <=> at[t] = x
  BY NotifyType DEF TypeOK
<1>5. TypeOK' BY <1>1, <1>4 DEF TypeOK
<1>6. RunningIsCounted' BY <1>4, SameRunners DEF TypeOK
<1>7. NothingLost' BY <1>1 DEF NothingLost, TypeOK
<1>8. EndsLast' BY <1>3 DEF EndsLast
<1>9. WorkerLeft' BY <1>4 DEF WorkerLeft, EndsLast
<1> QED BY <1>4, <1>5, <1>6, <1>7, <1>8, <1>9

\* A thread that waits, or goes back to sleep.
LEMMA WaitIndInv ==
    ASSUME IndInv, NEW t \in Threads, at[t] \in {"get", "woken"},
           at' = [at EXCEPT ![t] = "wait"], changed' \in BOOLEAN,
           UNCHANGED <<queues, running, shuttingDown, priority, cmd, done>>
    PROVE  IndInv'
<1> USE DEF IndInv
<1>1. TypeOK'
  <2>1. at' \in [Threads -> {"get", "wait", "woken", "start", "run", "release", "ended"}] BY DEF TypeOK
  <2> QED BY <2>1, Zenon DEF TypeOK
<1>2. RunningIsCounted'
  <2>1. \A u \in Threads : at[u] = "run" <=> at'[u] = "run" BY DEF TypeOK
  <2> QED BY <2>1, SameRunners
<1>3. NothingLost'
  <2>1. \A c : Queued(c)' <=> Queued(c) BY DEF Queued
  <2> QED BY <2>1, Zenon DEF NothingLost
<1>4. EndsLast' BY DEF EndsLast, Queued, TypeOK
<1>5. WorkerLeft' BY DEF WorkerLeft, Queued, TypeOK
<1> QED BY <1>1, <1>2, <1>3, <1>4, <1>5 DEF TypeOK

\* The queue a thread takes from.  With MsgEnd it is the default queue, and every
\* other queue with a command is at its limit.
LEMMA ChosenQueue ==
    ASSUME TypeOK, Starved \cup Open # {}
    PROVE  LET p == IF Starved # {} THEN Min(Starved) ELSE Min(Open) IN
           /\ p \in Priorities /\ queues[p] # <<>>
           /\ shuttingDown /\ p = Default =>
                 \A q \in Priorities : q # p /\ queues[q] # <<>> => running[q] >= MaxRunning[q]
<1>1. Starved \in SUBSET Priorities /\ Open \in SUBSET Priorities BY DEF Starved, Open
<1>2. CASE Starved # {}
  <2>1. Min(Starved) \in Starved BY <1>1, <1>2, MinOfPriorities
  <2> QED BY <1>2, <2>1 DEF Starved
<1>3. CASE Starved = {}
  <2>1. Min(Open) \in Open /\ \A q \in Open : Min(Open) =< q BY <1>1, <1>3, MinOfPriorities
  <2>2. ASSUME NEW q \in Priorities, Min(Open) = Default, q # Default, q \in Open PROVE FALSE
    <3>1. Default =< q /\ q =< Default BY <2>1, <2>2, DefaultIsLast
    <3> QED BY <2>2, <3>1, DefaultIsLast
  <2>3. ASSUME NEW q \in Priorities, Min(Open) = Default, q # Default, queues[q] # <<>>
        PROVE  running[q] >= MaxRunning[q]
    <3>1. q \notin Open BY <2>2, <2>3
    <3> QED BY <2>3, <3>1 DEF Open, TypeOK
  <2> QED BY ZenonT(30), <1>3, <2>1, <2>3 DEF Open
<1> QED BY <1>2, <1>3

LEMMA TakeIndInv ==
    ASSUME IndInv, NEW t \in Threads, NEW p \in Priorities, queues[p] # <<>>,
           at[t] \in {"get", "woken"},
           shuttingDown /\ p = Default =>
               \A q \in Priorities : q # p /\ queues[q] # <<>> => running[q] >= MaxRunning[q],
           cmd' = [cmd EXCEPT ![t] = Head(queues[p])],
           queues' = [queues EXCEPT ![p] = Tail(@)],
           at' = [at EXCEPT ![t] = "start"], changed' = FALSE,
           UNCHANGED <<running, shuttingDown, priority, done>>
    PROVE  IndInv'
<1> DEFINE h == Head(queues[p])
<1> USE DEF IndInv
<1>1. /\ queues' \in [Priorities -> Seq(Cmds \cup {End})]
      /\ h \in Cmds \cup {End} /\ Queued(h)
      /\ \A c : Queued(c)' => Queued(c)
      /\ \A c : Queued(c) => Queued(c)' \/ c = h
  BY ZenonT(30), TailQueued
<1>2. /\ Ordered(queues')
      /\ h = End => p = Default /\ \A i \in 1..Len(queues'[p]) : queues'[p][i] = End
  BY ZenonT(30), TailOrdered DEF EndsLast
<1> HIDE DEF h
<1> USE DEF h
<1>3. h # NoCmd BY <1>1 DEF End, NoCmd
<1>4. TypeOK' BY ZenonT(30), <1>1 DEF TypeOK
<1>5. RunningIsCounted' BY ZenonT(30), SameRunners DEF TypeOK
<1>6. NothingLost'
  <2>1. cmd[t] = NoCmd /\ cmd'[t] = h /\ \A u \in Threads : u # t => cmd'[u] = cmd[u]
    BY SMTT(30) DEF TypeOK
  <2> SUFFICES ASSUME NEW c \in Cmds
               PROVE  /\ Queued(c)' \/ (\E u \in Threads : cmd'[u] = c) => priority'[c] # Unqueued
                      /\ priority'[c] # Unqueued =>
                            c \in done' \/ Queued(c)' \/ \E u \in Threads : cmd'[u] = c
    BY SMTT(30) DEF NothingLost
  <2>2. (\E u \in Threads : cmd'[u] = c) => Queued(c) \/ \E u \in Threads : cmd[u] = c
    BY <1>1, <2>1
  <2>3. Queued(c) \/ (\E u \in Threads : cmd[u] = c) => Queued(c)' \/ \E u \in Threads : cmd'[u] = c
    BY <1>1, <2>1
  <2> QED BY <1>1, <2>2, <2>3 DEF NothingLost
<1>7. EndsLast'
  <2>1. ~shuttingDown => h # End BY <1>1 DEF EndsLast
  <2> QED BY <1>1, <1>2, <2>1 DEF EndsLast, TypeOK
<1>8. WorkerLeft'
  <2>1. CASE h # End BY <2>1 DEF WorkerLeft, TypeOK
  <2>2. CASE h = End
    <3>1. SUFFICES ASSUME NEW c \in Cmds, Queued(c)'
                   PROVE  \E u \in Threads : at'[u] \notin {"release", "ended"} /\ cmd'[u] # End
      BY DEF WorkerLeft
    <3>2. PICK q \in Priorities : \E i \in 1..Len(queues'[q]) : queues'[q][i] = c
      BY <3>1 DEF Queued
    <3>3. q # p BY ZenonT(30), <1>2, <2>2, <3>2 DEF End
    <3>4. queues[q] # <<>> BY <3>2, <3>3 DEF TypeOK
    <3>5. shuttingDown BY <1>1, <2>2 DEF EndsLast
    <3>6. p = Default BY <1>2, <2>2
    <3>7. running[q] >= MaxRunning[q] BY <3>3, <3>4, <3>5, <3>6
    <3>8. running[q] # 0 BY <3>7 DEF TypeOK
    <3>9. Runners(q) # {} BY ZenonT(30), <3>8, FS_EmptySet DEF RunningIsCounted
    <3>10. PICK u \in Threads : at[u] = "run" /\ q \in Counted(cmd[u]) BY <3>9 DEF Runners
    <3>11. cmd[u] # End BY <3>3, <3>6, <3>10 DEF Counted
    <3>12. u # t BY <3>10
    <3> QED BY ZenonT(30), <3>10, <3>11, <3>12 DEF TypeOK
  <2> QED BY <2>1, <2>2
<1> QED BY <1>3, <1>4, <1>5, <1>6, <1>7, <1>8 DEF TypeOK

LEMMA GetCmdIndInv ==
    ASSUME IndInv, NEW t \in Threads, GetCmd(t)
    PROVE  IndInv'
<1>1. CASE Starved \cup Open = {} /\ at' = [at EXCEPT ![t] = "wait"] /\ UNCHANGED <<cmd, queues>>
  BY ZenonT(30), <1>1, WaitIndInv DEF GetCmd
<1>2. CASE ~(Starved \cup Open = {})
  <2> DEFINE p == IF Starved # {} THEN Min(Starved) ELSE Min(Open)
  <2>1. /\ p \in Priorities /\ queues[p] # <<>>
        /\ shuttingDown /\ p = Default =>
              \A q \in Priorities : q # p /\ queues[q] # <<>> => running[q] >= MaxRunning[q]
    BY <1>2, ChosenQueue DEF IndInv
  <2>2. /\ cmd' = [cmd EXCEPT ![t] = Head(queues[p])]
        /\ queues' = [queues EXCEPT ![p] = Tail(@)]
        /\ at' = [at EXCEPT ![t] = "start"] /\ changed' = FALSE
        /\ at[t] \in {"get", "woken"}
        /\ UNCHANGED <<running, shuttingDown, priority, done>>
    BY <1>2 DEF GetCmd
  <2> HIDE DEF p
  <2> QED BY ZenonT(30), <2>1, <2>2, TakeIndInv
<1> QED BY <1>1, <1>2 DEF GetCmd

LEMMA StartIndInv ==
    ASSUME IndInv, NEW t \in Threads, CommandStart(t)
    PROVE  IndInv'
<1> USE DEF IndInv, CommandStart, IncrDecrRunningCount
<1>1. TypeOK' BY DEF TypeOK
<1>2. RunningIsCounted'
  <2> SUFFICES ASSUME NEW p \in Priorities PROVE running'[p] = Cardinality(Runners(p)')
    BY DEF RunningIsCounted
  <2>1. \A u \in Threads : Counted(cmd[u])' = Counted(cmd[u]) BY DEF Counted
  <2>2. t \notin Runners(p) /\ Runners(p) \in SUBSET Threads BY DEF Runners
  <2>3. CASE p \in Counted(cmd[t])
    <3>1. Runners(p)' = Runners(p) \cup {t} BY <2>1, <2>3 DEF Runners, TypeOK
    <3>2. Cardinality(Runners(p)') = Cardinality(Runners(p)) + 1 BY <2>2, <3>1, ThreadCount
    <3> QED BY <2>3, <3>2 DEF RunningIsCounted, TypeOK
  <2>4. CASE p \notin Counted(cmd[t])
    <3>1. Runners(p)' = Runners(p) BY <2>1, <2>4 DEF Runners, TypeOK
    <3> QED BY <2>4, <3>1 DEF RunningIsCounted, TypeOK
  <2> QED BY <2>3, <2>4
<1>3. NothingLost'
  <2>1. \A c : Queued(c)' <=> Queued(c) BY DEF Queued
  <2> QED BY <2>1, Zenon DEF NothingLost
<1>4. EndsLast' BY DEF EndsLast, Queued, TypeOK
<1>5. WorkerLeft' BY DEF WorkerLeft, Queued, TypeOK
<1> QED BY <1>1, <1>2, <1>3, <1>4, <1>5 DEF TypeOK

\* commandFinish() takes away what commandStart() added to the same queue.
LEMMA FinishedRunners ==
    ASSUME IndInv, NEW t \in Threads, at[t] = "run", NEW a \in {"get", "release"},
           IncrDecrRunningCount(cmd[t], -1),
           at' = [at EXCEPT ![t] = a], cmd' = [cmd EXCEPT ![t] = NoCmd], UNCHANGED priority
    PROVE  running' \in [Priorities -> Nat] /\ RunningIsCounted'
<1> USE DEF IndInv, IncrDecrRunningCount
<1>1. ASSUME NEW p \in Priorities PROVE running'[p] \in Nat /\ running'[p] = Cardinality(Runners(p)')
  <2>1. \A u \in Threads : u # t => Counted(cmd[u])' = Counted(cmd[u]) BY DEF Counted, TypeOK
  <2>2. Runners(p) \in SUBSET Threads /\ (t \in Runners(p) <=> p \in Counted(cmd[t]))
    BY DEF Runners
  <2>3. Runners(p)' = Runners(p) \ {t} BY <2>1 DEF Runners, TypeOK
  <2>4. /\ Cardinality(Runners(p)) \in Nat /\ Runners(p) \ {t} \in SUBSET Threads
        /\ t \in Runners(p) => Cardinality(Runners(p) \ {t}) = Cardinality(Runners(p)) - 1
    BY ZenonT(30), <2>2, ThreadCount
  <2>5. Cardinality(Runners(p) \ {t}) \in Nat BY ZenonT(30), <2>4, ThreadCount
  <2>6. t \notin Runners(p) => Runners(p) \ {t} = Runners(p) OBVIOUS
  <2> QED BY ZenonT(30), <2>2, <2>3, <2>4, <2>5, <2>6 DEF RunningIsCounted, TypeOK
<1> QED BY <1>1 DEF RunningIsCounted

LEMMA FinishIndInv ==
    ASSUME IndInv, NEW t \in Threads, CommandFinish(t)
    PROVE  IndInv'
<1> USE DEF IndInv, CommandFinish
<1>0. cmd[t] \in Cmds BY DEF TypeOK
<1>1. running' \in [Priorities -> Nat] /\ RunningIsCounted' BY ZenonT(30), FinishedRunners
<1>2. TypeOK' BY <1>0, <1>1, SMTT(30) DEF TypeOK
<1>3. NothingLost'
  <2>1. \A c : Queued(c)' <=> Queued(c) BY DEF Queued
  <2>2. cmd'[t] = NoCmd /\ \A u \in Threads : u # t => cmd'[u] = cmd[u] BY DEF TypeOK
  <2>3. \A c \in Cmds : (\E u \in Threads : cmd'[u] = c) => \E u \in Threads : cmd[u] = c BY <2>2
  <2>4. \A c \in Cmds : (\E u \in Threads : cmd[u] = c) => c = cmd[t] \/ \E u \in Threads : cmd'[u] = c
    BY <2>2
  <2> QED BY <1>0, <2>1, <2>3, <2>4 DEF NothingLost
<1>4. EndsLast' BY DEF EndsLast, Queued, TypeOK, End, NoCmd
<1>5. WorkerLeft' BY SMTT(30) DEF WorkerLeft, Queued, TypeOK, End, NoCmd
<1> QED BY <1>1, <1>2, <1>3, <1>4, <1>5 DEF TypeOK

LEMMA EndFinishIndInv ==
    ASSUME IndInv, NEW t \in Threads, EndFinish(t)
    PROVE  IndInv'
<1> USE DEF IndInv, EndFinish
<1>1. running' \in [Priorities -> Nat] /\ RunningIsCounted' BY ZenonT(30), FinishedRunners
<1>2. TypeOK' BY SMTT(30), <1>1 DEF TypeOK
<1>3. NothingLost'
  <2>1. \A c : Queued(c)' <=> Queued(c) BY DEF Queued
  <2> QED BY <2>1 DEF NothingLost, TypeOK, NoCmd
<1>4. EndsLast' BY DEF EndsLast, Queued, TypeOK, End, NoCmd
<1>5. WorkerLeft' BY DEF WorkerLeft, Queued, TypeOK, End, NoCmd
<1> QED BY <1>1, <1>2, <1>3, <1>4, <1>5 DEF TypeOK

LEMMA ReleaseIndInv ==
    ASSUME IndInv, NEW t \in Threads, Release(t)
    PROVE  IndInv'
<1> USE DEF IndInv
<1>0. /\ at[t] = "release" /\ shuttingDown
      /\ UNCHANGED <<running, shuttingDown, priority, cmd, done>>
  BY DEF Release, EndsLast
<1> DEFINE ended == [at EXCEPT ![t] = "ended"]
<1>1. ended \in [Threads -> {"get", "wait", "woken", "start", "run", "release", "ended"}]
  BY DEF TypeOK
<1>2. \/ QueEnd /\ at' = Notify(ended)
      \/ UNCHANGED <<queues, changed>> /\ at' = ended
  BY DEF Release
<1>3. /\ at' \in [Threads -> {"get", "wait", "woken", "start", "run", "release", "ended"}]
      /\ \A u \in Threads : \A x \in {"start", "run", "release", "ended"} : at'[u] = x <=> ended[u] = x
  <2> HIDE DEF ended
  <2> QED BY <1>1, <1>2, NotifyType
<1>4. /\ at'[t] = "ended"
      /\ \A u \in Threads : u # t => \A x \in {"start", "run", "release", "ended"} : at'[u] = x <=> at[u] = x
  BY <1>0, <1>3 DEF TypeOK
<1> HIDE DEF ended
<1>5. /\ queues' \in [Priorities -> Seq(Cmds \cup {End})] /\ Ordered(queues')
      /\ \A c \in Cmds : Queued(c)' <=> Queued(c)
  <2>1. CASE QueEnd
    <3>1. Ordered(queues') BY ZenonT(30), <2>1, DefaultIsLast, AppendOrdered DEF EndsLast, QueEnd
    <3>2. \A c \in Cmds : c # End OBVIOUS
    <3> QED BY ZenonT(30), <2>1, <3>1, <3>2, DefaultIsLast, AppendQueued DEF QueEnd
  <2>2. CASE UNCHANGED <<queues, changed>>
    BY <2>2 DEF EndsLast, Queued, Ordered, TypeOK
  <2> QED BY <1>2, <2>1, <2>2
<1>6. changed' \in BOOLEAN BY <1>2, Zenon DEF QueEnd, TypeOK
<1>7. TypeOK' BY <1>0, <1>3, <1>5, <1>6, ZenonT(30) DEF TypeOK
<1>8. RunningIsCounted'
  <2>1. \A u \in Threads : at[u] = "run" <=> at'[u] = "run" BY <1>0, <1>4
  <2> QED BY <1>0, <2>1, SameRunners
<1>9. NothingLost' BY <1>0, <1>5 DEF NothingLost
<1>10. EndsLast' BY <1>0, <1>5 DEF EndsLast
<1>11. WorkerLeft' BY <1>0, <1>4, <1>5 DEF WorkerLeft
<1>12. \A u \in Threads : cmd'[u] # NoCmd <=> at'[u] \in {"start", "run"} BY <1>0, <1>4
<1> QED BY <1>7, <1>8, <1>9, <1>10, <1>11, <1>12

LEMMA NextIndInv == IndInv /\ [Next]_vars => IndInv'
<1> SUFFICES ASSUME IndInv, [Next]_vars PROVE IndInv' OBVIOUS
<1>1. ASSUME NEW t \in Threads, Thread(t) PROVE IndInv'
  <2>1. CASE SleepOn(t) BY ZenonT(30), <2>1, WaitIndInv DEF SleepOn, IndInv, TypeOK
  <2> QED BY <1>1, <2>1, GetCmdIndInv, StartIndInv, FinishIndInv, EndFinishIndInv, ReleaseIndInv DEF Thread
<1>2. CASE UNCHANGED vars
  BY <1>2 DEF vars, IndInv, TypeOK, RunningIsCounted, Runners, Counted, NothingLost, Queued, EndsLast,
              Ordered, WorkerLeft
<1> QED BY <1>1, <1>2, QueCmdIndInv, ShutdownIndInv DEF Next

\* In every reachable state the counters of the queues are exact, no command is
\* lost, and MsgEnd is behind every command of its queue (QdispPool.cc).
THEOREM IndInvariant == Spec => []IndInv
BY InitIndInv, NextIndInv, PTL DEF Spec

\* incrDecrRunningCount() keeps every counter at the number of running commands.
THEOREM CountersAreExact == Spec => []RunningIsCounted
<1>1. IndInv => RunningIsCounted BY SMTT(30) DEF IndInv
<1> QED BY <1>1, IndInvariant, PTL

\* When the last thread of the pool has ended every queued command has run:
\* a thread takes MsgEnd past a command only while that command's queue is at its
\* limit, and then another thread is left for it.
THEOREM ShutdownDrains == Spec => []DrainedAtShutdown
<1>1. IndInv => DrainedAtShutdown
  <2> SUFFICES ASSUME IndInv, \A t \in Threads : at[t] = "ended",
                      NEW c \in Cmds, priority[c] # Unqueued
               PROVE  c \in done
    BY DEF DrainedAtShutdown
  <2>1. \A t \in Threads : cmd[t] # c BY DEF IndInv
  <2>2. ~Queued(c) BY DEF IndInv, WorkerLeft
  <2> QED BY <2>1, <2>2 DEF IndInv, NothingLost
<1> QED BY <1>1, IndInvariant, PTL
=============================================================================
