-------------------------- MODULE ThreadPoolProofs --------------------------
(***************************************************************************)
(* IndInv is an inductive invariant of util::ThreadPool, for any number of *)
(* threads, commands, resizes and departures.  That commandFinish is       *)
(* called once for each command, and that a pool that was never resized    *)
(* completes its commands, follow from it.  First the steps of             *)
(* util::EventThread (queCmd(), the event loop handleCmds() and a thread's *)
(* own finishup(), which removes it from the pool), then the pool's own.   *)
(***************************************************************************)
EXTENDS ThreadPool, FiniteSetTheorems, SequenceTheorems, TLAPS

USE InitCountFits, TargetsFit, BootsKnown, CmdsAreUsers

-----------------------------------------------------------------------------
(* Queues: what they hold after queCmd() and getCmd(), and that what is in   *)
(* them once stays in them once.                                             *)

\* The elements of a sequence, by their places.
LEMMA RangeIs ==
    ASSUME NEW S, NEW q \in Seq(S), NEW x
    PROVE  x \in Range(q) <=> \E i \in 1..Len(q) : q[i] = x
<1>1. DOMAIN q = 1..Len(q) BY LenProperties, Zenon
<1> QED BY <1>1, Zenon DEF Range

\* A sequence with one more element at the end.
LEMMA AppendElements ==
    ASSUME NEW S, NEW q \in Seq(S), NEW x \in S
    PROVE  /\ Append(q, x) \in Seq(S) /\ Len(Append(q, x)) = Len(q) + 1 /\ Len(q) \in Nat
           /\ \A i \in 1..Len(q) : Append(q, x)[i] = q[i]
           /\ Append(q, x)[Len(q) + 1] = x
BY AppendProperties, LenProperties

\* A sequence without its first element.
LEMMA TailElements ==
    ASSUME NEW S, NEW q \in Seq(S), q # <<>>
    PROVE  /\ Head(q) \in S /\ Head(q) = q[1] /\ Len(q) \in Nat \ {0}
           /\ Tail(q) \in Seq(S) /\ Len(Tail(q)) = Len(q) - 1
           /\ \A i \in 1..(Len(q) - 1) : Tail(q)[i] = q[i + 1]
<1>1. Len(q) \in Nat \ {0} BY LenProperties, EmptySeq, Zenon
<1> QED BY <1>1, HeadTailProperties

\* Append adds one element.
LEMMA AppendRange ==
    ASSUME NEW S, NEW q \in Seq(S), NEW x \in S
    PROVE  \A y : y \in Range(Append(q, x)) <=> y \in Range(q) \/ y = x
<1> DEFINE a == Append(q, x)
<1>1. /\ a \in Seq(S) /\ Len(a) = Len(q) + 1 /\ Len(q) \in Nat
      /\ \A i \in 1..Len(q) : a[i] = q[i]
      /\ a[Len(q) + 1] = x
  BY AppendElements
<1> HIDE DEF a
<1>2. ASSUME NEW y PROVE y \in Range(a) <=> y \in Range(q) \/ y = x
  <2>1. y \in Range(a) <=> \E i \in 1..Len(a) : a[i] = y BY <1>1, RangeIs, Zenon
  <2>2. y \in Range(q) <=> \E i \in 1..Len(q) : q[i] = y BY RangeIs, Zenon
  <2>3. \A i \in 1..Len(a) : i \in 1..Len(q) \/ i = Len(q) + 1 BY <1>1
  <2>4. Len(q) + 1 \in 1..Len(a) /\ \A i \in 1..Len(q) : i \in 1..Len(a) BY <1>1
  <2> QED BY <1>1, <2>1, <2>2, <2>3, <2>4, Zenon
<1> QED BY <1>2, Zenon DEF a

\* Tail takes the first element away.
LEMMA TailRange ==
    ASSUME NEW S, NEW q \in Seq(S), q # <<>>
    PROVE  /\ Head(q) \in Range(q)
           /\ \A y : y \in Range(Tail(q)) => y \in Range(q)
           /\ \A y : y \in Range(q) => y \in Range(Tail(q)) \/ y = Head(q)
<1> DEFINE b == Tail(q)
<1>1. /\ Head(q) = q[1] /\ Len(q) \in Nat \ {0}
      /\ b \in Seq(S) /\ Len(b) = Len(q) - 1
      /\ \A i \in 1..(Len(q) - 1) : b[i] = q[i + 1]
  BY TailElements, Zenon
<1> HIDE DEF b
<1>2. \A i \in 1..Len(b) : i + 1 \in 1..Len(q) /\ b[i] = q[i + 1] BY <1>1
<1>3. \A i \in 1..Len(q) : i = 1 \/ (i - 1 \in 1..Len(b) /\ b[i - 1] = q[i])
  <2>1. SUFFICES ASSUME NEW i \in 1..Len(q), i # 1
                 PROVE  i - 1 \in 1..Len(b) /\ b[i - 1] = q[i]
    OBVIOUS
  <2>2. i - 1 \in 1..Len(b) /\ i - 1 \in 1..(Len(q) - 1) /\ (i - 1) + 1 = i BY <1>1, <2>1
  <2> QED BY <1>1, <2>2, Zenon
<1>4. 1 \in 1..Len(q) BY <1>1
<1>5. Head(q) \in Range(q) BY <1>1, <1>4, RangeIs, Zenon
<1>6. ASSUME NEW y, y \in Range(b) PROVE y \in Range(q)
  <2>1. PICK i \in 1..Len(b) : b[i] = y BY <1>1, <1>6, RangeIs
  <2> QED BY <1>2, <2>1, RangeIs, Zenon
<1>7. ASSUME NEW y, y \in Range(q) PROVE y \in Range(b) \/ y = Head(q)
  <2>1. PICK i \in 1..Len(q) : q[i] = y BY <1>7, RangeIs, Zenon
  <2>2. CASE i = 1 BY <1>1, <2>1, <2>2, Zenon
  <2>3. CASE i - 1 \in 1..Len(b) /\ b[i - 1] = q[i] BY <1>1, <2>1, <2>3, RangeIs, Zenon
  <2> QED BY <1>3, <2>2, <2>3, Zenon
<1> QED BY <1>5, <1>6, <1>7, Zenon DEF b

\* The elements of T are at most once in q.
Once(q, T) == \A i, j \in 1..Len(q) : q[i] = q[j] /\ q[i] \in T => i = j

LEMMA AppendOnce ==
    ASSUME NEW S, NEW q \in Seq(S), NEW x \in S, NEW T, Once(q, T),
           x \in T => x \notin Range(q)
    PROVE  Once(Append(q, x), T)
<1> DEFINE a == Append(q, x)
<1>1. /\ Len(a) = Len(q) + 1 /\ Len(q) \in Nat
      /\ \A i \in 1..Len(q) : a[i] = q[i]
      /\ a[Len(q) + 1] = x
  BY AppendElements
<1>2. x \in T => \A i \in 1..Len(q) : q[i] # x BY RangeIs, Zenon
<1> HIDE DEF a
<1>3. \A i \in 1..Len(a) : i \in 1..Len(q) \/ i = Len(q) + 1 BY <1>1
<1>4. SUFFICES ASSUME NEW i \in 1..Len(a), NEW j \in 1..Len(a), a[i] = a[j], a[i] \in T
               PROVE  i = j
  BY Zenon DEF Once, a
<1>5. CASE i \in 1..Len(q) /\ j \in 1..Len(q) BY <1>1, <1>4, <1>5, Zenon DEF Once
<1>6. CASE i = Len(q) + 1 /\ j \in 1..Len(q) BY <1>1, <1>2, <1>4, <1>6, Zenon
<1>7. CASE i \in 1..Len(q) /\ j = Len(q) + 1 BY <1>1, <1>2, <1>4, <1>7, Zenon
<1> QED BY <1>3, <1>5, <1>6, <1>7, Zenon

LEMMA TailOnce ==
    ASSUME NEW S, NEW q \in Seq(S), q # <<>>, NEW T, Once(q, T)
    PROVE  Once(Tail(q), T) /\ (Head(q) \in T => Head(q) \notin Range(Tail(q)))
<1> DEFINE b == Tail(q)
<1>1. /\ Head(q) = q[1] /\ Len(q) \in Nat \ {0}
      /\ b \in Seq(S) /\ Len(b) = Len(q) - 1
      /\ \A i \in 1..(Len(q) - 1) : b[i] = q[i + 1]
  BY TailElements, Zenon
<1> HIDE DEF b
<1>2. \A i \in 1..Len(b) : i + 1 \in 1..Len(q) /\ b[i] = q[i + 1] BY <1>1
<1>3. ASSUME NEW i \in 1..Len(b), NEW j \in 1..Len(b), b[i] = b[j], b[i] \in T PROVE i = j
  <2>1. i + 1 = j + 1 BY <1>2, <1>3, Zenon DEF Once
  <2> QED BY <1>1, <2>1
<1>4. ASSUME Head(q) \in T, Head(q) \in Range(b) PROVE FALSE
  <2>1. PICK i \in 1..Len(b) : b[i] = Head(q) BY <1>1, <1>4, RangeIs
  <2>2. 1 \in 1..Len(q) BY <1>1
  <2>3. i + 1 = 1 BY <1>1, <1>2, <1>4, <2>1, <2>2, Zenon DEF Once
  <2> QED BY <1>1, <2>3
<1> QED BY <1>3, <1>4, Zenon DEF Once, b

\* MsgEnds stay behind the commands.
LEMMA AppendBehind ==
    ASSUME TypeOK, NEW x \in Cmds \cup {End}, queue' = Append(queue, x), EndsBehind,
           x # End => ~Queued(End)
    PROVE  EndsBehind'
<1>1. /\ Len(queue') = Len(queue) + 1 /\ Len(queue) \in Nat
      /\ \A i \in 1..Len(queue) : queue'[i] = queue[i]
      /\ queue'[Len(queue) + 1] = x
  BY AppendElements DEF TypeOK
<1>2. x # End => \A i \in 1..Len(queue) : queue[i] # End BY RangeIs, Zenon DEF TypeOK, Queued
<1>3. SUFFICES ASSUME NEW i \in 1..Len(queue'), NEW j \in 1..Len(queue'), i < j, queue'[i] = End
               PROVE  queue'[j] = End
  BY Zenon DEF EndsBehind
<1>4. i \in 1..Len(queue) /\ queue[i] = End BY <1>1, <1>3
<1>5. CASE j \in 1..Len(queue) BY <1>1, <1>3, <1>4, <1>5, Zenon DEF EndsBehind
<1>6. CASE j = Len(queue) + 1 BY <1>1, <1>2, <1>4, <1>6, Zenon
<1> QED BY <1>1, <1>5, <1>6

LEMMA TailBehind ==
    ASSUME TypeOK, queue # <<>>, queue' = Tail(queue), EndsBehind
    PROVE  EndsBehind' /\ (Head(queue) = End => \A c : Queued(c)' => c = End)
<1>1. /\ Head(queue) = queue[1] /\ Len(queue) \in Nat \ {0}
      /\ queue' \in Seq(Cmds \cup {End}) /\ Len(queue') = Len(queue) - 1
      /\ \A i \in 1..(Len(queue) - 1) : queue'[i] = queue[i + 1]
  BY TailElements, Zenon DEF TypeOK
<1>2. \A i \in 1..Len(queue') : i + 1 \in 1..Len(queue) /\ queue'[i] = queue[i + 1] BY <1>1
<1>3. ASSUME NEW i \in 1..Len(queue'), NEW j \in 1..Len(queue'), i < j, queue'[i] = End
      PROVE  queue'[j] = End
  <2>1. i + 1 < j + 1 BY <1>1, <1>3
  <2> QED BY <1>2, <1>3, <2>1, Zenon DEF EndsBehind
<1>4. ASSUME Head(queue) = End, NEW c, Queued(c)' PROVE c = End
  <2>0. c \in Range(queue') BY <1>4, Zenon DEF Queued
  <2>5. \A q \in Seq(Cmds \cup {End}) : c \in Range(q) <=> \E i \in 1..Len(q) : q[i] = c
    BY RangeIs, Zenon
  <2>1. PICK i \in 1..Len(queue') : queue'[i] = c BY <1>1, <2>0, <2>5, Zenon
  <2>2. 1 \in 1..Len(queue) /\ 1 < i + 1 BY <1>1
  <2> QED BY <1>1, <1>2, <1>4, <2>1, <2>2, Zenon DEF EndsBehind
<1> QED BY <1>3, <1>4, Zenon DEF EndsBehind

-----------------------------------------------------------------------------
(* The sets of threads are finite, and so their sizes are numbers.           *)

LEMMA ThreadSets ==
    ASSUME NEW S \in SUBSET ThreadIds
    PROVE  IsFiniteSet(S) /\ Cardinality(S) \in Nat
<1>1. IsFiniteSet(ThreadIds) BY FS_Interval DEF ThreadIds
<1> QED BY <1>1, FS_Subset, FS_CardinalityType, Zenon

LEMMA MoreThreads ==
    ASSUME NEW S \in SUBSET ThreadIds, NEW T \in SUBSET ThreadIds, S \subseteq T
    PROVE  Cardinality(S) =< Cardinality(T)
BY ThreadSets, FS_Subset, Zenon

\* As many threads stay in the pool, or were told to leave, as there were at first: this
\* is kept by a step that tells no thread to leave and takes none that stays away.
LEMMA StayingKept ==
    ASSUME IndInv, TypeOK', Departed' = Departed, Staying \subseteq Staying',
           resizes = 0, down = "no" \/ Waiting
    PROVE  Cardinality(Staying') + Cardinality(Departed') >= InitCount
<1>1. Staying \in SUBSET ThreadIds /\ Staying' \in SUBSET ThreadIds
  BY Zenon DEF IndInv, TypeOK, Staying
<1>2. Cardinality(Staying) =< Cardinality(Staying') BY <1>1, MoreThreads, Zenon
<1>3. Cardinality(Staying) \in Nat /\ Cardinality(Staying') \in Nat BY <1>1, ThreadSets, Zenon
<1>4. Cardinality(Staying) + Cardinality(Departed) >= InitCount BY Zenon DEF IndInv, Unresized
<1>5. Cardinality(Departed) \in Nat BY FS_CardinalityType, Zenon DEF IndInv, Unresized
<1> QED BY <1>2, <1>3, <1>4, <1>5

LEMMA InitIndInv == Init => IndInv
<1> SUFFICES ASSUME Init PROVE IndInv OBVIOUS
<1> USE DEF Init
<1>0. (\A c : ~Queued(c)) /\ Range(joinQueue) = {} /\ Len(queue) = 0 /\ Len(joinQueue) = 0 /\ Outside = {}
  BY DEF Queued, Range, Outside
<1>1. TypeOK
  <2>1. queue \in Seq(Cmds \cup {End}) /\ joinQueue \in Seq(ThreadIds) BY EmptySeq, Zenon
  <2>2. pool \in SUBSET ThreadIds /\ target \in 0..MaxThreads BY DEF ThreadIds
  <2>3. /\ at \in [ThreadIds -> Busy \cup {"none", "get", "finishup", "release", "done"}]
        /\ cmd \in [ThreadIds -> Cmds \cup {End, NoCmd}]
    OBVIOUS
  <2>4. boot \in [Boots -> [at : {"idle", "compare", "finish", "finishup", "resize", "done"},
                            t : 0..MaxThreads]]
    OBVIOUS
  <2> QED BY <2>1, <2>2, <2>3, <2>4, Zenon DEF TypeOK
<1>2. Membership /\ Left BY <1>0 DEF Membership, JoinedOnce, ThreadIds, Left
<1>3. OnePlace BY <1>0 DEF OnePlace, QueuedOnce, Busy
<1>4. Told BY <1>0, Zenon DEF Told
<1>5. LeavesAfter BY Zenon DEF LeavesAfter, Leaving
<1>6. Closing BY Zenon DEF Closing
<1>7. Unresized
  <2>1. Departed = {} BY Zenon DEF Departed
  <2>2. IsFiniteSet(Departed) /\ Cardinality(Departed) = 0 BY <2>1, FS_EmptySet, Zenon
  <2>3. Staying = 1..InitCount BY DEF Staying, ThreadIds
  <2>4. Cardinality(1..InitCount) = InitCount BY FS_Interval
  <2>5. EndsBehind BY <1>0 DEF EndsBehind
  <2>6. Cardinality(pool) =< InitCount BY <2>4
  <2>7. \A t \in ThreadIds : cmd[t] # End BY Zenon DEF NoCmd, End
  <2> QED BY <1>0, <2>2, <2>3, <2>4, <2>5, <2>6, <2>7 DEF Unresized
<1> QED BY <1>1, <1>2, <1>3, <1>4, <1>5, <1>6, <1>7, Zenon DEF IndInv

LEMMA JoinersAreThreads == TypeOK => \A s \in Range(joinQueue) : s \in ThreadIds
BY ElementOfSeq, RangeIs DEF TypeOK

LEMMA OutsideAreThreads == TypeOK => Outside \subseteq ThreadIds
BY JoinersAreThreads, Zenon DEF TypeOK, Outside

\* A thread outside of the pool stays done with its commands.
LEMMA LeftStays ==
    ASSUME Left, Outside' \subseteq Outside,
           \A t \in Outside : /\ loop'[t] => loop[t]
                              /\ at'[t] = "get" => at[t] = "get"
                              /\ cmd'[t] \in Cmds => cmd[t] \in Cmds /\ (finished[t] => finished'[t])
    PROVE  Left'
BY Zenon DEF Left

-----------------------------------------------------------------------------
(* Commands in the queue and with a thread.                                  *)

\* What the queue holds after queCmd().
LEMMA AppendQueued ==
    ASSUME TypeOK, NEW x \in Cmds \cup {End}, queue' = Append(queue, x)
    PROVE  /\ queue' \in Seq(Cmds \cup {End})
           /\ \A y : Queued(y)' <=> Queued(y) \/ y = x
           /\ QueuedOnce /\ (x \in Cmds => ~Queued(x)) => QueuedOnce'
<1>1. queue \in Seq(Cmds \cup {End}) BY Zenon DEF TypeOK
<1>2. queue' \in Seq(Cmds \cup {End}) BY <1>1, AppendElements, Zenon
<1>3. \A y : y \in Range(queue') <=> y \in Range(queue) \/ y = x BY <1>1, AppendRange
<1>4. ASSUME QueuedOnce, x \in Cmds => ~Queued(x) PROVE QueuedOnce'
  <2>1. Once(queue, Cmds) BY <1>4, Zenon DEF QueuedOnce, Once
  <2>2. x \in Cmds => x \notin Range(queue) BY <1>4, Zenon DEF Queued
  <2>3. Once(Append(queue, x), Cmds) BY <1>1, <2>1, <2>2, AppendOnce, Zenon
  <2> QED BY <2>3, Zenon DEF QueuedOnce, Once
<1> QED BY <1>2, <1>3, <1>4, Zenon DEF Queued

\* What the queue holds after getCmd().
LEMMA TailQueued ==
    ASSUME TypeOK, queue # <<>>, queue' = Tail(queue), QueuedOnce
    PROVE  /\ queue' \in Seq(Cmds \cup {End})
           /\ Head(queue) \in Cmds \cup {End} /\ Queued(Head(queue))
           /\ \A y : Queued(y)' => Queued(y)
           /\ \A y : Queued(y) => Queued(y)' \/ y = Head(queue)
           /\ QueuedOnce' /\ (\A y \in Cmds : Queued(y)' => y # Head(queue))
<1>1. queue \in Seq(Cmds \cup {End}) BY Zenon DEF TypeOK
<1>2. queue' \in Seq(Cmds \cup {End}) /\ Head(queue) \in Cmds \cup {End} BY <1>1, TailElements, Zenon
<1>3. /\ Head(queue) \in Range(queue)
      /\ \A y : y \in Range(queue') => y \in Range(queue)
      /\ \A y : y \in Range(queue) => y \in Range(queue') \/ y = Head(queue)
  BY <1>1, TailRange, Zenon
<1>4. Once(queue, Cmds) BY Zenon DEF QueuedOnce, Once
<1>5. Once(Tail(queue), Cmds) /\ (Head(queue) \in Cmds => Head(queue) \notin Range(Tail(queue)))
  BY <1>1, <1>4, TailOnce, Zenon
<1>6. Once(queue', Cmds) /\ (Head(queue) \in Cmds => Head(queue) \notin Range(queue')) BY <1>5, Zenon
<1>7. QueuedOnce' BY <1>6, Zenon DEF QueuedOnce, Once
<1>8. \A y \in Cmds : Queued(y)' => y # Head(queue) BY <1>6, Zenon DEF Queued
<1>9. /\ Queued(Head(queue)) 
      /\ \A y : Queued(y)' => Queued(y)
      /\ \A y : Queued(y) => Queued(y)' \/ y = Head(queue)
  BY <1>3, Zenon DEF Queued
<1> QED BY <1>2, <1>7, <1>8, <1>9, Zenon

LEMMA QueCmdStep == ASSUME IndInv, NEW c \in Cmds, QueCmd(c) PROVE IndInv'
<1> USE DEF QueCmd
<1>0. TypeOK /\ Membership /\ Left /\ OnePlace /\ Told /\ LeavesAfter /\ Closing /\ Unresized BY Zenon DEF IndInv
<1>1. /\ queue' \in Seq(Cmds \cup {End})
      /\ \A y : Queued(y)' <=> Queued(y) \/ y = c
      /\ QueuedOnce /\ ~Queued(c) => QueuedOnce'
  BY <1>0, AppendQueued, Zenon
<1>2. /\ down = "no" /\ ~Queued(c) /\ finishes[c] = 0
      /\ \A t \in ThreadIds : cmd[t] # c
  BY <1>0 DEF Sent, TypeOK
<1>3. TypeOK' BY <1>0, <1>1, Zenon DEF TypeOK, threadVars
<1>4. Membership' BY <1>0, Zenon DEF Membership, JoinedOnce, Outside, threadVars
<1>o. Outside' = Outside /\ Outside \subseteq ThreadIds BY <1>0, OutsideAreThreads, Zenon DEF Outside
<1>l. Left' BY <1>0, <1>o, Zenon DEF Left, threadVars
<1>5. OnePlace' BY <1>0, <1>1, <1>2, Zenon DEF OnePlace, threadVars
<1>6. Told' BY <1>0, <1>1, <1>2, Zenon DEF Told, threadVars
<1>7. LeavesAfter' BY <1>0, Zenon DEF LeavesAfter, Leaving, threadVars
<1>8. Closing' BY <1>0, Zenon DEF Closing, threadVars
<1>9. Unresized'
  <2>1. SUFFICES ASSUME resizes = 0 PROVE Unresized' BY Zenon DEF Unresized
  <2>2. c # End /\ ~Queued(End) /\ \A t \in ThreadIds : cmd[t] # End
    BY <1>0, <1>2, <2>1, Zenon DEF Unresized
  <2>3. EndsBehind' BY <1>0, <2>1, <2>2, AppendBehind, Zenon DEF Unresized
  <2>4. ~Queued(End)' BY <1>1, <2>2, Zenon
  <2>5. Departed' = Departed /\ Staying' = Staying BY Zenon DEF Departed, Staying, threadVars
  <2> QED BY <1>0, <1>2, <2>1, <2>2, <2>3, <2>4, <2>5, Zenon DEF Unresized, threadVars
<1> QED BY <1>3, <1>4, <1>l, <1>5, <1>6, <1>7, <1>8, <1>9, Zenon DEF IndInv

LEMMA GetCmdStep == ASSUME IndInv, NEW t \in ThreadIds, GetCmd(t) PROVE IndInv'
<1> USE DEF GetCmd
<1> DEFINE h == Head(queue)
<1>0. TypeOK /\ Membership /\ Left /\ OnePlace /\ Told /\ LeavesAfter /\ Closing /\ Unresized BY Zenon DEF IndInv
<1>1. /\ queue' \in Seq(Cmds \cup {End})
      /\ h \in Cmds \cup {End} /\ Queued(h)
      /\ \A y : Queued(y)' => Queued(y)
      /\ QueuedOnce' /\ \A y \in Cmds : Queued(y)' => y # h
  BY <1>0, TailQueued, Zenon DEF OnePlace
<1>2. /\ cmd' = [cmd EXCEPT ![t] = h] /\ finished' = [finished EXCEPT ![t] = FALSE]
      /\ boot' = [c \in Boots |-> IF c = h THEN [at |-> "idle", t |-> t] ELSE boot[c]]
      /\ at' = [at EXCEPT ![t] = "action"] /\ at[t] = "get"
      /\ UNCHANGED <<pool, target, loop, finishup, joinQueue, handed, resizing, resizes, down, finishes>>
  OBVIOUS
<1>b. queue # <<>> /\ queue' = Tail(queue) OBVIOUS
<1>c. h \in Cmds => finishes[h] = 0 /\ \A s \in ThreadIds : cmd[s] # h
  BY <1>0, <1>1, Zenon DEF OnePlace, Told
<1>d. End # NoCmd /\ h # NoCmd BY <1>1, Zenon DEF End, NoCmd
<1> HIDE DEF h, GetCmd
<1>3. TypeOK'
  <2>1. at' \in [ThreadIds -> Busy \cup {"none", "get", "finishup", "release", "done"}]
    BY <1>0, <1>2, Zenon DEF TypeOK, Busy
  <2>2. cmd' \in [ThreadIds -> Cmds \cup {End, NoCmd}] /\ finished' \in [ThreadIds -> BOOLEAN]
    BY <1>0, <1>1, <1>2, Zenon DEF TypeOK
  <2>3. t \in 0..MaxThreads BY DEF ThreadIds
  <2>4. boot' \in [Boots -> [at : {"idle", "compare", "finish", "finishup", "resize", "done"},
                             t : 0..MaxThreads]]
    BY <1>0, <1>2, <2>3, Zenon DEF TypeOK
  <2> QED BY <1>0, <1>1, <1>2, <2>1, <2>2, <2>4, Zenon DEF TypeOK
<1>4. Membership' BY <1>0, <1>2 DEF Membership, JoinedOnce, Outside, TypeOK
<1>o. Outside' = Outside /\ Outside \subseteq ThreadIds BY <1>0, <1>2, OutsideAreThreads, Zenon DEF Outside
<1>l. Left'
  <2>1. t \notin Outside BY <1>0, <1>2, Zenon DEF Left
  <2> QED BY <1>0, <1>2, <1>o, <2>1, LeftStays, Zenon DEF TypeOK
<1>5. OnePlace'
  <2>1. \A s \in ThreadIds : at'[s] \in Busy <=> cmd'[s] # NoCmd
    BY <1>0, <1>2, <1>d, Zenon DEF OnePlace, TypeOK, Busy
  <2>2. \A r, s \in ThreadIds : cmd'[r] = cmd'[s] /\ cmd'[r] \in Cmds => r = s
    BY SMTT(30), <1>0, <1>2, <1>c DEF OnePlace, TypeOK
  <2>3. \A c \in Cmds : Queued(c)' => \A s \in ThreadIds : cmd'[s] # c
    BY SMTT(30), <1>0, <1>1, <1>2 DEF OnePlace, TypeOK
  <2> QED BY <1>1, <2>1, <2>2, <2>3, Zenon DEF OnePlace
<1>6. Told'
  <2>1. \A s \in ThreadIds : cmd'[s] \in Cmds => (finishes'[cmd'[s]] = 1 <=> finished'[s])
    <3>1. SUFFICES ASSUME NEW s \in ThreadIds, cmd'[s] \in Cmds
                   PROVE  finishes[cmd'[s]] = 1 <=> finished'[s]
      BY ZenonT(30), <1>2
    <3>2. CASE s = t BY <1>0, <1>2, <1>c, <3>1, <3>2 DEF TypeOK
    <3>3. CASE s # t
      <4>1. cmd'[s] = cmd[s] /\ finished'[s] = finished[s] BY <1>0, <1>2, <3>3, Zenon DEF TypeOK
      <4> QED BY <1>0, <3>1, <4>1, Zenon DEF Told
    <3> QED BY <3>2, <3>3, Zenon
  <2>2. \A s \in ThreadIds : at'[s] = "next" => finished'[s] BY SMTT(30), <1>0, <1>2 DEF Told, TypeOK
  <2> QED BY <1>0, <1>1, <1>2, <2>1, <2>2, Zenon DEF Told
<1>7. LeavesAfter'
  <2>1. SUFFICES ASSUME NEW c \in Boots
                 PROVE  /\ boot'[c] # [at |-> "idle", t |-> 0] =>
                              finishes'[c] = 1 \/ \E s \in ThreadIds : cmd'[s] = c
                        /\ Leaving(c)' => boot'[c].t \in ThreadIds /\ ~loop'[boot'[c].t]
                        /\ boot'[c].at = "finish" =>
                              \/ cmd'[boot'[c].t] = c
                              \/ finished'[boot'[c].t] /\ at'[boot'[c].t] \notin Busy \cup {"get"}
                        /\ boot'[c].at = "finishup" => finished'[boot'[c].t] /\ at'[boot'[c].t] # "get"
    BY Zenon DEF LeavesAfter
  <2>2. CASE c = h
    <3>1. boot'[c] = [at |-> "idle", t |-> t] BY <1>2, <2>2, Zenon
    <3>2. cmd'[t] = c BY SMTT(30), <1>0, <1>2, <2>2 DEF TypeOK
    <3> QED BY <3>1, <3>2 DEF Leaving
  <2>3. CASE c # h
    <3>1. boot'[c] = boot[c] /\ (Leaving(c)' <=> Leaving(c)) BY <1>2, <2>3, Zenon DEF Leaving
    <3>2. \A s \in ThreadIds : cmd[s] = c => s # t
      BY <1>0, <1>2, CmdsAreUsers, Zenon DEF OnePlace, Busy
    <3>3. \A s \in ThreadIds : cmd[s] = c => cmd'[s] = c BY SMTT(30), <1>0, <1>2, <3>2 DEF TypeOK
    <3>4. boot[c].at = "finish" => boot[c].t \in ThreadIds BY SMTT(30), <1>0 DEF LeavesAfter, Leaving
    <3>5. ASSUME NEW s \in ThreadIds, finished[s], at[s] \notin Busy \cup {"get"}
          PROVE  finished'[s] /\ at'[s] \notin Busy \cup {"get"}
      <4>1. s # t BY <1>2, <3>5, Zenon
      <4> QED BY SMTT(30), <1>0, <1>2, <3>5, <4>1 DEF TypeOK
    <3>6. ASSUME boot[c].at = "finishup" PROVE finished'[boot[c].t] /\ at'[boot[c].t] # "get"
      <4>1. boot[c].t \in ThreadIds /\ finished[boot[c].t] /\ at[boot[c].t] # "get"
        BY <1>0, <3>6, Zenon DEF LeavesAfter, Leaving
      <4>2. boot[c].t # t BY <1>2, <4>1, Zenon
      <4> QED BY <1>0, <1>2, <4>1, <4>2, Zenon DEF TypeOK
    <3> QED BY SMTT(30), <1>0, <1>2, <3>1, <3>3, <3>4, <3>5, <3>6 DEF LeavesAfter
  <2> QED BY SMTT(30), <2>2, <2>3
<1>8. Closing' BY SMTT(30), <1>0, <1>2 DEF Closing, TypeOK
<1>9. Unresized'
  <2>1. SUFFICES ASSUME resizes = 0 PROVE Unresized' BY <1>2, Zenon DEF Unresized
  <2>2. EndsBehind' /\ (h = End => \A c : Queued(c)' => c = End)
    BY <1>0, <1>b, <2>1, TailBehind, Zenon DEF Unresized, h
  <2>3. Departed' = Departed
    <3>1. h \in Boots => boot[h].at = "idle" BY SMTT(30), <1>0, <1>c DEF LeavesAfter
    <3> QED BY SMTT(30), <1>2, <3>1 DEF Departed
  <2>4. Staying' = Staying BY <1>2, Zenon DEF Staying
  <2>5. Waiting' => Waiting BY SMTT(30), <1>1 DEF Waiting
  <2>6. (\E s \in ThreadIds : cmd'[s] = End) => h = End \/ \E s \in ThreadIds : cmd[s] = End
    BY SMTT(30), <1>0, <1>2 DEF TypeOK
  <2>7. (\E s \in ThreadIds : cmd'[s] = End) => ~Waiting'
    BY <1>0, <2>1, <2>2, <2>5, <2>6, Zenon DEF Unresized, Waiting
  <2>8. down \in {"no", "flag"} => ~Queued(End)' /\ \A s \in ThreadIds : cmd'[s] # End
    BY <1>0, <1>1, <2>1, <2>6, Zenon DEF Unresized
  <2> QED BY SMTT(30), <1>0, <1>2, <2>1, <2>2, <2>3, <2>4, <2>5, <2>7, <2>8 DEF Unresized
<1> QED BY <1>3, <1>4, <1>l, <1>5, <1>6, <1>7, <1>8, <1>9, Zenon DEF IndInv

\* Steps that leave the queue alone and tell nobody to leave.
LEMMA SameQueue ==
    ASSUME queue' = queue
    PROVE  /\ \A y : Queued(y)' <=> Queued(y)
           /\ QueuedOnce' <=> QueuedOnce
           /\ EndsBehind' <=> EndsBehind
           /\ Waiting' <=> Waiting
BY Zenon DEF Queued, QueuedOnce, EndsBehind, Waiting

LEMMA RunActionStep == ASSUME IndInv, NEW t \in ThreadIds, RunAction(t) PROVE IndInv'
<1> USE DEF RunAction
<1>0. TypeOK /\ Membership /\ Left /\ OnePlace /\ Told /\ LeavesAfter /\ Closing /\ Unresized BY Zenon DEF IndInv
<1>1. /\ \A y : Queued(y)' <=> Queued(y)
      /\ QueuedOnce' <=> QueuedOnce
      /\ EndsBehind' <=> EndsBehind
      /\ Waiting' <=> Waiting
  BY SameQueue, Zenon
<1>3. TypeOK' BY <1>0, Zenon DEF TypeOK, Busy
<1>4. Membership' BY <1>0 DEF Membership, JoinedOnce, Outside, TypeOK
<1>o. Outside' = Outside /\ Outside \subseteq ThreadIds BY <1>0, OutsideAreThreads, Zenon DEF Outside
<1>l. Left' BY <1>0, <1>o, LeftStays, Zenon DEF TypeOK
<1>5. OnePlace' BY <1>0, <1>1, Zenon DEF OnePlace, TypeOK, Busy
<1>6. Told' BY SMTT(30), <1>0, <1>1 DEF Told, TypeOK
<1>7. LeavesAfter'
  <2>1. \A s \in ThreadIds : loop'[s] => loop[s] BY <1>0, Zenon DEF TypeOK
  <2>2. \A s \in ThreadIds : at[s] \notin Busy \cup {"get"} => at'[s] \notin Busy \cup {"get"}
    BY <1>0, Zenon DEF TypeOK, Busy
  <2>3. \A c \in Boots : Leaving(c)' <=> Leaving(c) BY SMTT(30) DEF Leaving
  <2>4. \A c \in Boots : boot[c].at \in {"finish", "finishup"} => boot[c].t \in ThreadIds
    BY <1>0, Zenon DEF LeavesAfter, Leaving
  <2>5. \A s \in ThreadIds : at[s] # "get" => at'[s] # "get" BY <1>0, Zenon DEF TypeOK
  <2> QED BY <1>0, <2>1, <2>2, <2>3, <2>4, <2>5, Zenon DEF LeavesAfter
<1>8. Closing' BY SMTT(30), <1>0 DEF Closing, TypeOK
<1>9. Unresized'
  <2>1. SUFFICES ASSUME resizes = 0 PROVE Unresized' BY ZenonT(30) DEF Unresized
  <2>2. Departed' = Departed BY ZenonT(30) DEF Departed
  <2>3. CASE cmd[t] = End
    <3>1. ~Waiting /\ down \notin {"no", "flag"} BY <1>0, <2>1, <2>3, Zenon DEF Unresized
    <3>2. resizes' = resizes /\ resizing' = resizing /\ cmd' = cmd /\ down' = down OBVIOUS
    <3>3. ~resizing /\ IsFiniteSet(Departed) /\ EndsBehind BY <1>0, <2>1, Zenon DEF Unresized
    <3>4. ~Waiting' /\ EndsBehind' /\ ~resizing' /\ IsFiniteSet(Departed') BY <1>1, <2>2, <3>1, <3>2, <3>3
    <3> HIDE DEF RunAction
    <3> QED BY ZenonT(30), <3>1, <3>2, <3>4 DEF Unresized
  <2>4. CASE cmd[t] # End
    <3>1. loop' = loop BY <1>0, <2>4, Zenon DEF TypeOK
    <3>2. Staying' = Staying BY <3>1, Zenon DEF Staying
    <3> QED BY <1>0, <1>1, <2>1, <2>2, <3>2, Zenon DEF Unresized
  <2> QED BY <2>3, <2>4, Zenon
<1> QED BY <1>3, <1>4, <1>l, <1>5, <1>6, <1>7, <1>8, <1>9, Zenon DEF IndInv

LEMMA CommandFinishStep == ASSUME IndInv, NEW t \in ThreadIds, CommandFinish(t) PROVE IndInv'
<1> USE DEF CommandFinish, CallCommandFinish
<1>0. TypeOK /\ Membership /\ Left /\ OnePlace /\ Told /\ LeavesAfter /\ Closing /\ Unresized BY Zenon DEF IndInv
<1>1. /\ \A y : Queued(y)' <=> Queued(y)
      /\ QueuedOnce' <=> QueuedOnce
      /\ EndsBehind' <=> EndsBehind
      /\ Waiting' <=> Waiting
  BY SameQueue, Zenon
<1>2. /\ cmd[t] \in Cmds => finishes'[cmd[t]] = 1
      /\ \A c \in Cmds : c # cmd[t] => finishes'[c] = finishes[c]
      /\ finishes' \in [Cmds -> Nat]
  <2>1. CASE cmd[t] \in Cmds /\ ~finished[t]
    <3>1. finishes[cmd[t]] = 0 BY <1>0, <2>1, Zenon DEF Told
    <3> QED BY <1>0, <2>1, <3>1 DEF TypeOK
  <2>2. CASE cmd[t] \in Cmds /\ finished[t]
    <3>1. finishes[cmd[t]] = 1 /\ finishes' = finishes BY <1>0, <2>2, Zenon DEF Told
    <3> QED BY <1>0, <3>1, Zenon DEF TypeOK
  <2>3. CASE cmd[t] \notin Cmds BY <1>0, <2>3, Zenon DEF TypeOK
  <2> QED BY <2>1, <2>2, <2>3, Zenon
<1>c. /\ finished' = [finished EXCEPT ![t] = TRUE] /\ at[t] = "finish" /\ at' = [at EXCEPT ![t] = "next"]
      /\ UNCHANGED <<queue, pool, target, cmd, loop, finishup, joinQueue, handed, boot, resizing, resizes, down>>
  OBVIOUS
<1> HIDE DEF CommandFinish, CallCommandFinish
<1>3. TypeOK' BY <1>0, <1>2, <1>c, Zenon DEF TypeOK, Busy
<1>4. Membership' BY <1>0, <1>c DEF Membership, JoinedOnce, Outside, TypeOK
<1>o. Outside' = Outside /\ Outside \subseteq ThreadIds BY <1>0, <1>c, OutsideAreThreads, Zenon DEF Outside
<1>l. Left' BY <1>0, <1>c, <1>o, LeftStays, Zenon DEF TypeOK
<1>5. OnePlace' BY SMTT(30), <1>0, <1>1, <1>c DEF OnePlace, TypeOK, Busy
<1>6. Told'
  <2>1. \A c \in Cmds : finishes'[c] \in {0, 1} BY SMTT(30), <1>0, <1>2 DEF Told
  <2>2. \A c \in Cmds : Queued(c)' => finishes'[c] = 0 BY <1>0, <1>1, <1>2 DEF Told, OnePlace
  <2>3. \A s \in ThreadIds : cmd'[s] \in Cmds => (finishes'[cmd'[s]] = 1 <=> finished'[s])
    <3>1. SUFFICES ASSUME NEW s \in ThreadIds, cmd[s] \in Cmds
                   PROVE  finishes'[cmd[s]] = 1 <=> finished'[s]
      BY <1>c, Zenon
    <3>2. CASE s = t BY <1>0, <1>2, <1>c, <3>1, <3>2, Zenon DEF TypeOK
    <3>3. CASE s # t
      <4>1. cmd[s] # cmd[t] BY <1>0, <3>1, <3>3, Zenon DEF OnePlace
      <4>2. finished'[s] = finished[s] BY <1>0, <1>c, <3>3, Zenon DEF TypeOK
      <4> QED BY <1>0, <1>2, <3>1, <4>1, <4>2, Zenon DEF Told
    <3> QED BY <3>2, <3>3, Zenon
  <2>4. \A s \in ThreadIds : at'[s] = "next" => finished'[s] BY <1>0, <1>c, Zenon DEF Told, TypeOK
  <2> QED BY <2>1, <2>2, <2>3, <2>4, Zenon DEF Told
<1>7. LeavesAfter'
  <2>1. \A c \in Cmds : finishes[c] = 1 => finishes'[c] = 1 BY <1>2, Zenon
  <2>2. \A s \in ThreadIds : at[s] \notin Busy \cup {"get"} => at'[s] \notin Busy \cup {"get"}
    BY <1>0, <1>c, Zenon DEF TypeOK, Busy
  <2>3. \A c \in Boots : Leaving(c)' <=> Leaving(c) BY <1>c, Zenon DEF Leaving
  <2>4. \A c \in Boots : boot[c].at \in {"finish", "finishup"} => boot[c].t \in ThreadIds
    BY <1>0, Zenon DEF LeavesAfter, Leaving
  <2>5. \A s \in ThreadIds : finished[s] => finished'[s] BY <1>0, <1>c, Zenon DEF TypeOK
  <2>6. \A s \in ThreadIds : at[s] # "get" => at'[s] # "get" BY <1>0, <1>c, Zenon DEF TypeOK
  <2> QED BY ZenonT(30), <1>0, <1>c, <2>1, <2>2, <2>3, <2>4, <2>5, <2>6 DEF LeavesAfter
<1>8. Closing' BY <1>0, <1>c, Zenon DEF Closing, TypeOK
<1>9. Unresized'
  <2>1. Departed' = Departed /\ Staying' = Staying BY <1>c, Zenon DEF Departed, Staying
  <2> QED BY SMTT(30), <1>0, <1>1, <1>c, <2>1 DEF Unresized
<1> QED BY <1>3, <1>4, <1>l, <1>5, <1>6, <1>7, <1>8, <1>9, Zenon DEF IndInv

LEMMA NextCmdStep == ASSUME IndInv, NEW t \in ThreadIds, NextCmd(t) PROVE IndInv'
<1> USE DEF NextCmd
<1>0. TypeOK /\ Membership /\ Left /\ OnePlace /\ Told /\ LeavesAfter /\ Closing /\ Unresized BY Zenon DEF IndInv
<1>1. /\ \A y : Queued(y)' <=> Queued(y)
      /\ QueuedOnce' <=> QueuedOnce
      /\ EndsBehind' <=> EndsBehind
      /\ Waiting' <=> Waiting
  BY SameQueue, Zenon
<1>2. finished[t] /\ (cmd[t] \in Cmds => finishes[cmd[t]] = 1) BY <1>0, Zenon DEF Told
<1>3. TypeOK' BY <1>0, Zenon DEF TypeOK, Busy
<1>4. Membership' BY SMTT(30), <1>0 DEF Membership, JoinedOnce, Outside, TypeOK
<1>o. Outside' = Outside /\ Outside \subseteq ThreadIds BY <1>0, OutsideAreThreads, Zenon DEF Outside
<1>l. Left'
  <2>1. t \in Outside => ~loop[t] BY <1>0, Zenon DEF Left
  <2>2. \A s \in Outside : at'[s] # "get"
    <3>1. \A s \in Outside : at[s] # "get" BY <1>0, Zenon DEF Left
    <3> QED BY <1>0, <1>o, <2>1, <3>1 DEF TypeOK
  <2>3. \A s \in ThreadIds : cmd'[s] = cmd[s] \/ cmd'[s] \notin Cmds BY <1>0, CmdsAreUsers, Zenon DEF TypeOK
  <2> QED BY <1>0, <1>o, <2>2, <2>3, LeftStays, Zenon
<1>5. OnePlace'
  <2>1. \A s \in ThreadIds : at'[s] \in Busy <=> cmd'[s] # NoCmd
    BY <1>0, Zenon DEF OnePlace, TypeOK, Busy
  <2>2. \A r, s \in ThreadIds : cmd'[r] = cmd'[s] /\ cmd'[r] \in Cmds => r = s
    BY <1>0, Zenon DEF OnePlace, TypeOK
  <2>3. \A c \in Cmds : Queued(c)' => \A s \in ThreadIds : cmd'[s] # c
    BY SMTT(30), <1>0, <1>1 DEF OnePlace, TypeOK
  <2> QED BY <1>0, <1>1, <2>1, <2>2, <2>3, Zenon DEF OnePlace
<1>6. Told'
  <2>1. \A s \in ThreadIds : cmd'[s] \in Cmds => cmd'[s] = cmd[s] BY <1>0, Zenon DEF TypeOK
  <2>2. \A s \in ThreadIds : at'[s] = "next" => at[s] = "next" BY SMTT(30), <1>0 DEF TypeOK
  <2> QED BY <1>0, <1>1, <2>1, <2>2, Zenon DEF Told
<1>7. LeavesAfter'
  <2>1. \A c \in Boots : finishes[c] = 1 \/ (\E s \in ThreadIds : cmd[s] = c) =>
                         finishes[c] = 1 \/ (\E s \in ThreadIds : cmd'[s] = c)
    BY SMTT(30), <1>0, <1>2 DEF TypeOK
  <2>2. \A c \in Boots : Leaving(c)' <=> Leaving(c) BY SMTT(30) DEF Leaving
  <2>3. ASSUME NEW c \in Boots, boot[c].at = "finish"
        PROVE  \/ cmd'[boot[c].t] = c
               \/ finished[boot[c].t] /\ at'[boot[c].t] \notin Busy \cup {"get"}
    <3>1. boot[c].t \in ThreadIds /\ ~loop[boot[c].t] BY <1>0, <2>3, Zenon DEF LeavesAfter, Leaving
    <3>2. CASE boot[c].t = t
      <4>1. at'[t] = "finishup" BY SMTT(30), <1>0, <3>1, <3>2 DEF TypeOK
      <4> QED BY <1>2, <3>2, <4>1, Zenon DEF Busy
    <3>3. CASE boot[c].t # t
      <4>1. cmd'[boot[c].t] = cmd[boot[c].t] /\ at'[boot[c].t] = at[boot[c].t]
        BY <1>0, <3>1, <3>3, Zenon DEF TypeOK
      <4> QED BY <1>0, <2>3, <4>1, Zenon DEF LeavesAfter
    <3> QED BY SMTT(30), <3>2, <3>3
  <2>4. ASSUME NEW c \in Boots, boot[c].at = "finishup"
        PROVE  finished[boot[c].t] /\ at'[boot[c].t] # "get"
    <3>1. boot[c].t \in ThreadIds /\ ~loop[boot[c].t] /\ finished[boot[c].t] /\ at[boot[c].t] # "get"
      BY <1>0, <2>4, Zenon DEF LeavesAfter, Leaving
    <3> QED BY SMTT(30), <1>0, <3>1 DEF TypeOK
  <2> QED BY <1>0, <2>1, <2>2, <2>3, <2>4 DEF LeavesAfter
<1>8. Closing' BY SMTT(30), <1>0 DEF Closing, TypeOK
<1>9. Unresized'
  <2>1. Departed' = Departed /\ Staying' = Staying BY Zenon DEF Departed, Staying
  <2>2. \A s \in ThreadIds : cmd'[s] = End => cmd[s] = End BY <1>0, Zenon DEF TypeOK, End, NoCmd
  <2> QED BY SMTT(30), <1>0, <1>1, <2>1, <2>2 DEF Unresized
<1> QED BY ZenonT(30), <1>3, <1>4, <1>l, <1>5, <1>6, <1>7, <1>8, <1>9 DEF IndInv

-----------------------------------------------------------------------------
(* Threads leave the pool.                                                   *)


\* release() takes a thread that goes on with no command out of the pool.
LEMMA ReleaseStep ==
    ASSUME IndInv, NEW t \in ThreadIds, Release(t), ~loop[t],
           finishup' = [finishup EXCEPT ![t] = TRUE],
           at' = at \/ (at[t] = "finishup" /\ at' = [at EXCEPT ![t] = "release"]),
           at[t] # "get", cmd[t] \in Cmds => finished[t],
           UNCHANGED <<queue, target, cmd, loop, finished, joinQueue, resizing, resizes, down, finishes>>,
           TypeOK', LeavesAfter', Departed' = Departed
    PROVE  IndInv'
<1>0. TypeOK /\ Membership /\ Left /\ OnePlace /\ Told /\ LeavesAfter /\ Closing /\ Unresized BY Zenon DEF IndInv
<1>1. /\ \A y : Queued(y)' <=> Queued(y)
      /\ QueuedOnce' <=> QueuedOnce
      /\ EndsBehind' <=> EndsBehind
      /\ Waiting' <=> Waiting
  BY SameQueue, Zenon
<1>2. /\ pool' = pool \ {t} /\ handed = {} /\ handed' = pool \cap {t}
      /\ Outside = Range(joinQueue)
      /\ \A s : s \in Outside' <=> s \in Outside \/ (s = t /\ t \in pool)
  BY Zenon DEF Release, Outside
<1>3. /\ \A s \in ThreadIds : s # t => at'[s] = at[s]
      /\ at'[t] = at[t] \/ (at[t] = "finishup" /\ at'[t] = "release")
      /\ \A s \in ThreadIds : at'[s] = "none" <=> at[s] = "none"
  BY <1>0, Zenon DEF TypeOK
<1>j. \A s \in Outside : s \in ThreadIds BY <1>0, <1>2, JoinersAreThreads, Zenon
<1>4. Membership'
  <2>1. \A s \in pool' : at'[s] \notin {"none", "release", "done"} /\ ~finishup'[s]
    BY <1>0, <1>2, <1>3, Zenon DEF Membership, TypeOK
  <2>2. \A s \in ThreadIds : at'[s] # "none" => s \in pool' \cup Outside'
    BY <1>0, <1>2, <1>3, Zenon DEF Membership
  <2>3. \A s \in Outside' : s \notin pool' /\ at'[s] # "none"
    BY <1>0, <1>2, <1>3, <1>j, Zenon DEF Membership
  <2>4. handed' \cap Range(joinQueue') = {} /\ (\A r, s \in handed' : r = s)
    BY <1>0, <1>2, Zenon DEF Membership
  <2>5. JoinedOnce' BY <1>0, Zenon DEF Membership, JoinedOnce
  <2> QED BY <2>1, <2>2, <2>3, <2>4, <2>5, Zenon DEF Membership
<1>l. Left' BY <1>0, <1>2, <1>3, <1>j, Zenon DEF Left
<1>5. OnePlace' BY <1>0, <1>1, <1>3, Zenon DEF OnePlace, TypeOK, Busy
<1>6. Told' BY ZenonT(30), <1>0, <1>1, <1>3 DEF Told
<1>8. Closing' BY <1>0, <1>2, <1>3, Zenon DEF Closing
<1>9. Unresized'
  <2>1. Staying' = Staying BY <1>2, Zenon DEF Staying
  <2>2. Cardinality(pool') =< Cardinality(pool) /\ Cardinality(pool) \in Nat /\ Cardinality(pool') \in Nat
    BY <1>0, <1>2, MoreThreads, ThreadSets, Zenon DEF TypeOK
  <2>3. Cardinality(pool) =< InitCount => Cardinality(pool') =< InitCount BY <2>2
  <2> QED BY ZenonT(30), <1>0, <1>1, <2>1, <2>3 DEF Unresized
<1> QED BY <1>4, <1>l, <1>5, <1>6, <1>8, <1>9, Zenon DEF IndInv

\* The joiner gets the thread that release() took out of the pool.
LEMMA AddThreadStep == ASSUME IndInv, AddThread PROVE IndInv'
<1>0. TypeOK /\ Membership /\ Left /\ OnePlace /\ Told /\ LeavesAfter /\ Closing /\ Unresized BY Zenon DEF IndInv
<1>1. PICK t \in handed : handed' = {} /\ joinQueue' = Append(joinQueue, t) BY Zenon DEF AddThread
<1>2. UNCHANGED <<queue, pool, target, at, cmd, loop, finished, finishup, boot, resizing, resizes, down, finishes>>
  BY Zenon DEF AddThread, threadVars
<1>3. /\ joinQueue' \in Seq(ThreadIds) /\ JoinedOnce'
      /\ \A s : s \in Range(joinQueue') <=> s \in Range(joinQueue) \/ s = t
  <2>1. joinQueue \in Seq(ThreadIds) /\ t \in ThreadIds /\ t \notin Range(joinQueue)
    BY <1>0, Zenon DEF TypeOK, Membership
  <2>2. Append(joinQueue, t) \in Seq(ThreadIds) BY <2>1, AppendElements, Zenon
  <2>3. \A s : s \in Range(Append(joinQueue, t)) <=> s \in Range(joinQueue) \/ s = t
    BY <2>1, AppendRange, Zenon
  <2>4. Once(joinQueue, ThreadIds) BY <1>0, Zenon DEF Membership, JoinedOnce, Once
  <2>5. Once(Append(joinQueue, t), ThreadIds) BY <2>1, <2>4, AppendOnce, Zenon
  <2>6. \A i \in 1..Len(joinQueue') : joinQueue'[i] \in ThreadIds BY <1>1, <2>2, ElementOfSeq, Zenon
  <2>7. JoinedOnce' BY <1>1, <2>5, <2>6, Zenon DEF JoinedOnce, Once
  <2> QED BY <1>1, <2>2, <2>3, <2>7, Zenon
<1>4. Outside' \subseteq Outside BY <1>1, <1>3, Zenon DEF Outside
<1>5. /\ \A y : Queued(y)' <=> Queued(y)
      /\ QueuedOnce' <=> QueuedOnce
      /\ EndsBehind' <=> EndsBehind
      /\ Waiting' <=> Waiting
  BY <1>2, SameQueue, Zenon
<1>6. TypeOK' BY <1>0, <1>1, <1>2, <1>3, Zenon DEF TypeOK
<1>7. handed = {t} BY <1>0, <1>1, Zenon DEF Membership
<1>8. Membership' BY <1>0, <1>1, <1>2, <1>3, <1>4, <1>7, Zenon DEF Membership, Outside
<1>9. Left' BY <1>0, <1>2, <1>4, LeftStays, Zenon
<1>10. OnePlace' /\ Told' BY <1>0, <1>2, <1>5, Zenon DEF OnePlace, Told
<1>11. LeavesAfter' BY <1>0, <1>2, Zenon DEF LeavesAfter, Leaving
<1>12. Closing' BY <1>0, <1>2, Zenon DEF Closing
<1>13. Unresized'
  <2>1. Departed' = Departed /\ Staying' = Staying BY <1>2, Zenon DEF Departed, Staying
  <2> QED BY <1>0, <1>2, <1>5, <2>1, Zenon DEF Unresized
<1> QED BY <1>6, <1>8, <1>9, <1>10, <1>11, <1>12, <1>13, Zenon DEF IndInv

LEMMA FinishUpStep == ASSUME IndInv, NEW t \in ThreadIds, FinishUp(t) PROVE IndInv'
<1> USE DEF FinishUp
<1>0. TypeOK /\ Membership /\ Left /\ OnePlace /\ Told /\ LeavesAfter /\ Closing /\ Unresized BY Zenon DEF IndInv
<1>1. /\ \A y : Queued(y)' <=> Queued(y)
      /\ QueuedOnce' <=> QueuedOnce
      /\ EndsBehind' <=> EndsBehind
      /\ Waiting' <=> Waiting
  BY SameQueue, Zenon
<1>2. \A s \in ThreadIds : s # t => at'[s] = at[s] BY <1>0, Zenon DEF TypeOK
<1>3. at[t] = "finishup" /\ at'[t] \in {"release", "done"} BY SMTT(30), <1>0 DEF TypeOK
<1>j. Outside \subseteq ThreadIds BY <1>0, OutsideAreThreads, Zenon
<1>4. LeavesAfter'
  <2>1. \A s \in ThreadIds : at[s] \notin Busy \cup {"get"} => at'[s] \notin Busy \cup {"get"}
    BY <1>2, <1>3, ZenonT(30) DEF Busy
  <2>2. \A c \in Boots : Leaving(c)' <=> Leaving(c) BY SMTT(30) DEF Leaving
  <2>3. \A c \in Boots : boot[c].at \in {"finish", "finishup"} => boot[c].t \in ThreadIds
    BY <1>0, Zenon DEF LeavesAfter, Leaving
  <2>4. \A s \in ThreadIds : at[s] # "get" => at'[s] # "get" BY <1>2, <1>3, Zenon
  <2> QED BY <1>0, <2>1, <2>2, <2>3, <2>4, Zenon DEF LeavesAfter
<1>5. Departed' = Departed BY Zenon DEF Departed
<1>6. CASE ~finishup[t] /\ at' = [at EXCEPT ![t] = "release"] /\ Release(t)
  <2>1. pool' \in SUBSET ThreadIds /\ handed' \in SUBSET ThreadIds BY <1>0, <1>6, Zenon DEF TypeOK, Release
  <2>2. TypeOK' BY <1>0, <1>6, <2>1, Zenon DEF TypeOK, Busy
  <2>3. ~loop[t] BY ZenonT(30), <1>0, <1>3 DEF Closing
  <2>4. at[t] # "get" /\ cmd[t] \notin Cmds BY <1>0, <1>3, CmdsAreUsers, Zenon DEF OnePlace, Busy
  <2> QED BY <1>3, <1>4, <1>5, <1>6, <2>2, <2>3, <2>4, ReleaseStep, Zenon
<1>7. CASE finishup[t] /\ at' = [at EXCEPT ![t] = "done"] /\ UNCHANGED <<pool, handed>>
  <2>o. Outside' = Outside BY <1>7, Zenon DEF Outside
  <2>l. Left' BY <1>0, <1>2, <1>3, <1>j, <2>o, LeftStays, Zenon
  <2>0. t \notin pool BY <1>0, <1>7, Zenon DEF Membership
  <2>1. finishup' = finishup BY SMTT(30), <1>0, <1>7 DEF TypeOK
  <2>2. TypeOK' BY SMTT(30), <1>0, <1>7 DEF TypeOK, Busy
  <2>3. Membership' BY SMTT(30), <1>0, <1>2, <1>3, <1>7, <2>0, <2>1 DEF Membership, JoinedOnce, Outside, TypeOK
  <2>4. OnePlace' BY SMTT(30), <1>0, <1>1, <1>2, <1>3 DEF OnePlace, Busy
  <2>5. Told' BY <1>0, <1>1, <1>2, <1>3, Zenon DEF Told
  <2>6. Closing' BY ZenonT(30), <1>0, <1>2, <1>3, <1>7 DEF Closing
  <2>7. Staying' = Staying
    <3>1. loop' = loop /\ pool' = pool BY <1>7, Zenon
    <3> QED BY <3>1, Zenon DEF Staying
  <2>8. Unresized' BY <1>0, <1>1, <1>5, <1>7, <2>7, Zenon DEF Unresized
  <2> QED BY <1>4, <2>l, <2>2, <2>3, <2>4, <2>5, <2>6, <2>8, Zenon DEF IndInv
<1> QED BY <1>6, <1>7, Zenon

-----------------------------------------------------------------------------
(* _resize(): the pool grows by the threads in new, or gets a MsgEnd.        *)

Grows(at1, new) ==
    /\ new \in SUBSET Free
    /\ pool' = pool \cup new
    /\ at' = [t \in ThreadIds |-> IF t \in new THEN "get" ELSE at1[t]]
    /\ loop' = [t \in ThreadIds |-> t \in new \/ loop[t]]
    /\ finishup' = [t \in ThreadIds |-> finishup[t] /\ t \notin new]
    /\ UNCHANGED <<cmd, finished>>
    /\ new = {} \/ (target > Cardinality(pool) /\ Cardinality(pool') = target)
    /\ queue' = queue \/ (queue' = Append(queue, End) /\ target < Cardinality(pool))

LEMMA ResizeGrows ==
    ASSUME TypeOK, Membership, NEW at1, DOMAIN at1 = ThreadIds, at1 = [t \in ThreadIds |-> at1[t]], Resize_(at1)
    PROVE  \E new : Grows(at1, new)
<1>0. Cardinality(pool) \in Nat /\ IsFiniteSet(pool) /\ target \in Nat BY ThreadSets DEF TypeOK
<1>1. CASE target > Cardinality(pool)
  <2>0. ~(target =< Cardinality(pool)) BY <1>0, <1>1
  <2>1. PICK new \in FirstFree(target - Cardinality(pool)) :
            /\ pool' = pool \cup new
            /\ at' = [t \in ThreadIds |-> IF t \in new THEN "get" ELSE at1[t]]
            /\ loop' = [t \in ThreadIds |-> t \in new \/ loop[t]]
            /\ finishup' = [t \in ThreadIds |-> finishup[t] /\ t \notin new]
    BY <2>0, Zenon DEF Resize_
  <2>4. UNCHANGED <<queue, cmd, finished>> BY <2>0, Zenon DEF Resize_
  <2>2. new \in SUBSET Free /\ Cardinality(new) = target - Cardinality(pool) BY Zenon DEF FirstFree
  <2>3. Cardinality(pool') = target
    <3>1. new \in SUBSET ThreadIds BY <2>2, Zenon DEF Free
    <3>2. pool \cap new = {} BY <2>2, Zenon DEF Free, Membership
    <3>3. IsFiniteSet(new) /\ Cardinality(new) \in Nat BY <3>1, ThreadSets, Zenon
    <3>4. Cardinality(pool \cup new) = Cardinality(pool) + Cardinality(new) - Cardinality(pool \cap new)
      BY <1>0, <3>3, FS_Union, Zenon
    <3>5. Cardinality(pool \cap new) = 0 BY <3>2, FS_EmptySet, Zenon
    <3> QED BY <1>0, <2>1, <2>2, <3>3, <3>4, <3>5
  <2> QED BY <1>1, <2>1, <2>2, <2>3, <2>4, Zenon DEF Grows
<1>2. CASE target =< Cardinality(pool)
  <2>1. /\ queue' = IF target < Cardinality(pool) THEN Append(queue, End) ELSE queue
        /\ at' = at1
        /\ UNCHANGED <<pool, cmd, loop, finished, finishup>>
    BY <1>0, <1>2 DEF Resize_, TypeOK
  <2>2. Grows(at1, {}) BY <2>1, Zenon DEF Grows, TypeOK
  <2> QED BY <2>2, Zenon
<1> QED BY <1>0, <1>1, <1>2

\* What surrounds a _resize(): it ends release(), or a part of resize() or endAll().
LEMMA ResizeStep ==
    ASSUME IndInv, NEW at1 \in [ThreadIds -> Busy \cup {"none", "get", "finishup", "release", "done"}],
           \A t \in ThreadIds : at1[t] = at[t] \/ (at[t] = "release" /\ at1[t] = "done"),
           Resize_(at1),
           boot' \in [Boots -> [at : {"idle", "compare", "finish", "finishup", "resize", "done"},
                                t : 0..MaxThreads]],
           \A c \in Boots : \/ boot'[c] = boot[c]
                            \/ boot[c].at = "resize" /\ boot'[c].at = "done",
           UNCHANGED <<target, joinQueue, handed, resizes, finishes>>,
           resizing' \in BOOLEAN, resizing' => resizing,
           down' = down \/ (down = "resize" /\ down' = "wait")
    PROVE  IndInv'
<1>0. TypeOK /\ Membership /\ Left /\ OnePlace /\ Told /\ LeavesAfter /\ Closing /\ Unresized BY Zenon DEF IndInv
<1>1. PICK new : Grows(at1, new)
  <2>1. at1 = [t \in ThreadIds |-> at1[t]] OBVIOUS
  <2> QED BY <1>0, <2>1, ResizeGrows, Zenon
<1>2. /\ new \in SUBSET ThreadIds
      /\ \A t \in new : /\ at[t] = "none" /\ at1[t] = "none"
                        /\ \A c \in Boots : Leaving(c) => boot[c].t # t
  <2>1. new \in SUBSET Free BY <1>1, Zenon DEF Grows
  <2>2. \A t \in new : t \in ThreadIds /\ at[t] = "none" BY <2>1, Zenon DEF Free
  <2>3. \A t \in new : \A c \in Boots : Leaving(c) => boot[c].t # t BY <2>1, Zenon DEF Free
  <2> QED BY <2>2, <2>3, Zenon
<1>3. /\ pool' = pool \cup new /\ cmd' = cmd /\ finished' = finished
      /\ \A t \in new : at'[t] = "get" /\ ~finishup'[t]
      /\ \A t \in ThreadIds \ new : at'[t] = at1[t] /\ (finishup'[t] <=> finishup[t])
      /\ \A t \in ThreadIds : loop'[t] <=> t \in new \/ loop[t]
  BY <1>1, <1>2, Zenon DEF Grows
<1>4. /\ queue' \in Seq(Cmds \cup {End})
      /\ QueuedOnce' /\ \A c \in Cmds : Queued(c)' <=> Queued(c)
  <2>1. CASE queue' = queue
    <3>1. \A c \in Cmds : Queued(c)' <=> Queued(c) BY <2>1, Zenon DEF Queued
    <3> QED BY <1>0, <2>1, <3>1, Zenon DEF TypeOK, OnePlace, QueuedOnce
  <2>2. CASE queue' = Append(queue, End) BY <1>0, <2>2, AppendQueued, Zenon DEF OnePlace
  <2> QED BY <1>1, <2>1, <2>2, Zenon DEF Grows
<1>5. TypeOK'
  <2>1. at' \in [ThreadIds -> Busy \cup {"none", "get", "finishup", "release", "done"}]
    BY <1>1, Zenon DEF Grows
  <2>2. loop' \in [ThreadIds -> BOOLEAN] /\ finishup' \in [ThreadIds -> BOOLEAN]
    BY <1>0, <1>1, Zenon DEF Grows, TypeOK
  <2>3. pool' \in SUBSET ThreadIds BY <1>0, <1>2, <1>3, Zenon DEF TypeOK
  <2>4. down' \in {"no", "flag", "resize", "wait", "join", "done"} BY <1>0, Zenon DEF TypeOK
  <2> QED BY <1>0, <1>3, <1>4, <2>1, <2>2, <2>3, <2>4, Zenon DEF TypeOK
<1>o. Outside' = Outside /\ Outside \subseteq ThreadIds BY <1>0, OutsideAreThreads, Zenon DEF Outside
<1>6. Membership'
  <2>1. \A t \in pool' : at'[t] \notin {"none", "release", "done"} /\ ~finishup'[t]
    BY <1>0, <1>2, <1>3 DEF Membership, TypeOK
  <2>2. \A t \in ThreadIds : at'[t] # "none" => t \in pool' \cup Outside'
    BY <1>0, <1>3, <1>o, ZenonT(30) DEF Membership
  <2>3. \A t \in Outside' : t \notin pool' /\ at'[t] # "none"
    <3>1. \A t \in Outside : t \in ThreadIds /\ t \notin pool /\ at[t] # "none" BY <1>0, <1>o, Zenon DEF Membership
    <3>2. \A t \in Outside : t \notin new BY <1>2, <3>1, Zenon
    <3>3. \A t \in Outside : at'[t] = at1[t] BY <1>3, <3>1, <3>2, Zenon
    <3>4. \A t \in Outside : at1[t] = at[t] \/ at1[t] = "done" BY <3>1, Zenon
    <3>5. "done" # "none" OBVIOUS
    <3>6. \A t \in Outside : at1[t] # "none" BY <3>1, <3>4, <3>5, Zenon
    <3> QED BY <1>3, <1>o, <3>1, <3>2, <3>3, <3>6, Zenon
  <2>4. JoinedOnce' /\ handed' \cap Range(joinQueue') = {} /\ (\A r, s \in handed' : r = s)
    BY <1>0, ZenonT(30) DEF Membership, JoinedOnce
  <2> QED BY <2>1, <2>2, <2>3, <2>4, ZenonT(30) DEF Membership
<1>l. Left'
  <2>1. \A t \in Outside : t \notin new BY <1>0, <1>2, Zenon DEF Membership
  <2>2. \A t \in Outside : (loop'[t] <=> loop[t]) /\ at'[t] = at1[t] BY <1>3, <1>o, <2>1, Zenon
  <2>3. \A t \in Outside : at'[t] = "get" => at[t] = "get" BY <1>o, <2>2, Zenon
  <2> QED BY <1>0, <1>3, <1>o, <2>2, <2>3, LeftStays, Zenon
<1>7. OnePlace'
  <2>1. \A t \in ThreadIds : at'[t] \in Busy <=> at[t] \in Busy BY <1>2, <1>3 DEF Busy
  <2> QED BY <1>0, <1>3, <1>4, <2>1, ZenonT(30) DEF OnePlace
<1>8. Told'
  <2>1. \A t \in ThreadIds : at'[t] = "next" => at[t] = "next" BY <1>3, Zenon
  <2> QED BY <1>0, <1>3, <1>4, <2>1, ZenonT(30) DEF Told
<1>9. LeavesAfter'
  <2>1. \A c \in Boots : Leaving(c)' => Leaving(c) /\ boot'[c] = boot[c] BY Zenon DEF Leaving
  <2>2. \A t \in ThreadIds \ new : at[t] \notin Busy \cup {"get"} => at'[t] \notin Busy \cup {"get"}
    BY <1>3, ZenonT(30) DEF Busy
  <2>3. \A c \in Boots : boot'[c] # [at |-> "idle", t |-> 0] => boot[c] # [at |-> "idle", t |-> 0]
    OBVIOUS
  <2>4. \A c \in Boots : boot'[c].at = "finish" => Leaving(c)' BY Zenon DEF Leaving
  <2>5. \A c \in Boots : Leaving(c) => boot[c].t \in ThreadIds \ new /\ ~loop[boot[c].t]
    <3>1. \A c \in Boots : Leaving(c) => boot[c].t \in ThreadIds /\ ~loop[boot[c].t]
      BY <1>0, Zenon DEF LeavesAfter
    <3> QED BY <1>2, <3>1, Zenon
  <2>6. ASSUME NEW c \in Boots, Leaving(c)' PROVE boot'[c].t \in ThreadIds /\ ~loop'[boot'[c].t]
    <3>1. boot'[c] = boot[c] /\ boot[c].t \in ThreadIds \ new /\ ~loop[boot[c].t] BY <2>1, <2>5, <2>6, Zenon
    <3>2. ~loop'[boot[c].t] BY <1>3, <3>1, Zenon
    <3> QED BY <3>1, <3>2, Zenon
  <2>7. ASSUME NEW c \in Boots, boot'[c].at = "finish"
        PROVE  \/ cmd'[boot'[c].t] = c
               \/ finished'[boot'[c].t] /\ at'[boot'[c].t] \notin Busy \cup {"get"}
    <3>1. boot'[c] = boot[c] /\ Leaving(c) BY <2>1, <2>4, <2>7, Zenon
    <3>2. boot[c].t \in ThreadIds \ new BY <2>5, <3>1, Zenon
    <3>3. cmd[boot[c].t] = c \/ (finished[boot[c].t] /\ at[boot[c].t] \notin Busy \cup {"get"})
      BY <1>0, <2>7, <3>1, Zenon DEF LeavesAfter
    <3>4. at[boot[c].t] \notin Busy \cup {"get"} => at'[boot[c].t] \notin Busy \cup {"get"}
      BY <2>2, <3>2, Zenon
    <3> QED BY <1>3, <3>1, <3>3, <3>4, Zenon
  <2>8. ASSUME NEW c \in Boots, boot'[c].at = "finishup"
        PROVE  finished'[boot'[c].t] /\ at'[boot'[c].t] # "get"
    <3>1. boot'[c] = boot[c] /\ Leaving(c) BY <2>1, <2>8, Zenon DEF Leaving
    <3>a. boot[c].at = "finishup" BY <2>8, <3>1, Zenon
    <3>2. boot[c].t \in ThreadIds \ new BY <2>5, <3>1, Zenon
    <3>3. finished[boot[c].t] /\ at[boot[c].t] # "get" BY <1>0, <3>a, Zenon DEF LeavesAfter
    <3>4. at'[boot[c].t] # "get" BY <1>3, <3>2, <3>3, Zenon
    <3> QED BY <1>3, <3>1, <3>3, <3>4, Zenon
  <2> QED BY <1>0, <1>3, <2>3, <2>6, <2>7, <2>8 DEF LeavesAfter
<1>10. Closing'
  <2>1. \A t \in ThreadIds : at'[t] \in {"finishup", "release", "done"} => ~loop'[t]
    BY <1>0, <1>3, SMTT(30) DEF Closing
  <2>2. Cardinality(pool) \in Nat BY <1>0, ThreadSets, ZenonT(30) DEF TypeOK
  <2>3. target = 0 => new = {}
    <3>1. new = {} \/ target > Cardinality(pool) BY <1>1, Zenon DEF Grows
    <3> QED BY <2>2, <3>1, SMTT(30)
  <2> QED BY <1>0, <1>3, <2>1, <2>3, ZenonT(30) DEF Closing
<1>11. Unresized'
  <2>1. SUFFICES ASSUME resizes = 0 PROVE Unresized' BY Zenon DEF Unresized
  <2>2. Departed' = Departed BY ZenonT(30) DEF Departed
  <2>3. Staying \subseteq Staying' BY SMTT(30), <1>0, <1>2, <1>3 DEF Staying, Membership, TypeOK
  <2>4. Waiting' <=> Waiting BY <1>4, Zenon DEF Waiting
  <2>5. Cardinality(pool) \in Nat BY <1>0, ThreadSets, Zenon DEF TypeOK
  <2>6. EndsBehind'
    <3>1. CASE queue' = queue BY <1>0, <2>1, <3>1, Zenon DEF EndsBehind, Unresized
    <3>2. CASE queue' = Append(queue, End) BY <1>0, <2>1, <3>2, AppendBehind, Zenon DEF Unresized
    <3> QED BY <1>1, <3>1, <3>2, Zenon DEF Grows
  <2>7. ASSUME down' \in {"no", "flag"}
        PROVE  target = InitCount /\ Cardinality(pool') =< InitCount /\ ~Queued(End)'
    <3>1. target = InitCount /\ Cardinality(pool) =< InitCount /\ ~Queued(End)
      BY <1>0, <2>1, <2>7, ZenonT(30) DEF Unresized
    <3>2. queue' = queue
      <4>1. queue' = queue \/ target < Cardinality(pool) BY <1>1, Zenon DEF Grows
      <4> QED BY <2>5, <3>1, <4>1, InitCountFits, SMTT(30)
    <3>3. Cardinality(pool') =< InitCount
      <4>1. CASE new = {} BY <1>3, <3>1, <4>1, ZenonT(30)
      <4>2. CASE Cardinality(pool') = target BY <3>1, <4>2
      <4> QED BY <1>1, <4>1, <4>2, Zenon DEF Grows
    <3> QED BY <3>1, <3>2, <3>3, Zenon DEF Queued
  <2>8. (down' = "no" \/ Waiting') => Cardinality(Staying') + Cardinality(Departed') >= InitCount
    BY <1>5, <2>1, <2>2, <2>3, <2>4, StayingKept, Zenon
  <2> QED BY <1>0, <1>3, <2>1, <2>2, <2>4, <2>6, <2>7, <2>8, Zenon DEF Unresized
<1> QED BY <1>5, <1>6, <1>l, <1>7, <1>8, <1>9, <1>10, <1>11, Zenon DEF IndInv

LEMMA ReleasedStep == ASSUME IndInv, NEW t \in ThreadIds, Released(t) PROVE IndInv'
<1> DEFINE at1 == [at EXCEPT ![t] = "done"]
<1>1. TypeOK BY Zenon DEF IndInv
<1>2. /\ at[t] = "release" /\ Resize_(at1)
      /\ UNCHANGED <<target, joinQueue, handed, boot, resizing, resizes, down, finishes>>
  BY Zenon DEF Released
<1>3. /\ at1 \in [ThreadIds -> Busy \cup {"none", "get", "finishup", "release", "done"}]
      /\ \A s \in ThreadIds : at1[s] = at[s] \/ (at[s] = "release" /\ at1[s] = "done")
  BY <1>1, <1>2, Zenon DEF TypeOK
<1>4. /\ boot' \in [Boots -> [at : {"idle", "compare", "finish", "finishup", "resize", "done"},
                              t : 0..MaxThreads]]
      /\ resizing' \in BOOLEAN
  BY <1>1, <1>2, Zenon DEF TypeOK
<1> HIDE DEF at1
<1> QED BY <1>2, <1>3, <1>4, ResizeStep, Zenon

LEMMA LeaveResizeStep == ASSUME IndInv, NEW c \in Boots, LeaveResize(c) PROVE IndInv'
<1>1. TypeOK BY Zenon DEF IndInv
<1>2. /\ boot[c].at = "resize" /\ Resize_(at) /\ boot' = [boot EXCEPT ![c].at = "done"]
      /\ UNCHANGED <<target, joinQueue, handed, resizing, resizes, down, finishes>>
  BY Zenon DEF LeaveResize, BootAt
<1>3. at \in [ThreadIds -> Busy \cup {"none", "get", "finishup", "release", "done"}] BY <1>1, Zenon DEF TypeOK
<1>4. /\ boot' \in [Boots -> [at : {"idle", "compare", "finish", "finishup", "resize", "done"},
                              t : 0..MaxThreads]]
      /\ resizing' \in BOOLEAN
      /\ \A d \in Boots : boot'[d] = boot[d] \/ (boot[d].at = "resize" /\ boot'[d].at = "done")
  BY <1>1, <1>2, Zenon DEF TypeOK
<1> QED BY <1>2, <1>3, <1>4, ResizeStep, Zenon

LEMMA ResizeWorkStep == ASSUME IndInv, ResizeWork PROVE IndInv'
<1>1. TypeOK BY Zenon DEF IndInv
<1>2. Resize_(at) /\ resizing' = FALSE /\ UNCHANGED <<target, joinQueue, handed, boot, resizes, down, finishes>>
  BY Zenon DEF ResizeWork
<1>3. /\ at \in [ThreadIds -> Busy \cup {"none", "get", "finishup", "release", "done"}]
      /\ boot' \in [Boots -> [at : {"idle", "compare", "finish", "finishup", "resize", "done"},
                              t : 0..MaxThreads]]
  BY <1>1, <1>2, Zenon DEF TypeOK
<1> QED BY <1>2, <1>3, ResizeStep, Zenon

\* Steps that only move the target or the stage of the shutdown.
LEMMA SamePool ==
    ASSUME IndInv, UNCHANGED <<queue, pool, threadVars, joinQueue, handed, boot, finishes>>
    PROVE  /\ Membership' /\ Left' /\ OnePlace' /\ Told' /\ LeavesAfter'
           /\ Departed' = Departed /\ Staying' = Staying
<1>0. TypeOK /\ Membership /\ Left /\ OnePlace /\ Told /\ LeavesAfter BY Zenon DEF IndInv
<1>1. (\A y : Queued(y)' <=> Queued(y)) /\ (QueuedOnce' <=> QueuedOnce) BY SameQueue, Zenon
<1>2. Membership' BY <1>0, Zenon DEF Membership, JoinedOnce, Outside, threadVars
<1>l. Left' BY <1>0, Zenon DEF Left, Outside, threadVars
<1>3. OnePlace' BY <1>0, <1>1, Zenon DEF OnePlace, threadVars
<1>4. Told' BY <1>0, <1>1, Zenon DEF Told, threadVars
<1>5. LeavesAfter' BY <1>0, Zenon DEF LeavesAfter, Leaving, threadVars
<1>6. Departed' = Departed /\ Staying' = Staying BY Zenon DEF Departed, Staying, threadVars
<1> QED BY <1>2, <1>l, <1>3, <1>4, <1>5, <1>6, Zenon

LEMMA EndAllStep == ASSUME IndInv, EndAll PROVE IndInv'
<1>0. TypeOK /\ Closing /\ Unresized BY Zenon DEF IndInv
<1>1. CASE down = "resize" /\ Resize_(at) /\ down' = "wait" /\ UNCHANGED target
  <2>1. UNCHANGED <<target, joinQueue, handed, boot, resizing, resizes, finishes>> BY <1>1, Zenon DEF EndAll
  <2>2. /\ at \in [ThreadIds -> Busy \cup {"none", "get", "finishup", "release", "done"}]
        /\ boot' \in [Boots -> [at : {"idle", "compare", "finish", "finishup", "resize", "done"},
                                t : 0..MaxThreads]]
        /\ resizing' \in BOOLEAN
    BY <1>0, <2>1, Zenon DEF TypeOK
  <2> QED BY <1>1, <2>1, <2>2, ResizeStep, Zenon
<1>2. CASE down = "flag" /\ target' = 0 /\ down' = "resize" /\ UNCHANGED <<queue, pool, threadVars>>
  <2>1. UNCHANGED <<joinQueue, handed, boot, resizing, resizes, finishes>> BY Zenon DEF EndAll
  <2>2. /\ Membership' /\ Left' /\ OnePlace' /\ Told' /\ LeavesAfter'
        /\ Departed' = Departed /\ Staying' = Staying
    BY <1>2, <2>1, SamePool, Zenon
  <2>3. TypeOK' BY <1>0, <1>2, <2>1 DEF TypeOK, threadVars
  <2>4. Closing' BY <1>0, <1>2, <2>1, Zenon DEF Closing, threadVars
  <2>5. (EndsBehind' <=> EndsBehind) /\ (Waiting' <=> Waiting) BY <1>2, SameQueue, Zenon
  <2>6. Unresized' BY <1>0, <1>2, <2>1, <2>2, <2>5, Zenon DEF Unresized, threadVars
  <2> QED BY <2>2, <2>3, <2>4, <2>6, Zenon DEF IndInv
<1> QED BY <1>1, <1>2, Zenon DEF EndAll

LEMMA ShutdownStep == ASSUME IndInv, ShutdownPool \/ WaitForResize \/ ShutdownJoin PROVE IndInv'
<1> USE DEF ShutdownPool, WaitForResize, ShutdownJoin
<1>0. TypeOK /\ Closing /\ Unresized BY Zenon DEF IndInv
<1>1. UNCHANGED <<queue, pool, target, threadVars, joinQueue, handed, boot, resizing, resizes, finishes>> OBVIOUS
<1>2. /\ Membership' /\ Left' /\ OnePlace' /\ Told' /\ LeavesAfter'
      /\ Departed' = Departed /\ Staying' = Staying
  BY <1>1, SamePool, Zenon
<1>3. TypeOK' BY <1>0, <1>1, Zenon DEF TypeOK, threadVars
<1>4. Closing'
  <2>1. CASE ShutdownPool BY <1>0, <1>1, <2>1, Zenon DEF Closing, threadVars
  <2>2. CASE WaitForResize
    <3>1. target = 0 /\ Cardinality(pool) = 0 BY <1>0, <2>2, Zenon DEF Closing
    <3>2. pool = {} BY <1>0, <3>1, ThreadSets, FS_EmptySet, Zenon DEF TypeOK
    <3> QED BY <1>0, <1>1, <2>2, <3>2, Zenon DEF Closing, threadVars
  <2>3. CASE ShutdownJoin BY <1>0, <1>1, <2>3, Zenon DEF Closing, threadVars
  <2> QED BY <2>1, <2>2, <2>3, Zenon
<1>5. (\A y : Queued(y)' <=> Queued(y)) /\ (EndsBehind' <=> EndsBehind) /\ (Waiting' <=> Waiting)
  BY <1>1, SameQueue, Zenon
<1>6. Unresized'
  <2>1. /\ down' \in {"no", "flag"} => down \in {"no", "flag"}
        /\ down' = "no" => down = "no"
    OBVIOUS
  <2> QED BY <1>0, <1>1, <1>2, <1>5, <2>1, Zenon DEF Unresized, threadVars
<1> QED BY <1>2, <1>3, <1>4, <1>6, Zenon DEF IndInv

LEMMA ResizeCallStep == ASSUME IndInv, NEW n \in Targets, Resize(n) PROVE IndInv'
<1> USE DEF Resize
<1>0. TypeOK /\ Closing BY Zenon DEF IndInv
<1>1. Membership' /\ Left' /\ OnePlace' /\ Told' /\ LeavesAfter' BY SamePool, Zenon
<1>2. n \in 0..MaxThreads OBVIOUS
<1>3. TypeOK' BY <1>0, <1>2 DEF TypeOK, threadVars
<1>4. Closing' BY <1>0, Zenon DEF Closing, threadVars
<1>5. resizes' # 0 BY <1>0 DEF TypeOK
<1>6. Unresized' BY <1>5, Zenon DEF Unresized
<1> QED BY <1>1, <1>3, <1>4, <1>6, Zenon DEF IndInv

\* The joiner takes a thread that has ended out of its queue.
LEMMA JoinLoopStep == ASSUME IndInv, JoinLoop PROVE IndInv'
<1> DEFINE t == Head(joinQueue)
<1>0. TypeOK /\ Membership /\ Left /\ OnePlace /\ Told /\ LeavesAfter /\ Closing /\ Unresized BY Zenon DEF IndInv
<1>1. /\ joinQueue # <<>> /\ at[t] = "done" /\ at' = [at EXCEPT ![t] = "none"]
      /\ joinQueue' = Tail(joinQueue)
      /\ boot' = [c \in Boots |-> IF boot[c] = [at |-> "idle", t |-> t]
                                  THEN [at |-> "idle", t |-> 0] ELSE boot[c]]
      /\ UNCHANGED <<queue, pool, target, cmd, loop, finished, finishup, handed, resizing, resizes,
                     down, finishes>>
  BY Zenon DEF JoinLoop
<1>2. /\ t \in ThreadIds /\ t \in Range(joinQueue) /\ joinQueue' \in Seq(ThreadIds)
      /\ \A s : s \in Range(joinQueue') => s \in Range(joinQueue)
      /\ \A s : s \in Range(joinQueue) => s \in Range(joinQueue') \/ s = t
      /\ t \notin Range(joinQueue') /\ JoinedOnce'
  <2>1. joinQueue \in Seq(ThreadIds) BY <1>0, Zenon DEF TypeOK
  <2>2. t \in ThreadIds /\ Tail(joinQueue) \in Seq(ThreadIds) BY <1>1, <2>1, TailElements, Zenon
  <2>3. /\ t \in Range(joinQueue)
        /\ \A s : s \in Range(Tail(joinQueue)) => s \in Range(joinQueue)
        /\ \A s : s \in Range(joinQueue) => s \in Range(Tail(joinQueue)) \/ s = t
    BY <1>1, <2>1, TailRange, Zenon
  <2>4. Once(joinQueue, ThreadIds) BY <1>0, Zenon DEF Membership, JoinedOnce, Outside, Once
  <2>5. Once(Tail(joinQueue), ThreadIds) /\ t \notin Range(Tail(joinQueue))
    BY <1>1, <2>1, <2>2, <2>4, TailOnce, Zenon
  <2>6. \A i \in 1..Len(Tail(joinQueue)) : Tail(joinQueue)[i] \in ThreadIds BY <2>2, ElementOfSeq, Zenon
  <2>7. JoinedOnce' BY <1>1, <2>5, <2>6, Zenon DEF JoinedOnce, Once
  <2> QED BY <1>1, <2>2, <2>3, <2>5, <2>7, Zenon
<1> HIDE DEF t
<1>3. /\ \A y : Queued(y)' <=> Queued(y)
      /\ QueuedOnce' <=> QueuedOnce
      /\ EndsBehind' <=> EndsBehind
      /\ Waiting' <=> Waiting
  BY <1>1, SameQueue, Zenon
<1>4. at'[t] = "none" /\ \A s \in ThreadIds : s # t => at'[s] = at[s] BY <1>0, <1>1, <1>2, Zenon DEF TypeOK
<1>5. TypeOK'
  <2>1. boot' \in [Boots -> [at : {"idle", "compare", "finish", "finishup", "resize", "done"},
                             t : 0..MaxThreads]]
    BY <1>0, <1>1 DEF TypeOK
  <2> QED BY <1>0, <1>1, <1>2, <2>1, ZenonT(30) DEF TypeOK, Busy
<1>o. Outside' \subseteq Outside /\ Outside \subseteq ThreadIds
  BY <1>0, <1>1, <1>2, OutsideAreThreads, Zenon DEF Outside
<1>l. Left' BY <1>0, <1>1, <1>4, <1>o, LeftStays, Zenon
<1>6. Membership'
  <2>1. t \notin pool BY <1>0, <1>2, Zenon DEF Membership, Outside
  <2>2. \A s \in pool' : at'[s] \notin {"none", "release", "done"} /\ ~finishup'[s]
    BY <1>0, <1>1, <1>4, <2>1, Zenon DEF Membership, TypeOK
  <2>3. \A s \in ThreadIds : at'[s] # "none" => s \in pool' \cup Outside'
    BY <1>0, <1>1, <1>2, <1>4, Zenon DEF Membership, Outside
  <2>4. \A s \in Outside' : s \notin pool' /\ at'[s] # "none"
    BY <1>0, <1>1, <1>2, <1>4, <1>o, Zenon DEF Membership, Outside
  <2>5. handed' \cap Range(joinQueue') = {} /\ (\A r, s \in handed' : r = s)
    BY <1>0, <1>1, <1>2, Zenon DEF Membership
  <2> QED BY <1>2, <2>2, <2>3, <2>4, <2>5, Zenon DEF Membership
<1>7. OnePlace' BY <1>0, <1>1, <1>3, <1>4, Zenon DEF OnePlace, Busy
<1>8. Told' BY <1>0, <1>1, <1>3, <1>4, Zenon DEF Told
<1>9. LeavesAfter'
  <2>1. \A c \in Boots : boot'[c] # [at |-> "idle", t |-> 0] => boot'[c] = boot[c] BY <1>1, Zenon
  <2>2. \A c \in Boots : Leaving(c)' => Leaving(c) /\ boot'[c] = boot[c] BY <1>1, Zenon DEF Leaving
  <2>3. \A c \in Boots : boot'[c].at = "finish" => Leaving(c)' BY Zenon DEF Leaving
  <2>4. \A s \in ThreadIds : at[s] \notin Busy \cup {"get"} => at'[s] \notin Busy \cup {"get"}
    BY <1>4, Zenon DEF Busy
  <2>5. \A c \in Boots : boot'[c].at = "finish" =>
               \/ cmd'[boot'[c].t] = c
               \/ finished'[boot'[c].t] /\ at'[boot'[c].t] \notin Busy \cup {"get"}
    BY <1>0, <1>1, <2>2, <2>3, <2>4, Zenon DEF LeavesAfter
  <2>6. ASSUME NEW c \in Boots, boot'[c].at = "finishup"
        PROVE  finished'[boot'[c].t] /\ at'[boot'[c].t] # "get"
    <3>1. Leaving(c) /\ boot'[c] = boot[c] BY <2>2, <2>6, Zenon DEF Leaving
    <3>2. boot[c].t \in ThreadIds /\ finished[boot[c].t] /\ at[boot[c].t] # "get"
      BY <1>0, <2>6, <3>1, Zenon DEF LeavesAfter
    <3> QED BY <1>1, <1>4, <3>1, <3>2, Zenon
  <2> QED BY <1>0, <1>1, <2>1, <2>2, <2>5, <2>6, Zenon DEF LeavesAfter
<1>10. Closing' BY <1>0, <1>1, <1>4, Zenon DEF Closing
<1>11. Unresized'
  <2>1. Departed' = Departed BY <1>1 DEF Departed
  <2>2. Staying' = Staying BY <1>1, Zenon DEF Staying
  <2> QED BY <1>0, <1>1, <1>3, <2>1, <2>2, Zenon DEF Unresized
<1> QED BY <1>5, <1>6, <1>l, <1>7, <1>8, <1>9, <1>10, <1>11, Zenon DEF IndInv

-----------------------------------------------------------------------------
(* leavePool(c)                                                              *)

LEMMA LeavePoolStep == ASSUME IndInv, NEW c \in Boots, LeavePool(c) PROVE IndInv'
<1> DEFINE t == boot[c].t
<1>0. TypeOK /\ Membership /\ Left /\ OnePlace /\ Told /\ LeavesAfter /\ Closing /\ Unresized BY Zenon DEF IndInv
<1>1. /\ boot[c].at = "idle" /\ t # 0 /\ loop' = [loop EXCEPT ![t] = FALSE]
      /\ boot' = [boot EXCEPT ![c].at = "compare"]
      /\ UNCHANGED <<queue, pool, target, at, cmd, finished, finishup, joinQueue, handed, resizing, resizes,
                     down, finishes>>
  BY Zenon DEF LeavePool, BootAt
<1>2. t \in ThreadIds BY <1>0, <1>1 DEF TypeOK, ThreadIds
<1>3. boot'[c] = [at |-> "compare", t |-> t] /\ \A d \in Boots : d # c => boot'[d] = boot[d]
  BY <1>0, <1>1, ZenonT(30) DEF TypeOK
<1> HIDE DEF t
<1>4. ~loop'[t] /\ \A s \in ThreadIds : s # t => (loop'[s] <=> loop[s]) BY <1>0, <1>1, <1>2, Zenon DEF TypeOK
<1>5. /\ \A y : Queued(y)' <=> Queued(y)
      /\ QueuedOnce' <=> QueuedOnce
      /\ EndsBehind' <=> EndsBehind
      /\ Waiting' <=> Waiting
  BY <1>1, SameQueue, Zenon
<1>6. TypeOK' BY <1>0, <1>1, Zenon DEF TypeOK
<1>7. Membership' BY <1>0, <1>1, Zenon DEF Membership, JoinedOnce, Outside
<1>o. Outside' = Outside /\ Outside \subseteq ThreadIds BY <1>0, <1>1, OutsideAreThreads, Zenon DEF Outside
<1>l. Left' BY <1>0, <1>1, <1>2, <1>4, <1>o, LeftStays, Zenon
<1>8. OnePlace' BY <1>0, <1>1, <1>5, Zenon DEF OnePlace
<1>9. Told' BY SMTT(30), <1>0, <1>1, <1>5 DEF Told
<1>10. LeavesAfter'
  <2>1. \A d \in Boots : Leaving(d)' => Leaving(d) \/ d = c BY <1>3, Zenon DEF Leaving
  <2>2. finishes[c] = 1 \/ \E s \in ThreadIds : cmd[s] = c BY SMTT(30), <1>0, <1>1 DEF LeavesAfter, t
  <2>3. \A d \in Boots : Leaving(d)' => boot'[d].t \in ThreadIds /\ ~loop'[boot'[d].t]
    BY <1>0, <1>2, <1>3, <1>4, <2>1 DEF LeavesAfter
  <2>4. \A d \in Boots : boot'[d] # [at |-> "idle", t |-> 0] =>
               finishes'[d] = 1 \/ \E s \in ThreadIds : cmd'[s] = d
    BY <1>0, <1>1, <1>3, <2>2, ZenonT(30) DEF LeavesAfter
  <2>5. \A d \in Boots : boot'[d].at = "finish" =>
               \/ cmd'[boot'[d].t] = d
               \/ finished'[boot'[d].t] /\ at'[boot'[d].t] \notin Busy \cup {"get"}
    BY <1>0, <1>1, <1>3 DEF LeavesAfter
  <2>6. \A d \in Boots : boot'[d].at = "finishup" => finished'[boot'[d].t] /\ at'[boot'[d].t] # "get"
    BY <1>0, <1>1, <1>3 DEF LeavesAfter
  <2> QED BY SMTT(30), <2>3, <2>4, <2>5, <2>6 DEF LeavesAfter
<1>11. Closing' BY <1>0, <1>1, <1>4, Zenon DEF Closing
<1>12. Unresized'
  <2>1. SUFFICES ASSUME resizes = 0 PROVE Unresized' BY <1>1, Zenon DEF Unresized
  <2>2. Departed' = Departed \cup {c} /\ c \notin Departed BY <1>1, <1>3 DEF Departed
  <2>3. IsFiniteSet(Departed) BY <1>0, <2>1, Zenon DEF Unresized
  <2>4. /\ IsFiniteSet(Departed') /\ Cardinality(Departed') = Cardinality(Departed) + 1
        /\ Cardinality(Departed) \in Nat
    BY <2>2, <2>3, FS_AddElement, FS_CardinalityType, Zenon
  <2>5. Staying \in SUBSET ThreadIds /\ Staying' \in SUBSET ThreadIds BY <1>0, <1>6, Zenon DEF TypeOK, Staying
  <2>6. Staying \ {t} \subseteq Staying' BY <1>0, <1>1, <1>4, Zenon DEF Staying, TypeOK
  <2>7. Cardinality(Staying) =< Cardinality(Staying') + 1
    <3>1. IsFiniteSet(Staying) /\ Cardinality(Staying) \in Nat /\ Cardinality(Staying') \in Nat
          /\ Staying \ {t} \in SUBSET ThreadIds
      BY <2>5, ThreadSets, Zenon
    <3>2. Cardinality(Staying \ {t}) =< Cardinality(Staying') BY <2>5, <2>6, <3>1, MoreThreads, Zenon
    <3>3. Cardinality(Staying \ {t}) =
             IF t \in Staying THEN Cardinality(Staying) - 1 ELSE Cardinality(Staying)
      BY <3>1, FS_RemoveElement, Zenon
    <3>4. Cardinality(Staying \ {t}) \in Nat BY <3>1, ThreadSets, Zenon
    <3> QED BY <3>1, <3>2, <3>3, <3>4
  <2>8. Cardinality(Staying) \in Nat /\ Cardinality(Staying') \in Nat BY <2>5, ThreadSets, Zenon
  <2>9. Cardinality(Staying) + Cardinality(Departed) >= InitCount =>
           Cardinality(Staying') + Cardinality(Departed') >= InitCount
    BY SMTT(30), <2>4, <2>7, <2>8
  <2> QED BY <1>0, <1>1, <1>5, <2>1, <2>4, <2>9, Zenon DEF Unresized
<1> QED BY <1>6, <1>7, <1>l, <1>8, <1>9, <1>10, <1>11, <1>12, Zenon DEF IndInv

\* Stages of leavePool() after the first: boot[c] goes on, and no thread is told to leave.
LEMMA BootMoves ==
    ASSUME IndInv, NEW c \in Boots, Leaving(c), NEW a \in {"finish", "finishup", "resize", "done"},
           BootAt(c, a), UNCHANGED <<cmd, loop>>,
           \A d \in Cmds : finishes[d] = 1 => finishes'[d] = 1,
           \A s \in ThreadIds : finished[s] => finished'[s],
           \A s \in ThreadIds : at[s] \notin Busy \cup {"get"} => at'[s] \notin Busy \cup {"get"},
           \A s \in ThreadIds : at[s] # "get" => at'[s] # "get",
           a = "finish" => cmd[boot[c].t] = c,
           a = "finishup" => finished'[boot[c].t] /\ at'[boot[c].t] # "get"
    PROVE  /\ LeavesAfter' /\ Departed' = Departed
           /\ boot' \in [Boots -> [at : {"idle", "compare", "finish", "finishup", "resize", "done"},
                                   t : 0..MaxThreads]]
<1>0. TypeOK /\ LeavesAfter BY Zenon DEF IndInv
<1>1. boot' = [boot EXCEPT ![c].at = a] BY Zenon DEF BootAt
<1>2. /\ boot'[c] = [at |-> a, t |-> boot[c].t] /\ \A d \in Boots : d # c => boot'[d] = boot[d]
      /\ boot' \in [Boots -> [at : {"idle", "compare", "finish", "finishup", "resize", "done"},
                              t : 0..MaxThreads]]
  BY <1>0, <1>1, SMTT(30) DEF TypeOK
<1>3. \A d \in Boots : Leaving(d)' => Leaving(d) /\ boot'[d].t = boot[d].t BY SMTT(30), <1>2 DEF Leaving
<1>4. \A d \in Boots : boot'[d] # [at |-> "idle", t |-> 0] =>
             finishes'[d] = 1 \/ \E s \in ThreadIds : cmd'[s] = d
  <2>1. boot[c] # [at |-> "idle", t |-> 0] BY SMTT(30) DEF Leaving
  <2> QED BY <1>0, <1>2, <2>1, ZenonT(30) DEF LeavesAfter
<1>5. \A d \in Boots : Leaving(d)' => boot'[d].t \in ThreadIds /\ ~loop'[boot'[d].t]
  BY <1>0, <1>3, Zenon DEF LeavesAfter
<1>6. ASSUME NEW d \in Boots, boot'[d].at = "finish"
      PROVE  \/ cmd'[boot'[d].t] = d
             \/ finished'[boot'[d].t] /\ at'[boot'[d].t] \notin Busy \cup {"get"}
  <2>1. CASE d = c
    <3>1. boot'[d] = [at |-> a, t |-> boot[c].t] BY <1>2, <2>1, ZenonT(30)
    <3>2. a = "finish" /\ boot'[d].t = boot[c].t BY <1>6, <3>1
    <3>3. cmd[boot[c].t] = d /\ cmd' = cmd BY <2>1, <3>2, ZenonT(30)
    <3> QED BY <3>2, <3>3, Zenon
  <2>2. CASE d # c
    <3>1. boot'[d] = boot[d] /\ boot[d].at = "finish" BY SMTT(30), <1>2, <1>6, <2>2
    <3>2. boot[d].t \in ThreadIds BY <1>0, <3>1, Zenon DEF LeavesAfter, Leaving
    <3> QED BY SMTT(30), <1>0, <3>1, <3>2 DEF LeavesAfter
  <2> QED BY ZenonT(30), <2>1, <2>2
<1>f. ASSUME NEW d \in Boots, boot'[d].at = "finishup"
      PROVE  finished'[boot'[d].t] /\ at'[boot'[d].t] # "get"
  <2>1. CASE d = c
    <3>1. boot'[d] = [at |-> a, t |-> boot[c].t] BY <1>2, <2>1, ZenonT(30)
    <3>2. a = "finishup" /\ boot'[d].t = boot[c].t BY <1>f, <3>1
    <3> QED BY <3>2, Zenon
  <2>2. CASE d # c
    <3>1. boot'[d] = boot[d] /\ boot[d].at = "finishup" BY SMTT(30), <1>2, <1>f, <2>2
    <3>2. boot[d].t \in ThreadIds /\ finished[boot[d].t] /\ at[boot[d].t] # "get"
      BY <1>0, <3>1, Zenon DEF LeavesAfter, Leaving
    <3> QED BY <3>1, <3>2, Zenon
  <2> QED BY <2>1, <2>2, Zenon
<1>7. Departed' = Departed
  <2>1. boot[c].at # "idle" /\ boot'[c].at # "idle" BY <1>2 DEF Leaving
  <2> QED BY <1>2, <2>1, ZenonT(30) DEF Departed
<1> QED BY <1>2, <1>4, <1>5, <1>6, <1>f, <1>7, Zenon DEF LeavesAfter

LEMMA LeaveCompareStep == ASSUME IndInv, NEW c \in Boots, LeaveCompare(c) PROVE IndInv'
<1> DEFINE a == IF cmd[boot[c].t] = c THEN "finish" ELSE "done"
<1>0. TypeOK /\ Membership /\ Left /\ OnePlace /\ Told /\ LeavesAfter /\ Closing /\ Unresized BY Zenon DEF IndInv
<1>1. /\ boot[c].at = "compare" /\ BootAt(c, a)
      /\ UNCHANGED <<queue, pool, target, threadVars, joinQueue, handed, resizing, resizes, down, finishes>>
  BY Zenon DEF LeaveCompare
<1>2. UNCHANGED <<at, cmd, loop, finished, finishup>> BY <1>1, Zenon DEF threadVars
<1>3. Leaving(c) BY <1>1, Zenon DEF Leaving
<1>4. /\ LeavesAfter' /\ Departed' = Departed
      /\ boot' \in [Boots -> [at : {"idle", "compare", "finish", "finishup", "resize", "done"},
                              t : 0..MaxThreads]]
  BY <1>1, <1>2, <1>3, BootMoves, Zenon
<1> HIDE DEF a
<1>5. /\ \A y : Queued(y)' <=> Queued(y)
      /\ QueuedOnce' <=> QueuedOnce
      /\ EndsBehind' <=> EndsBehind
      /\ Waiting' <=> Waiting
  BY <1>1, SameQueue, ZenonT(30)
<1>6. TypeOK' BY SMTT(30), <1>0, <1>1, <1>2, <1>4 DEF TypeOK
<1>7. Membership' BY <1>0, <1>1, <1>2, ZenonT(30) DEF Membership, JoinedOnce, Outside
<1>l. Left' BY <1>0, <1>1, <1>2, Zenon DEF Left, Outside
<1>8. OnePlace' BY <1>0, <1>2, <1>5, ZenonT(30) DEF OnePlace
<1>9. Told' BY <1>0, <1>1, <1>2, <1>5, Zenon DEF Told
<1>10. Closing' BY <1>0, <1>1, <1>2, Zenon DEF Closing
<1>11. Staying' = Staying BY <1>1, <1>2, Zenon DEF Staying
<1>12. Unresized' BY <1>0, <1>1, <1>2, <1>4, <1>5, <1>11, Zenon DEF Unresized
<1> QED BY <1>4, <1>6, <1>7, <1>l, <1>8, <1>9, <1>10, <1>12, Zenon DEF IndInv

\* leavePool() tells the queue of the command only if its thread has not.
LEMMA LeaveFinishStep == ASSUME IndInv, NEW c \in Boots, LeaveFinish(c) PROVE IndInv'
<1> DEFINE t == boot[c].t
<1>0. TypeOK /\ Membership /\ Left /\ OnePlace /\ Told /\ LeavesAfter /\ Closing /\ Unresized BY Zenon DEF IndInv
<1>1. /\ boot[c].at = "finish" /\ BootAt(c, "finishup")
      /\ finished' = [finished EXCEPT ![t] = TRUE]
      /\ finishes' = IF finished[t] THEN finishes ELSE [finishes EXCEPT ![c] = @ + 1]
      /\ UNCHANGED <<queue, pool, target, at, cmd, loop, finishup, joinQueue, handed, resizing, resizes, down>>
  BY Zenon DEF LeaveFinish
<1>2. /\ t \in ThreadIds /\ c \in Cmds
      /\ cmd[t] = c \/ (finished[t] /\ at[t] \notin Busy \cup {"get"})
  BY <1>0, <1>1, Zenon DEF LeavesAfter, Leaving
<1> HIDE DEF t
<1>3. /\ cmd[t] = c => finishes'[c] = 1
      /\ \A d \in Cmds : d # cmd[t] => finishes'[d] = finishes[d]
      /\ finishes' \in [Cmds -> Nat]
      /\ cmd[t] \in Cmds => finishes'[cmd[t]] = 1
  <2>1. CASE finished[t]
    <3>1. finishes' = finishes BY <1>1, <2>1, Zenon
    <3>2. cmd[t] \in Cmds => finishes[cmd[t]] = 1 BY <1>0, <1>2, <2>1, ZenonT(30) DEF Told
    <3> QED BY <1>0, <1>2, <3>1, <3>2, Zenon DEF TypeOK
  <2>2. CASE ~finished[t]
    <3>1. cmd[t] = c BY <1>2, <2>2, Zenon
    <3>2. finishes[c] = 0 BY <1>0, <1>2, <2>2, <3>1, ZenonT(30) DEF Told
    <3> QED BY <1>0, <1>1, <1>2, <2>2, <3>1, <3>2 DEF TypeOK
  <2> QED BY <2>1, <2>2, Zenon
<1>4. /\ finished'[t] /\ \A s \in ThreadIds : s # t => (finished'[s] <=> finished[s])
      /\ finished' \in [ThreadIds -> BOOLEAN]
  BY SMTT(30), <1>0, <1>1, <1>2 DEF TypeOK
<1>5. /\ LeavesAfter' /\ Departed' = Departed
      /\ boot' \in [Boots -> [at : {"idle", "compare", "finish", "finishup", "resize", "done"},
                              t : 0..MaxThreads]]
  <2>1. Leaving(c) BY <1>1, Zenon DEF Leaving
  <2>2. \A d \in Cmds : finishes[d] = 1 => finishes'[d] = 1 BY <1>3, Zenon
  <2>3. \A s \in ThreadIds : finished[s] => finished'[s] BY <1>4, ZenonT(30)
  <2>4. at[t] # "get" BY <1>0, <1>2, CmdsAreUsers, Zenon DEF OnePlace, Busy
  <2>5. finished'[boot[c].t] /\ at'[boot[c].t] # "get" BY <1>1, <1>4, <2>4, Zenon DEF t
  <2> QED BY SMTT(30), <1>1, <2>1, <2>2, <2>3, <2>5, BootMoves
<1>6. /\ \A y : Queued(y)' <=> Queued(y)
      /\ QueuedOnce' <=> QueuedOnce
      /\ EndsBehind' <=> EndsBehind
      /\ Waiting' <=> Waiting
  BY <1>1, SameQueue, ZenonT(30)
<1>7. TypeOK' BY <1>0, <1>1, <1>3, <1>4, <1>5, Zenon DEF TypeOK
<1>8. Membership' BY ZenonT(30), <1>0, <1>1 DEF Membership, JoinedOnce, Outside
<1>o. Outside' = Outside /\ Outside \subseteq ThreadIds BY <1>0, <1>1, OutsideAreThreads, Zenon DEF Outside
<1>l. Left' BY <1>0, <1>1, <1>2, <1>4, <1>o, LeftStays, Zenon
<1>9. OnePlace' BY <1>0, <1>1, <1>6, Zenon DEF OnePlace
<1>10. Told'
  <2>1. \A d \in Cmds : finishes'[d] \in {0, 1} BY <1>0, <1>3, Zenon DEF Told
  <2>2. \A d \in Cmds : Queued(d)' => finishes'[d] = 0
    <3>1. SUFFICES ASSUME NEW d \in Cmds, Queued(d) PROVE finishes'[d] = 0 BY <1>6, Zenon
    <3>2. d # cmd[t] BY <1>0, <1>2, <3>1, Zenon DEF OnePlace
    <3>3. finishes[d] = 0 BY <1>0, <3>1, Zenon DEF Told
    <3> QED BY <1>3, <3>2, <3>3, Zenon
  <2>3. \A s \in ThreadIds : cmd'[s] \in Cmds => (finishes'[cmd'[s]] = 1 <=> finished'[s])
    <3>1. SUFFICES ASSUME NEW s \in ThreadIds, cmd[s] \in Cmds
                   PROVE  finishes'[cmd[s]] = 1 <=> finished'[s]
      BY <1>1, Zenon
    <3>2. CASE s = t BY SMTT(30), <1>3, <1>4, <3>1, <3>2
    <3>3. CASE s # t
      <4>1. cmd[s] # cmd[t] BY SMTT(30), <1>0, <1>2, <3>1, <3>3 DEF OnePlace
      <4> QED BY <1>0, <1>3, <1>4, <3>1, <3>3, <4>1, Zenon DEF Told
    <3> QED BY SMTT(30), <3>2, <3>3
  <2>4. \A s \in ThreadIds : at'[s] = "next" => finished'[s] BY <1>0, <1>1, <1>4, Zenon DEF Told
  <2> QED BY <2>1, <2>2, <2>3, <2>4, Zenon DEF Told
<1>11. Closing' BY <1>0, <1>1, ZenonT(30) DEF Closing
<1>12. Staying' = Staying BY SMTT(30), <1>1 DEF Staying
<1>13. Unresized' BY <1>0, <1>1, <1>5, <1>6, <1>12, Zenon DEF Unresized
<1> QED BY <1>5, <1>7, <1>8, <1>l, <1>9, <1>10, <1>11, <1>13, Zenon DEF IndInv

LEMMA LeaveFinishUpStep == ASSUME IndInv, NEW c \in Boots, LeaveFinishUp(c) PROVE IndInv'
<1> DEFINE t == boot[c].t
<1>0. TypeOK /\ Membership /\ Left /\ OnePlace /\ Told /\ LeavesAfter /\ Closing /\ Unresized BY Zenon DEF IndInv
<1>1. /\ boot[c].at = "finishup" /\ finishup' = [finishup EXCEPT ![t] = TRUE]
      /\ \/ finishup[t] /\ BootAt(c, "done") /\ UNCHANGED <<pool, handed>>
         \/ ~finishup[t] /\ BootAt(c, "resize") /\ Release(t)
      /\ UNCHANGED <<queue, target, at, cmd, loop, finished, joinQueue, resizing, resizes, down, finishes>>
  BY Zenon DEF LeaveFinishUp
<1>2. Leaving(c) BY ZenonT(30), <1>1 DEF Leaving
<1>3. t \in ThreadIds /\ ~loop[t] BY SMTT(30), <1>0, <1>2 DEF LeavesAfter
<1>f. finished[t] /\ at[t] # "get" BY <1>0, <1>1, Zenon DEF LeavesAfter
<1>4. /\ LeavesAfter' /\ Departed' = Departed
      /\ boot' \in [Boots -> [at : {"idle", "compare", "finish", "finishup", "resize", "done"},
                              t : 0..MaxThreads]]
  <2>1. PICK a \in {"resize", "done"} : BootAt(c, a) BY <1>1, Zenon
  <2> QED BY SMTT(30), <1>1, <1>2, <2>1, BootMoves
<1> HIDE DEF t
<1>5. CASE ~finishup[t] /\ Release(t)
  <2>1. pool' \in SUBSET ThreadIds /\ handed' \in SUBSET ThreadIds BY <1>0, <1>5, Zenon DEF TypeOK, Release
  <2>2. TypeOK' BY <1>0, <1>1, <1>4, <2>1, Zenon DEF TypeOK
  <2> QED BY <1>1, <1>3, <1>f, <1>4, <1>5, <2>2, ReleaseStep, Zenon
<1>6. CASE finishup[t] /\ UNCHANGED <<pool, handed>>
  <2>1. finishup' = finishup BY <1>0, <1>1, <1>3, <1>6, Zenon DEF TypeOK
  <2>2. /\ \A y : Queued(y)' <=> Queued(y)
        /\ QueuedOnce' <=> QueuedOnce
        /\ EndsBehind' <=> EndsBehind
        /\ Waiting' <=> Waiting
    BY <1>1, SameQueue, Zenon
  <2>3. TypeOK' BY <1>0, <1>1, <1>4, <1>6, <2>1, Zenon DEF TypeOK
  <2>4. Membership' BY <1>0, <1>1, <1>6, <2>1, Zenon DEF Membership, JoinedOnce, Outside
  <2>l. Left' BY <1>0, <1>1, <1>6, Zenon DEF Left, Outside
  <2>5. OnePlace' BY ZenonT(30), <1>0, <1>1, <2>2 DEF OnePlace
  <2>6. Told'
    <3>1. cmd' = cmd /\ finishes' = finishes /\ finished' = finished /\ at' = at BY <1>1, Zenon
    <3> QED BY ZenonT(30), <1>0, <2>2, <3>1 DEF Told
  <2>7. Closing' BY <1>0, <1>1, <1>6, Zenon DEF Closing
  <2>8. Staying' = Staying BY ZenonT(30), <1>1, <1>6 DEF Staying
  <2>9. Unresized' BY <1>0, <1>1, <1>4, <1>6, <2>2, <2>8, Zenon DEF Unresized
  <2> QED BY <1>4, <2>3, <2>4, <2>l, <2>5, <2>6, <2>7, <2>9, Zenon DEF IndInv
<1> QED BY ZenonT(30), <1>1, <1>5, <1>6

-----------------------------------------------------------------------------
(* The theorems.                                                             *)

\* Every step of the pool keeps the inductive invariant.
LEMMA NextIndInv == IndInv /\ [Next]_vars => IndInv'
<1> SUFFICES ASSUME IndInv, [Next]_vars PROVE IndInv' OBVIOUS
<1>1. ASSUME NEW c \in Cmds, QueCmd(c) PROVE IndInv' BY <1>1, QueCmdStep, Zenon
<1>2. ASSUME NEW t \in ThreadIds, Thread(t) PROVE IndInv'
  BY <1>2, GetCmdStep, RunActionStep, CommandFinishStep, NextCmdStep, FinishUpStep, ReleasedStep, Zenon DEF Thread
<1>3. ASSUME NEW c \in Boots, LeavePool(c) \/ Leave(c) PROVE IndInv'
  BY <1>3, LeavePoolStep, LeaveCompareStep, LeaveFinishStep, LeaveFinishUpStep, LeaveResizeStep, Zenon DEF Leave
<1>4. ASSUME NEW n \in Targets, Resize(n) PROVE IndInv' BY <1>4, ResizeCallStep, Zenon
<1>5. CASE UNCHANGED vars
  <2>1. /\ \A y : Queued(y)' <=> Queued(y)
        /\ QueuedOnce' <=> QueuedOnce
        /\ EndsBehind' <=> EndsBehind
        /\ Waiting' <=> Waiting
    BY <1>5, SameQueue, Zenon DEF vars
  <2>2. UNCHANGED <<queue, pool, threadVars, joinQueue, handed, boot, finishes>>
        /\ UNCHANGED <<target, resizing, resizes, down>>
    BY <1>5, Zenon DEF vars
  <2>3. /\ Membership' /\ Left' /\ OnePlace' /\ Told' /\ LeavesAfter'
        /\ Departed' = Departed /\ Staying' = Staying
    BY SMTT(30), <2>2, SamePool
  <2>4. TypeOK' BY SMTT(30), <2>2 DEF IndInv, TypeOK, threadVars
  <2>5. Closing' BY <2>2, ZenonT(30) DEF IndInv, Closing, threadVars
  <2>6. Unresized' BY <2>1, <2>2, <2>3, Zenon DEF IndInv, Unresized, threadVars
  <2> QED BY <2>3, <2>4, <2>5, <2>6, Zenon DEF IndInv
<1> QED BY <1>1, <1>2, <1>3, <1>4, <1>5, AddThreadStep, JoinLoopStep, ResizeWorkStep, EndAllStep, ShutdownStep, Zenon DEF Next

\* In every reachable state of the pool: threads are in the pool or with the joiner, a
\* command is in one place, _commandFinishCalled is right, and MsgEnds are behind the
\* commands of a pool that nobody resized.
THEOREM IndInvariant == Spec => []IndInv
<1>1. Init => IndInv BY InitIndInv, Zenon
<1>2. IndInv /\ [Next]_vars => IndInv' BY NextIndInv, Zenon
<1> QED BY <1>1, <1>2, PTL DEF Spec

\* EventThread and leavePool() call commandFinish once for every command, in whatever
\* order they get to it, with any number of threads, resizes and departures.
THEOREM CommandsFinishOnce == Spec => []FinishedOnce
<1>1. IndInv => FinishedOnce
  <2> SUFFICES ASSUME IndInv PROVE FinishedOnce OBVIOUS
  <2>1. \A c \in Cmds : finishes[c] =< 1 BY SMTT(30) DEF IndInv, Told
  <2>2. \A t \in ThreadIds : at[t] = "next" /\ cmd[t] \in Cmds => finishes[cmd[t]] = 1
    BY Zenon DEF IndInv, Told
  <2> QED BY <2>1, <2>2, Zenon DEF FinishedOnce
<1> QED BY <1>1, IndInvariant, PTL

\* A thread that the pool has released is joined: the pool and the joiner have every
\* thread between them.
THEOREM ThreadsAreJoined == Spec => []NoStrayThread
<1>1. IndInv => NoStrayThread
  <2> SUFFICES ASSUME IndInv PROVE NoStrayThread OBVIOUS
  <2>0. Membership /\ Left /\ OnePlace /\ Told BY Zenon DEF IndInv
  <2>1. ASSUME NEW t \in ThreadIds, at[t] # "none" PROVE t \in pool \cup handed \cup Range(joinQueue)
    BY <2>0, <2>1, Zenon DEF Membership, Outside
  <2>2. ASSUME NEW t \in ThreadIds, t \notin pool, cmd[t] \in Cmds PROVE finishes[cmd[t]] = 1
    <3>1. at[t] # "none" BY <2>0, <2>2, CmdsAreUsers, Zenon DEF OnePlace, Busy
    <3>2. t \in Outside BY <2>0, <2>2, <3>1, Zenon DEF Membership
    <3> QED BY <2>0, <2>2, <3>2, Zenon DEF Left, Told
  <2> QED BY <2>1, <2>2, Zenon DEF NoStrayThread
<1> QED BY <1>1, IndInvariant, PTL

\* When shutdownPool() returns, every command that was queued has been run and finished,
\* if nobody called resize() and fewer commands left the pool than it has threads.
THEOREM ShutdownCompletes == Spec => []UnresizedCompletes
<1>1. IndInv => UnresizedCompletes
  <2> SUFFICES ASSUME IndInv, resizes = 0, Cardinality(Departed) < InitCount, down = "done",
                      NEW c \in Cmds, Sent(c)
               PROVE  finishes[c] = 1
    BY Zenon DEF UnresizedCompletes, CommandsComplete
  <2>0. TypeOK /\ Membership /\ Left /\ OnePlace /\ Told /\ Closing /\ Unresized BY Zenon DEF IndInv
  <2>1. pool = {} BY <2>0, Zenon DEF Closing
  <2>2. ~Waiting
    <3>1. Cardinality(Staying) = 0 BY <2>1, FS_EmptySet, Zenon DEF Staying
    <3>2. Cardinality(Departed) \in Nat BY <2>0, FS_CardinalityType, Zenon DEF Unresized
    <3>3. ~(Cardinality(Staying) + Cardinality(Departed) >= InitCount) BY SMTT(30), <3>1, <3>2
    <3> QED BY <2>0, <3>3, Zenon DEF Unresized
  <2>3. ASSUME NEW t \in ThreadIds, cmd[t] = c PROVE finishes[c] = 1
    <3>1. at[t] # "none" BY <2>0, <2>3, CmdsAreUsers, Zenon DEF OnePlace, Busy
    <3>2. t \in Outside BY <2>0, <2>1, <3>1, Zenon DEF Membership
    <3> QED BY <2>0, <2>3, <3>2, Zenon DEF Left, Told
  <2>4. finishes[c] > 0 \/ \E t \in ThreadIds : cmd[t] = c BY <2>2, Zenon DEF Sent, Waiting
  <2>5. finishes[c] > 0 => finishes[c] = 1 BY <2>0 DEF Told
  <2> QED BY <2>3, <2>4, <2>5, Zenon
<1> QED BY <1>1, IndInvariant, PTL
=============================================================================
