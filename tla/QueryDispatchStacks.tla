------------------------ MODULE QueryDispatchStacks -------------------------
(***************************************************************************)
(* The threads of a query and the inductive invariant of QueryDispatch:    *)
(* the lemmas about stacks of calls, about the parts of the invariant that *)
(* most steps leave alone, and one lemma per step that neither ends a      *)
(* request nor makes an attempt.                                           *)
(***************************************************************************)
EXTENDS QueryDispatch, TLAPS

-----------------------------------------------------------------------------
(* Stacks.                                                                  *)

\* The threads named by jobs and requests are threads, and all different.
LEMMA ThreadNames ==
    /\ \A j \in Jobs : <<"add", j>> \in Threads
    /\ \A r \in Reqs : <<"ssi", r>> \in Threads /\ <<"cmd", r>> \in Threads
    /\ <<"kill">> \in Threads
  BY Zenon DEF Threads

\* Threads with different names are different threads.
LEMMA ThreadsDiffer ==
    /\ \A q, r : <<"ssi", q>> # <<"cmd", r>> /\ <<"add", q>> # <<"ssi", r>>
                 /\ <<"add", q>> # <<"cmd", r>>
    /\ \A q : <<"kill">> # <<"ssi", q>> /\ <<"kill">> # <<"cmd", q>> /\ <<"kill">> # <<"add", q>>
    /\ \A q, r : <<"ssi", q>> = <<"ssi", r>> => q = r
    /\ \A q, r : <<"cmd", q>> = <<"cmd", r>> => q = r
    /\ \A q, r : <<"add", q>> = <<"add", r>> => q = r
  OBVIOUS

Typed == stack \in [Threads -> Seq(FrameType)]

\* The frames of StackOK, without the conjuncts on the first one.
Shape ==
    /\ Typed
    /\ \A t \in Threads : \A i \in 1..Len(stack[t]) : FrameOK(stack[t][i])
    /\ \A t \in Threads : \A i \in 2..Len(stack[t]) : WaitsFor(stack[t][i - 1].at, stack[t][i].at)

\* What frames speak of only grows.
Grow == /\ \A j \in Jobs : attempt[j] =< attempt'[j]
        /\ jobMap \subseteq jobMap'
        /\ cancelled => cancelled'

\* Whatever waits for a frame at a can wait for one at c.
Replaces(c, a) == /\ a \in {"squash", "squash.loop"} => c \in {"squash", "squash.loop"}
                  /\ a \in RunLabels => c \in RunLabels

\* The stacks of the other threads stay.
Others(t) == \A u \in Threads \ {t} : stack'[u] = stack[u] /\ Top(u)' = Top(u)
Still(u) == stack'[u] = stack[u] /\ Top(u)' = Top(u)

\* Goto, for the sequence it makes.
LEMMA GotoSeq ==
    ASSUME NEW s \in Seq(FrameType), s # <<>>, NEW f \in FrameType
    PROVE  /\ <<f>> \o Tail(s) \in Seq(FrameType)
           /\ <<f>> \o Tail(s) # <<>>
           /\ Head(<<f>> \o Tail(s)) = f
           /\ Len(<<f>> \o Tail(s)) = Len(s)
           /\ (<<f>> \o Tail(s))[1] = f
           /\ \A i \in 2..Len(s) : (<<f>> \o Tail(s))[i] = s[i]
  OBVIOUS

\* Call.
LEMMA PushSeq ==
    ASSUME NEW s \in Seq(FrameType), s # <<>>, NEW f \in FrameType, NEW g \in FrameType
    PROVE  /\ <<f, g>> \o Tail(s) \in Seq(FrameType)
           /\ <<f, g>> \o Tail(s) # <<>>
           /\ Head(<<f, g>> \o Tail(s)) = f
           /\ Len(<<f, g>> \o Tail(s)) = Len(s) + 1
           /\ (<<f, g>> \o Tail(s))[1] = f
           /\ (<<f, g>> \o Tail(s))[2] = g
           /\ \A i \in 3..(Len(s) + 1) : (<<f, g>> \o Tail(s))[i] = s[i - 1]
  OBVIOUS

\* Bounds for the second frame of a stack.
LEMMA TwoOrMore ==
    \A n \in Nat : n # 0 /\ n # 1 => n >= 2 /\ 2 \in 1..n /\ 2 \in 2..n
  OBVIOUS

\* Return to a frame that waits.
LEMMA PopSeq ==
    ASSUME NEW s \in Seq(FrameType), s # <<>>, Len(s) # 1, NEW f \in FrameType
    PROVE  /\ <<f>> \o Tail(Tail(s)) \in Seq(FrameType)
           /\ <<f>> \o Tail(Tail(s)) # <<>>
           /\ Head(<<f>> \o Tail(Tail(s))) = f
           /\ Len(<<f>> \o Tail(Tail(s))) = Len(s) - 1
           /\ (<<f>> \o Tail(Tail(s)))[1] = f
           /\ \A i \in 2..(Len(s) - 1) : (<<f>> \o Tail(Tail(s)))[i] = s[i + 1]
<1> DEFINE T == Tail(s)
<1>a. Len(s) \in Nat
  OBVIOUS
<1>b. Len(s) # 0
  OBVIOUS
<1>1. Len(s) \in Nat /\ Len(s) >= 2
  BY <1>a, <1>b, TwoOrMore, Zenon
<1>2. /\ T \in Seq(FrameType) /\ T # <<>> /\ Len(T) = Len(s) - 1
      /\ \A i \in 2..(Len(s) - 1) : T[i] = s[i + 1]
  BY <1>1
<1> HIDE DEF T
<1>3. /\ <<f>> \o Tail(T) \in Seq(FrameType)
      /\ <<f>> \o Tail(T) # <<>>
      /\ Head(<<f>> \o Tail(T)) = f
      /\ Len(<<f>> \o Tail(T)) = Len(T)
      /\ (<<f>> \o Tail(T))[1] = f
      /\ \A i \in 2..Len(T) : (<<f>> \o Tail(T))[i] = T[i]
  BY <1>2, GotoSeq, Zenon
<1>4. \A i \in 2..(Len(s) - 1) : (<<f>> \o Tail(T))[i] = s[i + 1]
  BY <1>2, <1>3, Zenon
<1> QED
  BY <1>2, <1>3, <1>4, Zenon DEF T

\* FrameOK in the next state, of any frame.
FrameOKNext(f) ==
    /\ f.at \in ReqLabels => f.r \in Reqs /\ f.r[2] < attempt'[f.r[1]] /\ f.j = f.r[1]
    /\ f.at \notin {"add", "squash.loop"} => f.j \in jobMap'
    /\ f.todo \subseteq jobMap'
    /\ f.at \in CancelLabels => cancelled'

\* Frames stay in order while what they speak of grows.
LEMMA FrameGrows ==
    ASSUME TypeOK, TypeOK', Grow
    PROVE  \A f \in FrameType : FrameOK(f) => FrameOKNext(f)
<1> SUFFICES ASSUME NEW f \in FrameType, FrameOK(f) PROVE FrameOKNext(f)
  OBVIOUS
<1>1. f.at \in ReqLabels => f.r \in Reqs /\ Started(f.r) /\ f.j = f.r[1]
  BY Zenon DEF FrameOK
<1>2. f.at \in ReqLabels => f.r[2] < attempt'[f.r[1]]
  BY <1>1 DEF Grow, Started, TypeOK, Reqs
<1> QED
  BY <1>1, <1>2, Zenon DEF FrameOK, FrameOKNext, Grow

\* A frame that waits for a call still waits for what the call goes on as.
LEMMA WaitsForReplaced ==
    ASSUME NEW a, NEW b, NEW c, Replaces(c, a), WaitsFor(a, b)
    PROVE  WaitsFor(c, b)
  BY Zenon DEF Replaces, WaitsFor, RunLabels

\* A step of thread t replaces its first frame.
LEMMA GotoShape ==
    ASSUME TypeOK, TypeOK', Grow, Shape, NEW t \in Threads, stack[t] # <<>>,
           NEW f \in FrameType, FrameOKNext(f), Replaces(f.at, Top(t).at), Goto(t, f)
    PROVE  Shape' /\ stack'[t] # <<>> /\ Top(t)' = f /\ Others(t)
<1> DEFINE s == stack[t]
           n == <<f>> \o Tail(s)
<1>1. s \in Seq(FrameType) /\ s # <<>>
  BY Zenon DEF Shape, Typed
<1>2. stack' = [stack EXCEPT ![t] = n]
  BY Zenon DEF Goto
<1>3. stack'[t] = n /\ \A u \in Threads \ {t} : stack'[u] = stack[u]
  BY <1>2, Zenon DEF Shape, Typed
<1>4. /\ n \in Seq(FrameType) /\ n # <<>> /\ Head(n) = f /\ Len(n) = Len(s) /\ n[1] = f
      /\ \A i \in 2..Len(s) : n[i] = s[i]
  BY <1>1, GotoSeq, Zenon
<1> HIDE DEF n, s
<1>5. Typed'
  BY <1>2, <1>4, Zenon DEF Shape, Typed
<1>6. ASSUME NEW u \in Threads, NEW i \in 1..Len(stack'[u]) PROVE FrameOKNext(stack'[u][i])
  <2>1. CASE u # t
    <3>1. stack[u][i] \in FrameType /\ FrameOK(stack[u][i])
      BY <1>3, <2>1 DEF Shape, Typed
    <3> QED
      BY <3>1, <1>3, <2>1, FrameGrows, Zenon
  <2>2. CASE u = t /\ i = 1
    BY <2>2, <1>3, <1>4, Zenon
  <2>3. CASE u = t /\ i # 1
    <3>1. s[i] \in FrameType /\ FrameOK(s[i]) /\ n[i] = s[i]
      BY <1>1, <1>3, <1>4, <2>3 DEF Shape, Typed, s
    <3> QED
      BY <3>1, <1>3, <2>3, FrameGrows, Zenon
  <2> QED
    BY <2>1, <2>2, <2>3, Zenon
<1>7. ASSUME NEW u \in Threads, NEW i \in 2..Len(stack'[u])
      PROVE  WaitsFor(stack'[u][i - 1].at, stack'[u][i].at)
  <2>1. CASE u # t
    BY <1>3, <2>1, Zenon DEF Shape
  <2>2. CASE u = t
    <3>1. WaitsFor(s[i - 1].at, s[i].at) /\ n[i] = s[i]
      BY <1>1, <1>3, <1>4, <2>2, Zenon DEF Shape, s
    <3>2. CASE i = 2
      <4>1. Top(t) = s[1]
        BY <1>1 DEF Top, s
      <4> QED
        BY <3>1, <3>2, <4>1, <1>3, <1>4, <2>2, WaitsForReplaced
    <3>3. CASE i # 2
      BY <3>1, <3>3, <1>1, <1>3, <1>4, <2>2
    <3> QED
      BY <3>2, <3>3, Zenon
  <2> QED
    BY <2>1, <2>2, Zenon
<1>8. Shape'
  BY <1>5, <1>6, <1>7, Zenon DEF Shape, FrameOK, FrameOKNext, Started
<1> QED
  BY <1>3, <1>4, <1>8, Zenon DEF Top, Others

\* A step of thread t calls: f is the call, g the frame that waits for it.
LEMMA PushShape ==
    ASSUME TypeOK, TypeOK', Grow, Shape, NEW t \in Threads, stack[t] # <<>>,
           NEW f \in FrameType, FrameOKNext(f), NEW g \in FrameType, FrameOKNext(g),
           WaitsFor(f.at, g.at), Replaces(g.at, Top(t).at),
           stack' = [stack EXCEPT ![t] = <<f, g>> \o Tail(@)]
    PROVE  Shape' /\ stack'[t] # <<>> /\ Top(t)' = f /\ Others(t)
<1> DEFINE s == stack[t]
           n == <<f, g>> \o Tail(s)
<1>1. s \in Seq(FrameType) /\ s # <<>> /\ Len(s) \in Nat
  BY DEF Shape, Typed
<1>2. stack' = [stack EXCEPT ![t] = n]
  OBVIOUS
<1>3. stack'[t] = n /\ \A u \in Threads \ {t} : stack'[u] = stack[u]
  BY <1>2, Zenon DEF Shape, Typed
<1>4. /\ n \in Seq(FrameType) /\ n # <<>> /\ Head(n) = f /\ Len(n) = Len(s) + 1
      /\ n[1] = f /\ n[2] = g
      /\ \A i \in 3..(Len(s) + 1) : n[i] = s[i - 1]
  BY <1>1, PushSeq
<1> HIDE DEF n, s
<1>5. Typed'
  BY <1>2, <1>4, Zenon DEF Shape, Typed
<1>6. ASSUME NEW u \in Threads, NEW i \in 1..Len(stack'[u]) PROVE FrameOKNext(stack'[u][i])
  <2>1. CASE u # t
    <3>1. stack[u][i] \in FrameType /\ FrameOK(stack[u][i])
      BY <1>3, <2>1 DEF Shape, Typed
    <3> QED
      BY <3>1, <1>3, <2>1, FrameGrows, Zenon
  <2>2. CASE u = t /\ i \in {1, 2}
    BY <2>2, <1>3, <1>4, Zenon
  <2>3. CASE u = t /\ i \notin {1, 2}
    <3>0. i - 1 \in 1..Len(s) /\ i \in 3..(Len(s) + 1)
      BY <1>1, <1>3, <1>4, <2>3
    <3>1. s[i - 1] \in FrameType /\ FrameOK(s[i - 1]) /\ n[i] = s[i - 1]
      BY <1>1, <3>0, <1>4 DEF Shape, Typed, s
    <3> QED
      BY <3>1, <1>3, <2>3, FrameGrows, Zenon
  <2> QED
    BY <2>1, <2>2, <2>3, Zenon
<1>7. ASSUME NEW u \in Threads, NEW i \in 2..Len(stack'[u])
      PROVE  WaitsFor(stack'[u][i - 1].at, stack'[u][i].at)
  <2>1. CASE u # t
    BY <1>3, <2>1, Zenon DEF Shape
  <2>2. CASE u = t /\ i = 2
    BY <1>3, <1>4, <2>2
  <2>3. CASE u = t /\ i # 2
    <3>0. i - 1 \in 2..Len(s) /\ i \in 3..(Len(s) + 1)
      BY <1>1, <1>3, <1>4, <2>3
    <3>1. WaitsFor(s[(i - 1) - 1].at, s[i - 1].at) /\ n[i] = s[i - 1]
      BY <1>4, <3>0, Zenon DEF Shape, s
    <3>2. CASE i = 3
      <4>1. Top(t) = s[1]
        BY <1>1 DEF Top, s
      <4>2. WaitsFor(Top(t).at, n[3].at)
        BY <3>1, <3>2, <4>1
      <4> QED
        BY <4>2, <3>2, <1>3, <1>4, <2>3, WaitsForReplaced
    <3>3. CASE i # 3
      <4>1. n[i - 1] = s[(i - 1) - 1]
        BY <3>0, <3>3, <1>1, <1>4
      <4> QED
        BY <4>1, <3>1, <1>3, <2>3, Zenon
    <3> QED
      BY <3>2, <3>3, Zenon
  <2> QED
    BY <2>1, <2>2, <2>3, Zenon
<1>8. Shape'
  BY <1>5, <1>6, <1>7, Zenon DEF Shape, FrameOK, FrameOKNext, Started
<1> QED
  BY <1>3, <1>4, <1>8, Zenon DEF Top, Others

\* What t does next once the call it is in has returned: nothing, or the frame
\* that waits goes on with the value returned.
Returned(t, v) ==
    \/ stack'[t] = <<>>
    \/ /\ stack'[t] # <<>>
       /\ WaitsFor(Top(t).at, Top(t)'.at)
       /\ Top(t)'.v = v

\* A step of thread t returns.
LEMMA ReturnShape ==
    ASSUME TypeOK, TypeOK', Grow, Shape, NEW t \in Threads, stack[t] # <<>>,
           NEW v \in BOOLEAN, Return(t, v)
    PROVE  Shape' /\ Returned(t, v) /\ Others(t)
<1> DEFINE s == stack[t]
           f == [s[2] EXCEPT !.v = v]
           n == IF Len(s) = 1 THEN <<>> ELSE <<f>> \o Tail(Tail(s))
<1>1. s \in Seq(FrameType) /\ s # <<>> /\ Len(s) \in Nat
  BY DEF Shape, Typed
<1>2. stack' = [stack EXCEPT ![t] = n]
  BY Zenon DEF Return
<1>3. stack'[t] = n /\ \A u \in Threads \ {t} : stack'[u] = stack[u]
  BY <1>2, Zenon DEF Shape, Typed
<1>4. CASE Len(s) = 1
  <2>1. stack'[t] = <<>>
    BY <1>3, <1>4, Zenon
  <2> HIDE DEF n, f, s
  <2>2. Typed'
    BY <1>2, <1>3, <2>1 DEF Shape, Typed
  <2>3. ASSUME NEW u \in Threads, NEW i \in 1..Len(stack'[u])
        PROVE u # t /\ FrameOKNext(stack'[u][i])
    <3>1. u # t
      BY <2>1
    <3>2. stack[u][i] \in FrameType /\ FrameOK(stack[u][i])
      BY <1>3, <3>1 DEF Shape, Typed
    <3> QED
      BY <3>1, <3>2, <1>3, FrameGrows, Zenon
  <2>4. ASSUME NEW u \in Threads, NEW i \in 2..Len(stack'[u])
        PROVE  WaitsFor(stack'[u][i - 1].at, stack'[u][i].at)
    <3>1. u # t
      BY <2>1
    <3> QED
      BY <1>3, <3>1, Zenon DEF Shape
  <2>5. Shape'
    BY <2>2, <2>3, <2>4, Zenon DEF Shape, FrameOK, FrameOKNext, Started
  <2> QED
    BY <1>3, <2>1, <2>5, Zenon DEF Top, Others, Returned
<1>5. CASE Len(s) # 1
  <2>0. Len(s) # 0
    BY <1>1
  <2>1. /\ s[2] \in FrameType /\ FrameOK(s[2]) /\ WaitsFor(s[1].at, s[2].at)
        /\ Len(s) >= 2
    <3>1. 2 \in 1..Len(s) /\ 2 \in 2..Len(s)
      BY <1>1, <1>5, <2>0, TwoOrMore, Zenon
    <3>2. FrameOK(s[2]) /\ WaitsFor(s[2 - 1].at, s[2].at)
      BY <3>1, Zenon DEF Shape
    <3> QED
      BY <3>1, <3>2, <1>1
  <2>2. f \in FrameType /\ f.v = v /\ f.at = s[2].at
    BY <2>1, Zenon DEF FrameType
  <2>3. FrameOKNext(f)
    <3>1. FrameOKNext(s[2])
      BY <2>1, FrameGrows, Zenon
    <3>2. f.at = s[2].at /\ f.j = s[2].j /\ f.r = s[2].r /\ f.todo = s[2].todo
      BY <2>1, Zenon DEF FrameType
    <3> HIDE DEF f
    <3> QED
      BY <3>1, <3>2, Zenon DEF FrameOKNext
  <2> HIDE DEF f
  <2>4. n = <<f>> \o Tail(Tail(s))
    BY <1>5, Zenon
  <2>5. /\ n \in Seq(FrameType) /\ n # <<>> /\ Head(n) = f /\ Len(n) = Len(s) - 1
        /\ n[1] = f
        /\ \A i \in 2..(Len(s) - 1) : n[i] = s[i + 1]
    <3> DEFINE m == <<f>> \o Tail(Tail(s))
    <3>1. /\ m \in Seq(FrameType) /\ m # <<>> /\ Head(m) = f /\ Len(m) = Len(s) - 1
          /\ m[1] = f
          /\ \A i \in 2..(Len(s) - 1) : m[i] = s[i + 1]
      <4> HIDE DEF s
      <4> QED
        BY <1>1, <1>5, <2>2, PopSeq, Zenon
    <3>2. n = m
      BY <2>4, Zenon
    <3> HIDE DEF m, n, s
    <3> QED
      BY <3>1, <3>2, Zenon
  <2>6. s[1] = Top(t)
    BY <1>1 DEF Top
  <2> HIDE DEF n, s
  <2>7. Typed'
    BY <1>2, <2>5, Zenon DEF Shape, Typed
  <2>8. ASSUME NEW u \in Threads, NEW i \in 1..Len(stack'[u]) PROVE FrameOKNext(stack'[u][i])
    <3>1. CASE u # t
      <4>1. stack[u][i] \in FrameType /\ FrameOK(stack[u][i])
        BY <1>3, <3>1 DEF Shape, Typed
      <4> QED
        BY <4>1, <1>3, <3>1, FrameGrows, Zenon
    <3>2. CASE u = t /\ i = 1
      BY <3>2, <1>3, <2>3, <2>5, Zenon
    <3>3. CASE u = t /\ i # 1
      <4>0. i + 1 \in 1..Len(s) /\ i \in 2..(Len(s) - 1)
        BY <1>1, <1>3, <2>5, <3>3
      <4>1. s[i + 1] \in FrameType /\ FrameOK(s[i + 1]) /\ n[i] = s[i + 1]
        BY <1>1, <4>0, <2>5 DEF Shape, Typed, s
      <4> QED
        BY <4>1, <1>3, <3>3, FrameGrows, Zenon
    <3> QED
      BY <3>1, <3>2, <3>3, Zenon
  <2>9. ASSUME NEW u \in Threads, NEW i \in 2..Len(stack'[u])
        PROVE  WaitsFor(stack'[u][i - 1].at, stack'[u][i].at)
    <3>1. CASE u # t
      BY <1>3, <3>1, Zenon DEF Shape
    <3>2. CASE u = t
      <4>0. i + 1 \in 2..Len(s) /\ i \in 2..(Len(s) - 1)
        BY <1>1, <1>3, <2>5, <3>2
      <4>1. WaitsFor(s[(i + 1) - 1].at, s[i + 1].at) /\ n[i] = s[i + 1]
        BY <4>0, <2>5, Zenon DEF Shape, s
      <4>2. n[i - 1].at = s[i].at
        <5>1. CASE i = 2
          BY <5>1, <2>2, <2>5
        <5>2. CASE i # 2
          <6>1. i - 1 \in 2..(Len(s) - 1)
            BY <4>0, <5>2, <1>1
          <6>2. n[i - 1] = s[(i - 1) + 1]
            BY <6>1, <2>5, Zenon
          <6> QED
            BY <6>2, <4>0
        <5> QED
          BY <5>1, <5>2, Zenon
      <4>3. (i + 1) - 1 = i
        BY <4>0
      <4> QED
        BY <4>1, <4>2, <4>3, <1>3, <3>2, Zenon
    <3> QED
      BY <3>1, <3>2, Zenon
  <2>10. Shape'
    BY <2>7, <2>8, <2>9, Zenon DEF Shape, FrameOK, FrameOKNext, Started
  <2>11. Top(t)' = f /\ stack'[t] # <<>>
    BY <1>3, <2>5, Zenon DEF Top
  <2> QED
    BY <1>3, <2>1, <2>2, <2>6, <2>10, <2>11, Zenon DEF Top, Others, Returned
<1> QED
  BY <1>4, <1>5, Zenon
-----------------------------------------------------------------------------
(* What each part of the invariant asks of a step of one thread.            *)

\* StackOK is Shape and this.
Tops ==
    \A t \in Threads :
       /\ In(t, RespLabels \cup DataLabels) => t = <<"ssi", Top(t).r>>
       /\ In(t, CmdLabels) => t = <<"cmd", Top(t).r>>
       /\ In(t, {"add"}) => /\ t = <<"add", Top(t).j>>
                            /\ Top(t).j \in submitted \ jobMap
                            /\ attempt[Top(t).j] = 0

\* StackOK is what holds of all frames and what holds of the first ones.
LEMMA StackParts == StackOK <=> Shape /\ Tops
  BY Zenon DEF StackOK, Shape, Tops, Typed

\* The same of the next state.
LEMMA StackPartsNext == StackOK' <=> Shape' /\ Tops'
  BY Zenon DEF StackOK, Shape, Tops, Typed

\* The first frame of a thread is a frame in order.
LEMMA TopFrame ==
    ASSUME Shape, NEW t \in Threads, stack[t] # <<>>
    PROVE  Top(t) \in FrameType /\ FrameOK(Top(t))
<1>1. stack[t] \in Seq(FrameType)
  BY Zenon DEF Shape, Typed
<1>2. Top(t) = stack[t][1] /\ 1 \in 1..Len(stack[t])
  BY <1>1 DEF Top
<1>3. Top(t) \in FrameType
  BY <1>1, <1>2
<1> QED
  BY <1>2, <1>3, Zenon DEF Shape

\* The steps of t stay within what they were for: t answers or fetches only if
\* it did so before.
InFlow(t) ==
    /\ In(t, RespLabels)' => In(t, RespLabels)
    /\ In(t, DataLabels)' => In(t, DataLabels)
    /\ In(t, CmdLabels)' => In(t, CmdLabels)
    /\ In(t, {"ask", "ask.get"})' => In(t, {"ask", "ask.get"})
    /\ In(t, {"ask", "ask.get", "flush"})' => In(t, {"ask", "ask.get", "flush"})
    /\ In(t, {"wait"})' => In(t, {"wait"})
    /\ ~In(t, {"add"})'

SameTop(t) == In(t, RespLabels \cup DataLabels \cup CmdLabels)' => Top(t)'.r = Top(t).r

\* Tops after a step that moves one thread.
LEMMA TopsKeep ==
    ASSUME Tops, NEW t \in Threads, Others(t), InFlow(t), SameTop(t),
           submitted \subseteq submitted',
           \A u \in Threads : u # t /\ In(u, {"add"}) =>
               Top(u).j \notin jobMap' /\ attempt'[Top(u).j] = 0
    PROVE  Tops'
<1> SUFFICES ASSUME NEW u \in Threads
             PROVE  /\ In(u, RespLabels \cup DataLabels)' => u = <<"ssi", Top(u)'.r>>
                    /\ In(u, CmdLabels)' => u = <<"cmd", Top(u)'.r>>
                    /\ In(u, {"add"})' => /\ u = <<"add", Top(u)'.j>>
                                          /\ Top(u)'.j \in submitted' \ jobMap'
                                          /\ attempt'[Top(u)'.j] = 0
  BY Zenon DEF Tops
<1>1. CASE u # t
  <2>1. stack'[u] = stack[u] /\ Top(u)' = Top(u)
    BY <1>1, Zenon DEF Others
  <2>2. /\ In(u, RespLabels \cup DataLabels)' => In(u, RespLabels \cup DataLabels)
        /\ In(u, CmdLabels)' => In(u, CmdLabels)
        /\ In(u, {"add"})' => In(u, {"add"})
    BY <2>1, Zenon DEF In
  <2> QED
    BY <1>1, <2>1, <2>2, Zenon DEF Tops
<1>2. CASE u = t
  <2>1. In(t, RespLabels \cup DataLabels)' => In(t, RespLabels \cup DataLabels)
    BY Zenon DEF InFlow, In
  <2>2. In(t, CmdLabels)' => In(t, CmdLabels)
    BY Zenon DEF InFlow
  <2>3. In(t, RespLabels \cup DataLabels)' \/ In(t, CmdLabels)' => Top(t)'.r = Top(t).r
    BY Zenon DEF SameTop, In
  <2> QED
    BY <1>2, <2>1, <2>2, <2>3, Zenon DEF Tops, InFlow
<1> QED
  BY <1>1, <1>2, Zenon

\* The request r does not start, and is not fetched or merged.
SameFlowOf(r) ==
    /\ merged' = merged
    /\ req'[r].cmd = req[r].cmd
    /\ req'[r].ssi = req[r].ssi \/ (req'[r].ssi = "finished" /\ Started(r))
    /\ Active(r)' => Active(r)

\* None does.
SameFlow ==
    /\ merged' = merged
    /\ \A r \in Reqs :
          /\ req'[r].cmd = req[r].cmd
          /\ req'[r].ssi = req[r].ssi \/ (req'[r].ssi = "finished" /\ Started(r))
          /\ Active(r)' => Active(r)

\* One request keeps its place in the exchange with the worker, and stays doomed
\* once it is, when a step leaves its fields alone.
LEMMA FlowKeepReq ==
    ASSUME TypeOK, TypeOK', Grow, FlowOK, NEW t \in Threads, stack[t] # <<>>, Others(t),
           InFlow(t), NEW r \in Reqs, SameFlowOf(r)
    PROVE  Flow(r)' /\ (Doomed(r) => Doomed(r)')
<1>1. ASSUME NEW u \in Threads
      PROVE  /\ stack'[u] # <<>> => stack[u] # <<>>
             /\ In(u, RespLabels)' => In(u, RespLabels)
             /\ In(u, DataLabels)' => In(u, DataLabels)
             /\ In(u, CmdLabels)' => In(u, CmdLabels)
             /\ In(u, {"ask", "ask.get"})' => In(u, {"ask", "ask.get"})
             /\ In(u, {"ask", "ask.get", "flush"})' => In(u, {"ask", "ask.get", "flush"})
             /\ In(u, {"wait"})' => In(u, {"wait"})
  <2>1. CASE u = t
    BY <2>1, Zenon DEF InFlow
  <2>2. CASE u # t
    BY <2>2, Zenon DEF Others, In
  <2> QED
    BY <2>1, <2>2, Zenon
<1>2. Started(r) => Started(r)'
  BY DEF Started, Grow, TypeOK, Reqs
<1>3. /\ <<"ssi", r>> \in Threads /\ <<"cmd", r>> \in Threads
      /\ Flow(r)
  BY ThreadNames, Zenon DEF FlowOK
<1>4. Doomed(r) => Doomed(r)'
  BY <1>1, <1>3, Zenon DEF Doomed, Flowing, SameFlowOf
<1>5. In(<<"ssi", r>>, RespLabels \cup DataLabels)' => In(<<"ssi", r>>, RespLabels \cup DataLabels)
  BY <1>1, <1>3, Zenon DEF In
<1>6. Flow(r)'
  BY <1>1, <1>2, <1>3, <1>5, Zenon DEF SameFlowOf, Flow
<1> QED
  BY <1>4, <1>6, Zenon

\* The same of every request.
LEMMA FlowKeep ==
    ASSUME TypeOK, TypeOK', Grow, FlowOK, NEW t \in Threads, stack[t] # <<>>, Others(t),
           InFlow(t), SameFlow
    PROVE  FlowOK' /\ \A r \in Reqs : Doomed(r) => Doomed(r)'
<1>1. \A r \in Reqs : SameFlowOf(r)
  BY Zenon DEF SameFlow, SameFlowOf
<1>2. \A r \in Reqs : Flow(r)' /\ (Doomed(r) => Doomed(r)')
  BY <1>1, FlowKeepReq, Zenon
<1> QED
  BY <1>2, Zenon DEF FlowOK

\* Only a thread that starts a job goes on to start it.
StartsLess(t) ==
    /\ \A j \in Jobs : Starts(t, j)' => Starts(t, j)
    /\ In(t, {"efin.decide", "efin.retry"})' =>
          In(t, {"efin.decide", "efin.retry"}) /\ Top(t)'.r = Top(t).r
    /\ In(t, {"efin"})' /\ ~Top(t)'.b =>
          (req'[Top(t)'.r].finish = "ACTIVE" /\ req'[Top(t)'.r].hasJob =>
              \E r \in Reqs : r = Top(t)'.r /\ Doomed(r)')

\* StartsOK after a step that brings no thread nearer to a new attempt.
LEMMA StartsKeepAll ==
    ASSUME TypeOK, TypeOK', Shape, StartsOK, \A u \in Threads : Still(u) \/ StartsLess(u),
           UNCHANGED <<attempt, request>>,
           \A r \in Reqs : Active(r)' => Active(r),
           \A r \in Reqs : Active(r)' /\ req'[r].hasJob => req[r].hasJob,
           \A r \in Reqs : Doomed(r) => Doomed(r)'
    PROVE  StartsOK'
<1>1. ASSUME NEW u \in Threads, NEW j \in Jobs, Starts(u, j)' PROVE Starts(u, j)
  <2>1. CASE StartsLess(u)
    BY <1>1, <2>1, Zenon DEF StartsLess
  <2>2. CASE Still(u)
    BY <1>1, <2>2, Zenon DEF Still, Starts, In
  <2> QED
    BY <2>1, <2>2, Zenon
<1>2. ASSUME NEW u \in Threads, NEW j \in Jobs, Starts(u, j)' PROVE StartsAlone(u, j)'
  <2>1. Starts(u, j) /\ StartsAlone(u, j)
    BY <1>1, <1>2, Zenon DEF StartsOK
  <2>2. \A w \in Threads : Starts(w, j)' => w = u
    BY <1>1, <2>1, Zenon DEF StartsAlone
  <2>3. \A r \in Reqs : r[1] = j => ~Active(r)'
    BY <2>1, Zenon DEF StartsAlone
  <2>4. ASSUME attempt'[j] > 0 PROVE Doomed(<<j, attempt[j] - 1>>)'
    <3>1. attempt[j] > 0 /\ Doomed(<<j, attempt[j] - 1>>)
      BY <2>1, <2>4, Zenon DEF StartsAlone
    <3>2. PICK r \in Reqs : r = <<j, attempt[j] - 1>>
      BY <3>1, MaxAttemptsNat DEF TypeOK, Reqs
    <3>3. Doomed(r)'
      BY <3>1, <3>2, Zenon
    <3> QED
      BY <3>2, <3>3, Zenon
  <2>5. In(u, {"efin.decide", "efin.retry"})' => request'[j] = Top(u)'.r
    <3>1. In(u, {"efin.decide", "efin.retry"})' =>
             In(u, {"efin.decide", "efin.retry"}) /\ Top(u)'.r = Top(u).r
      BY Zenon DEF StartsLess, Still, In
    <3> QED
      BY <2>1, <3>1, Zenon DEF StartsAlone
  <2> QED
    BY <2>2, <2>3, <2>4, <2>5, Zenon DEF StartsAlone
<1>3. \A r \in Reqs : Active(r)' => r[2] + 1 = attempt'[r[1]] /\ request'[r[1]] = r
  BY Zenon DEF StartsOK
<1>4. ASSUME NEW u \in Threads, In(u, {"efin"})', ~Top(u)'.b,
             req'[Top(u)'.r].finish = "ACTIVE", req'[Top(u)'.r].hasJob
      PROVE  \E r \in Reqs : r = Top(u)'.r /\ Doomed(r)'
  <2>1. CASE StartsLess(u)
    BY <1>4, <2>1, Zenon DEF StartsLess
  <2>2. CASE Still(u)
    <3>1. stack'[u] = stack[u] /\ Top(u)' = Top(u) /\ In(u, {"efin"})
      BY <1>4, <2>2, Zenon DEF Still, In
    <3>2. PICK r \in Reqs : r = Top(u).r
      BY <3>1, TopFrame, Zenon DEF In, FrameOK, ReqLabels
    <3>3. Active(r)' /\ req'[r].hasJob
      BY <3>1, <3>2, <1>4, Zenon DEF Active
    <3>4. Doomed(r)
      <4>1. Active(r) /\ req[r].hasJob
        BY <3>3, Zenon
      <4> QED
        BY <4>1, <3>1, <3>2, <1>4, Zenon DEF StartsOK
    <3> QED
      BY <3>1, <3>2, <3>4, Zenon
  <2> QED
    BY <2>1, <2>2, Zenon
<1>5. \A u \in Threads : In(u, {"efin"})' /\ ~Top(u)'.b =>
          (Active(Top(u).r)' /\ req'[Top(u)'.r].hasJob => Doomed(Top(u).r)')
  BY <1>4, Zenon DEF Active
<1> QED
  BY <1>2, <1>3, <1>5, Zenon DEF StartsOK

\* The same, when only one thread moves.
LEMMA StartsKeep ==
    ASSUME TypeOK, TypeOK', Shape, StartsOK, NEW t \in Threads, Others(t), StartsLess(t),
           UNCHANGED <<attempt, request>>,
           \A r \in Reqs : Active(r)' => Active(r),
           \A r \in Reqs : Active(r)' /\ req'[r].hasJob => req[r].hasJob,
           \A r \in Reqs : Doomed(r) => Doomed(r)'
    PROVE  StartsOK'
<1>1. \A u \in Threads : Still(u) \/ StartsLess(u)
  BY Zenon DEF Others, Still
<1> QED
  BY <1>1, StartsKeepAll, Zenon

\* Unless the query is cancelled, t goes on finishing the jobs it finishes.
TrackLess(t) ==
    /\ ~cancelled
    /\ ~In(t, {"squash"})
    /\ \A j \in Jobs : Finishes(t, j)' <=> Finishes(t, j)
    /\ In(t, {"efin.decide", "efin.retry", "efin.mark", "fin.mark"})' =>
          /\ In(t, {"efin.decide", "efin.retry", "efin.mark", "fin.mark"})
          /\ Top(t)'.r = Top(t).r
    /\ ~In(t, {"run.fail"})'
    /\ In(t, {"efin.rerun"})' => Top(t)'.v

\* TrackOK after a step that takes no job into or out of _incompleteJobs.
LEMMA TrackKeepAll ==
    ASSUME TypeOK, TypeOK', Shape, TrackOK, cancelled => cancelled',
           ~cancelled' => \A u \in Threads : Still(u) \/ TrackLess(u),
           incomplete' = incomplete,
           \A r \in Reqs : (Active(r)' <=> Active(r)) /\ (req'[r].marked => req[r].marked)
    PROVE  TrackOK'
<1> SUFFICES ASSUME ~cancelled'
             PROVE  /\ \A u \in Threads : \A j \in Jobs : Finishes(u, j)' => FinishesAlone(u, j)'
                    /\ \A r \in Reqs : Active(r)' => r[1] \in incomplete' /\ ~req'[r].marked
                    /\ \A j \in incomplete' : Attended(j)'
                    /\ \A u \in Threads : ~In(u, {"run.fail"})' /\ (In(u, {"efin.rerun"})' => Top(u)'.v)
  BY Zenon DEF TrackOK
<1>0. ~cancelled /\ incomplete \subseteq Jobs /\ \A u \in Threads : Still(u) \/ TrackLess(u)
  BY Zenon DEF TypeOK
<1>1. ASSUME NEW u \in Threads, NEW j \in Jobs PROVE Finishes(u, j)' <=> Finishes(u, j)
  <2>1. CASE TrackLess(u)
    BY <1>0, <2>1, Zenon DEF TrackLess
  <2>2. CASE Still(u)
    BY <2>2, Zenon DEF Still, Finishes, In
  <2> QED
    BY <2>1, <2>2, Zenon
<1>2. ASSUME NEW u \in Threads, NEW j \in Jobs, Finishes(u, j)' PROVE FinishesAlone(u, j)'
  <2>1. Finishes(u, j) /\ FinishesAlone(u, j)
    BY <1>0, <1>1, <1>2, Zenon DEF TrackOK
  <2>2. In(u, {"efin.decide", "efin.retry", "efin.mark", "fin.mark"})' =>
            /\ In(u, {"efin.decide", "efin.retry", "efin.mark", "fin.mark"})
            /\ Top(u)'.r = Top(u).r
    <3>1. CASE TrackLess(u)
      BY <1>0, <3>1, Zenon DEF TrackLess
    <3>2. CASE Still(u)
      BY <3>2, Zenon DEF Still, In
    <3> QED
      BY <3>1, <3>2, Zenon
  <2>3. In(u, {"efin.decide", "efin.retry", "efin.mark", "fin.mark"}) => Top(u).r \in Reqs
    BY TopFrame, Zenon DEF In, FrameOK, ReqLabels
  <2>4. In(u, {"efin.decide", "efin.retry", "efin.mark", "fin.mark"})' => ~req'[Top(u)'.r].marked
    BY <2>1, <2>2, <2>3, Zenon DEF FinishesAlone
  <2> QED
    BY <1>1, <2>1, <2>4, Zenon DEF FinishesAlone
<1>3. \A r \in Reqs : Active(r)' => r[1] \in incomplete' /\ ~req'[r].marked
  BY <1>0, Zenon DEF TrackOK
<1>4. ASSUME NEW j \in incomplete' PROVE Attended(j)'
  <2>1. j \in Jobs /\ Attended(j)
    BY <1>0, <1>4, Zenon DEF TrackOK
  <2>2. ASSUME NEW u \in Threads, In(u, {"squash"}), Top(u).j = j
        PROVE  In(u, {"squash"})' /\ Top(u)'.j = j
    <3>1. Still(u)
      BY <2>2, Zenon DEF TrackLess
    <3> QED
      BY <2>2, <3>1, Zenon DEF Still, In
  <2> QED
    BY <1>1, <2>1, <2>2, Zenon DEF Attended
<1>5. ASSUME NEW u \in Threads PROVE ~In(u, {"run.fail"})' /\ (In(u, {"efin.rerun"})' => Top(u)'.v)
  <2>1. CASE TrackLess(u)
    BY <1>0, <2>1, Zenon DEF TrackLess
  <2>2. CASE Still(u)
    BY <1>0, <2>2, Zenon DEF Still, In, TrackOK
  <2> QED
    BY <2>1, <2>2, Zenon
<1> QED
  BY <1>2, <1>3, <1>4, <1>5, Zenon

\* The same, when only one thread moves.
LEMMA TrackKeep ==
    ASSUME TypeOK, TypeOK', Shape, TrackOK, NEW t \in Threads, Others(t),
           ~cancelled' => TrackLess(t),
           incomplete' = incomplete,
           \A r \in Reqs : (Active(r)' <=> Active(r)) /\ (req'[r].marked => req[r].marked)
    PROVE  TrackOK'
<1>1. ~cancelled' => \A u \in Threads : Still(u) \/ TrackLess(u)
  BY Zenon DEF Others, Still
<1>2. cancelled => cancelled'
  BY Zenon DEF TrackLess, TypeOK
<1> QED
  BY <1>1, <1>2, TrackKeepAll, Zenon

\* RowsOK after a step that merges and scrubs nothing.
LEMMA RowsKeep ==
    ASSUME RowsOK, TypeOK, UNCHANGED <<attempt, histVars>>, complete' \subseteq complete,
           \A r \in Reqs : Doomed(r) => Doomed(r)'
    PROVE  RowsOK'
<1>1. \A r \in Reqs : Started(r)' <=> Started(r)
  BY Zenon DEF Started
<1>2. scrubbed' = scrubbed /\ flushed' = flushed /\ merged' = merged
  BY Zenon DEF histVars
<1> QED
  BY <1>1, <1>2, Zenon DEF RowsOK, TypeOK

\* MainOK after a step that adds no job.
LEMMA MainKeep ==
    ASSUME MainOK, \A u \in Threads : In(u, {"add"})' => In(u, {"add"}), merged \subseteq merged',
           UNCHANGED <<jobMap, mainVars, attempt, inSsi, request>>
    PROVE  MainOK'
<1>1. submitted' = submitted /\ main' = main /\ joined' = joined
  BY Zenon DEF mainVars
<1>2. \A j \in Jobs : Started(request[j])' <=> Started(request[j])
  BY Zenon DEF Started
<1>3. (\A j \in jobMap : \E r \in merged : r[1] = j) => \A j \in jobMap : \E r \in merged' : r[1] = j
  OBVIOUS
<1> QED
  BY <1>1, <1>2, <1>3, Zenon DEF MainOK
-----------------------------------------------------------------------------
(* Steps that change little more than the stack.                            *)

Quiet ==
    /\ UNCHANGED <<jobMap, incomplete, requestCount, bug, attempt, inSsi, request,
                   mainVars, histVars>>
    /\ cancelled' \in BOOLEAN /\ (cancelled => cancelled')
    /\ complete' \subseteq complete
    /\ rmutex' \in [Jobs -> Threads \cup {NoThread}]
    /\ req' \in [Reqs -> ReqType]
    /\ \A r \in Reqs :
          /\ req'[r].finish = req[r].finish /\ req'[r].marked = req[r].marked
          /\ req'[r].cmd = req[r].cmd /\ req'[r].ssi = req[r].ssi
          /\ req'[r].hasJob => req[r].hasJob
          /\ req'[r].keepAlive \in {NoReq, r}

\* A quiet step keeps the types and takes nothing back.
LEMMA QuietTypes ==
    ASSUME TypeOK, Quiet
    PROVE  TypeOK' /\ Grow
<1>1. /\ UNCHANGED <<jobMap, incomplete, requestCount, bug, attempt, inSsi, request>>
      /\ UNCHANGED <<submitted, main, joined, scrubbed, flushed, merged>>
  BY Zenon DEF Quiet, mainVars, histVars
<1>2. TypeOK'
  BY <1>1, Zenon DEF TypeOK, Quiet
<1>3. Grow
  BY <1>1 DEF TypeOK, Quiet, Grow
<1> QED
  BY <1>2, <1>3, Zenon

\* A quiet step leaves the exchange with the worker alone.
LEMMA QuietFlow ==
    ASSUME Quiet
    PROVE  /\ SameFlow
           /\ \A r \in Reqs : Active(r)' <=> Active(r)
  BY Zenon DEF Quiet, SameFlow, Active, histVars

\* Steps that leave the rows and the jobs alone.
LEMMA CalmStep ==
    ASSUME IndInv, TypeOK', Grow, NEW t \in Threads, stack[t] # <<>>, Shape', Others(t),
           InFlow(t), SameTop(t), SameFlow, StartsOK', TrackOK', KeepsItself', bug' = bug,
           UNCHANGED <<jobMap, attempt, request, inSsi, mainVars, histVars>>,
           complete' \subseteq complete
    PROVE  IndInv'
<1>1. TypeOK /\ StackOK /\ FlowOK /\ RowsOK /\ MainOK /\ NoBug
  BY Zenon DEF IndInv
<1>2. FlowOK' /\ \A r \in Reqs : Doomed(r) => Doomed(r)'
  BY <1>1, FlowKeep, Zenon
<1>3. merged' = merged /\ submitted' = submitted
  BY Zenon DEF mainVars, histVars
<1>4. Tops'
  <2>1. Tops
    BY <1>1, StackParts, Zenon
  <2>2. \A u \in Threads : u # t /\ In(u, {"add"}) =>
           Top(u).j \notin jobMap' /\ attempt'[Top(u).j] = 0
    BY <2>1, Zenon DEF Tops
  <2> QED
    BY <1>3, <2>1, <2>2, TopsKeep, Zenon
<1>5. RowsOK'
  BY <1>1, <1>2, RowsKeep, Zenon
<1>6. MainOK'
  <2>1. \A u \in Threads : In(u, {"add"})' => In(u, {"add"})
    BY Zenon DEF InFlow, Others, In
  <2> QED
    BY <1>1, <1>3, <2>1, MainKeep, Zenon
<1>7. NoBug'
  BY <1>1, Zenon DEF NoBug
<1>8. StackOK'
  BY <1>4, StackPartsNext, Zenon
<1> QED
  BY <1>2, <1>5, <1>6, <1>7, <1>8, Zenon DEF IndInv

\* A quiet step keeps the invariant when its thread neither comes nearer to a new
\* attempt nor drops a job it was to finish.
LEMMA QuietStep ==
    ASSUME IndInv, Quiet, NEW t \in Threads, stack[t] # <<>>, Shape', Others(t),
           InFlow(t), SameTop(t), StartsLess(t), ~cancelled' => TrackLess(t)
    PROVE  IndInv'
<1>1. TypeOK /\ StackOK /\ FlowOK /\ StartsOK /\ TrackOK /\ KeepsItself
  BY Zenon DEF IndInv
<1>2. TypeOK' /\ Grow
  BY <1>1, QuietTypes, Zenon
<1>3. Shape
  BY <1>1, StackParts, Zenon
<1>4. SameFlow /\ \A r \in Reqs : Active(r)' <=> Active(r)
  BY QuietFlow, Zenon
<1>5. \A r \in Reqs : Doomed(r) => Doomed(r)'
  BY <1>1, <1>2, <1>4, FlowKeep, Zenon
<1>6. /\ UNCHANGED <<attempt, request, jobMap, incomplete, bug, histVars, mainVars, inSsi>>
      /\ complete' \subseteq complete
  BY Zenon DEF Quiet
<1>7. StartsOK'
  <2>1. \A r \in Reqs : Active(r)' /\ req'[r].hasJob => req[r].hasJob
    BY Zenon DEF Quiet
  <2> QED
    BY <1>1, <1>2, <1>3, <1>4, <1>5, <1>6, <2>1, StartsKeep, Zenon
<1>8. TrackOK'
  <2>1. \A r \in Reqs : (Active(r)' <=> Active(r)) /\ (req'[r].marked => req[r].marked)
    BY <1>4, Zenon DEF Quiet
  <2> QED
    BY <1>1, <1>2, <1>3, <1>6, <2>1, TrackKeep, Zenon
<1>9. KeepsItself'
  BY Zenon DEF KeepsItself, Quiet
<1> QED
  BY <1>2, <1>4, <1>6, <1>7, <1>8, <1>9, CalmStep, Zenon

\* The steps at which a thread finishes a job.
Finishing == {"run.check", "run.lock", "efin.decide", "efin.retry", "efin.mark", "fin.mark"}
             \cup MarkLabels
\* The steps the invariant says something of, whatever the rest of the stack.
Special == {"add", "run.check", "run.lock", "efin.retry", "efin.decide"}
           \cup RespLabels \cup DataLabels \cup CmdLabels

\* Where a thread may go when it has nothing to do with any job any more.
Neutral(t) ==
    \/ stack'[t] = <<>>
    \/ /\ stack'[t] # <<>> /\ Top(t)'.at \notin Special
       /\ Top(t)'.at = "efin" => Top(t)'.b

\* A thread that is done with its job takes part in no exchange and no attempt.
LEMMA NeutralFlow ==
    ASSUME NEW t \in Threads, Neutral(t)
    PROVE  InFlow(t) /\ SameTop(t) /\ StartsLess(t)
<1>2. /\ ~In(t, RespLabels)' /\ ~In(t, DataLabels)' /\ ~In(t, CmdLabels)'
      /\ ~In(t, {"ask", "ask.get"})' /\ ~In(t, {"ask", "ask.get", "flush"})' /\ ~In(t, {"wait"})'
      /\ ~In(t, {"add"})' /\ ~In(t, {"efin.decide", "efin.retry"})'
      /\ ~In(t, {"add", "run.check", "run.lock", "efin.retry"})' /\ ~In(t, {"efin.decide"})'
  BY Zenon DEF Neutral, In, Special, RespLabels, DataLabels, CmdLabels
<1>3. ~In(t, RespLabels \cup DataLabels \cup CmdLabels)'
  BY Zenon DEF Neutral, In, Special
<1>4. ~(In(t, {"efin"})' /\ ~Top(t)'.b)
  BY Zenon DEF Neutral, In
<1> QED
  BY <1>2, <1>3, <1>4, Zenon DEF InFlow, SameTop, StartsLess, Starts

\* ... and not to one of its ends either.
Unattached(t) ==
    /\ ~cancelled
    /\ Top(t).at \notin Finishing \cup {"squash"}
    /\ stack'[t] # <<>> => /\ Top(t)'.at \notin Finishing \cup {"run.fail"}
                           /\ Top(t)'.at = "efin.rerun" => Top(t)'.v

\* A thread that was not to finish a job drops none.
LEMMA NeutralTrack ==
    ASSUME NEW t \in Threads, Unattached(t)
    PROVE  TrackLess(t)
<1>1. \A j \in Jobs : ~Finishes(t, j)' /\ ~Finishes(t, j)
  BY Zenon DEF Unattached, Finishes, Finishing, In
<1>2. ~In(t, {"squash"})
  BY Zenon DEF Unattached, In
<1>3. ~In(t, {"efin.decide", "efin.retry", "efin.mark", "fin.mark"})'
  BY Zenon DEF Unattached, In, Finishing
<1>4. ~In(t, {"run.fail"})' /\ (In(t, {"efin.rerun"})' => Top(t)'.v)
  BY Zenon DEF Unattached, In
<1> QED
  BY <1>1, <1>2, <1>3, <1>4, Zenon DEF TrackLess, Unattached
\* A return, by a call that does not finish a job.
LEMMA ReturnQuiet ==
    ASSUME IndInv, Quiet, NEW t \in Threads, stack[t] # <<>>, NEW v \in BOOLEAN, Return(t, v),
           ~cancelled' => /\ ~cancelled
                          /\ Top(t).at \notin Finishing \cup {"squash", "squash.loop", "run.fail"}
                          /\ Top(t).at = "run.started" => v
    PROVE  IndInv'
<1>1. TypeOK /\ TypeOK' /\ Grow /\ Shape
  BY QuietTypes, StackParts, Zenon DEF IndInv
<1>2. Shape' /\ Returned(t, v) /\ Others(t)
  BY <1>1, ReturnShape, Zenon
<1>3. Neutral(t)
  BY <1>2, Zenon DEF Returned, Neutral, WaitsFor, Special, RespLabels, DataLabels, CmdLabels
<1>4. ASSUME ~cancelled' PROVE TrackLess(t)
  <2>1. ASSUME stack'[t] # <<>>
        PROVE  /\ Top(t)'.at \notin Finishing \cup {"run.fail"}
               /\ Top(t)'.at = "efin.rerun" => Top(t)'.v
    <3>1. WaitsFor(Top(t).at, Top(t)'.at) /\ Top(t)'.v = v
      BY <1>2, <2>1, Zenon DEF Returned
    <3>2. Top(t)'.at \notin Finishing
      BY <3>1, Zenon DEF WaitsFor, Finishing, MarkLabels
    <3>3. Top(t)'.at # "run.fail"
      BY <1>4, <3>1, Zenon DEF WaitsFor
    <3>4. Top(t)'.at = "efin.rerun" => Top(t).at = "run.started"
      BY <1>4, <3>1, Zenon DEF WaitsFor, RunLabels, Finishing
    <3> QED
      BY <1>4, <3>1, <3>2, <3>3, <3>4, Zenon
  <2>2. Unattached(t)
    BY <1>4, <2>1, Zenon DEF Unattached
  <2> QED
    BY <2>2, NeutralTrack, Zenon
<1> QED
  BY <1>2, <1>3, <1>4, NeutralFlow, QuietStep, Zenon

\* The frame f is one of no consequence.
NeutralFrame(f) == /\ f.at \notin Special
                   /\ f.at = "efin" => f.b

\* A step within a call that does not finish a job.
LEMMA GotoQuiet ==
    ASSUME IndInv, Quiet, NEW t \in Threads, stack[t] # <<>>,
           NEW f \in FrameType, FrameOKNext(f), Replaces(f.at, Top(t).at), Goto(t, f),
           NeutralFrame(f),
           ~cancelled' => /\ ~cancelled
                          /\ Top(t).at \notin Finishing \cup {"squash"}
                          /\ f.at \notin Finishing \cup {"run.fail", "efin.rerun"}
    PROVE  IndInv'
<1>1. TypeOK /\ TypeOK' /\ Grow /\ Shape
  BY QuietTypes, StackParts, Zenon DEF IndInv
<1>2. Shape' /\ stack'[t] # <<>> /\ Top(t)' = f /\ Others(t)
  BY <1>1, GotoShape, Zenon
<1>3. Neutral(t)
  BY <1>2, Zenon DEF Neutral, NeutralFrame
<1>4. ASSUME ~cancelled' PROVE TrackLess(t)
  <2>1. Unattached(t)
    BY <1>2, <1>4, Zenon DEF Unattached
  <2> QED
    BY <2>1, NeutralTrack, Zenon
<1> QED
  BY <1>2, <1>3, <1>4, NeutralFlow, QuietStep, Zenon

\* A call that does not finish a job, unless the query is cancelled.
LEMMA PushQuiet ==
    ASSUME IndInv, Quiet, NEW t \in Threads, stack[t] # <<>>,
           NEW f \in FrameType, FrameOKNext(f), NEW g \in FrameType, FrameOKNext(g),
           WaitsFor(f.at, g.at), Replaces(g.at, Top(t).at),
           stack' = [stack EXCEPT ![t] = <<f, g>> \o Tail(@)],
           NeutralFrame(f), cancelled'
    PROVE  IndInv'
<1>1. TypeOK /\ TypeOK' /\ Grow /\ Shape
  BY QuietTypes, StackParts, Zenon DEF IndInv
<1>2. Shape' /\ stack'[t] # <<>> /\ Top(t)' = f /\ Others(t)
  BY <1>1, PushShape, Zenon
<1>3. Neutral(t)
  BY <1>2, Zenon DEF Neutral, NeutralFrame
<1> QED
  BY <1>2, <1>3, NeutralFlow, QuietStep, Zenon

\* A step that leaves every object alone is quiet.
LEMMA QuietSame ==
    ASSUME IndInv,
           UNCHANGED <<jobMap, incomplete, requestCount, bug, attempt, inSsi, request, req,
                       mainVars, histVars>>,
           cancelled' \in BOOLEAN, cancelled => cancelled',
           complete' \subseteq complete, rmutex' \in [Jobs -> Threads \cup {NoThread}]
    PROVE  Quiet
  BY Zenon DEF IndInv, TypeOK, KeepsItself, Quiet

\* The running frame has its type and satisfies FrameOK.
LEMMA TopInv ==
    ASSUME IndInv, NEW t \in Threads, stack[t] # <<>>
    PROVE  Top(t) \in FrameType /\ FrameOK(Top(t))
  BY StackParts, TopFrame, Zenon DEF IndInv

-----------------------------------------------------------------------------
(* Executive: squash() and markCompleted().                                 *)

\* Executive::squash() up to the first cancelled job keeps the invariant.
LEMMA SquashStep ==
    ASSUME IndInv, NEW t \in Threads, stack[t] # <<>>, Squash(t)
    PROVE  IndInv'
<1>1. Top(t) \in FrameType /\ FrameOK(Top(t)) /\ Top(t).at = "squash" /\ cancelled'
  BY TopInv, Zenon DEF Squash, At
<1>2. Quiet
  BY <1>1, QuietSame, Zenon DEF Squash, jobVars, IndInv, TypeOK
<1>3. CASE Return(t, FALSE)
  BY <1>1, <1>2, <1>3, ReturnQuiet, Zenon
<1>4. CASE Goto(t, [Top(t) EXCEPT !.at = "squash.loop", !.todo = jobMap])
  <2> DEFINE f == [Top(t) EXCEPT !.at = "squash.loop", !.todo = jobMap]
  <2>1. f \in FrameType /\ f.at = "squash.loop" /\ f.todo = jobMap
    BY <1>1, Zenon DEF FrameType, JobLabels, CancelLabels, IndInv, TypeOK
  <2> HIDE DEF f
  <2>2. FrameOKNext(f)
    BY <1>1, <2>1, Zenon DEF FrameOKNext, Squash, ReqLabels, RespLabels, DataLabels, CmdLabels
  <2>3. Replaces(f.at, Top(t).at) /\ NeutralFrame(f)
    BY <1>1, <2>1, Zenon DEF Replaces, NeutralFrame, Special, RespLabels, DataLabels, CmdLabels, RunLabels
  <2> QED
    BY <1>1, <1>2, <1>4, <2>1, <2>2, <2>3, GotoQuiet, Zenon DEF f
<1> QED
  BY <1>3, <1>4, Zenon DEF Squash

\* So does the next job that Executive::squash() cancels.
LEMMA SquashLoopStep ==
    ASSUME IndInv, NEW t \in Threads, stack[t] # <<>>, SquashLoop(t)
    PROVE  IndInv'
<1>1. Top(t) \in FrameType /\ FrameOK(Top(t)) /\ Top(t).at = "squash.loop"
  BY TopInv, Zenon DEF SquashLoop, At
<1>2. cancelled /\ cancelled'
  BY <1>1, Zenon DEF FrameOK, CancelLabels, SquashLoop, execVars
<1>3. Quiet
  BY <1>2, QuietSame, Zenon DEF SquashLoop, jobVars, execVars, IndInv, TypeOK
<1>4. CASE Return(t, TRUE)
  BY <1>2, <1>3, <1>4, ReturnQuiet, Zenon
<1>5. ASSUME NEW j \in Top(t).todo,
             stack' = [stack EXCEPT ![t] = <<Frame("cancel", j, NoReq, FALSE),
                                             [Top(t) EXCEPT !.todo = @ \ {j}]>> \o Tail(@)]
      PROVE  IndInv'
  <2> DEFINE f == Frame("cancel", j, NoReq, FALSE)
             g == [Top(t) EXCEPT !.todo = @ \ {j}]
  <2>0. j \in jobMap /\ j \in Jobs /\ jobMap' = jobMap
    BY <1>1, <1>5, Zenon DEF FrameOK, IndInv, TypeOK, SquashLoop, execVars
  <2>1. f \in FrameType /\ f.at = "cancel" /\ f.todo = {} /\ f.j = j
    BY <2>0, Zenon DEF Frame, FrameType, JobLabels, CancelLabels
  <2>2. g \in FrameType /\ g.at = "squash.loop" /\ g.todo \subseteq jobMap
    BY <1>1, <2>0, Zenon DEF FrameType, FrameOK
  <2> HIDE DEF f, g
  <2>3. FrameOKNext(f) /\ FrameOKNext(g)
    BY <1>2, <2>0, <2>1, <2>2, Zenon DEF FrameOKNext, ReqLabels, RespLabels, DataLabels, CmdLabels
  <2>4. WaitsFor(f.at, g.at) /\ Replaces(g.at, Top(t).at) /\ NeutralFrame(f)
    BY <1>1, <2>1, <2>2, Zenon DEF WaitsFor, Replaces, NeutralFrame, Special, RespLabels, DataLabels,
                            CmdLabels, RunLabels
  <2>5. stack' = [stack EXCEPT ![t] = <<f, g>> \o Tail(@)]
    BY <1>5, Zenon DEF f, g
  <2> QED
    BY <1>2, <1>3, <2>1, <2>2, <2>3, <2>4, <2>5, PushQuiet, Zenon
<1> QED
  BY <1>4, <1>5, Zenon DEF SquashLoop
\* A step from one step of finishing a job to the next.
LEMMA MarkMoves ==
    ASSUME IndInv, Quiet, NEW t \in Threads, stack[t] # <<>>, cancelled' = cancelled,
           NEW l \in MarkLabels, Goto(t, [Top(t) EXCEPT !.at = l]), Top(t).at \in MarkLabels
    PROVE  IndInv'
<1> DEFINE f == [Top(t) EXCEPT !.at = l]
<1>1. Top(t) \in FrameType /\ FrameOK(Top(t))
  BY TopInv, Zenon
<1>2. f \in FrameType /\ f.at = l /\ f.j = Top(t).j /\ f.todo = Top(t).todo
  BY <1>1, Zenon DEF FrameType, JobLabels
<1> HIDE DEF f
<1>3. FrameOKNext(f)
  BY <1>1, <1>2, Zenon DEF FrameOKNext, FrameOK, Quiet, MarkLabels, ReqLabels, RespLabels, DataLabels,
                    CmdLabels, CancelLabels
<1>4. Replaces(f.at, Top(t).at)
  BY <1>2, Zenon DEF Replaces, MarkLabels, RunLabels
<1>5. TypeOK /\ TypeOK' /\ Grow /\ Shape
  BY QuietTypes, StackParts, Zenon DEF IndInv
<1>6. Shape' /\ stack'[t] # <<>> /\ Top(t)' = f /\ Others(t)
  BY <1>2, <1>3, <1>4, <1>5, GotoShape, Zenon DEF f
<1>7. Neutral(t)
  BY <1>2, <1>6, Zenon DEF Neutral, Special, MarkLabels, RespLabels, DataLabels, CmdLabels
<1>8. ASSUME ~cancelled' PROVE TrackLess(t)
  <2>1. \A j \in Jobs : Finishes(t, j)' <=> Finishes(t, j)
    BY <1>2, <1>6, Zenon DEF Finishes, In
  <2>2. /\ ~In(t, {"squash"}) /\ ~In(t, {"run.fail"})' /\ ~In(t, {"efin.rerun"})'
        /\ ~In(t, {"efin.decide", "efin.retry", "efin.mark", "fin.mark"})'
    BY <1>2, <1>6, Zenon DEF In, MarkLabels
  <2> QED
    BY <1>8, <2>1, <2>2, Zenon DEF TrackLess
<1> QED
  BY <1>6, <1>7, <1>8, NeutralFlow, QuietStep, Zenon

\* A thread about to mark a job in a query that is not cancelled finds it.
LEMMA MarkFinds ==
    ASSUME IndInv, NEW t \in Threads, stack[t] # <<>>, Top(t).at \in Finishing, ~cancelled
    PROVE  /\ Top(t).j \in incomplete /\ Top(t).j \in Jobs
           /\ Finishes(t, Top(t).j) /\ FinishesAlone(t, Top(t).j)
<1>1. Top(t) \in FrameType /\ FrameOK(Top(t))
  BY TopInv, Zenon
<1>2. Top(t).j \in Jobs
  BY <1>1, Zenon DEF FrameOK, Finishing, MarkLabels, IndInv, TypeOK
<1>3. Finishes(t, Top(t).j)
  BY Zenon DEF Finishes, Finishing, In
<1>4. FinishesAlone(t, Top(t).j)
  BY <1>2, <1>3, Zenon DEF IndInv, TrackOK
<1> QED
  BY <1>2, <1>3, <1>4, Zenon DEF FinishesAlone

\* Executive::markCompleted() finds its job and keeps the invariant.
LEMMA MarkFindStep ==
    ASSUME IndInv, NEW t \in Threads, stack[t] # <<>>, MarkFind(t)
    PROVE  IndInv'
<1>1. Top(t).at = "mark"
  BY Zenon DEF MarkFind, At
<1>2. ~cancelled => Top(t).j \in incomplete
  BY <1>1, MarkFinds, Zenon DEF Finishing, MarkLabels
<1>3. bug' = bug
  BY <1>2, Zenon DEF MarkFind, IndInv, TypeOK, NoBug
<1>4. Quiet
  BY <1>3, QuietSame, Zenon DEF MarkFind, jobVars, IndInv, TypeOK
<1>5. CASE Goto(t, [Top(t) EXCEPT !.at = "mark.status"])
  BY <1>1, <1>4, <1>5, MarkMoves, Zenon DEF MarkLabels, MarkFind
<1>6. CASE Top(t).j \notin incomplete /\ Return(t, FALSE)
  BY <1>2, <1>4, <1>6, ReturnQuiet, Zenon DEF MarkFind
<1> QED
  BY <1>5, <1>6, Zenon DEF MarkFind

\* SetStatus of a failure only takes jobs out of the completed ones.
LEMMA MarkStatusStep ==
    ASSUME IndInv, NEW t \in Threads, stack[t] # <<>>, MarkStatus(t)
    PROVE  IndInv'
<1>1. Quiet
  BY QuietSame, Zenon DEF MarkStatus, SetStatus, jobVars, execVars, IndInv, TypeOK
<1> QED
  BY <1>1, MarkMoves, Zenon DEF MarkLabels, MarkStatus, At, execVars
\* A step of t that only concerns the job j, which nobody else finishes.
HandsOver(t, j) ==
    /\ \A u \in Threads \ {t} : ~Finishes(u, j)
    /\ \A k \in Jobs \ {j} : ~Finishes(t, k) /\ ~Finishes(t, k)'
    /\ In(t, {"squash"}) => Top(t).j = j
    /\ \A r \in Reqs : r[1] # j => (Active(r)' <=> Active(r)) /\ req'[r].marked = req[r].marked
    /\ incomplete' \ {j} = incomplete \ {j}
    /\ ~In(t, {"run.fail", "efin.rerun"})'

\* The job j is in one hand after the step.
InHand(t, j) ==
    /\ Finishes(t, j)' =>
          /\ j \in incomplete'
          /\ \A r \in Reqs : r[1] = j => ~Active(r)'
          /\ In(t, {"efin.decide", "efin.retry", "efin.mark", "fin.mark"})' =>
                ~req'[Top(t)'.r].marked
    /\ \A r \in Reqs : r[1] = j /\ Active(r)' => j \in incomplete' /\ ~req'[r].marked
    /\ j \in incomplete' => Attended(j)'

\* TrackOK after a step in which one thread alone answers for the end of a job.
LEMMA TrackHand ==
    ASSUME TypeOK, TypeOK', Shape, TrackOK, NEW t \in Threads, NEW j \in Jobs, Others(t),
           ~cancelled' => ~cancelled /\ HandsOver(t, j) /\ InHand(t, j)
    PROVE  TrackOK'
<1> SUFFICES ASSUME ~cancelled'
             PROVE  /\ \A u \in Threads : \A k \in Jobs : Finishes(u, k)' => FinishesAlone(u, k)'
                    /\ \A r \in Reqs : Active(r)' => r[1] \in incomplete' /\ ~req'[r].marked
                    /\ \A k \in incomplete' : Attended(k)'
                    /\ \A u \in Threads : ~In(u, {"run.fail"})' /\ (In(u, {"efin.rerun"})' => Top(u)'.v)
  BY Zenon DEF TrackOK
<1>1. ~cancelled /\ HandsOver(t, j) /\ InHand(t, j) /\ incomplete' \subseteq Jobs
  BY Zenon DEF TypeOK
<1>2. /\ \A u \in Threads : \A k \in Jobs : Finishes(u, k) => FinishesAlone(u, k)
      /\ \A r \in Reqs : Active(r) => r[1] \in incomplete /\ ~req[r].marked
      /\ \A k \in incomplete : Attended(k)
      /\ \A u \in Threads : ~In(u, {"run.fail"}) /\ (In(u, {"efin.rerun"}) => Top(u).v)
  BY <1>1, Zenon DEF TrackOK
<1>3. ASSUME NEW u \in Threads, NEW k \in Jobs, u # t PROVE Finishes(u, k)' <=> Finishes(u, k)
  BY <1>3, Zenon DEF Others, Finishes, In
<1>4. ASSUME NEW u \in Threads, Finishes(u, j)' PROVE u = t
  BY <1>1, <1>3, <1>4, Zenon DEF HandsOver
<1>5. ASSUME NEW u \in Threads, NEW k \in Jobs, k # j, Finishes(u, k)'
      PROVE  u # t /\ Finishes(u, k) /\ FinishesAlone(u, k)
  BY <1>1, <1>2, <1>3, <1>5, Zenon DEF HandsOver
<1>6. ASSUME NEW u \in Threads, NEW k \in Jobs, Finishes(u, k)' PROVE FinishesAlone(u, k)'
  <2>1. CASE k = j
    BY <1>1, <1>4, <1>6, <2>1, Zenon DEF InHand, FinishesAlone
  <2>2. CASE k # j
    <3>1. u # t /\ Finishes(u, k) /\ FinishesAlone(u, k)
      BY <1>5, <1>6, <2>2, Zenon
    <3>2. k \in incomplete' /\ \A r \in Reqs : r[1] = k => ~Active(r)'
      BY <1>1, <2>2, <3>1, Zenon DEF FinishesAlone, HandsOver
    <3>3. \A w \in Threads : Finishes(w, k)' => w = u
      BY <1>5, <2>2, <3>1, Zenon DEF FinishesAlone
    <3>4. ASSUME In(u, {"efin.decide", "efin.retry", "efin.mark", "fin.mark"})'
          PROVE  ~req'[Top(u)'.r].marked
      <4>1. /\ stack'[u] = stack[u] /\ Top(u)' = Top(u)
            /\ In(u, {"efin.decide", "efin.retry", "efin.mark", "fin.mark"})
        BY <3>1, <3>4, Zenon DEF Others, In
      <4>2. Top(u).r \in Reqs /\ Top(u).r[1] = k
        BY <3>1, <4>1, TopFrame, Zenon DEF In, FrameOK, ReqLabels, Finishes
      <4> QED
        BY <1>1, <2>2, <3>1, <4>1, <4>2, Zenon DEF FinishesAlone, HandsOver
    <3> QED
      BY <3>2, <3>3, <3>4, Zenon DEF FinishesAlone
  <2> QED
    BY <2>1, <2>2, Zenon
<1>7. ASSUME NEW r \in Reqs, Active(r)' PROVE r[1] \in incomplete' /\ ~req'[r].marked
  <2>1. CASE r[1] = j
    BY <1>1, <1>7, <2>1, Zenon DEF InHand
  <2>2. CASE r[1] # j
    BY <1>1, <1>2, <1>7, <2>2, Zenon DEF HandsOver
  <2> QED
    BY <2>1, <2>2, Zenon
<1>8. ASSUME NEW k \in incomplete' PROVE Attended(k)'
  <2>1. CASE k = j
    BY <1>1, <2>1, Zenon DEF InHand
  <2>2. CASE k # j
    <3>1. k \in Jobs /\ Attended(k)
      BY <1>1, <1>2, <2>2, Zenon DEF HandsOver
    <3>2. ASSUME NEW u \in Threads, Finishes(u, k) PROVE Finishes(u, k)'
      BY <1>1, <1>3, <2>2, <3>1, <3>2, Zenon DEF HandsOver
    <3>3. ASSUME NEW u \in Threads, In(u, {"squash"}), Top(u).j = k
          PROVE  In(u, {"squash"})' /\ Top(u)'.j = k
      <4>1. u # t
        BY <1>1, <2>2, <3>3, Zenon DEF HandsOver
      <4> QED
        BY <3>3, <4>1, Zenon DEF Others, In
    <3>4. \A r \in Reqs : r[1] = k /\ Active(r) => Active(r)'
      BY <1>1, <2>2, Zenon DEF HandsOver
    <3> QED
      BY <3>1, <3>2, <3>3, <3>4, Zenon DEF Attended
  <2> QED
    BY <2>1, <2>2, Zenon
<1>9. ASSUME NEW u \in Threads PROVE ~In(u, {"run.fail"})' /\ (In(u, {"efin.rerun"})' => Top(u)'.v)
  <2>1. CASE u = t
    BY <1>1, <2>1, Zenon DEF In, HandsOver
  <2>2. CASE u # t
    BY <1>2, <2>2, Zenon DEF Others, In
  <2> QED
    BY <2>1, <2>2, Zenon
<1> QED
  BY <1>6, <1>7, <1>8, <1>9, Zenon

\* Executive::_unTrack() of the completed job keeps the invariant.
LEMMA MarkUntrackStep ==
    ASSUME IndInv, NEW t \in Threads, stack[t] # <<>>, MarkUntrack(t)
    PROVE  IndInv'
<1> DEFINE f == [Top(t) EXCEPT !.at = "squash"]
<1>0. Top(t) \in FrameType /\ FrameOK(Top(t)) /\ Top(t).at = "mark.untrack" /\ Top(t).j \in Jobs
  BY TopInv, Zenon DEF MarkUntrack, At, FrameOK, IndInv, TypeOK
<1>j. PICK j \in Jobs : j = Top(t).j
  BY <1>0, Zenon
<1>1. Top(t) \in FrameType /\ FrameOK(Top(t)) /\ Top(t).at = "mark.untrack" /\ Top(t).j = j
  BY <1>0, <1>j, Zenon
<1>2. /\ UNCHANGED <<cancelled, jobMap, requestCount, bug, complete, attempt, inSsi, request, rmutex,
                     req, mainVars, histVars>>
      /\ incomplete' = incomplete \ {j} /\ Goto(t, f)
  BY <1>j, Zenon DEF MarkUntrack, jobVars
<1>3. TypeOK /\ Shape /\ StartsOK /\ TrackOK /\ FlowOK
  BY StackParts, Zenon DEF IndInv
<1>4. TypeOK' /\ Grow
  BY <1>2, <1>3 DEF TypeOK, Grow, mainVars, histVars
<1>5. f \in FrameType /\ f.at = "squash" /\ f.j = j /\ f.todo = Top(t).todo
  BY <1>1, Zenon DEF FrameType, JobLabels
<1> HIDE DEF f
<1>6. FrameOKNext(f) /\ Replaces(f.at, Top(t).at)
  BY <1>1, <1>2, <1>5, Zenon DEF FrameOKNext, FrameOK, Replaces, ReqLabels, RespLabels, DataLabels, CmdLabels,
                          CancelLabels, RunLabels
<1>7. Shape' /\ stack'[t] # <<>> /\ Top(t)' = f /\ Others(t)
  BY <1>2, <1>3, <1>4, <1>5, <1>6, GotoShape, Zenon
<1>8. InFlow(t) /\ SameTop(t) /\ StartsLess(t)
  <2>1. Neutral(t)
    BY <1>5, <1>7, Zenon DEF Neutral, Special, RespLabels, DataLabels, CmdLabels
  <2> QED
    BY <2>1, NeutralFlow, Zenon
<1>9. SameFlow /\ KeepsItself' /\ \A r \in Reqs : Active(r)' <=> Active(r)
  BY <1>2, Zenon DEF SameFlow, Active, histVars, KeepsItself, IndInv
<1>10. StartsOK'
  <2>1. \A r \in Reqs : Doomed(r) => Doomed(r)'
    BY <1>3, <1>4, <1>7, <1>8, <1>9, FlowKeep, Zenon
  <2> QED
    BY <1>2, <1>3, <1>4, <1>7, <1>8, <1>9, <2>1, StartsKeep, Zenon
<1>11. ASSUME ~cancelled' PROVE ~cancelled /\ HandsOver(t, j) /\ InHand(t, j)
  <2>1. ~cancelled /\ Finishes(t, j) /\ FinishesAlone(t, j)
    BY <1>1, <1>2, <1>11, MarkFinds, Zenon DEF Finishing, MarkLabels
  <2>2. \A k \in Jobs : (k # j => ~Finishes(t, k)) /\ ~Finishes(t, k)'
    BY <1>1, <1>5, <1>7, Zenon DEF Finishes, In, MarkLabels
  <2>3. ~In(t, {"squash"}) /\ ~In(t, {"run.fail", "efin.rerun"})'
    BY <1>1, <1>5, <1>7, Zenon DEF In
  <2>4. HandsOver(t, j)
    <3>1. \A u \in Threads \ {t} : ~Finishes(u, j)
      BY <2>1, Zenon DEF FinishesAlone
    <3>2. incomplete' \ {j} = incomplete \ {j}
      BY <1>2, Zenon
    <3>3. \A r \in Reqs : (Active(r)' <=> Active(r)) /\ req'[r].marked = req[r].marked
      BY <1>2, <1>9, Zenon
    <3> QED
      BY <2>2, <2>3, <3>1, <3>2, <3>3, Zenon DEF HandsOver
  <2>5. InHand(t, j)
    <3>1. j \notin incomplete' /\ ~Finishes(t, j)'
      BY <1>1, <1>2, <2>2, Zenon
    <3>2. \A r \in Reqs : r[1] = j => ~Active(r)'
      BY <1>9, <2>1, Zenon DEF FinishesAlone
    <3> QED
      BY <3>1, <3>2, Zenon DEF InHand
  <2> QED
    BY <2>1, <2>4, <2>5, Zenon
<1>12. TrackOK'
  BY <1>1, <1>3, <1>4, <1>7, <1>11, TrackHand, Zenon
<1> QED
  BY <1>2, <1>4, <1>7, <1>8, <1>9, <1>10, <1>12, CalmStep, Zenon
-----------------------------------------------------------------------------
(* JobQuery: the steps of runJob() around the lock, and cancel().           *)

\* The job of a request that is with SSI gets its status; the invariant stays.
LEMMA RunStartedStep ==
    ASSUME IndInv, NEW t \in Threads, stack[t] # <<>>, RunStarted(t)
    PROVE  IndInv'
<1>1. Top(t).at = "run.started"
  BY Zenon DEF RunStarted, At
<1>2. Quiet /\ cancelled' = cancelled
  BY QuietSame, Zenon DEF RunStarted, SetStatus, execVars, IndInv, TypeOK
<1>3. Top(t).at \notin Finishing \cup {"squash", "squash.loop", "run.fail"}
  BY <1>1, Zenon DEF Finishing, MarkLabels
<1> QED
  BY <1>1, <1>2, <1>3, ReturnQuiet, Zenon DEF RunStarted

\* runJob() only fails once the query is cancelled.
LEMMA RunFailStep ==
    ASSUME IndInv, NEW t \in Threads, stack[t] # <<>>, RunFail(t)
    PROVE  IndInv'
<1>1. cancelled
  BY Zenon DEF RunFail, At, IndInv, TrackOK, In
<1>2. Quiet /\ cancelled' = cancelled
  BY QuietSame, Zenon DEF RunFail, execVars, IndInv, TypeOK
<1> QED
  BY <1>1, <1>2, ReturnQuiet, Zenon DEF RunFail

\* JobQuery::cancel() returns and keeps the invariant.
LEMMA CancelEndStep ==
    ASSUME IndInv, NEW t \in Threads, stack[t] # <<>>, CancelEnd(t)
    PROVE  IndInv'
<1>1. cancelled
  BY TopInv, Zenon DEF CancelEnd, At, FrameOK, CancelLabels
<1>2. Quiet /\ cancelled' = cancelled
  BY QuietSame, Zenon DEF CancelEnd, execVars, IndInv, TypeOK
<1> QED
  BY <1>1, <1>2, ReturnQuiet, Zenon DEF CancelEnd

\* runJob()'s test of cancellation keeps the invariant.
LEMMA RunCheckStep ==
    ASSUME IndInv, NEW t \in Threads, stack[t] # <<>>, RunCheck(t)
    PROVE  IndInv'
<1> DEFINE f == [Top(t) EXCEPT !.at = "run.lock"]
<1>1. Top(t) \in FrameType /\ FrameOK(Top(t)) /\ Top(t).at = "run.check"
  BY TopInv, Zenon DEF RunCheck, At
<1>2. Quiet /\ cancelled' = cancelled
  BY QuietSame, Zenon DEF RunCheck, execVars, jobVars, IndInv, TypeOK
<1>3. CASE cancelled /\ Return(t, FALSE)
  BY <1>2, <1>3, ReturnQuiet, Zenon
<1>4. CASE Goto(t, f)
  <2>1. /\ f \in FrameType /\ f.at = "run.lock" /\ f.j = Top(t).j /\ f.todo = Top(t).todo
    BY <1>1, Zenon DEF FrameType, JobLabels, RunLabels
  <2> HIDE DEF f
  <2>2. FrameOKNext(f) /\ Replaces(f.at, Top(t).at)
    BY <1>1, <1>2, <2>1, Zenon DEF FrameOKNext, FrameOK, Quiet, Replaces, ReqLabels, RespLabels, DataLabels,
                            CmdLabels, CancelLabels, RunLabels
  <2>3. TypeOK /\ TypeOK' /\ Grow /\ Shape
    BY <1>2, QuietTypes, StackParts, Zenon DEF IndInv
  <2>4. Shape' /\ stack'[t] # <<>> /\ Top(t)' = f /\ Others(t)
    BY <1>4, <2>1, <2>2, <2>3, GotoShape, Zenon
  <2>5. InFlow(t) /\ SameTop(t)
    BY <2>1, <2>4, Zenon DEF InFlow, SameTop, In, RespLabels, DataLabels, CmdLabels
  <2>6. StartsLess(t)
    BY <1>1, <2>1, <2>4, Zenon DEF StartsLess, Starts, In
  <2>7. ASSUME ~cancelled' PROVE TrackLess(t)
    BY <1>1, <1>2, <2>1, <2>4, <2>7, Zenon DEF TrackLess, Finishes, In
  <2> QED
    BY <1>2, <2>4, <2>5, <2>6, <2>7, QuietStep, Zenon
<1> QED
  BY <1>3, <1>4, Zenon DEF RunCheck

\* cancel() of a job runs in a cancelled query.
LEMMA CancelStep ==
    ASSUME IndInv, NEW t \in Threads, stack[t] # <<>>, Cancel(t)
    PROVE  IndInv'
<1> DEFINE j == Top(t).j
           f == IF inSsi[j] THEN Frame("qcancel", j, request[j], FALSE)
                            ELSE Frame("mark", j, NoReq, FALSE)
           g == [[Top(t) EXCEPT !.b = rmutex[j] = NoThread] EXCEPT
                    !.at = IF inSsi[j] THEN "cancel.asked" ELSE "cancel.end"]
<1>1. /\ Top(t) \in FrameType /\ FrameOK(Top(t)) /\ Top(t).at = "cancel"
      /\ j \in jobMap /\ j \in Jobs /\ cancelled
  BY TopInv, Zenon DEF Cancel, At, FrameOK, CancelLabels, IndInv, TypeOK
<1>2. Quiet /\ cancelled' /\ UNCHANGED <<jobMap, attempt>>
  BY <1>1, QuietSame, Zenon DEF Cancel, execVars, IndInv, TypeOK
<1>3. inSsi[j] => request[j] \in Reqs /\ Started(request[j]) /\ request[j][1] = j
  BY <1>1, Zenon DEF IndInv, MainOK
<1>4. f \in FrameType /\ f.todo = {} /\ f.j = j
  BY <1>1, <1>3, Zenon DEF Frame, FrameType, JobLabels, ReqLabels, MarkLabels
<1>5. (f.at = "qcancel" /\ inSsi[j] /\ f.r = request[j]) \/ f.at = "mark"
  BY Zenon DEF Frame
<1>6. g \in FrameType /\ g.at \in {"cancel.asked", "cancel.end"} /\ g.j = j /\ g.todo = Top(t).todo
  BY <1>1, Zenon DEF FrameType, JobLabels, CancelLabels
<1>7. stack' = [stack EXCEPT ![t] = <<f, g>> \o Tail(@)]
  BY Zenon DEF Cancel
<1> HIDE DEF f, g
<1>8. FrameOKNext(f)
  BY <1>1, <1>2, <1>3, <1>4, <1>5, Zenon DEF FrameOKNext, Started, CancelLabels, ReqLabels, RespLabels,
                                      DataLabels, CmdLabels
<1>9. FrameOKNext(g)
  BY <1>1, <1>2, <1>6, Zenon DEF FrameOKNext, FrameOK, ReqLabels, RespLabels, DataLabels, CmdLabels
<1>10. WaitsFor(f.at, g.at) /\ Replaces(g.at, Top(t).at) /\ NeutralFrame(f)
  BY <1>1, <1>5, <1>6, Zenon DEF WaitsFor, Replaces, NeutralFrame, Special, RespLabels, DataLabels,
                          CmdLabels, RunLabels
<1> QED
  BY <1>2, <1>4, <1>6, <1>7, <1>8, <1>9, <1>10, PushQuiet, Zenon

\* JobQuery::cancel() of a request that could not be cancelled marks the job; the
\* invariant stays.
LEMMA CancelFailedStep ==
    ASSUME IndInv, NEW t \in Threads, stack[t] # <<>>, CancelFailed(t)
    PROVE  IndInv'
<1> DEFINE f == Frame("mark", Top(t).j, NoReq, FALSE)
           g == [Top(t) EXCEPT !.at = "cancel.end"]
<1>1. /\ Top(t) \in FrameType /\ FrameOK(Top(t)) /\ Top(t).at = "cancel.asked"
      /\ Top(t).j \in jobMap /\ Top(t).j \in Jobs /\ cancelled
  BY TopInv, Zenon DEF CancelFailed, At, FrameOK, CancelLabels, IndInv, TypeOK
<1>2. Quiet /\ cancelled' /\ UNCHANGED jobMap
  BY <1>1, QuietSame, Zenon DEF CancelFailed, execVars, jobVars, IndInv, TypeOK
<1>3. f \in FrameType /\ f.at = "mark" /\ f.todo = {} /\ f.j = Top(t).j
  BY <1>1, Zenon DEF Frame, FrameType, JobLabels, MarkLabels
<1>4. g \in FrameType /\ g.at = "cancel.end" /\ g.j = Top(t).j /\ g.todo = Top(t).todo
  BY <1>1, Zenon DEF FrameType, JobLabels, CancelLabels
<1>5. stack' = [stack EXCEPT ![t] = <<f, g>> \o Tail(@)]
  BY Zenon DEF CancelFailed, Call
<1> HIDE DEF f, g
<1>6. FrameOKNext(f) /\ FrameOKNext(g)
  BY <1>1, <1>2, <1>3, <1>4, Zenon DEF FrameOKNext, FrameOK, CancelLabels, ReqLabels, RespLabels, DataLabels,
                                CmdLabels
<1>7. WaitsFor(f.at, g.at) /\ Replaces(g.at, Top(t).at) /\ NeutralFrame(f)
  BY <1>1, <1>3, <1>4, Zenon DEF WaitsFor, Replaces, NeutralFrame, Special, RespLabels, DataLabels,
                          CmdLabels, RunLabels
<1> QED
  BY <1>2, <1>3, <1>4, <1>5, <1>6, <1>7, PushQuiet, Zenon
-----------------------------------------------------------------------------
(* QueryRequest: the steps of its methods that leave the job alone.         *)

\* f is the frame g of a request, at another step of the request.
Moved(f, g) == /\ f \in FrameType /\ f.at \in ReqLabels /\ f.j = g.j /\ f.r = g.r
               /\ f.todo = g.todo

\* It is in order if g is.
LEMMA MovedFrame ==
    ASSUME IndInv, TypeOK', Grow, NEW t \in Threads, stack[t] # <<>>, Top(t).at \in ReqLabels,
           NEW f, Moved(f, Top(t))
    PROVE  FrameOKNext(f) /\ Replaces(f.at, Top(t).at)
<1>1. Top(t) \in FrameType /\ FrameOK(Top(t)) /\ TypeOK
  BY TopInv, Zenon DEF IndInv
<1>2. FrameOKNext(Top(t))
  BY <1>1, FrameGrows, Zenon
<1>3. /\ f.at \notin {"add", "squash.loop", "squash"} \cup CancelLabels \cup RunLabels
      /\ Top(t).at \notin {"add", "squash.loop", "squash"} \cup RunLabels
  BY Zenon DEF Moved, ReqLabels, CancelLabels, RunLabels, RespLabels, DataLabels, CmdLabels
<1>4. FrameOKNext(f)
  BY <1>2, <1>3, Zenon DEF FrameOKNext, Moved
<1>5. Replaces(f.at, Top(t).at)
  BY <1>3, Zenon DEF Replaces
<1> QED
  BY <1>4, <1>5, Zenon

\* The frame of a request names a request that was started.
LEMMA ReqOfTop ==
    ASSUME IndInv, NEW t \in Threads, stack[t] # <<>>, Top(t).at \in ReqLabels
    PROVE  /\ Top(t).r \in Reqs /\ Started(Top(t).r) /\ Top(t).j = Top(t).r[1]
           /\ Top(t).j \in Jobs /\ Top(t).j \in jobMap /\ Top(t).r[1] \in Jobs
  BY TopInv, Zenon DEF FrameOK, IndInv, TypeOK, ReqLabels, RespLabels, DataLabels, CmdLabels

\* A step of a request that is for no job in particular.
LEMMA MoveQuiet ==
    ASSUME IndInv, Quiet, NEW t \in Threads, stack[t] # <<>>, cancelled' = cancelled,
           Top(t).at \in ReqLabels, NEW f, Moved(f, Top(t)), NeutralFrame(f), Goto(t, f),
           ~cancelled => Top(t).at \notin Finishing /\ f.at \notin Finishing \cup {"efin.rerun"}
    PROVE  IndInv'
<1>1. TypeOK' /\ Grow
  BY QuietTypes, Zenon DEF IndInv
<1>2. FrameOKNext(f) /\ Replaces(f.at, Top(t).at)
  BY <1>1, MovedFrame, Zenon
<1>3. Top(t).at # "squash" /\ f.at # "run.fail" /\ f \in FrameType
  BY Zenon DEF ReqLabels, RespLabels, DataLabels, CmdLabels, Moved
<1> QED
  BY <1>2, <1>3, GotoQuiet, Zenon
\* A step that changes one request, in what the invariant does not speak of.
LEMMA QuietReq ==
    ASSUME IndInv,
           UNCHANGED <<cancelled, jobMap, incomplete, requestCount, bug, attempt, inSsi, request,
                       rmutex, mainVars, histVars>>,
           complete' \subseteq complete,
           NEW r \in Reqs, NEW q \in ReqType, req' = [req EXCEPT ![r] = q],
           q.finish = req[r].finish, q.marked = req[r].marked, q.cmd = req[r].cmd,
           q.ssi = req[r].ssi, q.hasJob => req[r].hasJob, q.keepAlive \in {NoReq, r}
    PROVE  Quiet
<1>1. req \in [Reqs -> ReqType]
  BY Zenon DEF IndInv, TypeOK
<1>2. req' \in [Reqs -> ReqType] /\ req'[r] = q /\ \A p \in Reqs : p # r => req'[p] = req[p]
  BY <1>1, Zenon
<1>3. \A p \in Reqs : req[p].keepAlive \in {NoReq, p}
  BY Zenon DEF IndInv, KeepsItself
<1> QED
  BY <1>2, <1>3, Zenon DEF Quiet, IndInv, TypeOK

\* QueryRequest::cleanup() lets go of the request and keeps the invariant.
LEMMA CleanupStep ==
    ASSUME IndInv, NEW t \in Threads, stack[t] # <<>>, Cleanup(t)
    PROVE  IndInv'
<1> DEFINE q == [req[Top(t).r] EXCEPT !.hasJob = FALSE, !.keepAlive = NoReq]
<1>1. Top(t).at = "clean" /\ Top(t).r \in Reqs /\ req[Top(t).r] \in ReqType
  BY ReqOfTop, Zenon DEF Cleanup, At, ReqLabels, IndInv, TypeOK
<1>q. /\ q \in ReqType /\ req' = [req EXCEPT ![Top(t).r] = q]
      /\ q.finish = req[Top(t).r].finish /\ q.marked = req[Top(t).r].marked
      /\ q.cmd = req[Top(t).r].cmd /\ q.ssi = req[Top(t).r].ssi /\ ~q.hasJob /\ q.keepAlive = NoReq
  BY <1>1, Zenon DEF ReqType, Cleanup
<1> HIDE DEF q
<1>2. Quiet /\ cancelled' = cancelled
  BY <1>1, <1>q, QuietReq, Zenon DEF Cleanup, execVars, jobVars
<1>3. Top(t).at \notin Finishing \cup {"squash", "squash.loop", "run.fail"}
  BY <1>1, Zenon DEF Finishing, MarkLabels
<1> QED
  BY <1>1, <1>2, <1>3, ReturnQuiet, Zenon DEF Cleanup

\* A retry only fails once the query is cancelled.
LEMMA ErrorRerunStep ==
    ASSUME IndInv, NEW t \in Threads, stack[t] # <<>>, ErrorRerun(t)
    PROVE  IndInv'
<1> DEFINE f == [Top(t) EXCEPT !.at = IF Top(t).v THEN "clean" ELSE "efin.mark"]
<1>1. Top(t) \in FrameType /\ Top(t).at = "efin.rerun" /\ (~cancelled => Top(t).v)
  BY TopInv, Zenon DEF ErrorRerun, At, IndInv, TrackOK, In
<1>2. Quiet /\ cancelled' = cancelled
  BY QuietSame, Zenon DEF ErrorRerun, execVars, jobVars, IndInv, TypeOK
<1>3. Moved(f, Top(t)) /\ f.at = IF Top(t).v THEN "clean" ELSE "efin.mark"
  BY <1>1, Zenon DEF Moved, FrameType, ReqLabels
<1>4. Goto(t, f)
  BY Zenon DEF ErrorRerun
<1> HIDE DEF f
<1>5. NeutralFrame(f)
  BY <1>3, Zenon DEF NeutralFrame, Special, RespLabels, DataLabels, CmdLabels
<1>6. ~cancelled => Top(t).at \notin Finishing /\ f.at \notin Finishing \cup {"efin.rerun"}
  BY <1>1, <1>3, Zenon DEF Finishing, MarkLabels
<1> QED
  BY <1>1, <1>2, <1>3, <1>4, <1>5, <1>6, MoveQuiet, Zenon DEF ReqLabels

\* QueryRequest::cancel() keeps the invariant.
LEMMA RequestCancelStep ==
    ASSUME IndInv, NEW t \in Threads, stack[t] # <<>>, RequestCancel(t)
    PROVE  IndInv'
<1> DEFINE r == Top(t).r
           f == Frame("efin", r[1], r, TRUE)
<1>1. /\ Top(t) \in FrameType /\ Top(t).at = "qcancel" /\ Top(t).at \in ReqLabels
      /\ r \in Reqs /\ Started(r) /\ Top(t).j = r[1] /\ r[1] \in Jobs /\ r[1] \in jobMap
  BY TopInv, ReqOfTop, Zenon DEF RequestCancel, At, ReqLabels
<1>2. Top(t).at \notin Finishing \cup {"squash", "squash.loop", "run.fail", "run.started"}
  BY <1>1, Zenon DEF Finishing, MarkLabels
<1>3. cancelled' = cancelled
  BY Zenon DEF RequestCancel, execVars
<1>4. CASE Return(t, FALSE) /\ UNCHANGED <<req, complete>>
  <2>1. Quiet
    BY <1>4, QuietSame, Zenon DEF RequestCancel, execVars, jobVars, IndInv, TypeOK
  <2> QED
    BY <1>2, <1>3, <1>4, <2>1, ReturnQuiet, Zenon
<1>5. CASE /\ req' = [req EXCEPT ![r].cancelled = TRUE, ![r].retried = TRUE]
           /\ IF Active(r) /\ req[r].hasJob THEN SetStatus(r[1], "CANCEL") ELSE UNCHANGED complete
           /\ Goto(t, f)
  <2>1. complete' \subseteq complete
    BY <1>5, Zenon DEF SetStatus
  <2> DEFINE q == [req[r] EXCEPT !.cancelled = TRUE, !.retried = TRUE]
  <2>q. /\ req[r] \in ReqType /\ req[r].keepAlive \in {NoReq, r}
        /\ req' = [req EXCEPT ![r] = q]
    BY <1>1, <1>5, Zenon DEF IndInv, TypeOK, KeepsItself
  <2>r. /\ q \in ReqType /\ q.finish = req[r].finish /\ q.marked = req[r].marked
        /\ q.cmd = req[r].cmd /\ q.ssi = req[r].ssi /\ q.hasJob = req[r].hasJob
        /\ q.keepAlive = req[r].keepAlive
    BY <2>q, Zenon DEF ReqType
  <2> HIDE DEF q, r
  <2>2. Quiet
    BY <1>1, <2>1, <2>q, <2>r, QuietReq, Zenon DEF RequestCancel, execVars, jobVars
  <2>3. f \in FrameType /\ f.at = "efin" /\ f.b /\ f.j = r[1] /\ f.r = r /\ f.todo = {}
    BY <1>1, Zenon DEF Frame, FrameType, ReqLabels
  <2> HIDE DEF f
  <2>4. TypeOK' /\ Grow /\ TypeOK
    BY <2>2, QuietTypes, Zenon DEF IndInv
  <2>5. FrameOKNext(f)
    BY <1>1, <2>3, <2>2, Zenon DEF FrameOKNext, Started, Quiet, CancelLabels
  <2>6. Replaces(f.at, Top(t).at) /\ NeutralFrame(f)
    BY <1>1, <2>3, Zenon DEF Replaces, RunLabels, NeutralFrame, Special, RespLabels, DataLabels, CmdLabels
  <2>7. f.at \notin Finishing \cup {"run.fail", "efin.rerun"}
    BY <2>3, Zenon DEF Finishing, MarkLabels
  <2> QED
    BY <1>2, <1>3, <1>5, <2>2, <2>3, <2>5, <2>6, <2>7, GotoQuiet, Zenon
<1> QED
  BY <1>4, <1>5, Zenon DEF RequestCancel

\* The command lets go of its request while _mtx is held; the invariant stays.
LEMMA WaitDropStep ==
    ASSUME IndInv, NEW t \in Threads, stack[t] # <<>>, WaitDrop(t)
    PROVE  IndInv'
<1> DEFINE f == [Top(t) EXCEPT !.at = "stuck"]
<1>1. Top(t) \in FrameType /\ Top(t).at = "wait.drop" /\ Top(t).at \in ReqLabels
  BY TopInv, Zenon DEF WaitDrop, At, ReqLabels
<1>2. Quiet /\ cancelled' = cancelled
  BY QuietSame, Zenon DEF WaitDrop, execVars, jobVars, IndInv, TypeOK
<1>3. Top(t).at \notin Finishing \cup {"squash", "squash.loop", "run.fail", "run.started"}
  BY <1>1, Zenon DEF Finishing, MarkLabels
<1>4. CASE Return(t, FALSE)
  BY <1>2, <1>3, <1>4, ReturnQuiet, Zenon
<1>5. CASE Goto(t, f)
  <2>1. Moved(f, Top(t)) /\ f.at = "stuck"
    BY <1>1, Zenon DEF Moved, FrameType, ReqLabels
  <2> HIDE DEF f
  <2>2. NeutralFrame(f) /\ f.at \notin Finishing \cup {"efin.rerun"}
    BY <2>1, Zenon DEF NeutralFrame, Special, RespLabels, DataLabels, CmdLabels, Finishing, MarkLabels
  <2> QED
    BY <1>1, <1>2, <1>3, <1>5, <2>1, <2>2, MoveQuiet, Zenon
<1> QED
  BY <1>4, <1>5, Zenon DEF WaitDrop\* A step from one step of an answer, or of a command, to the next.

\* A thread that moves within one callback keeps the invariant.
LEMMA FlowMove ==
    ASSUME IndInv, Quiet, NEW t \in Threads, stack[t] # <<>>, cancelled' = cancelled,
           NEW f, Moved(f, Top(t)), Goto(t, f),
           \/ Top(t).at \in RespLabels /\ f.at \in RespLabels
           \/ Top(t).at \in DataLabels /\ f.at \in DataLabels
           \/ Top(t).at \in {"ask", "ask.get"} /\ f.at \in {"ask", "ask.get"}
    PROVE  IndInv'
<1>1. TypeOK /\ TypeOK' /\ Grow /\ Shape
  BY QuietTypes, StackParts, Zenon DEF IndInv
<1>2. Top(t).at \in ReqLabels
  BY Zenon DEF ReqLabels, CmdLabels
<1>3. f \in FrameType /\ FrameOKNext(f) /\ Replaces(f.at, Top(t).at)
  BY <1>1, <1>2, MovedFrame, Zenon DEF Moved
<1>4. Shape' /\ stack'[t] # <<>> /\ Top(t)' = f /\ Others(t)
  BY <1>1, <1>3, GotoShape, Zenon
<1>5. f.r = Top(t).r
  BY Zenon DEF Moved
<1>6. InFlow(t) /\ SameTop(t)
  BY <1>4, <1>5, Zenon DEF InFlow, SameTop, In, RespLabels, DataLabels, CmdLabels
<1>7. StartsLess(t)
  BY <1>4, Zenon DEF StartsLess, Starts, In, RespLabels, DataLabels
<1>8. Top(t).at \notin Finishing \cup {"squash"} /\ f.at \notin Finishing \cup {"run.fail", "efin.rerun"}
  BY Zenon DEF Finishing, MarkLabels, RespLabels, DataLabels
<1>9. ASSUME ~cancelled' PROVE TrackLess(t)
  BY <1>4, <1>8, <1>9, NeutralTrack, Zenon DEF Unattached
<1> QED
  BY <1>4, <1>6, <1>7, <1>9, QuietStep, Zenon

\* ProcessResponse() up to its first test keeps the invariant.
LEMMA ProcessResponseStep ==
    ASSUME IndInv, NEW t \in Threads, stack[t] # <<>>, ProcessResponse(t)
    PROVE  IndInv'
<1>1. Top(t) \in FrameType /\ Top(t).at = "resp" /\ Top(t).at \in ReqLabels
  BY TopInv, Zenon DEF ProcessResponse, At, ReqLabels, RespLabels
<1>2. Quiet /\ cancelled' = cancelled
  BY QuietSame, Zenon DEF ProcessResponse, execVars, jobVars, IndInv, TypeOK
<1>3. PICK l \in {"qcancel", "resp.active"} : Goto(t, [Top(t) EXCEPT !.at = l])
  BY Zenon DEF ProcessResponse
<1> DEFINE f == [Top(t) EXCEPT !.at = l]
<1>4. Moved(f, Top(t)) /\ f.at = l
  BY <1>1, Zenon DEF Moved, FrameType, ReqLabels, RespLabels
<1>5. Goto(t, f)
  BY <1>3, Zenon
<1> HIDE DEF f
<1>6. CASE l = "resp.active"
  BY <1>1, <1>2, <1>4, <1>5, <1>6, FlowMove, Zenon DEF RespLabels
<1>7. CASE l = "qcancel"
  <2>1. NeutralFrame(f) /\ f.at \notin Finishing \cup {"efin.rerun"} /\ Top(t).at \notin Finishing
    BY <1>1, <1>4, <1>7, Zenon DEF NeutralFrame, Special, RespLabels, DataLabels, CmdLabels, Finishing, MarkLabels
  <2> QED
    BY <1>1, <1>2, <1>4, <1>5, <2>1, MoveQuiet, Zenon
<1> QED
  BY <1>3, <1>6, <1>7, Zenon

\* A request cancelled since ProcessResponse() was called keeps the invariant.
LEMMA ResponseActiveStep ==
    ASSUME IndInv, NEW t \in Threads, stack[t] # <<>>, ResponseActive(t)
    PROVE  IndInv'
<1> DEFINE f == [Top(t) EXCEPT !.at = "resp.type"]
<1>1. Top(t) \in FrameType /\ Top(t).at = "resp.active"
  BY TopInv, Zenon DEF ResponseActive, At
<1>2. Quiet /\ cancelled' = cancelled
  BY QuietSame, Zenon DEF ResponseActive, execVars, jobVars, IndInv, TypeOK
<1>3. CASE Return(t, TRUE)
  <2>1. Top(t).at \notin Finishing \cup {"squash", "squash.loop", "run.fail", "run.started"}
    BY <1>1, Zenon DEF Finishing, MarkLabels
  <2> QED
    BY <1>2, <1>3, <2>1, ReturnQuiet, Zenon
<1>4. CASE Goto(t, f)
  <2>1. Moved(f, Top(t)) /\ f.at = "resp.type"
    BY <1>1, Zenon DEF Moved, FrameType, ReqLabels, RespLabels
  <2> HIDE DEF f
  <2> QED
    BY <1>1, <1>2, <1>4, <2>1, FlowMove, Zenon DEF RespLabels
<1> QED
  BY <1>3, <1>4, Zenon DEF ResponseActive

\* _errorFinish without cancelling is for a request that cannot deliver any
\* more, or it does nothing.
LEMMA ErrorQuiet ==
    ASSUME IndInv, Quiet, NEW t \in Threads, stack[t] # <<>>, cancelled' = cancelled,
           Top(t).at \in ReqLabels \ Finishing, NEW f, Moved(f, Top(t)), f.at = "efin", Goto(t, f),
           ~f.b => ~Active(f.r) \/ ~req[f.r].hasJob \/ Doomed(f.r)'
    PROVE  IndInv'
<1>1. TypeOK /\ TypeOK' /\ Grow /\ Shape
  BY QuietTypes, StackParts, Zenon DEF IndInv
<1>2. f \in FrameType /\ FrameOKNext(f) /\ Replaces(f.at, Top(t).at) /\ f.r = Top(t).r
  BY <1>1, MovedFrame, Zenon DEF Moved
<1>3. Shape' /\ stack'[t] # <<>> /\ Top(t)' = f /\ Others(t)
  BY <1>1, <1>2, GotoShape, Zenon
<1>4. InFlow(t) /\ SameTop(t)
  BY <1>3, Zenon DEF InFlow, SameTop, In, RespLabels, DataLabels, CmdLabels
<1>5. PICK r \in Reqs : r = f.r
  BY <1>2, ReqOfTop, Zenon
<1>6. /\ req'[r].finish = req[r].finish /\ (req'[r].hasJob => req[r].hasJob)
  BY Zenon DEF Quiet
<1>7. ~f.b => (req'[f.r].finish = "ACTIVE" /\ req'[f.r].hasJob => \E q \in Reqs : q = f.r /\ Doomed(q)')
  <2>1. ~f.b => ~Active(r) \/ ~req[r].hasJob \/ Doomed(r)'
    BY <1>5, Zenon
  <2> QED
    BY <1>5, <1>6, <2>1, Zenon DEF Active
<1>8. StartsLess(t)
  BY <1>3, <1>7, Zenon DEF StartsLess, Starts, In
<1>9. Top(t).at \notin Finishing \cup {"squash"} /\ f.at \notin Finishing \cup {"run.fail", "efin.rerun"}
  BY Zenon DEF Finishing, MarkLabels, ReqLabels, RespLabels, DataLabels, CmdLabels
<1>10. ASSUME ~cancelled' PROVE TrackLess(t)
  BY <1>3, <1>9, <1>10, NeutralTrack, Zenon DEF Unattached
<1> QED
  BY <1>3, <1>4, <1>8, <1>10, QuietStep, Zenon

\* ProcessResponseData() up to its first test keeps the invariant.
LEMMA ProcessDataStep ==
    ASSUME IndInv, NEW t \in Threads, stack[t] # <<>>, ProcessData(t)
    PROVE  IndInv'
<1>1. Top(t) \in FrameType /\ Top(t).at = "data" /\ Top(t).at \in ReqLabels
  BY TopInv, Zenon DEF ProcessData, At, ReqLabels, DataLabels
<1>2. Quiet /\ cancelled' = cancelled
  BY QuietSame, Zenon DEF ProcessData, execVars, jobVars, IndInv, TypeOK
<1>3. PICK l \in {"data.check", "efin"} :
         /\ Goto(t, [Top(t) EXCEPT !.at = l])
         /\ l = "efin" => ~Active(Top(t).r) \/ ~req[Top(t).r].hasJob
  BY Zenon DEF ProcessData
<1> DEFINE f == [Top(t) EXCEPT !.at = l]
<1>4. Moved(f, Top(t)) /\ f.at = l /\ f.r = Top(t).r
  BY <1>1, Zenon DEF Moved, FrameType, ReqLabels, DataLabels
<1>5. Goto(t, f)
  BY <1>3, Zenon
<1> HIDE DEF f
<1>6. CASE l = "data.check"
  BY <1>1, <1>2, <1>4, <1>5, <1>6, FlowMove, Zenon DEF DataLabels
<1>7. CASE l = "efin"
  <2>1. Top(t).at \notin Finishing
    BY <1>1, Zenon DEF Finishing, MarkLabels
  <2> QED
    BY <1>1, <1>2, <1>3, <1>4, <1>5, <1>7, <2>1, ErrorQuiet, Zenon
<1> QED
  BY <1>3, <1>6, <1>7, Zenon

\* ProcessResponseData()'s tests keep the invariant.
LEMMA DataCheckStep ==
    ASSUME IndInv, NEW t \in Threads, stack[t] # <<>>, DataCheck(t)
    PROVE  IndInv'
<1> DEFINE e == [Top(t) EXCEPT !.at = "efin", !.b = TRUE]
           f == [Top(t) EXCEPT !.at = "data.block"]
<1>1. Top(t) \in FrameType /\ Top(t).at = "data.check" /\ Top(t).at \in ReqLabels
  BY TopInv, Zenon DEF DataCheck, At, ReqLabels, DataLabels
<1>2. Quiet /\ cancelled' = cancelled
  BY QuietSame, Zenon DEF DataCheck, execVars, jobVars, IndInv, TypeOK
<1>3. Moved(e, Top(t)) /\ e.at = "efin" /\ e.b
  BY <1>1, Zenon DEF Moved, FrameType, ReqLabels
<1>4. Moved(f, Top(t)) /\ f.at = "data.block"
  BY <1>1, Zenon DEF Moved, FrameType, ReqLabels, DataLabels
<1>5. Goto(t, e) \/ Goto(t, f)
  BY Zenon DEF DataCheck
<1>6. Top(t).at \notin Finishing
  BY <1>1, Zenon DEF Finishing, MarkLabels
<1> HIDE DEF e, f
<1>7. CASE Goto(t, e)
  BY <1>1, <1>2, <1>3, <1>6, <1>7, ErrorQuiet, Zenon
<1>8. CASE Goto(t, f)
  BY <1>1, <1>2, <1>4, <1>8, FlowMove, Zenon DEF DataLabels
<1> QED
  BY <1>5, <1>7, <1>8, Zenon

\* The command that asks SSI for more data keeps the invariant.
LEMMA AskStep ==
    ASSUME IndInv, NEW t \in Threads, stack[t] # <<>>, Ask(t)
    PROVE  IndInv'
<1> DEFINE e == [Top(t) EXCEPT !.at = "efin", !.b = TRUE]
           f == [Top(t) EXCEPT !.at = "ask.get"]
<1>1. Top(t) \in FrameType /\ Top(t).at = "ask" /\ Top(t).at \in ReqLabels
  BY TopInv, Zenon DEF Ask, At, ReqLabels, CmdLabels
<1>2. Quiet /\ cancelled' = cancelled
  BY QuietSame, Zenon DEF Ask, execVars, jobVars, IndInv, TypeOK
<1>3. Moved(e, Top(t)) /\ e.at = "efin" /\ e.b
  BY <1>1, Zenon DEF Moved, FrameType, ReqLabels
<1>4. Moved(f, Top(t)) /\ f.at = "ask.get"
  BY <1>1, Zenon DEF Moved, FrameType, ReqLabels, CmdLabels
<1>5. Return(t, FALSE) \/ Goto(t, e) \/ Goto(t, f)
  BY Zenon DEF Ask
<1>6. Top(t).at \notin Finishing \cup {"squash", "squash.loop", "run.fail", "run.started"}
  BY <1>1, Zenon DEF Finishing, MarkLabels
<1> HIDE DEF e, f
<1>7. CASE Return(t, FALSE)
  BY <1>2, <1>6, <1>7, ReturnQuiet, Zenon
<1>8. CASE Goto(t, e)
  BY <1>1, <1>2, <1>3, <1>6, <1>8, ErrorQuiet, Zenon
<1>9. CASE Goto(t, f)
  BY <1>1, <1>2, <1>4, <1>9, FlowMove, Zenon
<1> QED
  BY <1>5, <1>7, <1>8, <1>9, Zenon

\* A retry is only decided on when the request is not being cancelled.
LEMMA ErrorDecideStep ==
    ASSUME IndInv, NEW t \in Threads, stack[t] # <<>>, ErrorDecide(t)
    PROVE  IndInv'
<1>1. /\ Top(t) \in FrameType /\ Top(t).at = "efin.decide" /\ Top(t).at \in ReqLabels
      /\ Top(t).r \in Reqs /\ req[Top(t).r] \in ReqType /\ req[Top(t).r].keepAlive \in {NoReq, Top(t).r}
  BY TopInv, ReqOfTop, Zenon DEF ErrorDecide, At, ReqLabels, IndInv, TypeOK, KeepsItself
<1>2. PICK l \in {"efin.retry", "efin.mark"} :
         /\ Goto(t, [Top(t) EXCEPT !.at = l])
         /\ l = "efin.retry" => ~Top(t).b
  BY Zenon DEF ErrorDecide
<1> DEFINE f == [Top(t) EXCEPT !.at = l]
           q == [req[Top(t).r] EXCEPT !.retried = TRUE]
<1>3. Moved(f, Top(t)) /\ f.at = l /\ f.j = Top(t).j /\ f.r = Top(t).r
  BY <1>1, Zenon DEF Moved, FrameType, ReqLabels
<1>4. Goto(t, f)
  BY <1>2, Zenon
<1>5. /\ q \in ReqType /\ req' = [req EXCEPT ![Top(t).r] = q]
      /\ q.finish = req[Top(t).r].finish /\ q.marked = req[Top(t).r].marked
      /\ q.cmd = req[Top(t).r].cmd /\ q.ssi = req[Top(t).r].ssi
      /\ q.hasJob = req[Top(t).r].hasJob /\ q.keepAlive = req[Top(t).r].keepAlive
  BY <1>1, Zenon DEF ReqType, ErrorDecide
<1> HIDE DEF q, f
<1>6. Quiet /\ cancelled' = cancelled
  BY <1>1, <1>5, QuietReq, Zenon DEF ErrorDecide, execVars, jobVars
<1>7. TypeOK /\ TypeOK' /\ Grow /\ Shape
  BY <1>6, QuietTypes, StackParts, Zenon DEF IndInv
<1>8. f \in FrameType /\ FrameOKNext(f) /\ Replaces(f.at, Top(t).at)
  BY <1>1, <1>3, <1>7, MovedFrame, Zenon DEF Moved
<1>9. Shape' /\ stack'[t] # <<>> /\ Top(t)' = f /\ Others(t)
  BY <1>4, <1>7, <1>8, GotoShape, Zenon
<1>10. InFlow(t) /\ SameTop(t)
  BY <1>3, <1>9, Zenon DEF InFlow, SameTop, In, RespLabels, DataLabels, CmdLabels
<1>11. StartsLess(t)
  BY <1>1, <1>2, <1>3, <1>9, Zenon DEF StartsLess, Starts, In
<1>12. ASSUME ~cancelled' PROVE TrackLess(t)
  BY <1>1, <1>3, <1>6, <1>9, <1>12, Zenon DEF TrackLess, Finishes, In
<1> QED
  BY <1>6, <1>9, <1>10, <1>11, <1>12, QuietStep, Zenon
\* The retry: the request keeps itself alive while the next attempt starts.
LEMMA ErrorRetryStep ==
    ASSUME IndInv, NEW t \in Threads, stack[t] # <<>>, ErrorRetry(t)
    PROVE  IndInv'
<1>1. /\ Top(t) \in FrameType /\ FrameOK(Top(t)) /\ Top(t).at = "efin.retry" /\ Top(t).at \in ReqLabels
      /\ Top(t).r \in Reqs /\ req[Top(t).r] \in ReqType
      /\ Top(t).j = Top(t).r[1] /\ Top(t).j \in Jobs /\ Top(t).j \in jobMap
  BY TopInv, ReqOfTop, Zenon DEF ErrorRetry, At, ReqLabels, IndInv, TypeOK
<1>2. request[Top(t).j] = Top(t).r
  <2>1. Starts(t, Top(t).j)
    BY <1>1, Zenon DEF Starts, In
  <2>2. StartsAlone(t, Top(t).j)
    BY <1>1, <2>1, Zenon DEF IndInv, StartsOK
  <2> QED
    BY <1>1, <2>2, Zenon DEF StartsAlone, In
<1> DEFINE f == Frame("run.check", Top(t).r[1], NoReq, FALSE)
           g == [Top(t) EXCEPT !.at = "efin.rerun"]
           q == [req[Top(t).r] EXCEPT !.keepAlive = Top(t).r]
<1>3. /\ q \in ReqType /\ req' = [req EXCEPT ![Top(t).r] = q]
      /\ q.finish = req[Top(t).r].finish /\ q.marked = req[Top(t).r].marked
      /\ q.cmd = req[Top(t).r].cmd /\ q.ssi = req[Top(t).r].ssi
      /\ q.hasJob = req[Top(t).r].hasJob /\ q.keepAlive = Top(t).r
  BY <1>1, <1>2, Zenon DEF ReqType, ErrorRetry
<1>4. f \in FrameType /\ f.at = "run.check" /\ f.todo = {} /\ f.j = Top(t).j
  BY <1>1, Zenon DEF Frame, FrameType, JobLabels, RunLabels
<1>5. g \in FrameType /\ Moved(g, Top(t)) /\ g.at = "efin.rerun"
  BY <1>1, Zenon DEF FrameType, Moved, ReqLabels
<1>6. stack' = [stack EXCEPT ![t] = <<f, g>> \o Tail(@)]
  BY Zenon DEF ErrorRetry, Call
<1> HIDE DEF f, g, q
<1>a. UNCHANGED <<cancelled, jobMap, incomplete, requestCount, bug, complete, attempt, inSsi, request,
                  rmutex, mainVars, histVars>>
  BY Zenon DEF ErrorRetry, execVars, jobVars
<1>7. Quiet /\ cancelled' = cancelled /\ jobMap' = jobMap
  BY <1>1, <1>3, <1>a, QuietReq, Zenon
<1>8. TypeOK /\ TypeOK' /\ Grow /\ Shape
  BY <1>7, QuietTypes, StackParts, Zenon DEF IndInv
<1>9. FrameOKNext(f)
  BY <1>1, <1>4, <1>7, Zenon DEF FrameOKNext, CancelLabels, ReqLabels, RespLabels, DataLabels, CmdLabels
<1>10. FrameOKNext(g) /\ Replaces(g.at, Top(t).at)
  BY <1>1, <1>5, <1>8, MovedFrame, Zenon
<1>11. WaitsFor(f.at, g.at)
  BY <1>4, <1>5, Zenon DEF WaitsFor, RunLabels
<1>12. Shape' /\ stack'[t] # <<>> /\ Top(t)' = f /\ Others(t)
  BY <1>4, <1>5, <1>6, <1>8, <1>9, <1>10, <1>11, PushShape, Zenon
<1>13. InFlow(t) /\ SameTop(t)
  BY <1>4, <1>12, Zenon DEF InFlow, SameTop, In, RespLabels, DataLabels, CmdLabels
<1>14. StartsLess(t)
  BY <1>1, <1>4, <1>12, Zenon DEF StartsLess, Starts, In
<1>15. ASSUME ~cancelled' PROVE TrackLess(t)
  BY <1>1, <1>4, <1>7, <1>12, <1>15, Zenon DEF TrackLess, Finishes, In
<1> QED
  BY <1>7, <1>12, <1>13, <1>14, <1>15, QuietStep, Zenon
-----------------------------------------------------------------------------
(* Steps of the answer and of the command of one request.                   *)

\* Only the request r changes, and only in what concerns its data.
ReqKept(r) ==
    /\ req' \in [Reqs -> ReqType]
    /\ \A p \in Reqs : p # r => req'[p] = req[p]
    /\ req'[r].finish = req[r].finish /\ req'[r].marked = req[r].marked
    /\ req'[r].hasJob = req[r].hasJob /\ req'[r].keepAlive = req[r].keepAlive

TopPlaced(u) ==
    /\ In(u, RespLabels \cup DataLabels)' => u = <<"ssi", Top(u)'.r>>
    /\ In(u, CmdLabels)' => u = <<"cmd", Top(u)'.r>>
    /\ ~In(u, {"add"})'

\* Tops after a step that moves several threads.
LEMMA TopsKeepAll ==
    ASSUME Tops, \A u \in Threads : Still(u) \/ TopPlaced(u),
           UNCHANGED <<jobMap, attempt, submitted>>
    PROVE  Tops'
<1> SUFFICES ASSUME NEW u \in Threads
             PROVE  /\ In(u, RespLabels \cup DataLabels)' => u = <<"ssi", Top(u)'.r>>
                    /\ In(u, CmdLabels)' => u = <<"cmd", Top(u)'.r>>
                    /\ In(u, {"add"})' => /\ u = <<"add", Top(u)'.j>>
                                          /\ Top(u)'.j \in submitted' \ jobMap'
                                          /\ attempt'[Top(u)'.j] = 0
  BY Zenon DEF Tops
<1>1. CASE TopPlaced(u)
  BY <1>1, Zenon DEF TopPlaced
<1>2. CASE Still(u)
  <2>1. /\ In(u, RespLabels \cup DataLabels)' => In(u, RespLabels \cup DataLabels)
        /\ In(u, CmdLabels)' => In(u, CmdLabels)
        /\ In(u, {"add"})' => In(u, {"add"})
    BY <1>2, Zenon DEF Still, In
  <2> QED
    BY <1>2, <2>1, Zenon DEF Still, Tops
<1> QED
  BY <1>1, <1>2, Zenon

\* The flow of the other requests goes on as before.
LEMMA FlowOthers ==
    ASSUME TypeOK, TypeOK', FlowOK, NEW r \in Reqs, attempt' = attempt,
           \A u \in Threads \ {<<"ssi", r>>, <<"cmd", r>>} : Still(u),
           \A p \in Reqs : p # r => req'[p] = req[p] /\ (p \in merged' <=> p \in merged)
    PROVE  \A p \in Reqs : p # r => Flow(p)' /\ (Doomed(p) => Doomed(p)')
<1> SUFFICES ASSUME NEW p \in Reqs, p # r PROVE Flow(p)' /\ (Doomed(p) => Doomed(p)')
  OBVIOUS
<1>1. /\ <<"ssi", p>> \in Threads \ {<<"ssi", r>>, <<"cmd", r>>}
      /\ <<"cmd", p>> \in Threads \ {<<"ssi", r>>, <<"cmd", r>>}
  BY ThreadNames, ThreadsDiffer, Zenon
<1>2. Still(<<"ssi", p>>) /\ Still(<<"cmd", p>>)
  BY <1>1, Zenon
<1>3. /\ req'[p] = req[p] /\ (p \in merged' <=> p \in merged) /\ Flow(p)
      /\ (Active(p)' <=> Active(p)) /\ (Started(p)' <=> Started(p))
  BY Zenon DEF FlowOK, Active, Started
<1>4. \A L : /\ In(<<"ssi", p>>, L)' <=> In(<<"ssi", p>>, L)
             /\ In(<<"cmd", p>>, L)' <=> In(<<"cmd", p>>, L)
  BY <1>2, Zenon DEF Still, In
<1>5. /\ stack'[<<"ssi", p>>] = stack[<<"ssi", p>>]
      /\ stack'[<<"cmd", p>>] = stack[<<"cmd", p>>]
  BY <1>2, Zenon DEF Still
<1>6. Flow(p)'
  BY <1>3, <1>4, <1>5, Zenon DEF Flow
<1>7. Doomed(p) => Doomed(p)'
  BY <1>3, <1>4, Zenon DEF Doomed, Flowing
<1> QED
  BY <1>6, <1>7, Zenon
\* A step of the answer or of the command of r that gives no rows.
LEMMA FlowStep ==
    ASSUME IndInv, Shape', NEW r \in Reqs,
           \A u \in Threads \ {<<"ssi", r>>, <<"cmd", r>>} : Still(u),
           \A u \in {<<"ssi", r>>, <<"cmd", r>>} :
              Still(u) \/ (TopPlaced(u) /\ StartsLess(u) /\ (~cancelled => TrackLess(u))),
           ReqKept(r), Flow(r)', Doomed(r) => Doomed(r)',
           UNCHANGED <<execVars, jobVars, mainVars, scrubbed, merged>>, complete' \subseteq complete,
           flushed' = flushed \/ (flushed' = flushed \cup {r} /\ Started(r))
    PROVE  IndInv'
<1>1. /\ TypeOK /\ StackOK /\ FlowOK /\ StartsOK /\ TrackOK /\ RowsOK /\ MainOK /\ NoBug /\ KeepsItself
      /\ Shape /\ Tops
  BY StackParts, Zenon DEF IndInv
<1>2. UNCHANGED <<cancelled, jobMap, incomplete, requestCount, bug, attempt, inSsi, request, rmutex,
                  submitted, main, joined, mainVars, scrubbed, merged>>
  BY Zenon DEF execVars, jobVars, mainVars
<1>3. TypeOK'
  <2>1. merged' \subseteq flushed' /\ flushed' \subseteq Reqs
    BY <1>1, <1>2, Zenon DEF TypeOK
  <2> QED
    BY <1>1, <1>2, <2>1, Zenon DEF TypeOK, ReqKept
<1>4. \A p \in Reqs : /\ req'[p].finish = req[p].finish /\ req'[p].marked = req[p].marked
                      /\ req'[p].hasJob = req[p].hasJob /\ req'[p].keepAlive = req[p].keepAlive
                      /\ (Active(p)' <=> Active(p))
  BY Zenon DEF ReqKept, Active
<1>5. \A u \in Threads :
         Still(u) \/ (TopPlaced(u) /\ StartsLess(u) /\ (~cancelled => TrackLess(u)))
  OBVIOUS
<1>6. Tops'
  BY <1>1, <1>2, <1>5, TopsKeepAll, Zenon
<1>7. StackOK'
  BY <1>6, StackPartsNext, Zenon
<1>8. \A p \in Reqs : p # r => Flow(p)' /\ (Doomed(p) => Doomed(p)')
  BY <1>1, <1>2, <1>3, FlowOthers, Zenon DEF ReqKept
<1>9. FlowOK' /\ \A p \in Reqs : Doomed(p) => Doomed(p)'
  BY <1>8, Zenon DEF FlowOK
<1>10. StartsOK'
  <2>1. \A u \in Threads : Still(u) \/ StartsLess(u)
    BY <1>5, Zenon
  <2> QED
    BY <1>1, <1>2, <1>3, <1>4, <1>9, <2>1, StartsKeepAll, Zenon
<1>11. TrackOK'
  <2>1. ~cancelled' => \A u \in Threads : Still(u) \/ TrackLess(u)
    BY <1>2, <1>5, Zenon
  <2> QED
    BY <1>1, <1>2, <1>3, <1>4, <2>1, TrackKeepAll, Zenon
<1>12. RowsOK'
  <2>1. \A p \in Reqs : Started(p)' <=> Started(p)
    BY <1>2, Zenon DEF Started
  <2>2. \A p \in flushed' : Started(p)'
    BY <1>1, <2>1 DEF RowsOK, TypeOK
  <2> QED
    BY <1>1, <1>2, <1>9, <2>1, <2>2, Zenon DEF RowsOK, TypeOK
<1>13. MainOK'
  <2>1. \A u \in Threads : In(u, {"add"})' => In(u, {"add"})
    BY <1>5, Zenon DEF TopPlaced, Still, In
  <2> QED
    BY <1>1, <1>2, <2>1, MainKeep, Zenon
<1>14. NoBug' /\ KeepsItself'
  BY <1>1, <1>2, <1>4, Zenon DEF NoBug, KeepsItself
<1> QED
  BY <1>3, <1>7, <1>9, <1>10, <1>11, <1>12, <1>13, <1>14, Zenon DEF IndInv

\* A thread that answers or fetches does not finish a job.
LEMMA FlowTop ==
    ASSUME NEW u \in Threads, stack[u] = <<>> \/ Top(u).at \notin Finishing \cup {"squash"},
           stack'[u] = <<>> \/ Top(u)'.at \in RespLabels \cup DataLabels \cup CmdLabels
    PROVE  StartsLess(u) /\ (~cancelled => TrackLess(u))
<1>1. StartsLess(u)
  BY Zenon DEF StartsLess, Starts, In, RespLabels, DataLabels, CmdLabels
<1>2. \A j \in Jobs : ~Finishes(u, j)' /\ ~Finishes(u, j)
  BY Zenon DEF Finishes, Finishing, In, RespLabels, DataLabels, CmdLabels, MarkLabels
<1>3. /\ ~In(u, {"squash"}) /\ ~In(u, {"run.fail"})' /\ ~In(u, {"efin.rerun"})'
      /\ ~In(u, {"efin.decide", "efin.retry", "efin.mark", "fin.mark"})'
  BY Zenon DEF In, RespLabels, DataLabels, CmdLabels
<1> QED
  BY <1>1, <1>2, <1>3, Zenon DEF TrackLess
\* The thread of the command of a request, and that of its answer.
LEMMA CmdThread ==
    ASSUME IndInv, NEW t \in Threads, stack[t] # <<>>, Top(t).at \in CmdLabels
    PROVE  t = <<"cmd", Top(t).r>> /\ Top(t).at \in ReqLabels \ (Finishing \cup {"squash"})
<1>1. In(t, CmdLabels)
  BY Zenon DEF In
<1>2. Top(t).at \in ReqLabels \ (Finishing \cup {"squash"})
  BY Zenon DEF ReqLabels, CmdLabels, Finishing, MarkLabels
<1> QED
  BY <1>1, <1>2, StackParts, Zenon DEF IndInv, Tops

\* The callbacks of a request run on its SSI thread.
LEMMA SsiThread ==
    ASSUME IndInv, NEW t \in Threads, stack[t] # <<>>, Top(t).at \in RespLabels \cup DataLabels
    PROVE  t = <<"ssi", Top(t).r>> /\ Top(t).at \in ReqLabels \ (Finishing \cup {"squash"})
<1>1. In(t, RespLabels \cup DataLabels)
  BY Zenon DEF In
<1>2. Top(t).at \in ReqLabels \ (Finishing \cup {"squash"})
  BY Zenon DEF ReqLabels, RespLabels, DataLabels, Finishing, MarkLabels
<1> QED
  BY <1>1, <1>2, StackParts, Zenon DEF IndInv, Tops

\* A step of the command's thread that stays in the command, or of the answer's
\* that stays in the answer.
LEMMA CmdMove ==
    ASSUME IndInv, TypeOK', Grow, NEW t \in Threads, stack[t] # <<>>,
           Top(t).at \in CmdLabels, NEW f, Moved(f, Top(t)), f.at \in CmdLabels, Goto(t, f)
    PROVE  /\ Shape' /\ stack'[t] # <<>> /\ Top(t)' = f
           /\ \A u \in Threads \ {<<"ssi", Top(t).r>>, <<"cmd", Top(t).r>>} : Still(u)
           /\ Still(<<"ssi", Top(t).r>>)
           /\ TopPlaced(t) /\ StartsLess(t) /\ (~cancelled => TrackLess(t))
<1>1. t = <<"cmd", Top(t).r>> /\ Top(t).at \in ReqLabels \ (Finishing \cup {"squash"})
  BY CmdThread, Zenon
<1>2. f \in FrameType /\ FrameOKNext(f) /\ Replaces(f.at, Top(t).at) /\ f.r = Top(t).r
  BY <1>1, MovedFrame, Zenon DEF Moved
<1>3. Shape' /\ stack'[t] # <<>> /\ Top(t)' = f /\ Others(t)
  BY <1>2, StackParts, GotoShape, Zenon DEF IndInv
<1>4. \A u \in Threads : u # t => Still(u)
  BY <1>3, Zenon DEF Others, Still
<1>5. Still(<<"ssi", Top(t).r>>)
  BY <1>1, <1>4, ReqOfTop, ThreadNames, ThreadsDiffer, Zenon
<1>6. TopPlaced(t)
  BY <1>1, <1>2, <1>3, Zenon DEF TopPlaced, In, CmdLabels, RespLabels, DataLabels
<1>7. StartsLess(t) /\ (~cancelled => TrackLess(t))
  BY <1>1, <1>3, FlowTop, Zenon
<1> QED
  BY <1>1, <1>3, <1>4, <1>5, <1>6, <1>7, Zenon

\* Where a thread is, for one that stays and for one that is at the step l.
LEMMA InStill ==
    ASSUME NEW u, Still(u)
    PROVE  (stack'[u] = <<>> <=> stack[u] = <<>>) /\ \A L : In(u, L)' <=> In(u, L)
  BY Zenon DEF Still, In

\* The label of the running frame decides In.
LEMMA InAt ==
    ASSUME NEW u, stack[u] # <<>>, NEW l, Top(u).at = l
    PROVE  \A L : In(u, L) <=> l \in L
  BY Zenon DEF In

\* The same of the next state.
LEMMA InAtNext ==
    ASSUME NEW u, stack'[u] # <<>>, NEW l, Top(u)'.at = l
    PROVE  \A L : In(u, L)' <=> l \in L
  BY Zenon DEF In

\* In of a union.
LEMMA InEither ==
    \A u, A, B : In(u, A \cup B) <=> In(u, A) \/ In(u, B)
  BY Zenon DEF In

\* The request r becomes q, in what concerns its data.
LEMMA ReqOne ==
    ASSUME IndInv, NEW r \in Reqs, NEW q \in ReqType, req' = [req EXCEPT ![r] = q],
           q.finish = req[r].finish, q.marked = req[r].marked, q.hasJob = req[r].hasJob,
           q.keepAlive = req[r].keepAlive
    PROVE  ReqKept(r) /\ req'[r] = q
<1>1. req \in [Reqs -> ReqType]
  BY Zenon DEF IndInv, TypeOK
<1>2. req' \in [Reqs -> ReqType] /\ req'[r] = q /\ \A p \in Reqs : p # r => req'[p] = req[p]
  BY <1>1, Zenon
<1> QED
  BY <1>2, Zenon DEF ReqKept

\* A step that leaves the requests alone keeps each of them.
LEMMA ReqSame ==
    ASSUME IndInv, NEW r \in Reqs, req' = req
    PROVE  ReqKept(r)
  BY Zenon DEF ReqKept, IndInv, TypeOK

\* GetResponseData() is called by the only command of the request.
LEMMA AskGetStep ==
    ASSUME IndInv, NEW t \in Threads, stack[t] # <<>>, AskGet(t)
    PROVE  IndInv'
<1> DEFINE f == [Top(t) EXCEPT !.at = "wait"]
<1>1. /\ Top(t) \in FrameType /\ Top(t).at = "ask.get" /\ Top(t).at \in CmdLabels /\ t = <<"cmd", Top(t).r>>
      /\ Top(t).at \in ReqLabels
  BY TopInv, CmdThread, Zenon DEF AskGet, At, CmdLabels
<1>2. PICK r \in Reqs : r = Top(t).r /\ Started(r)
  BY <1>1, ReqOfTop, Zenon
<1>3. Moved(f, Top(t)) /\ f.at = "wait" /\ Goto(t, f)
  BY <1>1, Zenon DEF Moved, FrameType, ReqLabels, CmdLabels, AskGet
<1> HIDE DEF f
<1>4. /\ ReqKept(r) /\ req'[r].cmd = req[r].cmd
      /\ req'[r].ssi \in {"asked", "finished"}
      /\ req'[r].ssi = "finished" => req[r].ssi = "finished"
  <2>1. CASE req[r].ssi = "finished"
    BY <1>2, <2>1, ReqSame, Zenon DEF AskGet
  <2>2. CASE req[r].ssi # "finished"
    <3> DEFINE q == [req[r] EXCEPT !.ssi = "asked"]
    <3>1. req[r] \in ReqType
      BY Zenon DEF IndInv, TypeOK
    <3>2. /\ q \in ReqType /\ q.finish = req[r].finish /\ q.marked = req[r].marked
          /\ q.hasJob = req[r].hasJob /\ q.keepAlive = req[r].keepAlive
          /\ q.cmd = req[r].cmd /\ q.ssi = "asked"
      BY <3>1, Zenon DEF ReqType
    <3>3. req' = [req EXCEPT ![r] = q]
      BY <1>2, <2>2, Zenon DEF AskGet
    <3> HIDE DEF q
    <3> QED
      BY <3>2, <3>3, ReqOne, Zenon
  <2> QED
    BY <2>1, <2>2, Zenon
<1>5. UNCHANGED <<execVars, complete, jobVars, mainVars, scrubbed, flushed, merged>>
  BY ZenonT(30) DEF AskGet, histVars
<1>6. TypeOK' /\ Grow
  BY <1>4, <1>5 DEF IndInv, TypeOK, Grow, ReqKept, execVars, jobVars, mainVars
<1>7. /\ Shape' /\ stack'[t] # <<>> /\ Top(t)' = f
      /\ \A u \in Threads \ {<<"ssi", r>>, <<"cmd", r>>} : Still(u)
      /\ Still(<<"ssi", r>>)
      /\ TopPlaced(t) /\ StartsLess(t) /\ (~cancelled => TrackLess(t))
  BY <1>1, <1>2, <1>3, <1>6, CmdMove, Zenon DEF CmdLabels
<1>8. /\ \A L : In(<<"cmd", r>>, L) <=> "ask.get" \in L
      /\ \A L : In(<<"cmd", r>>, L)' <=> "wait" \in L
      /\ \A L : In(<<"ssi", r>>, L)' <=> In(<<"ssi", r>>, L)
      /\ stack'[<<"cmd", r>>] # <<>> /\ stack[<<"cmd", r>>] # <<>>
  BY <1>1, <1>2, <1>3, <1>7, InAt, InAtNext, InStill, Zenon
<1>9. Flow(r) /\ (Started(r)' <=> Started(r)) /\ (r \in merged' <=> r \in merged)
  BY <1>5, ZenonT(30) DEF IndInv, FlowOK, Started, jobVars
<1>10. Flow(r)'
  BY <1>2, <1>4, <1>8, <1>9, InEither DEF Flow, CmdLabels, RespLabels, DataLabels
<1>11. ~Doomed(r)
  BY <1>8, Zenon DEF Doomed, Flowing
<1> QED
  BY <1>1, <1>2, <1>4, <1>5, <1>7, <1>10, <1>11, FlowStep, Zenon
\* The command is woken by an error, by data, or by the end of its request.
LEMMA WaitStep ==
    ASSUME IndInv, NEW t \in Threads, stack[t] # <<>>, Wait(t)
    PROVE  IndInv'
<1> DEFINE e == [Top(t) EXCEPT !.at = "efin", !.b = TRUE]
           f == [Top(t) EXCEPT !.at = "flush"]
<1>1. /\ Top(t) \in FrameType /\ Top(t).at = "wait" /\ Top(t).at \in CmdLabels /\ t = <<"cmd", Top(t).r>>
      /\ Top(t).at \in ReqLabels \ (Finishing \cup {"squash"})
  BY TopInv, CmdThread, Zenon DEF Wait, At, CmdLabels
<1>2. PICK r \in Reqs : r = Top(t).r /\ Started(r) /\ Top(t).j = r[1] /\ r[1] \in Jobs /\ r[1] \in jobMap
  BY <1>1, ReqOfTop, Zenon
<1>3. Quiet /\ cancelled' = cancelled
  BY QuietSame, Zenon DEF Wait, execVars, jobVars, IndInv, TypeOK
<1>4. TypeOK /\ TypeOK' /\ Grow /\ Shape /\ Flow(r)
  BY <1>3, QuietTypes, StackParts, Zenon DEF IndInv, FlowOK
<1>5. Moved(e, Top(t)) /\ e.at = "efin" /\ e.b
  BY <1>1, Zenon DEF Moved, FrameType, ReqLabels
<1>6. Moved(f, Top(t)) /\ f.at = "flush"
  BY <1>1, Zenon DEF Moved, FrameType, ReqLabels, CmdLabels
<1>7. \/ Return(t, FALSE) \/ Goto(t, e)
      \/ req[r].cmd = "DONE2" /\ Call(t, Frame("efin", r[1], r, FALSE), "wait.drop")
      \/ req[r].cmd = "DATAREADY1" /\ Goto(t, f)
  BY <1>2, Zenon DEF Wait
<1>8. /\ \A L : In(<<"cmd", r>>, L) <=> "wait" \in L
      /\ stack[<<"cmd", r>>] # <<>>
  BY <1>1, <1>2, InAt, Zenon
<1> HIDE DEF e, f
<1>9. CASE Return(t, FALSE)
  BY <1>1, <1>3, <1>9, ReturnQuiet, Zenon DEF ReqLabels, RespLabels, DataLabels, CmdLabels
<1>10. CASE Goto(t, e)
  BY <1>1, <1>3, <1>5, <1>10, ErrorQuiet, Zenon
<1>11. CASE req[r].cmd = "DONE2" /\ Call(t, Frame("efin", r[1], r, FALSE), "wait.drop")
  <2> DEFINE g == Frame("efin", r[1], r, FALSE)
             h == [Top(t) EXCEPT !.at = "wait.drop"]
  <2>1. g \in FrameType /\ g.at = "efin" /\ g.r = r /\ g.todo = {} /\ g.j = r[1]
    BY <1>2, Zenon DEF Frame, FrameType, ReqLabels
  <2>2. h \in FrameType /\ Moved(h, Top(t)) /\ h.at = "wait.drop"
    BY <1>1, Zenon DEF FrameType, Moved, ReqLabels
  <2>3. stack' = [stack EXCEPT ![t] = <<g, h>> \o Tail(@)]
    BY <1>11, Zenon DEF Call
  <2> HIDE DEF g, h
  <2>4. FrameOKNext(g)
    BY <1>2, <1>3, <2>1, Zenon DEF FrameOKNext, Quiet, Started, CancelLabels
  <2>5. FrameOKNext(h) /\ Replaces(h.at, Top(t).at)
    BY <1>1, <1>4, <2>2, MovedFrame, Zenon
  <2>6. WaitsFor(g.at, h.at)
    BY <2>1, <2>2, Zenon DEF WaitsFor
  <2>7. Shape' /\ stack'[t] # <<>> /\ Top(t)' = g /\ Others(t)
    BY <1>4, <2>1, <2>2, <2>3, <2>4, <2>5, <2>6, PushShape, Zenon
  <2>8. InFlow(t) /\ SameTop(t)
    BY <2>1, <2>7, Zenon DEF InFlow, SameTop, In, RespLabels, DataLabels, CmdLabels
  <2>9. Doomed(r)
    BY <1>4, <1>8, <1>11, Zenon DEF Flow, Doomed, Flowing, CmdLabels
  <2>10. Doomed(r)'
    BY <1>3, <1>4, <2>7, <2>8, <2>9, QuietFlow, FlowKeep, Zenon DEF IndInv
  <2>11. StartsLess(t)
    BY <2>1, <2>7, <2>10, Zenon DEF StartsLess, Starts, In
  <2>12. g.at \notin Finishing \cup {"run.fail", "efin.rerun"}
    BY <2>1, Zenon DEF Finishing, MarkLabels
  <2>13. ASSUME ~cancelled' PROVE TrackLess(t)
    BY <1>1, <1>3, <2>7, <2>12, <2>13, NeutralTrack, Zenon DEF Unattached
  <2> QED
    BY <1>3, <2>7, <2>8, <2>11, <2>13, QuietStep, Zenon
<1>12. CASE req[r].cmd = "DATAREADY1" /\ Goto(t, f)
  <2>1. /\ Shape' /\ stack'[t] # <<>> /\ Top(t)' = f
        /\ \A u \in Threads \ {<<"ssi", r>>, <<"cmd", r>>} : Still(u)
        /\ Still(<<"ssi", r>>)
        /\ TopPlaced(t) /\ StartsLess(t) /\ (~cancelled => TrackLess(t))
    BY <1>1, <1>2, <1>4, <1>6, <1>12, CmdMove, Zenon DEF CmdLabels
  <2>2. /\ \A L : In(<<"cmd", r>>, L)' <=> "flush" \in L
        /\ \A L : In(<<"ssi", r>>, L)' <=> In(<<"ssi", r>>, L)
        /\ stack'[<<"cmd", r>>] # <<>>
    BY <1>1, <1>2, <1>6, <2>1, InAtNext, InStill, Zenon
  <2>3. /\ req' = req /\ UNCHANGED <<execVars, complete, jobVars, mainVars, scrubbed, flushed, merged>>
        /\ (Started(r)' <=> Started(r))
    BY Zenon DEF Wait, histVars, jobVars, Started
  <2>4. Flow(r)'
    BY <1>2, <1>4, <1>8, <1>12, <2>2, <2>3, InEither, Zenon DEF Flow, CmdLabels, RespLabels, DataLabels
  <2>5. ~Doomed(r)
    BY <1>8, <1>12, Zenon DEF Doomed, Flowing
  <2>6. ReqKept(r)
    BY <2>3, ReqSame, Zenon
  <2> QED
    BY <1>1, <1>2, <2>1, <2>3, <2>4, <2>5, <2>6, FlowStep, Zenon
<1> QED
  BY <1>7, <1>9, <1>10, <1>11, <1>12, Zenon
\* A block that does not merge fails the query; another one is asked for.
LEMMA FlushFailedStep ==
    ASSUME IndInv, NEW t \in Threads, stack[t] # <<>>, ProcessFlush(t), FlushFailed(t, Top(t).r)
    PROVE  IndInv'
<1> DEFINE f == [Top(t) EXCEPT !.at = "efin", !.b = TRUE]
           q == [req[Top(t).r] EXCEPT !.retried = TRUE]
<1>1. /\ Top(t) \in FrameType /\ Top(t).at = "flush" /\ Top(t).at \in ReqLabels \ Finishing
      /\ Top(t).r \in Reqs /\ req[Top(t).r] \in ReqType /\ req[Top(t).r].keepAlive \in {NoReq, Top(t).r}
  BY TopInv, CmdThread, ReqOfTop, Zenon DEF ProcessFlush, At, CmdLabels, IndInv, TypeOK, KeepsItself
<1>2. Moved(f, Top(t)) /\ f.at = "efin" /\ f.b
  BY <1>1, Zenon DEF Moved, FrameType, ReqLabels
<1>3. /\ q \in ReqType /\ req' = [req EXCEPT ![Top(t).r] = q]
      /\ q.finish = req[Top(t).r].finish /\ q.marked = req[Top(t).r].marked
      /\ q.cmd = req[Top(t).r].cmd /\ q.ssi = req[Top(t).r].ssi
      /\ q.hasJob = req[Top(t).r].hasJob /\ q.keepAlive = req[Top(t).r].keepAlive
  BY <1>1, Zenon DEF ReqType, FlushFailed
<1>4. Goto(t, f)
  BY Zenon DEF FlushFailed
<1> HIDE DEF q, f
<1>5. /\ UNCHANGED <<cancelled, jobMap, incomplete, requestCount, bug, attempt, inSsi, request,
                     rmutex, mainVars, histVars>>
      /\ complete' \subseteq complete
  BY Zenon DEF ProcessFlush, FlushFailed, SetStatus, execVars, jobVars, histVars
<1>6. Quiet /\ cancelled' = cancelled
  BY <1>1, <1>3, <1>5, QuietReq, Zenon
<1> QED
  BY <1>1, <1>2, <1>4, <1>6, ErrorQuiet, Zenon

\* A merged block that is not the last keeps the invariant.
LEMMA FlushMoreStep ==
    ASSUME IndInv, NEW t \in Threads, stack[t] # <<>>, ProcessFlush(t), FlushMore(t, Top(t).r)
    PROVE  IndInv'
<1> DEFINE f == [Top(t) EXCEPT !.at = "ask"]
<1>1. /\ Top(t) \in FrameType /\ Top(t).at = "flush" /\ Top(t).at \in CmdLabels /\ t = <<"cmd", Top(t).r>>
      /\ Top(t).at \in ReqLabels
  BY TopInv, CmdThread, Zenon DEF ProcessFlush, At, CmdLabels
<1>2. PICK r \in Reqs : r = Top(t).r /\ Started(r)
  BY <1>1, ReqOfTop, Zenon
<1>3. Moved(f, Top(t)) /\ f.at = "ask" /\ f.at \in CmdLabels /\ Goto(t, f)
  BY <1>1, Zenon DEF Moved, FrameType, ReqLabels, CmdLabels, FlushMore
<1> DEFINE q == [req[r] EXCEPT !.cmd = "STARTED0", !.blocks = @ + 1]
<1>4. /\ q \in ReqType /\ q.finish = req[r].finish /\ q.marked = req[r].marked
      /\ q.hasJob = req[r].hasJob /\ q.keepAlive = req[r].keepAlive
      /\ q.cmd = "STARTED0" /\ q.ssi = req[r].ssi
  <2>1. req[r] \in ReqType /\ req[r].blocks + 1 < MaxBlocks
    BY <1>2, ZenonT(30) DEF IndInv, TypeOK, FlushMore
  <2>2. req[r].blocks + 1 \in 0..MaxBlocks
    BY <2>1, MaxBlocksNat DEF ReqType
  <2> QED
    BY <2>1, <2>2, Zenon DEF ReqType
<1>5. req' = [req EXCEPT ![r] = q]
  BY <1>2, Zenon DEF FlushMore
<1> HIDE DEF f, q
<1>6. ReqKept(r) /\ req'[r].cmd = "STARTED0" /\ req'[r].ssi = req[r].ssi /\ (Active(r)' <=> Active(r))
  BY <1>4, <1>5, ReqOne, Zenon DEF Active
<1>7. /\ UNCHANGED <<execVars, complete, jobVars, mainVars, scrubbed, merged>>
      /\ flushed' = flushed \cup {r}
  BY <1>2, ZenonT(30) DEF ProcessFlush, FlushMore
<1>8. TypeOK' /\ Grow
  BY <1>6, <1>7 DEF IndInv, TypeOK, Grow, ReqKept, execVars, jobVars, mainVars
<1>9. /\ Shape' /\ stack'[t] # <<>> /\ Top(t)' = f
      /\ \A u \in Threads \ {<<"ssi", r>>, <<"cmd", r>>} : Still(u)
      /\ Still(<<"ssi", r>>)
      /\ TopPlaced(t) /\ StartsLess(t) /\ (~cancelled => TrackLess(t))
  BY <1>1, <1>2, <1>3, <1>8, CmdMove, Zenon
<1>10. /\ \A L : In(<<"cmd", r>>, L) <=> "flush" \in L
       /\ \A L : In(<<"cmd", r>>, L)' <=> "ask" \in L
       /\ \A L : In(<<"ssi", r>>, L)' <=> In(<<"ssi", r>>, L)
       /\ stack'[<<"cmd", r>>] # <<>> /\ stack[<<"cmd", r>>] # <<>>
  BY <1>1, <1>2, <1>3, <1>9, InAt, InAtNext, InStill, Zenon
<1>11. Flow(r) /\ (Started(r)' <=> Started(r)) /\ (r \in merged' <=> r \in merged)
  BY <1>7, Zenon DEF IndInv, FlowOK, Started, jobVars
<1>12. Flow(r)'
  BY <1>2, <1>6, <1>10, <1>11, InEither, Zenon DEF Flow, CmdLabels, RespLabels, DataLabels
<1>13. ~Doomed(r)
  BY <1>10, Zenon DEF Doomed, Flowing
<1> QED
  BY <1>1, <1>2, <1>6, <1>7, <1>9, <1>12, <1>13, FlowStep, Zenon
\* The frames of a stack are in order in the next state.
StackFine(s) == /\ s \in Seq(FrameType)
                /\ \A i \in 1..Len(s) : FrameOKNext(s[i])
                /\ \A i \in 2..Len(s) : WaitsFor(s[i - 1].at, s[i].at)

\* Shape after a step that gives some threads well-formed stacks.
LEMMA FineShape ==
    ASSUME TypeOK, TypeOK', Grow, Shape, DOMAIN stack' = Threads, stack' = [t \in Threads |-> stack'[t]],
           \A u \in Threads : stack'[u] = stack[u] \/ StackFine(stack'[u])
    PROVE  Shape'
<1>1. ASSUME NEW u \in Threads PROVE StackFine(stack'[u])
  <2>1. CASE stack'[u] = stack[u]
    <3>1. /\ stack[u] \in Seq(FrameType)
          /\ \A i \in 1..Len(stack[u]) : stack[u][i] \in FrameType /\ FrameOK(stack[u][i])
          /\ \A i \in 2..Len(stack[u]) : WaitsFor(stack[u][i - 1].at, stack[u][i].at)
      BY DEF Shape, Typed
    <3>2. \A i \in 1..Len(stack[u]) : FrameOKNext(stack[u][i])
      BY <3>1, FrameGrows, Zenon
    <3> QED
      BY <2>1, <3>1, <3>2, Zenon DEF StackFine
  <2>2. CASE StackFine(stack'[u])
    BY <2>2, Zenon
  <2> QED
    BY <2>1, <2>2, Zenon
<1>2. Typed'
  BY <1>1, Zenon DEF Typed, StackFine
<1>3. \A u \in Threads : \A i \in 1..Len(stack'[u]) : FrameOKNext(stack'[u][i])
  BY <1>1, Zenon DEF StackFine
<1>4. \A u \in Threads : \A i \in 2..Len(stack'[u]) : WaitsFor(stack'[u][i - 1].at, stack'[u][i].at)
  BY <1>1, Zenon DEF StackFine
<1> QED
  BY <1>2, <1>3, <1>4, Zenon DEF Shape, FrameOK, FrameOKNext, Started

\* A stack of one good frame is well formed.
LEMMA FineOne ==
    ASSUME NEW f \in FrameType, FrameOKNext(f)
    PROVE  StackFine(<<f>>) /\ Head(<<f>>) = f /\ <<f>> # <<>>
<1>1. <<f>> \in Seq(FrameType) /\ Len(<<f>>) = 1 /\ <<f>>[1] = f /\ Head(<<f>>) = f /\ <<f>> # <<>>
  OBVIOUS
<1>2. \A i \in 1..1 : i = 1
  OBVIOUS
<1>3. \A i \in 2..1 : FALSE
  OBVIOUS
<1> DEFINE s == <<f>>
<1>4. s \in Seq(FrameType) /\ Len(s) = 1 /\ s[1] = f
  BY <1>1, Zenon
<1> HIDE DEF s
<1>5. StackFine(s)
  BY <1>2, <1>3, <1>4, Zenon DEF StackFine
<1> QED
  BY <1>1, <1>5, Zenon DEF s

\* A thread that does nothing, or whatever it did, starts with the frame f.
LEMMA NewShape ==
    ASSUME TypeOK, TypeOK', Grow, Shape, NEW t \in Threads,
           NEW f \in FrameType, FrameOKNext(f), stack' = [stack EXCEPT ![t] = <<f>>]
    PROVE  Shape' /\ stack'[t] # <<>> /\ Top(t)' = f /\ Others(t)
<1>1. stack \in [Threads -> Seq(FrameType)]
  BY Zenon DEF Shape, Typed
<1>2. stack'[t] = <<f>> /\ \A u \in Threads \ {t} : stack'[u] = stack[u]
  BY <1>1, Zenon
<1>3. stack' = [u \in Threads |-> stack'[u]] /\ DOMAIN stack' = Threads
  BY <1>1, Zenon
<1>4. StackFine(<<f>>) /\ Head(<<f>>) = f /\ <<f>> # <<>>
  BY FineOne, Zenon
<1>5. \A u \in Threads : stack'[u] = stack[u] \/ StackFine(stack'[u])
  BY <1>2, <1>4, Zenon
<1>6. Shape'
  BY <1>3, <1>5, FineShape, Zenon
<1> QED
  BY <1>2, <1>4, <1>6, Zenon DEF Top, Others

\* An SSI callback starts: the answer, or a block of data.
LEMMA CallbackStep ==
    ASSUME IndInv, NEW r \in Reqs, NEW from \in {"sent", "asked"}, NEW at \in {"resp", "data"},
           from = "sent" <=> at = "resp", Callback(r, from, at)
    PROVE  IndInv'
<1> DEFINE f == Frame(at, r[1], r, FALSE)
           q == [req[r] EXCEPT !.ssi = "idle"]
           S == <<"ssi", r>>
           C == <<"cmd", r>>
<1>1. /\ TypeOK /\ Shape /\ Flow(r) /\ S \in Threads /\ C \in Threads /\ S # C
      /\ stack[S] = <<>> /\ req[r].ssi = from /\ req[r] \in ReqType
  BY StackParts, ThreadNames, ThreadsDiffer, Zenon DEF IndInv, FlowOK, Callback, TypeOK
<1>2. Started(r) /\ r[1] \in Jobs /\ r[1] \in jobMap
  <2>1. Started(r)
    BY <1>1, Zenon DEF Flow
  <2>2. r[1] \in Jobs /\ r[2] \in Nat
    BY MaxAttemptsNat, SMTT(30) DEF Reqs
  <2>3. attempt[r[1]] > 0
    BY <1>1, <2>1, <2>2 DEF Started, TypeOK
  <2> QED
    BY <2>1, <2>2, <2>3, Zenon DEF IndInv, MainOK
<1>3. /\ q \in ReqType /\ q.finish = req[r].finish /\ q.marked = req[r].marked
      /\ q.hasJob = req[r].hasJob /\ q.keepAlive = req[r].keepAlive
      /\ q.cmd = req[r].cmd /\ q.ssi = "idle"
  BY <1>1, Zenon DEF ReqType
<1>4. req' = [req EXCEPT ![r] = q] /\ stack' = [stack EXCEPT ![S] = <<f>>]
  BY Zenon DEF Callback
<1>5. f \in FrameType /\ f.at = at /\ f.r = r /\ f.j = r[1] /\ f.todo = {} /\ f.at \in ReqLabels
  BY <1>2, Zenon DEF Frame, FrameType, ReqLabels, RespLabels, DataLabels
<1> HIDE DEF f, q
<1>6. ReqKept(r) /\ req'[r].cmd = req[r].cmd /\ req'[r].ssi = "idle" /\ (Active(r)' <=> Active(r))
  BY <1>3, <1>4, ReqOne, Zenon DEF Active
<1>7. UNCHANGED <<execVars, complete, jobVars, mainVars, scrubbed, flushed, merged>>
  BY ZenonT(30) DEF Callback, histVars
<1>8. TypeOK' /\ Grow
  BY <1>1, <1>6, <1>7 DEF TypeOK, Grow, ReqKept, execVars, jobVars, mainVars
<1>9. FrameOKNext(f)
  BY <1>2, <1>5, <1>7, Zenon DEF FrameOKNext, Started, CancelLabels, execVars, jobVars
<1>10. Shape' /\ stack'[S] # <<>> /\ Top(S)' = f /\ Others(S)
  BY <1>1, <1>4, <1>5, <1>8, <1>9, NewShape, Zenon
<1>11. (\A u \in Threads \ {S, C} : Still(u)) /\ Still(C)
  BY <1>1, <1>10, Zenon DEF Others, Still
<1>12. TopPlaced(S)
  BY <1>5, <1>10, Zenon DEF TopPlaced, In, CmdLabels, RespLabels, DataLabels
<1>13. StartsLess(S) /\ (~cancelled => TrackLess(S))
  <2>1. Top(S)'.at \in RespLabels \cup DataLabels \cup CmdLabels
    BY <1>5, <1>10, Zenon DEF RespLabels, DataLabels
  <2> QED
    BY <1>1, <2>1, FlowTop, Zenon
<1>14. /\ \A L : ~In(S, L) /\ (In(S, L)' <=> at \in L)
       /\ \A L : In(C, L)' <=> In(C, L)
       /\ stack'[C] = stack[C]
  BY <1>1, <1>5, <1>10, <1>11, InAtNext, InStill, Zenon DEF In, Still
<1>15. (Started(r)' <=> Started(r)) /\ (r \in merged' <=> r \in merged)
  BY <1>7, Zenon DEF Started, jobVars
<1> HIDE DEF S, C
<1>16. Flow(r)'
  BY <1>1, <1>2, <1>6, <1>14, <1>15, Zenon DEF Flow, RespLabels, DataLabels, S, C
<1>17. Doomed(r) => Doomed(r)'
  BY <1>1, <1>6, <1>14, <1>15, Zenon DEF Doomed, Flowing, RespLabels, S, C
<1> QED
  BY <1>6, <1>7, <1>10, <1>11, <1>12, <1>13, <1>16, <1>17, FlowStep, Zenon DEF S, C
\* A block, or an error instead of it, wakes the command.  After an error
\* nothing of the request will be merged.
LEMMA DataBlockStep ==
    ASSUME IndInv, NEW t \in Threads, stack[t] # <<>>, DataBlock(t)
    PROVE  IndInv'
<1>1. /\ Top(t) \in FrameType /\ Top(t).at = "data.block" /\ t = <<"ssi", Top(t).r>>
      /\ Top(t).at \in ReqLabels \ (Finishing \cup {"squash"})
  BY TopInv, SsiThread, Zenon DEF DataBlock, At, DataLabels
<1>2. PICK r \in Reqs : r = Top(t).r /\ Started(r)
  BY <1>1, ReqOfTop, Zenon
<1> DEFINE S == <<"ssi", r>>
           C == <<"cmd", r>>
<1>3. /\ TypeOK /\ Shape /\ Flow(r) /\ S = t /\ C \in Threads /\ S # C /\ req[r] \in ReqType
      /\ \A L : In(S, L) <=> "data.block" \in L
  BY <1>1, <1>2, StackParts, ThreadNames, ThreadsDiffer, InAt, Zenon DEF IndInv, FlowOK, TypeOK
<1>4. PICK c \in {"DONE2", "DATAREADY1"} :
         /\ req' = [req EXCEPT ![r].cmd = c]
         /\ c = "DONE2" => Goto(t, [Top(t) EXCEPT !.at = "efin"])
         /\ c = "DATAREADY1" => Return(t, TRUE)
  BY <1>2, Zenon DEF DataBlock
<1> DEFINE q == [req[r] EXCEPT !.cmd = c]
           f == [Top(t) EXCEPT !.at = "efin"]
<1>5. /\ q \in ReqType /\ q.finish = req[r].finish /\ q.marked = req[r].marked
      /\ q.hasJob = req[r].hasJob /\ q.keepAlive = req[r].keepAlive
      /\ q.cmd = c /\ q.ssi = req[r].ssi
  BY <1>3, Zenon DEF ReqType
<1>6. req' = [req EXCEPT ![r] = q]
  BY <1>4, Zenon
<1>7. f \in FrameType /\ Moved(f, Top(t)) /\ f.at = "efin" /\ f.r = r
  BY <1>1, <1>2, Zenon DEF FrameType, Moved, ReqLabels
<1> HIDE DEF q, f
<1>8. ReqKept(r) /\ req'[r].cmd = c /\ req'[r].ssi = req[r].ssi /\ (Active(r)' <=> Active(r))
  BY <1>5, <1>6, ReqOne, Zenon DEF Active
<1>9. /\ UNCHANGED <<execVars, jobVars, mainVars, scrubbed, flushed, merged>> /\ complete' \subseteq complete
      /\ (Started(r)' <=> Started(r)) /\ (r \in merged' <=> r \in merged)
  BY ZenonT(30) DEF DataBlock, SetStatus, Started, jobVars
<1>10. TypeOK' /\ Grow
  BY <1>3, <1>8, <1>9 DEF TypeOK, Grow, ReqKept, execVars, jobVars, mainVars
<1>11. /\ Shape' /\ Others(t)
       /\ c = "DONE2" => stack'[t] # <<>> /\ Top(t)' = f
       /\ c = "DATAREADY1" => Returned(t, TRUE)
  <2>1. CASE c = "DONE2"
    <3>1. FrameOKNext(f) /\ Replaces(f.at, Top(t).at)
      BY <1>1, <1>7, <1>10, MovedFrame, Zenon
    <3> QED
      BY <1>3, <1>4, <1>7, <1>10, <2>1, <3>1, GotoShape, Zenon DEF f
  <2>2. CASE c = "DATAREADY1"
    BY <1>3, <1>4, <1>10, <2>2, ReturnShape, Zenon
  <2> QED
    BY <2>1, <2>2, Zenon
<1>12. stack'[t] = <<>> \/ (stack'[t] # <<>> /\ Top(t)'.at \notin Special /\
                            Top(t)'.at \notin Finishing \cup {"run.fail", "efin.rerun"} /\
                            (Top(t)'.at = "efin" => c = "DONE2" /\ Top(t)'.r = r))
  BY <1>1, <1>7, <1>11, Zenon DEF Returned, WaitsFor, Special, Finishing, MarkLabels, RespLabels, DataLabels,
                           CmdLabels, RunLabels
<1>13. (\A u \in Threads \ {S, C} : Still(u)) /\ Still(C) /\ stack'[C] = stack[C]
  BY <1>3, <1>11, Zenon DEF Others, Still
<1>14. /\ \A L \in {RespLabels, DataLabels, CmdLabels, RespLabels \cup DataLabels, {"add"},
                    {"efin.decide", "efin.retry"}, {"add", "run.check", "run.lock", "efin.retry"},
                    {"efin.decide"}} : ~In(t, L)'
       /\ \A L : In(C, L)' <=> In(C, L)
  BY <1>12, <1>13, InStill, Zenon DEF In, Special, RespLabels, DataLabels, CmdLabels
<1>15. Flow(r)' /\ (Doomed(r) => Doomed(r)') /\ (c = "DONE2" => Doomed(r)')
  <2>1. /\ ~In(S, RespLabels)' /\ ~In(S, DataLabels)' /\ ~In(S, RespLabels \cup DataLabels)'
    BY <1>3, <1>14, Zenon
  <2> HIDE DEF S, C
  <2>2. /\ ~In(C, {"ask", "ask.get", "flush"}) /\ req[r].ssi \notin {"sent", "asked"} /\ r \notin merged
        /\ req[r].cmd = "STARTED0"
    BY <1>3, Zenon DEF Flow, RespLabels, DataLabels, S, C
  <2>3. ~In(C, {"ask", "ask.get"})
    BY <2>2, Zenon DEF In
  <2>4. Flow(r)'
    BY <1>2, <1>8, <1>9, <1>14, <2>1, <2>2, <2>3, Zenon DEF Flow, S, C
  <2> QED
    BY <1>8, <1>9, <1>14, <2>1, <2>2, <2>4, Zenon DEF Doomed, Flowing, S, C
<1>16. TopPlaced(t) /\ StartsLess(t)
  <2>1. In(t, {"efin"})' => c = "DONE2" /\ Top(t)'.r = r
    BY <1>12, Zenon DEF In
  <2> QED
    BY <1>14, <1>15, <2>1, Zenon DEF TopPlaced, StartsLess, Starts
<1>17. ~cancelled => TrackLess(t)
  BY <1>1, <1>12, NeutralTrack, Zenon DEF Unattached
<1> QED
  BY <1>3, <1>8, <1>9, <1>11, <1>13, <1>15, <1>16, <1>17, FlowStep, Zenon

\* The error answer of ProcessResponse: nothing will be merged.
LEMMA ResponseErrorStep ==
    ASSUME IndInv, NEW t \in Threads, stack[t] # <<>>, ResponseType(t),
           SetStatus(Top(t).r[1], "RESPONSE_ERROR"), Goto(t, [Top(t) EXCEPT !.at = "efin"])
    PROVE  IndInv'
<1> DEFINE f == [Top(t) EXCEPT !.at = "efin"]
<1>1. /\ Top(t) \in FrameType /\ Top(t).at = "resp.type" /\ t = <<"ssi", Top(t).r>>
      /\ Top(t).at \in ReqLabels \ (Finishing \cup {"squash"})
  BY TopInv, SsiThread, Zenon DEF ResponseType, At, RespLabels
<1>2. PICK r \in Reqs : r = Top(t).r
  BY <1>1, ReqOfTop, Zenon
<1>3. Quiet /\ cancelled' = cancelled /\ UNCHANGED <<req, merged>>
  BY QuietSame, Zenon DEF ResponseType, SetStatus, execVars, jobVars, histVars, IndInv, TypeOK
<1>4. Moved(f, Top(t)) /\ f.at = "efin" /\ f.r = r /\ f \in FrameType
  BY <1>1, <1>2, Zenon DEF Moved, FrameType, ReqLabels
<1> HIDE DEF f
<1>5. stack'[t] # <<>> /\ Top(t)' = f /\ Others(t)
  <2>1. TypeOK /\ TypeOK' /\ Grow /\ Shape
    BY <1>3, QuietTypes, StackParts, Zenon DEF IndInv
  <2>2. FrameOKNext(f) /\ Replaces(f.at, Top(t).at)
    BY <1>1, <1>4, <2>1, MovedFrame, Zenon
  <2> QED
    BY <1>4, <2>1, <2>2, GotoShape, Zenon DEF f
<1>6. Doomed(r)'
  <2>1. /\ In(<<"ssi", r>>, RespLabels) /\ In(<<"ssi", r>>, RespLabels \cup DataLabels)
        /\ ~In(<<"ssi", r>>, RespLabels)'
    BY <1>1, <1>2, <1>4, <1>5, ZenonT(30) DEF In, RespLabels
  <2>2. /\ stack[<<"cmd", r>>] = <<>> /\ r \notin merged /\ req[r].ssi # "sent"
    BY <2>1, Zenon DEF IndInv, FlowOK, Flow
  <2>3. stack'[<<"cmd", r>>] = <<>>
    BY <1>1, <1>2, <1>5, <2>2, ThreadNames, ThreadsDiffer, Zenon DEF Others
  <2> QED
    BY <1>3, <2>1, <2>2, <2>3, Zenon DEF Doomed, Flowing, In
<1> QED
  BY <1>1, <1>3, <1>4, <1>6, ErrorQuiet, Zenon DEF f
\* A call that ends without a value.
LEMMA TailFine ==
    ASSUME TypeOK, TypeOK', Grow, Shape, NEW t \in Threads, stack[t] # <<>>
    PROVE  /\ StackFine(Tail(stack[t]))
           /\ Tail(stack[t]) # <<>> => WaitsFor(Top(t).at, Head(Tail(stack[t])).at)
<1> DEFINE s == stack[t]
           m == Tail(s)
<1>1. /\ s \in Seq(FrameType) /\ s # <<>> /\ Len(s) \in Nat /\ Top(t) = s[1]
      /\ \A i \in 1..Len(s) : s[i] \in FrameType /\ FrameOK(s[i])
      /\ \A i \in 2..Len(s) : WaitsFor(s[i - 1].at, s[i].at)
  BY DEF Shape, Typed, Top
<1>2. \A i \in 1..Len(s) : FrameOKNext(s[i])
  BY <1>1, FrameGrows, Zenon
<1> HIDE DEF s
<1>3. /\ m \in Seq(FrameType) /\ Len(m) = Len(s) - 1 /\ Len(m) \in Nat
      /\ \A i \in 1..Len(m) : m[i] = s[i + 1]
      /\ m # <<>> => Head(m) = m[1] /\ 1 \in 1..Len(m)
  BY <1>1
<1> HIDE DEF m
<1>4. \A i \in 1..Len(m) : i + 1 \in 2..Len(s) /\ i + 1 \in 1..Len(s) /\ (i + 1) - 1 = i
  BY <1>1, <1>3
<1>5. \A i \in 1..Len(m) : FrameOKNext(m[i]) /\ WaitsFor(s[i].at, m[i].at)
  BY <1>1, <1>2, <1>3, <1>4, Zenon
<1>6. ASSUME NEW i \in 2..Len(m) PROVE WaitsFor(m[i - 1].at, m[i].at)
  <2>1. i \in 1..Len(m) /\ i - 1 \in 1..Len(m) /\ (i - 1) + 1 = i
    BY <1>3
  <2> QED
    BY <1>3, <1>5, <2>1, Zenon
<1>7. StackFine(m)
  BY <1>3, <1>5, <1>6, Zenon DEF StackFine
<1> QED
  BY <1>1, <1>3, <1>5, <1>7, Zenon DEF m, s

\* The answer ends and leaves a command to fetch the result.
LEMMA ResponseStreamStep ==
    ASSUME IndInv, NEW t \in Threads, stack[t] # <<>>, ResponseType(t),
           SetStatus(Top(t).r[1], "RESPONSE_READY"),
           stack' = [stack EXCEPT ![t] = Tail(@),
                                  ![<<"cmd", Top(t).r>>] = <<Frame("ask", Top(t).r[1], Top(t).r, FALSE)>>]
    PROVE  IndInv'
<1>1. /\ Top(t) \in FrameType /\ Top(t).at = "resp.type" /\ t = <<"ssi", Top(t).r>>
      /\ Top(t).at \in ReqLabels \ (Finishing \cup {"squash"})
  BY TopInv, SsiThread, Zenon DEF ResponseType, At, RespLabels
<1>2. PICK r \in Reqs : r = Top(t).r /\ Started(r) /\ r[1] \in Jobs /\ r[1] \in jobMap
  BY <1>1, ReqOfTop, Zenon
<1> DEFINE S == <<"ssi", r>>
           C == <<"cmd", r>>
           f == Frame("ask", r[1], r, FALSE)
<1>3. /\ TypeOK /\ Shape /\ Flow(r) /\ S = t /\ S \in Threads /\ C \in Threads /\ S # C
      /\ \A L : In(S, L) <=> "resp.type" \in L
  BY <1>1, <1>2, StackParts, ThreadNames, ThreadsDiffer, InAt, Zenon DEF IndInv, FlowOK
<1>4. /\ UNCHANGED <<execVars, jobVars, req, mainVars, scrubbed, flushed, merged>>
      /\ complete' \subseteq complete /\ (Started(r)' <=> Started(r))
  BY ZenonT(30) DEF ResponseType, SetStatus, Started, jobVars
<1>5. TypeOK' /\ Grow /\ ReqKept(r)
  BY <1>3, <1>4, ReqSame DEF TypeOK, Grow, execVars, jobVars, mainVars
<1>6. /\ f \in FrameType /\ f.at = "ask" /\ f.r = r /\ FrameOKNext(f)
  BY <1>2, <1>4, Zenon DEF Frame, FrameType, ReqLabels, CmdLabels, FrameOKNext, Started, CancelLabels,
                    execVars, jobVars
<1>7. stack' = [stack EXCEPT ![S] = Tail(@), ![C] = <<f>>]
  BY <1>2, <1>3, Zenon
<1> HIDE DEF f
<1>8. /\ stack'[S] = Tail(stack[S]) /\ stack'[C] = <<f>>
      /\ \A u \in Threads \ {S, C} : stack'[u] = stack[u]
      /\ DOMAIN stack' = Threads /\ stack' = [u \in Threads |-> stack'[u]]
  <2>1. stack \in [Threads -> Seq(FrameType)]
    BY <1>3, Zenon DEF Shape, Typed
  <2> QED
    BY <1>3, <1>7, <2>1, Zenon
<1>9. /\ StackFine(stack'[S]) /\ (stack'[S] # <<>> => WaitsFor("resp.type", Top(S)'.at))
      /\ StackFine(stack'[C]) /\ Top(C)' = f /\ stack'[C] # <<>>
  <2>1. /\ StackFine(Tail(stack[S]))
        /\ Tail(stack[S]) # <<>> => WaitsFor("resp.type", Head(Tail(stack[S])).at)
    BY <1>1, <1>3, <1>5, TailFine, Zenon
  <2>2. StackFine(<<f>>) /\ Head(<<f>>) = f /\ <<f>> # <<>>
    BY <1>6, FineOne, Zenon
  <2> QED
    BY <1>8, <2>1, <2>2, Zenon DEF Top
<1>10. Shape' /\ \A u \in Threads \ {S, C} : Still(u)
  BY <1>3, <1>5, <1>8, <1>9, FineShape, Zenon DEF Still, Top
<1>11. stack'[S] = <<>> \/ (stack'[S] # <<>> /\ Top(S)'.at \notin Special \cup {"efin"} /\
                            Top(S)'.at \notin Finishing \cup {"run.fail", "efin.rerun"})
  BY <1>9, Zenon DEF WaitsFor, Special, Finishing, MarkLabels, RespLabels, DataLabels, CmdLabels, RunLabels
<1>12. \A L \in {RespLabels, DataLabels, CmdLabels, RespLabels \cup DataLabels, {"add"},
                 {"efin.decide", "efin.retry"}, {"add", "run.check", "run.lock", "efin.retry"},
                 {"efin.decide"}, {"efin"}} : ~In(S, L)'
  BY <1>11, Zenon DEF In, Special, RespLabels, DataLabels, CmdLabels
<1>13. /\ TopPlaced(S) /\ StartsLess(S)
       /\ ~cancelled => TrackLess(S)
  <2>1. TopPlaced(S) /\ StartsLess(S)
    BY <1>12, Zenon DEF TopPlaced, StartsLess, Starts
  <2>2. ~cancelled => TrackLess(S)
    BY <1>1, <1>3, <1>11, NeutralTrack, Zenon DEF Unattached
  <2> QED
    BY <2>1, <2>2, Zenon
<1>14. \A L : In(C, L)' <=> "ask" \in L
  BY <1>6, <1>9, InAtNext, Zenon
<1>15. stack[C] = <<>> /\ r \notin merged /\ req[r].cmd = "STARTED0" /\ req[r].ssi \notin {"sent", "asked"}
  BY <1>3, Zenon DEF Flow, RespLabels, DataLabels
<1>16. TopPlaced(C) /\ StartsLess(C) /\ (~cancelled => TrackLess(C))
  <2>1. TopPlaced(C)
    BY <1>6, <1>9, <1>14, Zenon DEF TopPlaced, RespLabels, DataLabels
  <2>2. Top(C)'.at \in RespLabels \cup DataLabels \cup CmdLabels
    BY <1>6, <1>9, Zenon DEF CmdLabels
  <2> QED
    BY <1>3, <1>15, <2>1, <2>2, FlowTop, Zenon
<1>17. Flow(r)' /\ ~Doomed(r)
  <2>1. ~In(S, RespLabels)' /\ ~In(S, DataLabels)' /\ ~In(S, RespLabels \cup DataLabels)' /\ In(S, RespLabels)
    BY <1>3, <1>12, Zenon DEF RespLabels
  <2> HIDE DEF S, C
  <2> QED
    BY <1>2, <1>4, <1>14, <1>15, <2>1, Zenon DEF Flow, Doomed, Flowing, S, C
<1> QED
  BY <1>3, <1>4, <1>5, <1>10, <1>13, <1>16, <1>17, FlowStep, Zenon

\* ProcessResponse()'s dispatch on the kind of response keeps the invariant.
LEMMA ResponseTypeStep ==
    ASSUME IndInv, NEW t \in Threads, stack[t] # <<>>, ResponseType(t)
    PROVE  IndInv'
  BY ResponseErrorStep, ResponseStreamStep, Zenon DEF ResponseType
\* The last block is merged: the request had not been given up.
LEMMA FlushLastStep ==
    ASSUME IndInv, NEW t \in Threads, stack[t] # <<>>, ProcessFlush(t), FlushLast(t, Top(t).r)
    PROVE  IndInv'
<1> DEFINE f == [Top(t) EXCEPT !.at = "fin"]
<1>1. /\ Top(t) \in FrameType /\ Top(t).at = "flush" /\ Top(t).at \in CmdLabels /\ t = <<"cmd", Top(t).r>>
      /\ Top(t).at \in ReqLabels \ (Finishing \cup {"squash"})
  BY TopInv, CmdThread, Zenon DEF ProcessFlush, At, CmdLabels
<1>2. PICK r \in Reqs : r = Top(t).r /\ Started(r) /\ r[1] \in Jobs /\ r[1] \in jobMap
  BY <1>1, ReqOfTop, Zenon
<1>3. /\ TypeOK /\ Shape /\ Tops /\ FlowOK /\ StartsOK /\ TrackOK /\ RowsOK /\ MainOK /\ NoBug /\ KeepsItself
      /\ Flow(r) /\ \A L : In(<<"cmd", r>>, L) <=> "flush" \in L
  BY <1>1, <1>2, StackParts, InAt, Zenon DEF IndInv, FlowOK
<1>4. /\ UNCHANGED <<cancelled, jobMap, incomplete, requestCount, bug, attempt, inSsi, request, rmutex,
                     submitted, main, joined, mainVars, scrubbed, req>>
      /\ flushed' = flushed \cup {r} /\ merged' = merged \cup {r} /\ complete' = complete \cup {r[1]}
  BY <1>2, ZenonT(30) DEF ProcessFlush, FlushLast, SetStatus, execVars, jobVars, mainVars
<1>5. TypeOK' /\ Grow
  BY <1>2, <1>3, <1>4 DEF TypeOK, Grow
<1>6. Moved(f, Top(t)) /\ f.at = "fin" /\ Goto(t, f) /\ f \in FrameType
  BY <1>1, Zenon DEF Moved, FrameType, ReqLabels, FlushLast
<1> HIDE DEF f
<1>7. Shape' /\ stack'[t] # <<>> /\ Top(t)' = f /\ Others(t)
  BY <1>1, <1>3, <1>5, <1>6, MovedFrame, GotoShape, Zenon
<1>8. /\ \A u \in Threads \ {<<"ssi", r>>, <<"cmd", r>>} : Still(u)
      /\ Still(<<"ssi", r>>) /\ \A u \in Threads : u = t \/ Still(u)
  BY <1>1, <1>2, <1>7, ThreadNames, ThreadsDiffer, Zenon DEF Others, Still
<1>9. /\ \A L : In(<<"cmd", r>>, L)' <=> "fin" \in L
      /\ \A L : In(<<"ssi", r>>, L)' <=> In(<<"ssi", r>>, L)
  BY <1>1, <1>2, <1>6, <1>7, <1>8, InAtNext, InStill, Zenon
<1>10. Flow(r)' /\ ~Doomed(r)
  <2>1. stack[<<"cmd", r>>] # <<>> /\ "flush" \in {"ask", "ask.get", "flush"}
    BY <1>1, <1>2, Zenon
  <2>2. /\ ~(req[r].ssi = "sent" \/ In(<<"ssi", r>>, RespLabels))
        /\ ~(req[r].ssi = "asked" \/ In(<<"ssi", r>>, DataLabels)) /\ ~Doomed(r)
    BY <1>3, <2>1, Zenon DEF Flow, Doomed, Flowing
  <2>3. req' = req /\ Started(r)' /\ ~In(<<"cmd", r>>, CmdLabels)' /\ ~In(<<"cmd", r>>, {"ask", "ask.get"})'
    BY <1>2, <1>4, <1>9, Zenon DEF Started, CmdLabels
  <2>4. In(<<"ssi", r>>, RespLabels \cup DataLabels)' => req[r].ssi \notin {"sent", "asked"}
    BY <1>3, <1>9, Zenon DEF Flow
  <2> QED
    BY <1>9, <2>2, <2>3, <2>4, Zenon DEF Flow
<1>11. FlowOK' /\ \A p \in Reqs : Doomed(p) => Doomed(p)'
  BY <1>3, <1>4, <1>5, <1>8, <1>10, FlowOthers, Zenon DEF FlowOK
<1>12. TopPlaced(t) /\ StartsLess(t)
  BY <1>6, <1>7, Zenon DEF TopPlaced, StartsLess, Starts, In, CmdLabels, RespLabels, DataLabels
<1>13. ~cancelled => TrackLess(t)
  BY <1>1, <1>6, <1>7, NeutralTrack, Zenon DEF Unattached, Finishing, MarkLabels
<1>14. StackOK'
  BY <1>3, <1>4, <1>7, <1>8, <1>12, TopsKeepAll, StackPartsNext, Zenon
<1>15. StartsOK' /\ TrackOK'
  BY <1>3, <1>4, <1>5, <1>7, <1>11, <1>12, <1>13, StartsKeep, TrackKeep, Zenon DEF Active
<1>16. RowsOK'
  BY <1>2, <1>3, <1>4, <1>11, Zenon DEF RowsOK, TypeOK, Started
<1>17. MainOK'
  BY <1>3, <1>4, <1>8, <1>12, MainKeep, Zenon DEF TopPlaced, Still, In
<1> QED
  BY <1>3, <1>4, <1>5, <1>11, <1>14, <1>15, <1>16, <1>17, Zenon DEF IndInv, NoBug, KeepsItself

\* _processData() keeps the invariant, whether its block fails to merge, is
\* followed by more, or is the last.
LEMMA ProcessFlushStep ==
    ASSUME IndInv, NEW t \in Threads, stack[t] # <<>>, ProcessFlush(t)
    PROVE  IndInv'
  BY FlushFailedStep, FlushMoreStep, FlushLastStep, Zenon DEF ProcessFlush
=============================================================================
