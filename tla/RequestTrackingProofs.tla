------------------------ MODULE RequestTrackingProofs ------------------------
(***************************************************************************)
(* What holds of a request of the replication controller, for any number   *)
(* of requests and faults.  The first part is about the connector: what    *)
(* each method and handler of MessengerConnector does to the types, to the *)
(* chain of operations that keeps the connector going (Chain) and to the   *)
(* place of each message (OnePlace).  The second part goes through the     *)
(* handlers of the request and derives the results.                        *)
(***************************************************************************)
EXTENDS RequestTracking, SequenceTheorems, TLAPS

USE NoMsgDistinct

OpsType == [Ops -> [Results -> Nat]]

\* The counts of the operations are changed one at a time.
Put(c, o, x, n) == [c EXCEPT !.ops[o][x] = n]

\* The fields that operations on the socket leave alone.
SameRest(c, d) ==
    /\ d.state = c.state /\ d.current = c.current /\ d.requests = c.requests /\ d.socket = c.socket
    /\ d.wire = c.wire /\ d.lag = c.lag /\ d.back = c.back /\ d.dead = c.dead

LEMMA PutIs ==
    ASSUME NEW c \in ConnectorType, NEW o \in Ops, NEW x \in Results, NEW n \in Nat
    PROVE  /\ Put(c, o, x, n) \in ConnectorType /\ SameRest(c, Put(c, o, x, n))
           /\ Put(c, o, x, n).ops[o][x] = n
           /\ \A p \in Ops, y \in Results : p # o \/ y # x => Put(c, o, x, n).ops[p][y] = c.ops[p][y]
           /\ \A p \in Ops : p # o => Put(c, o, x, n).ops[p] = c.ops[p]
<1> DEFINE b == Put(c, o, x, n)
<1>0. c.ops \in OpsType BY Zenon DEF ConnectorType, OpsType
<1>1. b.ops = [c.ops EXCEPT ![o][x] = n] BY Zenon DEF Put, ConnectorType
<1>2. b.ops \in OpsType BY <1>0, <1>1 DEF OpsType
<1>3. SameRest(c, b) BY Zenon DEF Put, ConnectorType, SameRest
<1>4. b \in ConnectorType BY ZenonT(30), <1>2, <1>3 DEF ConnectorType, Put, OpsType, SameRest
<1>5. /\ b.ops[o][x] = n
      /\ \A p \in Ops, y \in Results : p # o \/ y # x => b.ops[p][y] = c.ops[p][y]
      /\ \A p \in Ops : p # o => b.ops[p] = c.ops[p]
  BY <1>0, <1>1 DEF OpsType
<1> QED BY <1>3, <1>4, <1>5, Zenon

LEMMA OpsAreCounted ==
    ASSUME NEW c \in ConnectorType
    PROVE  \A o \in Ops, x \in Results : c.ops[o][x] \in Nat
BY DEF ConnectorType

\* An operation is begun, or fails at once.
LEMMA BeginIs ==
    ASSUME NEW c \in ConnectorType, NEW o \in Ops
    PROVE  Begin(c, o) = Put(c, o, "pending", c.ops[o]["pending"] + 1)
BY Zenon DEF Begin, Put, ConnectorType

LEMMA BeginIOIs ==
    ASSUME NEW c \in ConnectorType, NEW o \in Ops
    PROVE  \E x \in {"pending", "error"} : BeginIO(c, o) = Put(c, o, x, c.ops[o][x] + 1)
BY ZenonT(30), BeginIs DEF BeginIO, Put, ConnectorType

LEMMA HandledIs ==
    ASSUME NEW c \in ConnectorType, NEW o \in Ops, NEW x \in Results
    PROVE  Handled(c, o, x) = Put(c, o, x, c.ops[o][x] - 1)
BY Zenon DEF Handled, Put, ConnectorType

\* What an operation of the connector does to the answers: they are kept, or lost
\* with the connection.
Derived(c, d) == d \in ConnectorType /\ (d.back = c.back \/ d.back = <<>>)

LEMMA ClosedIs ==
    ASSUME NEW c \in ConnectorType
    PROVE  /\ Closed(c) \in ConnectorType
           /\ Closed(c).state = c.state /\ Closed(c).current = c.current
           /\ Closed(c).requests = c.requests /\ Closed(c).socket = "closed"
           /\ Closed(c).wire = {} /\ Closed(c).lag = c.lag \cup c.wire /\ Closed(c).back = <<>>
           /\ Closed(c).dead = c.dead
           /\ (\A o \in Ops, x \in Results : c.ops[o][x] = 0) =>
                 \A o \in Ops, x \in Results : Closed(c).ops[o][x] = 0
<1> DEFINE d == Closed(c)
           conn == [c.ops["connect"] EXCEPT !["pending"] = 0]
           wr == Aborted(c.ops["write"])
           rd == Outdated(Aborted(c.ops["read"]))
           ops == [c.ops EXCEPT !["connect"] = conn, !["write"] = wr, !["read"] = rd]
<1>0. c.ops \in OpsType BY Zenon DEF ConnectorType, OpsType
<1>1. conn \in [Results -> Nat] BY <1>0, Zenon DEF OpsType, Ops, Results
<1>2. wr \in [Results -> Nat] BY <1>0 DEF OpsType, Ops, Results, Aborted
<1>3. rd \in [Results -> Nat] BY <1>0 DEF OpsType, Ops, Results, Aborted, Outdated
<1>4. d.ops = ops BY <1>0, Zenon DEF Closed, ConnectorType, OpsType, Ops
<1>5. /\ d.state = c.state /\ d.current = c.current /\ d.requests = c.requests
      /\ d.socket = "closed" /\ d.wire = {} /\ d.lag = c.lag \cup c.wire /\ d.back = <<>>
      /\ d.dead = c.dead
  BY Zenon DEF Closed, ConnectorType
<1>6. d.ops \in OpsType
  <2> HIDE DEF conn, wr, rd
  <2> QED BY ZenonT(30), <1>0, <1>1, <1>2, <1>3, <1>4 DEF OpsType
<1>7. d \in ConnectorType BY ZenonT(30), <1>5, <1>6, EmptySeq DEF ConnectorType, Closed, OpsType
<1>8. ASSUME \A o \in Ops, x \in Results : c.ops[o][x] = 0
      PROVE  \A o \in Ops, x \in Results : d.ops[o][x] = 0
  <2>1. \A x \in Results : conn[x] = 0 BY <1>0, <1>8, Zenon DEF OpsType, Ops, Results
  <2>2. \A x \in Results : wr[x] = 0 BY <1>0, <1>8 DEF OpsType, Ops, Results, Aborted
  <2>3. \A x \in Results : rd[x] = 0 BY <1>0, <1>8 DEF OpsType, Ops, Results, Aborted, Outdated
  <2> HIDE DEF conn, wr, rd
  <2> QED BY <1>0, <1>4, <1>8, <2>1, <2>2, <2>3 DEF OpsType, Ops
<1> QED BY <1>5, <1>7, <1>8, Zenon

\* No operation is under way; or just one is, in the state x.
Idle(c) == \A o \in Ops, x \in Results : c.ops[o][x] = 0
Only(c, o, x) ==
    /\ c.ops[o][x] = 1
    /\ \A p \in Ops, y \in Results : p # o \/ y # x => c.ops[p][y] = 0

LEMMA PutFromIdle ==
    ASSUME NEW c \in ConnectorType, NEW o \in Ops, NEW x \in Results
    PROVE  LET d == Put(c, o, x, c.ops[o][x] + 1)
           IN  d \in ConnectorType /\ SameRest(c, d) /\ (Idle(c) => Only(d, o, x))
<1> DEFINE n == c.ops[o][x] + 1
           d == Put(c, o, x, n)
<1>1. n \in Nat BY OpsAreCounted
<1>2. Idle(c) => n = 1 BY DEF Idle
<1> HIDE DEF n
<1>3. /\ d \in ConnectorType /\ SameRest(c, d) /\ d.ops[o][x] = n
      /\ \A p \in Ops, y \in Results : p # o \/ y # x => d.ops[p][y] = c.ops[p][y]
  BY <1>1, PutIs
<1> HIDE DEF d
<1>4. Idle(c) => Only(d, o, x) BY <1>2, <1>3 DEF Idle, Only
<1> QED BY <1>3, <1>4, Zenon DEF d, n

LEMMA BeginFromIdle ==
    ASSUME NEW c \in ConnectorType, NEW o \in Ops
    PROVE  /\ Begin(c, o) \in ConnectorType /\ SameRest(c, Begin(c, o))
           /\ Idle(c) => Only(Begin(c, o), o, "pending")
<1>1. "pending" \in Results BY Zenon DEF Results
<1>2. c.ops[o]["pending"] \in Nat BY <1>1, OpsAreCounted, Zenon
<1> QED BY <1>1, <1>2, BeginIs, PutFromIdle, Zenon

LEMMA BeginIOFromIdle ==
    ASSUME NEW c \in ConnectorType, NEW o \in Ops
    PROVE  /\ BeginIO(c, o) \in ConnectorType /\ SameRest(c, BeginIO(c, o))
           /\ Idle(c) => \E x \in {"pending", "error"} : Only(BeginIO(c, o), o, x)
<1>1. PICK x \in {"pending", "error"} : BeginIO(c, o) = Put(c, o, x, c.ops[o][x] + 1) BY BeginIOIs, Zenon
<1>2. x \in Results BY Zenon DEF Results
<1> QED BY <1>1, <1>2, PutFromIdle, Zenon

LEMMA HandledToIdle ==
    ASSUME NEW c \in ConnectorType, NEW o \in Ops, NEW x \in Results, c.ops[o][x] > 0
    PROVE  /\ Handled(c, o, x) \in ConnectorType /\ SameRest(c, Handled(c, o, x))
           /\ Only(c, o, x) => Idle(Handled(c, o, x))
<1> DEFINE n == c.ops[o][x] - 1
           d == Put(c, o, x, n)
<1>1. n \in Nat BY OpsAreCounted
<1>2. Handled(c, o, x) = d BY HandledIs, Zenon
<1>3. Only(c, o, x) => n = 0 BY DEF Only
<1> HIDE DEF n
<1>4. /\ d \in ConnectorType /\ SameRest(c, d) /\ d.ops[o][x] = n
      /\ \A p \in Ops, y \in Results : p # o \/ y # x => d.ops[p][y] = c.ops[p][y]
  BY <1>1, PutIs
<1> HIDE DEF d
<1>5. Only(c, o, x) => Idle(d) BY <1>3, <1>4 DEF Idle, Only
<1> QED BY <1>2, <1>4, <1>5, Zenon

\* A connection is asked for.
LEMMA ResolveIs ==
    ASSUME NEW c \in ConnectorType
    PROVE  /\ Resolve(c) \in ConnectorType
           /\ c.state # "INITIAL" => Resolve(c) = c
           /\ Resolve(c).current = c.current /\ Resolve(c).requests = c.requests
           /\ Resolve(c).wire = c.wire /\ Resolve(c).lag = c.lag
           /\ Resolve(c).back = c.back /\ Resolve(c).dead = c.dead
           /\ c.state = "INITIAL" =>
                /\ Resolve(c).state = "CONNECTING"
                /\ Idle(c) => Only(Resolve(c), "resolve", "pending")
<1>1. "resolve" \in Ops BY Zenon DEF Ops
<1> DEFINE b == Begin(c, "resolve")
<1>2. b \in ConnectorType /\ SameRest(c, b) /\ (Idle(c) => Only(b, "resolve", "pending"))
  BY <1>1, BeginFromIdle, Zenon
<1>3. CASE c.state # "INITIAL" BY <1>3, Zenon DEF Resolve
<1>4. CASE c.state = "INITIAL"
  <2> DEFINE d == Resolve(c)
  <2>1. d = [b EXCEPT !.state = "CONNECTING"] BY <1>4, Zenon DEF Resolve
  <2> HIDE DEF b, d
  <2>2. d \in ConnectorType BY ZenonT(30), <1>2, <2>1 DEF ConnectorType
  <2>3. /\ d.state = "CONNECTING" /\ d.current = b.current /\ d.requests = b.requests
        /\ d.wire = b.wire /\ d.lag = b.lag /\ d.back = b.back /\ d.dead = b.dead /\ d.ops = b.ops
    BY <1>2, <2>1, Zenon DEF ConnectorType
  <2>4. Idle(c) => Only(d, "resolve", "pending") BY <1>2, <2>3 DEF Only
  <2>5. QED BY <1>2, <1>4, <2>2, <2>3, <2>4, Zenon DEF SameRest, d
<1> QED BY <1>3, <1>4, Zenon

LEMMA CancelAllIs ==
    ASSUME NEW c \in ConnectorType
    PROVE  /\ CancelAll(c) \in ConnectorType
           /\ CancelAll(c).current = c.current /\ CancelAll(c).requests = c.requests
           /\ c.socket = "closed" => CancelAll(c) = Terminated(c) /\ Terminated(c).dead /\ Terminated(c).back = c.back
           /\ c.socket # "closed" =>
                /\ CancelAll(c).state = "INITIAL" /\ CancelAll(c).dead = c.dead
                /\ CancelAll(c).wire = {} /\ CancelAll(c).lag = c.lag \cup c.wire /\ CancelAll(c).back = <<>>
                /\ Idle(c) => Idle(CancelAll(c))
<1> DEFINE b == Closed(c)
           d == CancelAll(c)
<1>1. CASE c.socket = "closed" BY ZenonT(30), <1>1 DEF CancelAll, Terminated, ConnectorType
<1>2. CASE c.socket # "closed"
  <2> DEFINE e == [b EXCEPT !.state = "INITIAL"]
             f == Put(e, "resolve", "pending", 0)
             g == Put(f, "timer", "pending", 0)
  <2>1. b \in ConnectorType BY ClosedIs, Zenon
  <2>2. e \in ConnectorType
    <3> HIDE DEF b
    <3> QED BY ZenonT(30), <2>1 DEF ConnectorType
  <2>3. /\ e.state = "INITIAL" /\ e.current = b.current /\ e.requests = b.requests
        /\ e.wire = b.wire /\ e.lag = b.lag /\ e.back = b.back /\ e.dead = b.dead /\ e.ops = b.ops
    <3> HIDE DEF b
    <3> QED BY <2>1, Zenon DEF ConnectorType
  <2>4. {"resolve", "timer"} \subseteq Ops /\ "pending" \in Results BY Zenon DEF Ops, Results
  <2>5. /\ f \in ConnectorType /\ SameRest(e, f)
        /\ f.ops["resolve"]["pending"] = 0
        /\ \A p \in Ops, y \in Results : p # "resolve" \/ y # "pending" => f.ops[p][y] = e.ops[p][y]
    <3> HIDE DEF e
    <3> QED BY <2>2, <2>4, PutIs
  <2>6. /\ g \in ConnectorType /\ SameRest(f, g)
        /\ g.ops["timer"]["pending"] = 0
        /\ \A p \in Ops, y \in Results : p # "timer" \/ y # "pending" => g.ops[p][y] = f.ops[p][y]
    <3> HIDE DEF f
    <3> QED BY <2>4, <2>5, PutIs
  <2>7. d = g BY <1>2, Zenon DEF CancelAll, Put
  <2> HIDE DEF b, d, e, f, g
  <2>8. /\ b.current = c.current /\ b.requests = c.requests /\ b.wire = {} /\ b.lag = c.lag \cup c.wire
        /\ b.back = <<>> /\ b.dead = c.dead /\ (Idle(c) => Idle(b))
    BY ClosedIs, Zenon DEF b, Idle
  <2>9. Idle(b) => Idle(d) BY <2>3, <2>5, <2>6, <2>7 DEF Idle
  <2>10. QED BY <1>2, <2>3, <2>5, <2>6, <2>7, <2>8, <2>9, Zenon DEF SameRest, d
<1> QED BY <1>1, <1>2, Zenon

\* A restart gives up the connection, whose messages may still arrive, and asks
\* for another one.
LEMMA RestartIs ==
    ASSUME NEW c \in ConnectorType
    PROVE  /\ Derived(c, Restart(c))
           /\ Restart(c).current = c.current /\ Restart(c).requests = c.requests
           /\ ~Restart(c).dead =>
                /\ Restart(c).wire \cup Restart(c).lag = c.wire \cup c.lag
                /\ Restart(c).wire \cap Restart(c).lag \subseteq c.wire \cap c.lag
                /\ Restart(c).state = "CONNECTING"
                /\ Idle(c) => Only(Restart(c), "resolve", "pending")
<1> DEFINE d == Restart(c)
<1>1. CASE c.state = "INITIAL" BY <1>1, ResolveIs, Zenon DEF Restart, Derived
<1>2. CASE c.state # "INITIAL"
  <2> DEFINE b == CancelAll(c)
  <2>1. d = Resolve(b) BY <1>2, Zenon DEF Restart
  <2>2. b \in ConnectorType /\ b.current = c.current /\ b.requests = c.requests BY CancelAllIs, Zenon
  <2>3. CASE c.socket = "closed"
    <3>1. b.dead /\ b.back = c.back BY <2>3, CancelAllIs
    <3> HIDE DEF b
    <3>2. d \in ConnectorType /\ d.current = b.current /\ d.requests = b.requests /\ d.back = b.back /\ d.dead
      BY <2>1, <2>2, <3>1, ResolveIs
    <3> QED BY <2>2, <3>1, <3>2, Zenon DEF Derived
  <2>4. CASE c.socket # "closed"
    <3>1. /\ b.state = "INITIAL" /\ b.wire = {} /\ b.lag = c.lag \cup c.wire /\ b.back = <<>>
          /\ Idle(c) => Idle(b)
      BY <2>4, CancelAllIs, Zenon
    <3> HIDE DEF b
    <3>2. /\ d \in ConnectorType /\ d.current = b.current /\ d.requests = b.requests /\ d.back = b.back
          /\ d.wire = b.wire /\ d.lag = b.lag /\ d.state = "CONNECTING"
          /\ Idle(b) => Only(d, "resolve", "pending")
      BY <2>1, <2>2, <3>1, ResolveIs
    <3> QED BY <2>2, <3>1, <3>2, Zenon DEF Derived
  <2> QED BY <2>3, <2>4, Zenon
<1> QED BY <1>1, <1>2, Zenon

\* The next message of the queue becomes the current one, if there is none.
LEMMA SendRequestIs ==
    ASSUME NEW c \in ConnectorType
    PROVE  /\ SendRequest(c) \in ConnectorType
           /\ SendRequest(c).back = c.back /\ SendRequest(c).state = c.state
           /\ SendRequest(c).wire = c.wire /\ SendRequest(c).lag = c.lag /\ SendRequest(c).dead = c.dead
           /\ c.current # NoMsg \/ c.requests = <<>> => SendRequest(c) = c
           /\ c.current = NoMsg /\ c.requests # <<>> =>
                /\ SendRequest(c).current = Head(c.requests) /\ SendRequest(c).requests = Tail(c.requests)
                /\ Head(c.requests) \in Messages
                /\ Idle(c) => \E x \in {"pending", "error"} : Only(SendRequest(c), "write", x)
<1>1. CASE c.current # NoMsg \/ c.requests = <<>> BY <1>1, Zenon DEF SendRequest
<1>2. CASE c.current = NoMsg /\ c.requests # <<>>
  <2> DEFINE e == [c EXCEPT !.current = Head(c.requests), !.requests = Tail(@)]
             d == SendRequest(c)
  <2>1. c.requests \in Seq(Messages) BY Zenon DEF ConnectorType
  <2>2. Head(c.requests) \in Messages /\ Tail(c.requests) \in Seq(Messages)
    BY <1>2, <2>1, HeadTailProperties, Zenon
  <2>3. e \in ConnectorType BY ZenonT(30), <2>2 DEF ConnectorType
  <2>4. /\ e.current = Head(c.requests) /\ e.requests = Tail(c.requests) /\ e.state = c.state
        /\ e.wire = c.wire /\ e.lag = c.lag /\ e.back = c.back /\ e.dead = c.dead /\ e.ops = c.ops
    BY Zenon DEF ConnectorType
  <2>5. d = BeginIO(e, "write") BY <1>2, Zenon DEF SendRequest
  <2> HIDE DEF d, e
  <2>6. "write" \in Ops BY Zenon DEF Ops
  <2>7. /\ d \in ConnectorType /\ SameRest(e, d)
        /\ Idle(e) => \E x \in {"pending", "error"} : Only(d, "write", x)
    BY <2>3, <2>5, <2>6, BeginIOFromIdle, Zenon
  <2>8. Idle(c) => Idle(e) BY <2>4, Zenon DEF Idle
  <2>9. QED BY <1>2, <2>2, <2>4, <2>7, <2>8, Zenon DEF SameRest, d
<1> QED BY <1>1, <1>2, Zenon

\* A connection is made, in place of the last one.
LEMMA ConnectIs ==
    ASSUME NEW c \in ConnectorType
    PROVE  /\ Derived(c, Connect(c))
           /\ Connect(c).state = c.state /\ Connect(c).current = c.current
           /\ Connect(c).requests = c.requests /\ Connect(c).socket = "open"
           /\ Connect(c).wire = {} /\ Connect(c).lag = c.lag \cup c.wire
           /\ Idle(c) => Only(Connect(c), "connect", "pending")
<1> DEFINE b == Closed(c)
           e == [b EXCEPT !.socket = "open"]
           d == Connect(c)
<1>1. /\ b \in ConnectorType /\ b.state = c.state /\ b.current = c.current /\ b.requests = c.requests
      /\ b.wire = {} /\ b.lag = c.lag \cup c.wire /\ b.back = <<>> /\ (Idle(c) => Idle(b))
  BY ClosedIs, Zenon DEF Idle
<1>2. d = Begin(e, "connect") BY Zenon DEF Connect
<1> HIDE DEF b, d
<1>3. e \in ConnectorType BY ZenonT(30), <1>1 DEF ConnectorType
<1>4. /\ e.state = b.state /\ e.current = b.current /\ e.requests = b.requests /\ e.socket = "open"
      /\ e.wire = b.wire /\ e.lag = b.lag /\ e.back = b.back /\ e.ops = b.ops
  BY <1>1, Zenon DEF ConnectorType
<1> HIDE DEF e
<1>5. "connect" \in Ops BY Zenon DEF Ops
<1>6. d \in ConnectorType /\ SameRest(e, d) /\ (Idle(e) => Only(d, "connect", "pending"))
  BY <1>2, <1>3, <1>5, BeginFromIdle, Zenon
<1>7. Idle(b) => Idle(e) BY <1>4, Zenon DEF Idle
<1>8. QED BY <1>1, <1>4, <1>6, <1>7, Zenon DEF SameRest, Derived, d

-------------------------------------------------------------------------------
(***************************************************************************)
(* The chain of operations.                                                *)
(***************************************************************************)

LEMMA TotalIs ==
    ASSUME NEW c \in ConnectorType, NEW o \in Ops
    PROVE  /\ Total(c, o) \in Nat
           /\ (\A x \in Results : c.ops[o][x] = 0) <=> Total(c, o) = 0
           /\ \A x \in Results : (c.ops[o][x] = 1 /\ \A y \in Results : y # x => c.ops[o][y] = 0) => Total(c, o) = 1
           /\ \A x \in Results : Total(c, o) = 1 /\ c.ops[o][x] > 0 =>
                 c.ops[o][x] = 1 /\ \A y \in Results : y # x => c.ops[o][y] = 0
           /\ \A x \in Results : c.ops[o][x] > 0 => Total(c, o) > 0
<1>1. \A x \in Results : c.ops[o][x] \in Nat BY OpsAreCounted, Zenon
<1> DEFINE n == c.ops[o]
           P == n["pending"]
           K == n["ok"]
           S == n["stale"]
           E == n["error"]
           A == n["aborted"]
<1>2. P \in Nat /\ K \in Nat /\ S \in Nat /\ E \in Nat /\ A \in Nat BY <1>1, Zenon DEF Results
<1>3. Total(c, o) = P + K + S + E + A BY Zenon DEF Total
<1>4. (\A x \in Results : n[x] = 0) <=> P = 0 /\ K = 0 /\ S = 0 /\ E = 0 /\ A = 0 BY Zenon DEF Results
<1>5. ASSUME NEW x \in Results
      PROVE  /\ n[x] > 0 => P + K + S + E + A > 0
             /\ (n[x] = 1 /\ \A y \in Results : y # x => n[y] = 0) => P + K + S + E + A = 1
             /\ P + K + S + E + A = 1 /\ n[x] > 0 => n[x] = 1 /\ \A y \in Results : y # x => n[y] = 0
  <2>1. CASE x = "pending"
    <3>1. n[x] = P BY <2>1, Zenon
    <3>2. (\A y \in Results : y # x => n[y] = 0) <=> K = 0 /\ S = 0 /\ E = 0 /\ A = 0 BY <2>1, Zenon DEF Results
    <3> HIDE DEF n, P, K, S, E, A
    <3> QED BY <1>2, <3>1, <3>2
  <2>2. CASE x = "ok"
    <3>1. n[x] = K BY <2>2, Zenon
    <3>2. (\A y \in Results : y # x => n[y] = 0) <=> P = 0 /\ S = 0 /\ E = 0 /\ A = 0 BY <2>2, Zenon DEF Results
    <3> HIDE DEF n, P, K, S, E, A
    <3> QED BY <1>2, <3>1, <3>2
  <2>3. CASE x = "stale"
    <3>1. n[x] = S BY <2>3, Zenon
    <3>2. (\A y \in Results : y # x => n[y] = 0) <=> P = 0 /\ K = 0 /\ E = 0 /\ A = 0 BY <2>3, Zenon DEF Results
    <3> HIDE DEF n, P, K, S, E, A
    <3> QED BY <1>2, <3>1, <3>2
  <2>4. CASE x = "error"
    <3>1. n[x] = E BY <2>4, Zenon
    <3>2. (\A y \in Results : y # x => n[y] = 0) <=> P = 0 /\ K = 0 /\ S = 0 /\ A = 0 BY <2>4, Zenon DEF Results
    <3> HIDE DEF n, P, K, S, E, A
    <3> QED BY <1>2, <3>1, <3>2
  <2>5. CASE x = "aborted"
    <3>1. n[x] = A BY <2>5, Zenon
    <3>2. (\A y \in Results : y # x => n[y] = 0) <=> P = 0 /\ K = 0 /\ S = 0 /\ E = 0 BY <2>5, Zenon DEF Results
    <3> HIDE DEF n, P, K, S, E, A
    <3> QED BY <1>2, <3>1, <3>2
  <2> QED BY ZenonT(30), <2>1, <2>2, <2>3, <2>4, <2>5 DEF Results
<1> HIDE DEF P, K, S, E, A
<1>6. P + K + S + E + A \in Nat /\ (P + K + S + E + A = 0 <=> P = 0 /\ K = 0 /\ S = 0 /\ E = 0 /\ A = 0)
  BY <1>2
<1> QED BY <1>3, <1>4, <1>5, <1>6, Zenon

LEMMA OnlyTotals ==
    ASSUME NEW c \in ConnectorType, NEW o \in Ops, NEW x \in Results, Only(c, o, x)
    PROVE  Total(c, o) = 1 /\ \A p \in Ops : p # o => Total(c, p) = 0
<1>1. Total(c, o) = 1 BY TotalIs DEF Only
<1>2. ASSUME NEW p \in Ops, p # o PROVE Total(c, p) = 0
  <2>1. \A y \in Results : c.ops[p][y] = 0 BY <1>2, Zenon DEF Only
  <2> QED BY <2>1, TotalIs, Zenon
<1> QED BY <1>1, <1>2, Zenon

\* A connection is on its way.
LEMMA ChainMaking ==
    ASSUME NEW c \in ConnectorType, NEW o \in {"resolve", "connect", "timer"}, NEW x \in Results,
           Only(c, o, x), c.state = "CONNECTING", c.current = NoMsg,
           o = "connect" => c.socket # "closed"
    PROVE  Chain(c)
<1>1. o \in Ops /\ {"resolve", "connect", "timer", "write", "read"} = Ops BY Zenon DEF Ops
<1>2. Total(c, o) = 1 /\ \A p \in Ops : p # o => Total(c, p) = 0 BY <1>1, OnlyTotals, Zenon
<1>3. c.ops["write"]["aborted"] = 0 /\ c.ops["read"]["aborted"] = 0 BY <1>1, Zenon DEF Only, Results
<1>4. Total(c, "resolve") + Total(c, "connect") + Total(c, "timer") = 1 BY <1>1, <1>2
<1>5. Total(c, "write") + Total(c, "read") = 0 BY <1>1, <1>2
<1>6. Total(c, "connect") > 0 => c.socket # "closed" BY <1>1, <1>2
<1> QED BY <1>3, <1>4, <1>5, <1>6, Zenon DEF Chain

\* The current message is being written or its answer read.
LEMMA ChainCarrying ==
    ASSUME NEW c \in ConnectorType, NEW o \in {"write", "read"}, NEW x \in Results,
           Only(c, o, x), x # "aborted", c.state = "COMMUNICATING", c.current # NoMsg
    PROVE  Chain(c)
<1>1. o \in Ops /\ {"resolve", "connect", "timer", "write", "read"} = Ops BY Zenon DEF Ops
<1>2. Total(c, o) = 1 /\ \A p \in Ops : p # o => Total(c, p) = 0 BY <1>1, OnlyTotals, Zenon
<1>3. c.ops["write"]["aborted"] = 0 /\ c.ops["read"]["aborted"] = 0 BY <1>1, Zenon DEF Only, Results
<1>4. Total(c, "resolve") + Total(c, "connect") + Total(c, "timer") = 0 BY <1>1, <1>2
<1>5. Total(c, "write") + Total(c, "read") = 1 BY <1>1, <1>2
<1>6. ~(Total(c, "connect") > 0) BY <1>1, <1>2
<1> QED BY <1>3, <1>4, <1>5, <1>6, Zenon DEF Chain

\* There is nothing to do.
LEMMA ChainIdle ==
    ASSUME NEW c \in ConnectorType, Idle(c), c.state # "CONNECTING", c.current = NoMsg, c.requests = <<>>
    PROVE  Chain(c)
<1>1. {"resolve", "connect", "timer", "write", "read"} = Ops BY Zenon DEF Ops
<1>2. \A p \in Ops : Total(c, p) = 0 BY TotalIs, Zenon DEF Idle
<1>3. c.ops["write"]["aborted"] = 0 /\ c.ops["read"]["aborted"] = 0 BY <1>1, Zenon DEF Idle, Results
<1>4. Total(c, "resolve") + Total(c, "connect") + Total(c, "timer") = 0 BY <1>1, <1>2
<1>5. Total(c, "write") + Total(c, "read") = 0 BY <1>1, <1>2
<1>6. ~(Total(c, "connect") > 0) BY <1>1, <1>2
<1> QED BY <1>3, <1>4, <1>5, <1>6, Zenon DEF Chain

\* An operation of the chain is the only one.
LEMMA ChainOnly ==
    ASSUME NEW c \in ConnectorType, Chain(c), NEW o \in Ops, NEW x \in Results, c.ops[o][x] > 0
    PROVE  /\ Only(c, o, x)
           /\ o \in {"resolve", "connect", "timer"} => c.state = "CONNECTING" /\ c.current = NoMsg
           /\ o \in {"write", "read"} => c.state = "COMMUNICATING" /\ c.current # NoMsg /\ x # "aborted"
           /\ o = "connect" => c.socket # "closed"
<1>1. o \in Ops /\ {"resolve", "connect", "timer", "write", "read"} = Ops BY Zenon DEF Ops
<1>2. /\ Total(c, "resolve") \in Nat /\ Total(c, "connect") \in Nat /\ Total(c, "timer") \in Nat
      /\ Total(c, "write") \in Nat /\ Total(c, "read") \in Nat
  BY <1>1, TotalIs, Zenon
<1>3. Total(c, o) > 0 BY TotalIs, Zenon
<1>4. /\ Total(c, o) = 1 /\ \A p \in Ops : p # o => Total(c, p) = 0
      /\ o \in {"resolve", "connect", "timer"} => c.state = "CONNECTING" /\ c.current = NoMsg
      /\ o \in {"write", "read"} => c.state = "COMMUNICATING" /\ c.current # NoMsg
  BY <1>1, <1>2, <1>3 DEF Chain
<1>5. c.ops[o][x] = 1 /\ \A y \in Results : y # x => c.ops[o][y] = 0 BY <1>4, TotalIs, Zenon
<1>6. \A p \in Ops : p # o => \A y \in Results : c.ops[p][y] = 0 BY <1>4, TotalIs, Zenon
<1>7. Only(c, o, x) BY <1>5, <1>6 DEF Only
<1>8. o \in {"write", "read"} => x # "aborted" BY DEF Chain
<1>9. o = "connect" => c.socket # "closed" BY <1>3, Zenon DEF Chain
<1> QED BY <1>4, <1>7, <1>8, <1>9, Zenon

-------------------------------------------------------------------------------
(***************************************************************************)
(* Where a message is.                                                     *)
(***************************************************************************)

\* From the connector c to d the message m has not come back from where it was.
Moves(c, d, m) ==
    /\ OnePlace(d, m)
    /\ Ahead(d, m) => Ahead(c, m)
    /\ d.current = m \/ InQueue(d, m) => c.current = m \/ InQueue(c, m)

LEMMA MovesOn ==
    ASSUME NEW c, NEW d, NEW e, NEW m, Moves(c, d, m), Moves(d, e, m)
    PROVE  Moves(c, e, m)
BY Zenon DEF Moves

\* The queue and the current message stay as they are.
LEMMA MovesLess ==
    ASSUME NEW c \in ConnectorType, NEW d \in ConnectorType, NEW m, OnePlace(c, m),
           d.requests = c.requests, d.current = c.current,
           d.wire \cup d.lag \subseteq c.wire \cup c.lag, d.wire \cap d.lag \subseteq c.wire \cap c.lag,
           Unwritten(d, m) => Unwritten(c, m)
    PROVE  Moves(c, d, m)
<1>1. InQueue(d, m) <=> InQueue(c, m) BY Zenon DEF InQueue
<1>2. \A i, j \in 1..Len(d.requests) : d.requests[i] = m /\ d.requests[j] = m => i = j BY Zenon DEF OnePlace
<1>3. OnePlace(d, m) BY <1>1, <1>2, Zenon DEF OnePlace
<1> QED BY <1>1, <1>3, Zenon DEF Moves, Ahead

LEMMA MovesStill ==
    ASSUME NEW c \in ConnectorType, NEW d \in ConnectorType, NEW m, OnePlace(c, m),
           d.requests = c.requests, d.current = c.current,
           d.wire \cup d.lag = c.wire \cup c.lag, d.wire \cap d.lag \subseteq c.wire \cap c.lag,
           Unwritten(d, m) => Unwritten(c, m)
    PROVE  Moves(c, d, m)
BY MovesLess, Zenon

\* Nothing is unwritten while the operation under way is not a write, or has
\* succeeded.
LEMMA NotUnwritten ==
    ASSUME NEW c \in ConnectorType, NEW m,
           \/ Idle(c)
           \/ \E o \in Ops, x \in Results : Only(c, o, x) /\ (o # "write" \/ x \notin {"pending", "error"})
    PROVE  ~Unwritten(c, m)
<1>1. "write" \in Ops /\ {"pending", "error"} \subseteq Results BY Zenon DEF Ops, Results
<1>2. c.ops["write"]["pending"] = 0 /\ c.ops["write"]["error"] = 0 BY <1>1, Zenon DEF Idle, Only
<1> QED BY <1>2 DEF Unwritten

LEMMA SendRequestMoves ==
    ASSUME NEW c \in ConnectorType, NEW m \in Messages, OnePlace(c, m), Idle(c)
    PROVE  Moves(c, SendRequest(c), m)
<1> DEFINE d == SendRequest(c)
<1>1. CASE c.current # NoMsg \/ c.requests = <<>>
  <2>1. d = c BY <1>1, SendRequestIs, Zenon
  <2> QED BY <2>1, Zenon DEF Moves
<1>2. CASE c.current = NoMsg /\ c.requests # <<>>
  <2>1. /\ d \in ConnectorType /\ d.current = Head(c.requests) /\ d.requests = Tail(c.requests)
        /\ d.wire = c.wire /\ d.lag = c.lag
    BY <1>2, SendRequestIs, Zenon
  <2> HIDE DEF d
  <2>2. c.requests \in Seq(Messages) /\ Len(c.requests) \in Nat BY LenProperties, Zenon DEF ConnectorType
  <2>3. /\ Len(d.requests) = Len(c.requests) - 1
        /\ \A i \in 1..Len(d.requests) : d.requests[i] = c.requests[i + 1]
    BY <1>2, <2>1, <2>2, HeadTailProperties, Zenon
  <2>4. Head(c.requests) = c.requests[1] /\ Len(c.requests) > 0 BY <1>2, <2>2, EmptySeq, LenProperties
  <2>5. \A i, j \in 1..Len(d.requests) : d.requests[i] = m /\ d.requests[j] = m => i = j
    <3> TAKE i, j \in 1..Len(d.requests)
    <3>1. i + 1 \in 1..Len(c.requests) /\ j + 1 \in 1..Len(c.requests) BY <2>2, <2>3
    <3>2. d.requests[i] = c.requests[i + 1] /\ d.requests[j] = c.requests[j + 1] BY <2>3, Zenon
    <3>3. d.requests[i] = m /\ d.requests[j] = m => i + 1 = j + 1 BY <3>1, <3>2, Zenon DEF OnePlace
    <3> QED BY <3>3
  <2>6. InQueue(d, m) => InQueue(c, m)
    <3> SUFFICES ASSUME NEW i \in 1..Len(d.requests), d.requests[i] = m PROVE InQueue(c, m) BY Zenon DEF InQueue
    <3>1. i + 1 \in 1..Len(c.requests) BY <2>2, <2>3
    <3> QED BY <2>3, <3>1, Zenon DEF InQueue
  <2>7. d.current = m => InQueue(c, m)
    <3>1. 1 \in 1..Len(c.requests) BY <2>2, <2>4
    <3> QED BY <2>1, <2>4, <3>1, Zenon DEF InQueue
  <2>8. InQueue(d, m) => d.current # m
    <3> SUFFICES ASSUME NEW i \in 1..Len(d.requests), d.requests[i] = m, d.current = m PROVE FALSE BY Zenon DEF InQueue
    <3>1. i + 1 \in 1..Len(c.requests) /\ 1 \in 1..Len(c.requests) /\ i + 1 # 1 BY <2>2, <2>3
    <3>2. c.requests[i + 1] = m /\ c.requests[1] = m BY <2>1, <2>3, <2>4, Zenon
    <3> QED BY <3>1, <3>2, Zenon DEF OnePlace
  <2>9. Unwritten(d, m) => InQueue(c, m) BY <2>7, Zenon DEF Unwritten
  <2>10. OnePlace(d, m) BY <2>1, <2>5, <2>6, <2>8, <2>9, Zenon DEF OnePlace
  <2>11. Moves(c, d, m) BY <2>1, <2>6, <2>7, <2>9, <2>10, Zenon DEF Moves, Ahead
  <2>12. QED BY <2>11, Zenon DEF d
<1> QED BY <1>1, <1>2, Zenon

LEMMA Prepended ==
    ASSUME NEW S, NEW a \in S, NEW t \in Seq(S)
    PROVE  /\ <<a>> \o t \in Seq(S) /\ Len(<<a>> \o t) = 1 + Len(t)
           /\ \A i \in 1 .. Len(<<a>> \o t) : (<<a>> \o t)[i] = IF i <= 1 THEN a ELSE t[i - 1]
<1> DEFINE s == <<a>>
<1>1. s \in Seq(S) /\ Len(s) = 1 /\ s[1] = a OBVIOUS
<1> HIDE DEF s
<1>2. s \o t \in Seq(S) BY <1>1, ConcatProperties, Zenon
<1>3. Len(s \o t) = 1 + Len(t) BY ZenonT(30), <1>1, ConcatProperties
<1>4. ASSUME NEW i \in 1 .. Len(s \o t) PROVE (s \o t)[i] = IF i <= 1 THEN a ELSE t[i - 1]
  <2>1. (s \o t)[i] = IF i <= Len(s) THEN s[i] ELSE t[i - Len(s)] BY <1>1, <1>3, ConcatProperties, Zenon
  <2>2. CASE i <= 1
    <3>1. i = 1 BY <2>2, <1>3
    <3> QED BY <1>1, <2>1, <3>1, Zenon
  <2>3. CASE ~(i <= 1) BY <1>1, <2>1, <2>3, Zenon
  <2> QED BY <2>2, <2>3, Zenon
<1>5. QED BY <1>2, <1>3, <1>4, Zenon DEF s

\* A message is put at the front of the queue again.
LEMMA BackInQueue ==
    ASSUME NEW c \in ConnectorType, NEW h \in ConnectorType, SameRest(c, h),
           NEW m \in Messages, OnePlace(c, m), c.current # NoMsg,
           c.current = m => Unwritten(c, m)
    PROVE  LET e == [h EXCEPT !.requests = <<h.current>> \o @, !.current = NoMsg]
           IN  /\ e \in ConnectorType /\ e.current = NoMsg /\ e.state = c.state /\ e.back = c.back
               /\ e.ops = h.ops /\ Moves(c, e, m)
<1> DEFINE q == <<h.current>> \o h.requests
           e == [h EXCEPT !.requests = q, !.current = NoMsg]
<1>1. c.current \in Messages /\ h.current = c.current BY Zenon DEF ConnectorType, SameRest
<1>2. c.requests \in Seq(Messages) /\ h.requests = c.requests /\ Len(c.requests) \in Nat
  BY LenProperties, Zenon DEF ConnectorType, SameRest
<1>4. /\ q \in Seq(Messages) /\ Len(q) = 1 + Len(c.requests)
      /\ \A i \in 1..Len(q) : q[i] = IF i <= 1 THEN c.current ELSE c.requests[i - 1]
  <2>1. q = <<c.current>> \o c.requests BY <1>1, <1>2, Zenon
  <2> HIDE DEF q
  <2>2. /\ q \in Seq(Messages) /\ Len(q) = 1 + Len(c.requests)
        /\ \A i \in 1 .. Len(q) : q[i] = IF i <= 1 THEN c.current ELSE c.requests[i - 1]
    BY <1>1, <1>2, <2>1, Prepended
  <2> QED BY <2>2, Zenon
<1> HIDE DEF q
<1>5. e \in ConnectorType BY ZenonT(30), <1>4 DEF ConnectorType
<1>6. /\ e.requests = q /\ e.current = NoMsg /\ e.wire = c.wire /\ e.lag = c.lag
      /\ e.state = c.state /\ e.back = c.back /\ e.ops = h.ops
  BY Zenon DEF ConnectorType, SameRest
<1> HIDE DEF e
<1>7. \A i \in 1..Len(q) : i # 1 => i - 1 \in 1..Len(c.requests) /\ q[i] = c.requests[i - 1] BY <1>2, <1>4
<1>8. q[1] = c.current BY <1>2, <1>4
<1>9. InQueue(e, m) => InQueue(c, m) \/ c.current = m BY <1>6, <1>7, <1>8, Zenon DEF InQueue
<1>10. \A i \in 1..Len(q) : i # 1 /\ q[i] = m => InQueue(c, m) BY <1>7, Zenon DEF InQueue
<1>11. \A i, j \in 1..Len(e.requests) : e.requests[i] = m /\ e.requests[j] = m => i = j
  <2> SUFFICES ASSUME NEW i \in 1..Len(q), NEW j \in 1..Len(q), q[i] = m, q[j] = m PROVE i = j BY <1>6, Zenon
  <2>1. CASE i = 1 \/ j = 1
    <3>1. c.current = m BY <1>8, <2>1, Zenon
    <3>2. ~InQueue(c, m) BY <3>1, Zenon DEF OnePlace
    <3> QED BY <1>10, <3>2, Zenon
  <2>2. CASE i # 1 /\ j # 1
    <3>1. /\ i - 1 \in 1..Len(c.requests) /\ j - 1 \in 1..Len(c.requests)
          /\ c.requests[i - 1] = m /\ c.requests[j - 1] = m
      BY <1>7, <2>2, Zenon
    <3>2. i - 1 = j - 1 BY <3>1, Zenon DEF OnePlace
    <3> QED BY <1>2, <1>4, <3>2
  <2> QED BY <2>1, <2>2, Zenon
<1>12. e.current # m /\ ~Unwritten(e, m) BY <1>6, Zenon DEF Unwritten
<1>13. InQueue(c, m) \/ c.current = m => m \notin c.wire \cup c.lag BY Zenon DEF OnePlace
<1>14. m \notin c.wire \cap c.lag BY Zenon DEF OnePlace
<1>15. OnePlace(e, m) BY <1>6, <1>9, <1>11, <1>12, <1>13, <1>14, Zenon DEF OnePlace
<1>16. Ahead(e, m) => Ahead(c, m) BY <1>6, <1>9, <1>12, Zenon DEF Ahead
<1>17. Moves(c, e, m) BY <1>9, <1>12, <1>15, <1>16, Zenon DEF Moves
<1>18. QED BY <1>5, <1>6, <1>17, Zenon DEF e, q

\* The chain between two messages, and under a change of the queue.
LEMMA ChainAtRest ==
    ASSUME NEW c \in ConnectorType, Chain(c), c.state # "CONNECTING", c.current = NoMsg
    PROVE  Idle(c)
<1>1. {"resolve", "connect", "timer", "write", "read"} = Ops BY Zenon DEF Ops
<1>2. \A o \in Ops : Total(c, o) \in Nat BY TotalIs, Zenon
<1>3. /\ Total(c, "resolve") + Total(c, "connect") + Total(c, "timer") = 0
      /\ Total(c, "write") + Total(c, "read") = 0
  BY Zenon DEF Chain
<1>4. \A o \in Ops : Total(c, o) = 0 BY <1>1, <1>2, <1>3
<1> QED BY <1>4, TotalIs, Zenon DEF Idle

LEMMA ChainQueue ==
    ASSUME NEW c \in ConnectorType, NEW d \in ConnectorType, Chain(c),
           d.state = c.state, d.current = c.current, d.ops = c.ops,
           d.socket = "closed" => c.socket = "closed",
           d.requests # <<>> => c.state = "CONNECTING" \/ c.current # NoMsg
    PROVE  Chain(d)
<1>1. \A o : Total(d, o) = Total(c, o) BY Zenon DEF Total
<1> QED BY <1>1 DEF Chain

\* A message is put at the end of the queue.
Queued(c, msg) == [c EXCEPT !.requests = Append(@, msg)]

LEMMA QueuedIs ==
    ASSUME NEW c \in ConnectorType, NEW msg \in Messages
    PROVE  LET e == Queued(c, msg)
           IN  /\ e \in ConnectorType /\ e.requests # <<>>
               /\ e.state = c.state /\ e.current = c.current /\ e.socket = c.socket /\ e.ops = c.ops
               /\ e.wire = c.wire /\ e.lag = c.lag /\ e.back = c.back /\ e.dead = c.dead
               /\ \A m \in Messages : OnePlace(c, m) /\ m # msg => Moves(c, e, m)
               /\ OnePlace(c, msg) /\ ~Ahead(c, msg) /\ c.current # msg => OnePlace(e, msg)
<1> DEFINE q == Append(c.requests, msg)
           e == Queued(c, msg)
           n == Len(c.requests)
<1>1. c.requests \in Seq(Messages) /\ n \in Nat BY LenProperties, Zenon DEF ConnectorType
<1>2. /\ q \in Seq(Messages) /\ q # <<>> /\ Len(q) = n + 1
      /\ \A i \in 1..n : q[i] = c.requests[i]
      /\ q[n + 1] = msg
  BY <1>1, AppendProperties
<1>3. e = [c EXCEPT !.requests = q] BY Zenon DEF Queued, ConnectorType
<1> HIDE DEF q, e
<1>4. e \in ConnectorType BY ZenonT(30), <1>2, <1>3 DEF ConnectorType
<1>5. /\ e.requests = q /\ e.state = c.state /\ e.current = c.current /\ e.socket = c.socket /\ e.ops = c.ops
      /\ e.wire = c.wire /\ e.lag = c.lag /\ e.back = c.back /\ e.dead = c.dead
  BY <1>3, Zenon DEF ConnectorType
<1> HIDE DEF n
<1>6. \A i \in 1..Len(q) : i \in 1..n \/ i = n + 1 BY <1>1, <1>2
<1>7. ASSUME NEW m, m # msg
      PROVE  /\ InQueue(e, m) <=> InQueue(c, m)
             /\ OnePlace(c, m) => \A i, j \in 1..Len(q) : q[i] = m /\ q[j] = m => i = j
  <2>1. \A i \in 1..Len(q) : q[i] = m => i \in 1..n /\ c.requests[i] = m BY <1>2, <1>6, <1>7, Zenon
  <2>2. \A i \in 1..n : i \in 1..Len(q) BY <1>1, <1>2
  <2>3. InQueue(e, m) <=> InQueue(c, m) BY <1>2, <1>5, <2>1, <2>2, Zenon DEF InQueue, n
  <2>4. OnePlace(c, m) => \A i, j \in 1..n : c.requests[i] = m /\ c.requests[j] = m => i = j
    BY Zenon DEF OnePlace, n
  <2> QED BY <2>1, <2>3, <2>4, Zenon
<1>8. \A m : Unwritten(e, m) <=> Unwritten(c, m) BY <1>5, Zenon DEF Unwritten
<1>9. ASSUME NEW m \in Messages, OnePlace(c, m), m # msg PROVE Moves(c, e, m)
  <2>1. \A i, j \in 1..Len(e.requests) : e.requests[i] = m /\ e.requests[j] = m => i = j BY <1>5, <1>7, <1>9
  <2>2. InQueue(e, m) <=> InQueue(c, m) BY <1>7, <1>9, Zenon
  <2>3. OnePlace(e, m) BY <1>5, <1>8, <1>9, <2>1, <2>2, Zenon DEF OnePlace
  <2> QED BY <1>5, <1>8, <2>2, <2>3, Zenon DEF Moves, Ahead
<1>10. ASSUME OnePlace(c, msg), ~Ahead(c, msg), c.current # msg PROVE OnePlace(e, msg)
  <2>1. \A i \in 1..n : c.requests[i] # msg BY <1>10, Zenon DEF Ahead, InQueue, n
  <2>2. \A i \in 1..Len(q) : q[i] = msg => i = n + 1 BY <1>2, <1>6, <2>1, Zenon
  <2>3. \A i, j \in 1..Len(e.requests) : e.requests[i] = msg /\ e.requests[j] = msg => i = j BY <1>5, <2>2, Zenon
  <2>4. e.current # msg /\ msg \notin e.wire \cup e.lag BY <1>5, <1>10, Zenon DEF Ahead
  <2> QED BY <2>3, <2>4, Zenon DEF OnePlace
<1>11. QED BY <1>2, <1>4, <1>5, <1>9, <1>10, Zenon DEF e

\* A message is sent.
LEMMA SendImplIs ==
    ASSUME NEW c \in ConnectorType, NEW msg \in Messages
    PROVE  LET d == SendImpl(c, msg)
           IN  /\ Derived(c, d)
               /\ Chain(c) /\ ~d.dead =>
                    /\ Chain(d)
                    /\ \A m \in Messages : OnePlace(Queued(c, msg), m) => Moves(Queued(c, msg), d, m)
<1> DEFINE e == Queued(c, msg)
           d == SendImpl(c, msg)
<1>1. /\ e \in ConnectorType /\ e.requests # <<>>
      /\ e.state = c.state /\ e.current = c.current /\ e.socket = c.socket /\ e.ops = c.ops
      /\ e.wire = c.wire /\ e.lag = c.lag /\ e.back = c.back
  BY QueuedIs, Zenon
<1>2. c.state \in {"INITIAL", "CONNECTING", "COMMUNICATING"} BY Zenon DEF ConnectorType
<1>3. CASE Exists(c, msg.id)
  <2>1. d = Terminated(c) BY <1>3, Zenon DEF SendImpl
  <2>2. d \in ConnectorType /\ d.dead /\ d.back = c.back BY ZenonT(30), <2>1 DEF Terminated, ConnectorType
  <2> QED BY <2>2, Zenon DEF Derived
<1>4. CASE ~Exists(c, msg.id) /\ c.state = "INITIAL"
  <2>1. d = Resolve(e) BY <1>4, Zenon DEF SendImpl, Queued
  <2> HIDE DEF e, d
  <2>2. /\ d \in ConnectorType /\ d.back = c.back /\ d.state = "CONNECTING"
        /\ d.current = e.current /\ d.requests = e.requests /\ d.wire = e.wire /\ d.lag = e.lag
        /\ Idle(e) => Only(d, "resolve", "pending")
    BY <1>1, <1>4, <2>1, ResolveIs
  <2>3. ASSUME Chain(c)
        PROVE  Chain(d) /\ \A m \in Messages : OnePlace(e, m) => Moves(e, d, m)
    <3>1. c.current = NoMsg BY <1>4, <2>3, Zenon DEF Chain
    <3>2. Idle(e) BY <1>1, <1>4, <2>3, <3>1, ChainAtRest, Zenon DEF Idle
    <3>3. "pending" \in Results /\ "resolve" \in Ops BY Zenon DEF Results, Ops
    <3>4. Chain(d) BY <1>1, <2>2, <3>1, <3>2, <3>3, ChainMaking, Zenon
    <3>5. \A m : ~Unwritten(d, m) BY <2>2, <3>2, <3>3, NotUnwritten, Zenon
    <3> QED BY <1>1, <2>2, <3>4, <3>5, MovesStill, Zenon
  <2>4. QED BY SMTT(30), <2>2, <2>3 DEF Derived, d, e
<1>5. CASE ~Exists(c, msg.id) /\ c.state = "CONNECTING"
  <2>1. d = e BY <1>5, Zenon DEF SendImpl, Queued
  <2>2. Chain(c) => Chain(e)
    <3> HIDE DEF e
    <3> QED BY <1>1, <1>5, ChainQueue, Zenon
  <2> QED BY <1>1, <2>1, <2>2, Zenon DEF Derived, Moves
<1>6. CASE ~Exists(c, msg.id) /\ c.state = "COMMUNICATING"
  <2>1. d = SendRequest(e) BY <1>6, Zenon DEF SendImpl, Queued
  <2> HIDE DEF d, e
  <2>2. d \in ConnectorType /\ d.back = c.back /\ d.state = c.state BY <1>1, <2>1, SendRequestIs, Zenon
  <2>3. ASSUME Chain(c), c.current # NoMsg
        PROVE  Chain(d) /\ \A m \in Messages : OnePlace(e, m) => Moves(e, d, m)
    <3>1. d = e BY <1>1, <2>1, <2>3, SendRequestIs, Zenon
    <3>2. Chain(e) BY <1>1, <2>3, ChainQueue, Zenon
    <3> QED BY <3>1, <3>2, Zenon DEF Moves
  <2>4. ASSUME Chain(c), c.current = NoMsg
        PROVE  Chain(d) /\ \A m \in Messages : OnePlace(e, m) => Moves(e, d, m)
    <3>1. Idle(e) BY <1>1, <1>6, <2>4, ChainAtRest, Zenon DEF Idle
    <3>2. /\ d.current \in Messages
          /\ \E x \in {"pending", "error"} : Only(d, "write", x)
      BY <1>1, <2>1, <2>4, <3>1, SendRequestIs, Zenon
    <3>3. {"pending", "error"} \subseteq Results BY Zenon DEF Results
    <3>4. Chain(d) BY <1>6, <2>2, <3>2, <3>3, ChainCarrying, Zenon
    <3> QED BY <1>1, <2>1, <3>1, <3>4, SendRequestMoves, Zenon
  <2>5. QED BY <2>2, <2>3, <2>4, Zenon DEF Derived, d, e
<1> QED BY <1>2, <1>3, <1>4, <1>5, <1>6, Zenon

\* The place of the i-th element before the k-th was removed.
Past(k, i) == IF i < k THEN i ELSE i + 1

Without(s, k) == SubSeq(s, 1, k - 1) \o SubSeq(s, k + 1, Len(s))

LEMMA WithoutIs ==
    ASSUME NEW S, NEW s \in Seq(S), NEW k \in 1..Len(s)
    PROVE  /\ Without(s, k) \in Seq(S) /\ Len(Without(s, k)) = Len(s) - 1
           /\ \A i \in 1..Len(s) - 1 : Without(s, k)[i] = s[Past(k, i)]
<1> DEFINE a == SubSeq(s, 1, k - 1)
           b == SubSeq(s, k + 1, Len(s))
<1>1. Len(s) \in Nat /\ k \in Nat /\ k >= 1 /\ k <= Len(s) /\ \A i \in 1..Len(s) : s[i] \in S
  BY LenProperties, ElementOfSeq
<1>2. a \in Seq(S) /\ Len(a) = k - 1 /\ \A i \in 1..k - 1 : a[i] = s[i]
  <2>1. \A i \in 1..k - 1 : s[i] \in S BY <1>1
  <2>2. /\ a \in Seq(S) /\ Len(a) = IF 1 <= k - 1 THEN k - 1 - 1 + 1 ELSE 0
        /\ \A i \in 1..k - 1 - 1 + 1 : a[i] = s[1 + i - 1]
    BY <1>1, <2>1, SubSeqProperties
  <2> HIDE DEF a
  <2> QED BY <1>1, <2>2
<1>3. b \in Seq(S) /\ Len(b) = Len(s) - k /\ \A i \in 1..Len(s) - k : b[i] = s[k + i]
  <2>1. \A i \in k + 1..Len(s) : s[i] \in S BY <1>1
  <2>2. /\ b \in Seq(S) /\ Len(b) = IF k + 1 <= Len(s) THEN Len(s) - (k + 1) + 1 ELSE 0
        /\ \A i \in 1..Len(s) - (k + 1) + 1 : b[i] = s[k + 1 + i - 1]
    BY <1>1, <2>1, SubSeqProperties
  <2> HIDE DEF b
  <2> QED BY <1>1, <2>2
<1>4. Without(s, k) = a \o b BY Zenon DEF Without
<1> HIDE DEF a, b
<1>5. a \o b \in Seq(S) /\ Len(a \o b) = Len(s) - 1
  <2>1. a \o b \in Seq(S) /\ Len(a \o b) = Len(a) + Len(b) BY ZenonT(30), <1>2, <1>3, ConcatProperties
  <2> QED BY <1>1, <1>2, <1>3, <2>1
<1>6. ASSUME NEW i \in 1..Len(s) - 1 PROVE (a \o b)[i] = s[Past(k, i)]
  <2>1. i \in 1..Len(a) + Len(b) BY <1>1, <1>2, <1>3
  <2>2. (a \o b)[i] = IF i <= Len(a) THEN a[i] ELSE b[i - Len(a)] BY ZenonT(30), <1>2, <1>3, <2>1, ConcatProperties
  <2>3. CASE i < k BY <1>1, <1>2, <2>2, <2>3 DEF Past
  <2>4. CASE ~(i < k)
    <3>1. i - (k - 1) \in 1..Len(s) - k /\ k + (i - (k - 1)) = i + 1 /\ ~(i <= k - 1) BY <1>1, <2>4
    <3> QED BY <1>2, <1>3, <2>2, <2>4, <3>1, Zenon DEF Past
  <2> QED BY ZenonT(30), <2>3, <2>4
<1> QED BY <1>4, <1>5, <1>6, Zenon

\* A message is taken out of the queue.
LEMMA RemovedIs ==
    ASSUME NEW c \in ConnectorType, NEW id
    PROVE  LET e == [c EXCEPT !.requests = Removed(c, id)]
           IN  /\ e \in ConnectorType
               /\ e.state = c.state /\ e.current = c.current /\ e.socket = c.socket /\ e.ops = c.ops
               /\ e.back = c.back /\ e.dead = c.dead
               /\ c.requests = <<>> => e.requests = <<>>
               /\ \A m \in Messages : OnePlace(c, m) => Moves(c, e, m)
               /\ \A m : InQueue(e, m) => InQueue(c, m)
<1> DEFINE q == Removed(c, id)
           e == [c EXCEPT !.requests = q]
           n == Len(c.requests)
<1>1. c.requests \in Seq(Messages) /\ n \in Nat /\ DOMAIN c.requests = 1..n BY LenProperties, Zenon DEF ConnectorType
<1>2. /\ q \in Seq(Messages) /\ Len(q) <= n
      /\ \E k \in Nat : \A i \in 1..Len(q) :
            Past(k, i) \in 1..n /\ q[i] = c.requests[Past(k, i)]
  <2>1. CASE ~Exists(c, id)
    <3>1. q = c.requests BY <2>1, Zenon DEF Removed
    <3>2. \A i \in 1..n : Past(n + 1, i) = i BY <1>1 DEF Past
    <3>3. n + 1 \in Nat /\ Len(q) <= n /\ q \in Seq(Messages) BY <1>1, <3>1
    <3>4. \A i \in 1..Len(q) : Past(n + 1, i) \in 1..n /\ q[i] = c.requests[Past(n + 1, i)] BY <3>1, <3>2, Zenon
    <3> HIDE DEF q
    <3> QED BY ZenonT(30), <3>3, <3>4
  <2>2. CASE Exists(c, id)
    <3> DEFINE k == CHOOSE i \in DOMAIN c.requests : c.requests[i].id = id
    <3>1. k \in 1..n BY <1>1, <2>2, Zenon DEF Exists
    <3>2. q = Without(c.requests, k) BY ZenonT(30), <2>2 DEF Removed, Without
    <3> HIDE DEF k, q
    <3>3. /\ q \in Seq(Messages) /\ Len(q) = n - 1
          /\ \A i \in 1..n - 1 : q[i] = c.requests[Past(k, i)]
      BY <1>1, <3>1, <3>2, WithoutIs, Zenon
    <3>4. \A i \in 1..n - 1 : Past(k, i) \in 1..n BY <1>1, <3>1 DEF Past
    <3>5. Len(q) <= n /\ k \in Nat BY <1>1, <3>1, <3>3
    <3> QED BY ZenonT(30), <3>3, <3>4, <3>5
  <2> QED BY <2>1, <2>2, Zenon
<1>3. PICK k \in Nat : \A i \in 1..Len(q) :
            Past(k, i) \in 1..n /\ q[i] = c.requests[Past(k, i)]
  BY <1>2, Zenon
<1> HIDE DEF q
<1>4. e \in ConnectorType BY ZenonT(30), <1>2 DEF ConnectorType
<1>5. /\ e.requests = q /\ e.state = c.state /\ e.current = c.current /\ e.socket = c.socket /\ e.ops = c.ops
      /\ e.wire = c.wire /\ e.lag = c.lag /\ e.back = c.back /\ e.dead = c.dead
  BY Zenon DEF ConnectorType
<1>6. c.requests = <<>> => e.requests = <<>>
  <2>1. Len(q) \in Nat BY <1>2, LenProperties, Zenon
  <2>2. c.requests = <<>> => Len(q) = 0 BY <1>1, <1>2, <2>1, EmptySeq
  <2> QED BY <1>2, <1>5, <2>2, EmptySeq, Zenon
<1> HIDE DEF e
<1>7. ASSUME NEW m \in Messages, OnePlace(c, m) PROVE Moves(c, e, m)
  <2>1. InQueue(e, m) => InQueue(c, m) BY <1>3, <1>5, Zenon DEF InQueue
  <2>2. \A i, j \in 1..n : c.requests[i] = m /\ c.requests[j] = m => i = j BY <1>7, Zenon DEF OnePlace
  <2>3. ASSUME NEW i \in 1..Len(q), NEW j \in 1..Len(q), q[i] = m, q[j] = m PROVE i = j
    <3>1. Past(k, i) = Past(k, j) BY ZenonT(30), <1>3, <2>2, <2>3
    <3>2. i \in Int /\ j \in Int BY <1>2, LenProperties
    <3> QED BY <3>1, <3>2 DEF Past
  <2>4. \A i, j \in 1..Len(e.requests) : e.requests[i] = m /\ e.requests[j] = m => i = j BY <1>5, <2>3, Zenon
  <2>5. Unwritten(e, m) <=> Unwritten(c, m) BY <1>5, Zenon DEF Unwritten
  <2>6. OnePlace(e, m) BY <1>5, <1>7, <2>1, <2>4, <2>5, Zenon DEF OnePlace
  <2> QED BY <1>5, <2>1, <2>5, <2>6, Zenon DEF Moves, Ahead
<1>8. \A m : InQueue(e, m) => InQueue(c, m) BY <1>3, <1>5, Zenon DEF InQueue
<1>9. QED BY <1>4, <1>5, <1>6, <1>7, <1>8, Zenon DEF e, q

LEMMA CancelIs ==
    ASSUME NEW c \in ConnectorType, NEW id
    PROVE  LET d == Cancel(c, id)
           IN  /\ Derived(c, d)
               /\ ~IsCurrent(c, id) =>
                    /\ Chain(c) => Chain(d)
                    /\ \A m \in Messages : OnePlace(c, m) => Moves(c, d, m)
<1> DEFINE e == [c EXCEPT !.requests = Removed(c, id)]
           f == [e EXCEPT !.current = NoMsg]
           d == Cancel(c, id)
<1>1. /\ e \in ConnectorType
      /\ e.state = c.state /\ e.current = c.current /\ e.socket = c.socket /\ e.ops = c.ops
      /\ e.back = c.back /\ e.dead = c.dead
      /\ c.requests = <<>> => e.requests = <<>>
      /\ \A m \in Messages : OnePlace(c, m) => Moves(c, e, m)
  BY SMTT(30), RemovedIs
<1>2. CASE ~IsCurrent(c, id)
  <2>1. d = e BY <1>2, Zenon DEF Cancel
  <2> HIDE DEF d, e
  <2>2. Chain(c) => (c.requests # <<>> => c.state = "CONNECTING" \/ c.current # NoMsg) BY Zenon DEF Chain
  <2>3. Chain(c) => Chain(e) BY <1>1, <2>2, ChainQueue, Zenon
  <2>4. QED BY <1>1, <2>1, <2>3, Zenon DEF Derived, d
<1>3. CASE IsCurrent(c, id)
  <2>1. d = IF c.state = "COMMUNICATING" THEN Restart(f) ELSE f BY <1>3, Zenon DEF Cancel
  <2> HIDE DEF d, e
  <2>2. f \in ConnectorType /\ f.back = c.back BY ZenonT(30), <1>1 DEF ConnectorType
  <2> HIDE DEF f
  <2>3. Derived(f, Restart(f)) BY <2>2, RestartIs, Zenon
  <2>4. QED BY <1>3, <2>1, <2>2, <2>3, Zenon DEF Derived, d
<1> QED BY <1>2, <1>3, Zenon

-------------------------------------------------------------------------------
(***************************************************************************)
(* The handlers, with h the connector once the operation is over.          *)
(***************************************************************************)
Goes(h, d) == Chain(d) /\ \A m \in Messages : OnePlace(h, m) => Moves(h, d, m)

LEMMA HandledMoves ==
    ASSUME NEW c \in ConnectorType, NEW h \in ConnectorType, SameRest(c, h), Idle(h),
           NEW m, OnePlace(c, m)
    PROVE  Moves(c, h, m)
<1>1. ~Unwritten(h, m) BY NotUnwritten, Zenon
<1> QED BY <1>1, MovesStill, Zenon DEF SameRest

\* A wait is begun: nothing else changes.
LEMMA TimerGoes ==
    ASSUME NEW h \in ConnectorType
    PROVE  /\ Derived(h, Begin(h, "timer"))
           /\ Idle(h) /\ h.state = "CONNECTING" /\ h.current = NoMsg => Goes(h, Begin(h, "timer"))
<1> DEFINE d == Begin(h, "timer")
<1>1. "timer" \in Ops /\ "pending" \in Results BY Zenon DEF Ops, Results
<1>2. d \in ConnectorType /\ SameRest(h, d) /\ (Idle(h) => Only(d, "timer", "pending")) BY <1>1, BeginFromIdle, Zenon
<1> HIDE DEF d
<1>3. Derived(h, d) BY <1>2, Zenon DEF Derived, SameRest
<1>4. ASSUME Idle(h), h.state = "CONNECTING", h.current = NoMsg PROVE Goes(h, d)
  <2>1. Chain(d) BY <1>1, <1>2, <1>4, ChainMaking, Zenon DEF SameRest
  <2>2. \A m : ~Unwritten(d, m) BY <1>1, <1>2, <1>4, NotUnwritten, Zenon
  <2>3. \A m \in Messages : OnePlace(h, m) => Moves(h, d, m) BY <1>2, <2>2, MovesStill, Zenon DEF SameRest
  <2> QED BY <2>1, <2>3, Zenon DEF Goes
<1>5. QED BY <1>3, <1>4, Zenon DEF d

LEMMA RestartGoes ==
    ASSUME NEW h \in ConnectorType, Idle(h), h.current = NoMsg, ~Restart(h).dead
    PROVE  Goes(h, Restart(h))
<1> DEFINE d == Restart(h)
<1>1. "resolve" \in Ops /\ "pending" \in Results BY Zenon DEF Ops, Results
<1>2. /\ d \in ConnectorType /\ d.current = h.current /\ d.requests = h.requests
      /\ d.wire \cup d.lag = h.wire \cup h.lag /\ d.wire \cap d.lag \subseteq h.wire \cap h.lag
      /\ d.state = "CONNECTING" /\ Only(d, "resolve", "pending")
  BY RestartIs, Zenon DEF Derived
<1> HIDE DEF d
<1>3. Chain(d) BY <1>1, <1>2, ChainMaking, Zenon
<1>4. \A m : ~Unwritten(d, m) BY <1>1, <1>2, NotUnwritten, Zenon
<1>5. \A m \in Messages : OnePlace(h, m) => Moves(h, d, m) BY <1>2, <1>4, MovesStill, Zenon
<1>6. QED BY <1>3, <1>5, Zenon DEF Goes, d

LEMMA SendRequestGoes ==
    ASSUME NEW h \in ConnectorType, Idle(h), h.state = "COMMUNICATING", h.current = NoMsg
    PROVE  Goes(h, SendRequest(h))
<1> DEFINE d == SendRequest(h)
<1>1. \A m \in Messages : OnePlace(h, m) => Moves(h, d, m) BY SendRequestMoves, Zenon
<1>2. CASE h.requests = <<>>
  <2>1. d = h BY <1>2, SendRequestIs, Zenon
  <2>2. Chain(h) BY <1>2, ChainIdle, Zenon
  <2> QED BY <1>1, <2>1, <2>2, Zenon DEF Goes
<1>3. CASE h.requests # <<>>
  <2>1. /\ d \in ConnectorType /\ d.state = "COMMUNICATING" /\ d.current \in Messages
        /\ \E x \in {"pending", "error"} : Only(d, "write", x)
    BY <1>3, SendRequestIs, Zenon
  <2> HIDE DEF d
  <2>2. {"pending", "error"} \subseteq Results BY Zenon DEF Results
  <2>3. Chain(d) BY <2>1, <2>2, ChainCarrying, Zenon
  <2>4. QED BY <1>1, <2>3, Zenon DEF Goes, d
<1> QED BY <1>2, <1>3, Zenon

LEMMA GoesOn ==
    ASSUME NEW h, NEW e, NEW d, \A m \in Messages : OnePlace(h, m) => Moves(h, e, m), Goes(e, d)
    PROVE  Goes(h, d)
<1> SUFFICES ASSUME NEW m \in Messages, OnePlace(h, m) PROVE Moves(h, d, m) BY Zenon DEF Goes
<1>1. Moves(h, e, m) OBVIOUS
<1>2. Moves(e, d, m) BY <1>1, Zenon DEF Moves, Goes
<1> QED BY <1>1, <1>2, MovesOn, Zenon

LEMMA ResolvedGoes ==
    ASSUME NEW h \in ConnectorType, NEW x
    PROVE  /\ Derived(h, Resolved(h, x))
           /\ Idle(h) /\ h.state = "CONNECTING" /\ h.current = NoMsg => Goes(h, Resolved(h, x))
<1>1. CASE x # "ok" BY <1>1, TimerGoes, Zenon DEF Resolved
<1>2. CASE x = "ok"
  <2> DEFINE d == Connect(h)
  <2>1. Resolved(h, x) = d BY <1>2, Zenon DEF Resolved
  <2>2. /\ Derived(h, d) /\ d.state = h.state /\ d.current = h.current /\ d.requests = h.requests
        /\ d.socket = "open" /\ d.wire = {} /\ d.lag = h.lag \cup h.wire
        /\ Idle(h) => Only(d, "connect", "pending")
    BY ConnectIs, Zenon
  <2> HIDE DEF d
  <2>3. ASSUME Idle(h), h.state = "CONNECTING", h.current = NoMsg PROVE Goes(h, d)
    <3>1. "connect" \in Ops /\ "pending" \in Results /\ d \in ConnectorType BY <2>2, Zenon DEF Ops, Results, Derived
    <3>2. Chain(d) BY <2>2, <2>3, <3>1, ChainMaking, Zenon
    <3>3. \A m : ~Unwritten(d, m) BY <2>2, <2>3, <3>1, NotUnwritten, Zenon
    <3>4. d.wire \cup d.lag = h.wire \cup h.lag /\ d.wire \cap d.lag \subseteq h.wire \cap h.lag BY <2>2, Zenon
    <3>5. \A m \in Messages : OnePlace(h, m) => Moves(h, d, m) BY <2>2, <3>1, <3>3, <3>4, MovesStill, Zenon
    <3> QED BY <3>2, <3>5, Zenon DEF Goes
  <2> QED BY <2>1, <2>2, <2>3, Zenon
<1> QED BY <1>1, <1>2, Zenon

LEMMA ConnectedGoes ==
    ASSUME NEW h \in ConnectorType, NEW x
    PROVE  /\ Derived(h, Connected(h, x))
           /\ Idle(h) /\ h.state = "CONNECTING" /\ h.current = NoMsg /\ h.socket # "closed" =>
                 Goes(h, Connected(h, x))
<1>1. CASE h.socket = "closed" BY <1>1, Zenon DEF Connected, Derived
<1>2. CASE h.socket # "closed" /\ x # "ok" BY <1>2, TimerGoes, Zenon DEF Connected
<1>3. CASE h.socket # "closed" /\ x = "ok"
  <2> DEFINE e == [h EXCEPT !.state = "COMMUNICATING"]
             d == SendRequest(e)
  <2>1. Connected(h, x) = d BY <1>3, Zenon DEF Connected
  <2>2. /\ e \in ConnectorType /\ e.state = "COMMUNICATING" /\ e.current = h.current /\ e.requests = h.requests
        /\ e.ops = h.ops /\ e.wire = h.wire /\ e.lag = h.lag /\ e.back = h.back
    BY ZenonT(30) DEF ConnectorType
  <2> HIDE DEF e
  <2>3. Derived(h, d) BY <2>2, SendRequestIs, Zenon DEF Derived
  <2>4. ASSUME Idle(h), h.state = "CONNECTING", h.current = NoMsg PROVE Goes(h, d)
    <3>1. Idle(e) BY <2>2, <2>4, Zenon DEF Idle
    <3>2. Goes(e, d) BY <2>2, <2>4, <3>1, SendRequestGoes, Zenon
    <3>3. \A m : Unwritten(e, m) => Unwritten(h, m) BY <2>2, Zenon DEF Unwritten
    <3>4. \A m \in Messages : OnePlace(h, m) => Moves(h, e, m) BY <2>2, <3>3, MovesStill, Zenon
    <3> HIDE DEF d
    <3> QED BY <3>2, <3>4, GoesOn, Zenon
  <2> QED BY <2>1, <2>3, <2>4, Zenon
<1> QED BY <1>1, <1>2, <1>3, Zenon

LEMMA AwakenGoes ==
    ASSUME NEW h \in ConnectorType
    PROVE  /\ Derived(h, AwakenForRestart(h))
           /\ Idle(h) /\ h.state = "CONNECTING" /\ h.current = NoMsg /\ ~AwakenForRestart(h).dead =>
                 Goes(h, AwakenForRestart(h))
<1>1. CASE h.state # "CONNECTING" BY <1>1, Zenon DEF AwakenForRestart, Derived
<1>2. CASE h.state = "CONNECTING" BY <1>2, RestartIs, RestartGoes, Zenon DEF AwakenForRestart
<1> QED BY <1>1, <1>2, Zenon

\* A message whose write failed was not sent; one that was written is answered.
LEMMA RequestSentGoes ==
    ASSUME NEW c \in ConnectorType, NEW h \in ConnectorType, SameRest(c, h),
           NEW x \in {"ok", "error", "aborted"}
    PROVE  /\ Derived(c, RequestSent(h, x))
           /\ Idle(h) /\ Only(c, "write", x) /\ x # "aborted" /\ c.current # NoMsg
              /\ c.state = "COMMUNICATING" /\ ~RequestSent(h, x).dead => Goes(c, RequestSent(h, x))
<1> DEFINE d == RequestSent(h, x)
<1>1. h.current = c.current /\ h.back = c.back /\ h.state = c.state BY Zenon DEF SameRest
<1>2. CASE x = "aborted" BY <1>1, <1>2, RestartIs, Zenon DEF RequestSent, Derived
<1>3. CASE x # "aborted" /\ c.current = NoMsg BY <1>1, <1>3, Zenon DEF RequestSent, Derived
<1>4. CASE x = "error" /\ c.current # NoMsg
  <2> DEFINE e == [h EXCEPT !.requests = <<h.current>> \o @, !.current = NoMsg]
  <2>1. d = Restart(e) BY <1>1, <1>4, Zenon DEF RequestSent
  <2>2. e \in ConnectorType /\ e.back = c.back /\ e.current = NoMsg /\ e.ops = h.ops
    <3>1. h.current \in Messages /\ h.requests \in Seq(Messages) BY <1>1, <1>4, Zenon DEF ConnectorType
    <3>2. <<h.current>> \o h.requests \in Seq(Messages) BY <3>1, Prepended, Zenon
    <3> QED BY ZenonT(30), <1>1, <3>2 DEF ConnectorType
  <2>3. ASSUME Only(c, "write", x), NEW m \in Messages, OnePlace(c, m) PROVE Moves(c, e, m)
    <3>1. c.ops["write"]["error"] > 0 BY <1>4, <2>3 DEF Only
    <3>2. c.current = m => Unwritten(c, m) BY <3>1, Zenon DEF Unwritten
    <3> QED BY ZenonT(30), <1>4, <2>3, <3>2, BackInQueue
  <2> HIDE DEF d, e
  <2>4. Derived(c, d) BY <2>1, <2>2, RestartIs, Zenon DEF Derived
  <2>5. ASSUME Idle(h), Only(c, "write", x), ~d.dead PROVE Goes(c, d)
    <3>1. Idle(e) BY <2>2, <2>5, Zenon DEF Idle
    <3>2. Goes(e, d) BY <2>1, <2>2, <2>5, <3>1, RestartGoes, Zenon
    <3> QED BY <2>3, <2>5, <3>2, GoesOn, Zenon
  <2>6. QED BY <2>4, <2>5, Zenon DEF d
<1>5. CASE x = "ok" /\ c.current # NoMsg
  <2>1. d = BeginIO(h, "read") BY <1>1, <1>5, Zenon DEF RequestSent
  <2>2. "read" \in Ops /\ {"pending", "error"} \subseteq Results BY Zenon DEF Ops, Results
  <2> HIDE DEF d
  <2>3. /\ d \in ConnectorType /\ SameRest(h, d)
        /\ Idle(h) => \E y \in {"pending", "error"} : Only(d, "read", y)
    BY <2>1, <2>2, BeginIOFromIdle, Zenon
  <2>4. Derived(c, d) BY <1>1, <2>3, Zenon DEF Derived, SameRest
  <2>5. ASSUME Idle(h), c.state = "COMMUNICATING" PROVE Goes(c, d)
    <3>1. PICK y \in {"pending", "error"} : Only(d, "read", y) BY <2>3, <2>5, Zenon
    <3>2. Chain(d) BY <1>1, <1>5, <2>2, <2>3, <2>5, <3>1, ChainCarrying, Zenon DEF SameRest
    <3>3. \A m : ~Unwritten(d, m) BY <2>2, <2>3, <3>1, NotUnwritten, Zenon
    <3>4. \A m \in Messages : OnePlace(c, m) => Moves(c, d, m) BY <2>3, <3>3, MovesStill, Zenon DEF SameRest
    <3> QED BY <3>2, <3>4, Zenon DEF Goes
  <2>6. QED BY <2>4, <2>5, Zenon DEF d
<1> QED BY <1>2, <1>3, <1>4, <1>5, Zenon

\* The answers of d are some of those of c.
Kept(c, d) == d \in ConnectorType /\ \A i \in 1..Len(d.back) : \E j \in 1..Len(c.back) : d.back[i] = c.back[j]

LEMMA DerivedIsKept ==
    ASSUME NEW c \in ConnectorType, NEW d, Derived(c, d)
    PROVE  Kept(c, d)
<1>1. CASE d.back = c.back BY <1>1, Zenon DEF Derived, Kept
<1>2. CASE d.back = <<>>
  <2>1. Len(d.back) = 0 BY SMTT(30), <1>2
  <2> QED BY <2>1 DEF Derived, Kept
<1> QED BY <1>1, <1>2, Zenon DEF Derived

LEMMA ResponseReceivedGoes ==
    ASSUME NEW h \in ConnectorType, NEW x, NEW found \in {"error", "garbled", "answer"},
           found = "answer" => h.back # <<>>
    PROVE  LET d == ResponseReceived(h, x, found)
           IN  /\ Kept(h, d)
               /\ found = "answer" /\ x # "aborted" /\ h.current # NoMsg /\ ~d.dead => Head(h.back).id = h.current.id
               /\ Idle(h) /\ x # "aborted" /\ h.current # NoMsg /\ h.state = "COMMUNICATING" /\ ~d.dead => Goes(h, d)
<1> DEFINE d == ResponseReceived(h, x, found)
           e == [h EXCEPT !.current = NoMsg]
           f == [e EXCEPT !.back = Tail(@)]
<1>1. CASE x = "aborted" \/ (h.current = NoMsg /\ x = "error")
  <2>1. d = Restart(h) BY <1>1, Zenon DEF ResponseReceived
  <2> QED BY <1>1, <2>1, RestartIs, DerivedIsKept, Zenon
<1>2. CASE x \notin {"aborted", "error"} /\ h.current = NoMsg
  <2>1. d = SendRequest(h) BY <1>2, Zenon DEF ResponseReceived
  <2>2. Derived(h, SendRequest(h)) BY SMTT(30), SendRequestIs DEF Derived
  <2> QED BY <1>2, <2>1, <2>2, DerivedIsKept, Zenon
<1>3. ASSUME x # "aborted", h.current # NoMsg
      PROVE  /\ Kept(h, d)
             /\ found = "answer" /\ ~d.dead => Head(h.back).id = h.current.id
             /\ Idle(h) /\ h.state = "COMMUNICATING" /\ ~d.dead => Goes(h, d)
  <2>1. /\ e \in ConnectorType /\ e.current = NoMsg /\ e.requests = h.requests /\ e.wire = h.wire
        /\ e.lag = h.lag /\ e.ops = h.ops /\ e.back = h.back /\ e.state = h.state
    BY ZenonT(30) DEF ConnectorType
  <2>2. ASSUME NEW g \in ConnectorType, g.current = NoMsg, g.requests = h.requests, g.wire = h.wire,
               g.lag = h.lag, g.ops = h.ops, Idle(h), NEW m \in Messages, OnePlace(h, m)
        PROVE  Moves(h, g, m) /\ Idle(g)
    <3>1. Idle(g) BY <2>2, Zenon DEF Idle
    <3>2. InQueue(g, m) <=> InQueue(h, m) BY <2>2, Zenon DEF InQueue
    <3>3. ~Unwritten(g, m) BY <3>1, NotUnwritten, Zenon
    <3>4. g.current # m BY SMTT(30), <2>2
    <3>5. \A i, j \in 1..Len(g.requests) : g.requests[i] = m /\ g.requests[j] = m => i = j
      BY <2>2, Zenon DEF OnePlace
    <3>6. OnePlace(g, m) BY <2>2, <3>2, <3>3, <3>4, <3>5, Zenon DEF OnePlace
    <3> QED BY <2>2, <3>1, <3>2, <3>3, <3>4, <3>6, Zenon DEF Moves, Ahead
  <2>3. CASE found = "error"
    <3>1. d = Restart(e) BY <1>3, <2>3, Zenon DEF ResponseReceived
    <3> HIDE DEF d, e
    <3>2. Derived(h, d) BY <2>1, <3>1, RestartIs, Zenon DEF Derived
    <3>3. ASSUME Idle(h), ~d.dead PROVE Goes(h, d)
      <4>1. Idle(e) BY <2>1, <3>3, Zenon DEF Idle
      <4>2. Goes(e, d) BY <2>1, <3>1, <3>3, <4>1, RestartGoes, Zenon
      <4> QED BY <2>1, <2>2, <3>3, <4>2, GoesOn, Zenon
    <3> QED BY <2>3, <3>2, <3>3, DerivedIsKept, Zenon
  <2>4. CASE found = "garbled" \/ (found = "answer" /\ Head(h.back).id # h.current.id)
    <3>1. d = Terminated(h) BY <1>3, <2>4, Zenon DEF ResponseReceived
    <3>2. d \in ConnectorType /\ d.dead /\ d.back = h.back BY ZenonT(30), <3>1 DEF Terminated, ConnectorType
    <3> QED BY <3>2, DerivedIsKept, Zenon DEF Derived
  <2>5. CASE found = "answer" /\ Head(h.back).id = h.current.id
    <3>1. d = SendRequest(f) BY <1>3, <2>5, Zenon DEF ResponseReceived
    <3>2. h.back \in Seq([id : Reqs, status : Statuses]) BY Zenon DEF ConnectorType
    <3>3. /\ Tail(h.back) \in Seq([id : Reqs, status : Statuses]) /\ Len(Tail(h.back)) = Len(h.back) - 1
          /\ \A i \in 1..Len(Tail(h.back)) : Tail(h.back)[i] = h.back[i + 1]
      BY <2>5, <3>2, HeadTailProperties, Zenon
    <3>4. /\ f \in ConnectorType /\ f.current = NoMsg /\ f.requests = h.requests /\ f.wire = h.wire
          /\ f.lag = h.lag /\ f.ops = h.ops /\ f.back = Tail(h.back) /\ f.state = h.state
      BY ZenonT(30), <3>3 DEF ConnectorType
    <3> HIDE DEF d, f
    <3>5. d \in ConnectorType /\ d.back = Tail(h.back) BY <3>1, <3>4, SendRequestIs, Zenon
    <3>6. \A i \in 1..Len(d.back) : i + 1 \in 1..Len(h.back) /\ d.back[i] = h.back[i + 1]
      BY <3>2, <3>3, <3>5, LenProperties
    <3>7. Kept(h, d) BY <3>5, <3>6, Zenon DEF Kept
    <3>8. ASSUME Idle(h), h.state = "COMMUNICATING" PROVE Goes(h, d)
      <4>1. Idle(f) BY <3>4, <3>8, Zenon DEF Idle
      <4>2. Goes(f, d) BY <3>1, <3>4, <3>8, <4>1, SendRequestGoes, Zenon
      <4> QED BY <2>2, <3>4, <3>8, <4>2, GoesOn, Zenon
    <3> QED BY <2>5, <3>7, <3>8, Zenon
  <2> QED BY <2>3, <2>4, <2>5, Zenon
<1> QED BY SMTT(30), <1>1, <1>2, <1>3

-------------------------------------------------------------------------------
(***************************************************************************)
(* The operations that the handlers wait for.                              *)
(***************************************************************************)
Completed(c, o, x) == Put(Put(c, o, "pending", c.ops[o]["pending"] - 1), o, x, c.ops[o][x] + 1)

LEMMA CompletedIs ==
    ASSUME NEW c \in ConnectorType, NEW o \in Ops, NEW x \in Results \ {"pending"}, c.ops[o]["pending"] > 0
    PROVE  /\ Completed(c, o, x) \in ConnectorType /\ SameRest(c, Completed(c, o, x))
           /\ [c EXCEPT !.ops[o]["pending"] = @ - 1, !.ops[o][x] = @ + 1] = Completed(c, o, x)
           /\ Only(c, o, "pending") => Only(Completed(c, o, x), o, x)
<1> DEFINE n == c.ops[o]["pending"] - 1
           k == c.ops[o][x] + 1
           b == Put(c, o, "pending", n)
           d == Put(b, o, x, k)
<1>0. "pending" \in Results BY Zenon DEF Results
<1>1. n \in Nat /\ k \in Nat BY <1>0, OpsAreCounted
<1>2. Only(c, o, "pending") => n = 0 /\ k = 1 BY <1>0 DEF Only
<1>3. [c EXCEPT !.ops[o]["pending"] = @ - 1, !.ops[o][x] = @ + 1] = d BY <1>0, Zenon DEF ConnectorType, Put
<1>4. d = Completed(c, o, x) BY Zenon DEF Completed
<1> HIDE DEF n, k
<1>5. /\ b \in ConnectorType /\ SameRest(c, b) /\ b.ops[o]["pending"] = n
      /\ \A p \in Ops, y \in Results : p # o \/ y # "pending" => b.ops[p][y] = c.ops[p][y]
  BY <1>0, <1>1, PutIs
<1> HIDE DEF b
<1>6. /\ d \in ConnectorType /\ SameRest(b, d) /\ d.ops[o][x] = k
      /\ \A p \in Ops, y \in Results : p # o \/ y # x => d.ops[p][y] = b.ops[p][y]
  BY <1>1, <1>5, PutIs
<1> HIDE DEF d
<1>7. SameRest(c, d) BY <1>5, <1>6, Zenon DEF SameRest
<1>8. Only(c, o, "pending") => Only(d, o, x)
  <2> SUFFICES ASSUME Only(c, o, "pending") PROVE Only(d, o, x) OBVIOUS
  <2>1. d.ops[o][x] = 1 BY <1>2, <1>6, Zenon
  <2>2. \A p \in Ops, y \in Results : p # o \/ y # x => d.ops[p][y] = 0 BY <1>0, <1>2, <1>5, <1>6 DEF Only
  <2> QED BY <2>1, <2>2, Zenon DEF Only
<1> QED BY ZenonT(30), <1>3, <1>4, <1>6, <1>7, <1>8

LEMMA CompletedGoes ==
    ASSUME NEW c \in ConnectorType, NEW o \in Ops, NEW x \in {"ok", "error"}, c.ops[o]["pending"] > 0, Chain(c)
    PROVE  Goes(c, Completed(c, o, x))
<1> DEFINE d == Completed(c, o, x)
<1>1. x \in Results \ {"pending"} /\ "pending" \in Results BY Zenon DEF Results
<1>2. Only(c, o, "pending") BY <1>1, ChainOnly, Zenon
<1>3. d \in ConnectorType /\ SameRest(c, d) /\ Only(d, o, x) BY ZenonT(30), <1>1, <1>2, CompletedIs
<1> HIDE DEF d
<1>4. CASE o \in {"resolve", "connect", "timer"}
  <2>1. c.state = "CONNECTING" /\ c.current = NoMsg /\ (o = "connect" => c.socket # "closed")
    BY <1>1, <1>4, ChainOnly, Zenon
  <2>2. Chain(d) BY <1>1, <1>3, <1>4, <2>1, ChainMaking, Zenon DEF SameRest
  <2>3. \A m : ~Unwritten(d, m) BY <1>1, <1>3, <1>4, NotUnwritten, Zenon
  <2>4. \A m \in Messages : OnePlace(c, m) => Moves(c, d, m) BY <1>3, <2>3, MovesStill, Zenon DEF SameRest
  <2>5. QED BY <2>2, <2>4, Zenon DEF Goes, d
<1>5. CASE o \in {"write", "read"}
  <2>1. c.state = "COMMUNICATING" /\ c.current # NoMsg BY <1>1, <1>5, ChainOnly, Zenon
  <2>2. Chain(d) BY <1>1, <1>3, <1>5, <2>1, ChainCarrying, Zenon DEF SameRest
  <2>3. \A m : Unwritten(d, m) => Unwritten(c, m)
    <3>1. CASE o = "read"
      <4>1. \A m : ~Unwritten(d, m) BY <1>1, <1>3, <3>1, NotUnwritten, Zenon
      <4> QED BY <4>1, Zenon
    <3>2. CASE o = "write" BY SMTT(30), <1>3, <3>2 DEF Unwritten, SameRest
    <3> QED BY <1>5, <3>1, <3>2, Zenon
  <2>4. \A m \in Messages : OnePlace(c, m) => Moves(c, d, m) BY <1>3, <2>3, MovesStill, Zenon DEF SameRest
  <2>5. QED BY <2>2, <2>4, Zenon DEF Goes, d
<1> QED BY <1>4, <1>5, Zenon DEF Ops

\* A connection is made.
LEMMA ConnectedOk ==
    ASSUME NEW c \in ConnectorType, c.ops["connect"]["pending"] > 0
    PROVE  LET d == [c EXCEPT !.ops["connect"]["pending"] = @ - 1, !.ops["connect"]["ok"] = @ + 1, !.socket = "connected"]
           IN  Derived(c, d) /\ d.dead = c.dead /\ (Chain(c) => Goes(c, d))
<1> DEFINE b == Completed(c, "connect", "ok")
           d == [b EXCEPT !.socket = "connected"]
           z == [c EXCEPT !.ops["connect"]["pending"] = @ - 1, !.ops["connect"]["ok"] = @ + 1, !.socket = "connected"]
<1>1. "connect" \in Ops /\ "ok" \in Results \ {"pending"} BY Zenon DEF Ops, Results
<1>2. /\ b \in ConnectorType /\ SameRest(c, b)
      /\ [c EXCEPT !.ops["connect"]["pending"] = @ - 1, !.ops["connect"]["ok"] = @ + 1] = b
  BY ZenonT(30), <1>1, CompletedIs
<1>3. z = d
  <2>1. z = [[c EXCEPT !.ops["connect"]["pending"] = @ - 1, !.ops["connect"]["ok"] = @ + 1] EXCEPT !.socket = "connected"]
    OBVIOUS
  <2> QED BY ZenonT(30), <1>2, <2>1
<1>4. Chain(c) => Goes(c, b) BY <1>1, CompletedGoes, Zenon
<1> HIDE DEF b, z
<1>5. /\ d \in ConnectorType /\ d.state = b.state /\ d.current = b.current /\ d.requests = b.requests
      /\ d.ops = b.ops /\ d.wire = b.wire /\ d.lag = b.lag /\ d.back = b.back /\ d.dead = b.dead
      /\ d.socket = "connected"
  BY ZenonT(30), <1>2 DEF ConnectorType
<1> HIDE DEF d
<1>6. Derived(c, d) /\ d.dead = c.dead BY <1>2, <1>5, Zenon DEF Derived, SameRest
<1>7. ASSUME Chain(c) PROVE Goes(c, d)
  <2>1. Chain(b) BY <1>4, <1>7, Zenon DEF Goes
  <2>2. Chain(d)
    <3>1. b.requests # <<>> => b.state = "CONNECTING" \/ b.current # NoMsg BY <2>1, Zenon DEF Chain
    <3> QED BY ZenonT(30), <1>2, <1>5, <2>1, <3>1, ChainQueue
  <2>3. \A m : Unwritten(d, m) => Unwritten(b, m) BY SMTT(30), <1>5 DEF Unwritten
  <2>4. \A m \in Messages : OnePlace(b, m) => Moves(b, d, m) BY ZenonT(30), <1>2, <1>5, <2>3, MovesStill
  <2>5. Goes(b, d) BY <2>2, <2>4, Zenon DEF Goes
  <2>6. \A m \in Messages : OnePlace(c, m) => Moves(c, b, m) BY <1>4, <1>7, Zenon DEF Goes
  <2> QED BY <2>5, <2>6, GoesOn, Zenon
<1>8. QED BY <1>3, <1>6, <1>7, Zenon DEF z

\* A message is written.
LEMMA WrittenOk ==
    ASSUME NEW c \in ConnectorType, c.ops["write"]["pending"] > 0
    PROVE  LET d == [c EXCEPT !.ops["write"]["pending"] = @ - 1, !.ops["write"]["ok"] = @ + 1,
                              !.wire = @ \cup {m \in {c.current} : m # NoMsg}]
           IN  Derived(c, d) /\ d.dead = c.dead /\ (Chain(c) => Goes(c, d))
<1> DEFINE b == Completed(c, "write", "ok")
           w == {m \in {c.current} : m # NoMsg}
           d == [b EXCEPT !.wire = @ \cup w]
           z == [c EXCEPT !.ops["write"]["pending"] = @ - 1, !.ops["write"]["ok"] = @ + 1, !.wire = @ \cup w]
<1>1. "write" \in Ops /\ {"ok", "pending"} \subseteq Results /\ "ok" # "pending" BY Zenon DEF Ops, Results
<1>2. /\ b \in ConnectorType /\ SameRest(c, b)
      /\ [c EXCEPT !.ops["write"]["pending"] = @ - 1, !.ops["write"]["ok"] = @ + 1] = b
      /\ Only(c, "write", "pending") => Only(b, "write", "ok")
  BY ZenonT(30), <1>1, CompletedIs
<1>3. z = d
  <2> DEFINE y == [c EXCEPT !.ops["write"]["pending"] = @ - 1, !.ops["write"]["ok"] = @ + 1]
  <2>1. z = [y EXCEPT !.wire = @ \cup w] BY Zenon DEF ConnectorType
  <2> QED BY ZenonT(30), <1>2, <2>1
<1>4. Chain(c) => Goes(c, b) BY <1>1, CompletedGoes, Zenon
<1>5. w \subseteq Messages /\ \A m \in w : m = c.current BY Zenon DEF ConnectorType
<1> HIDE DEF b, w, z
<1>6. /\ d \in ConnectorType /\ d.state = b.state /\ d.current = b.current /\ d.requests = b.requests
      /\ d.ops = b.ops /\ d.wire = b.wire \cup w /\ d.lag = b.lag /\ d.back = b.back /\ d.dead = b.dead
      /\ d.socket = b.socket
  BY ZenonT(30), <1>2, <1>5 DEF ConnectorType
<1> HIDE DEF d
<1>7. Derived(c, d) /\ d.dead = c.dead BY <1>2, <1>6, Zenon DEF Derived, SameRest
<1>8. ASSUME Chain(c) PROVE Goes(c, d)
  <2>1. Chain(b) BY <1>4, <1>8, Zenon DEF Goes
  <2>2. Chain(d)
    <3>1. b.requests # <<>> => b.state = "CONNECTING" \/ b.current # NoMsg BY <2>1, Zenon DEF Chain
    <3> QED BY ZenonT(30), <1>2, <1>6, <2>1, <3>1, ChainQueue
  <2>3. Only(b, "write", "ok") BY <1>1, <1>2, <1>8, ChainOnly, Zenon
  <2>4. ASSUME NEW m \in Messages, OnePlace(c, m) PROVE Moves(c, d, m)
    <3>1. ~Unwritten(d, m)
      <4>1. Only(d, "write", "ok") BY <1>6, <2>3 DEF Only
      <4> QED BY <1>1, <1>6, <4>1, NotUnwritten, Zenon
    <3>2. m \in w => Unwritten(c, m) BY <1>5, Zenon DEF Unwritten
    <3>3. /\ d.requests = c.requests /\ d.current = c.current /\ d.wire = c.wire \cup w /\ d.lag = c.lag
      BY <1>2, <1>6, Zenon DEF SameRest
    <3>4. InQueue(d, m) <=> InQueue(c, m) BY <3>3, Zenon DEF InQueue
    <3>5. \A i, j \in 1..Len(d.requests) : d.requests[i] = m /\ d.requests[j] = m => i = j
      BY <2>4, <3>3, Zenon DEF OnePlace
    <3>6. Unwritten(c, m) => ~InQueue(c, m) /\ m \notin c.wire \cup c.lag BY <2>4, Zenon DEF OnePlace, Unwritten
    <3>7. InQueue(c, m) => c.current # m /\ m \notin c.wire \cup c.lag BY <2>4, Zenon DEF OnePlace
    <3>8. m \notin c.wire \cap c.lag BY <2>4, Zenon DEF OnePlace
    <3>9. InQueue(d, m) => m \notin d.wire \cup d.lag BY <3>2, <3>3, <3>4, <3>6, <3>7, Zenon
    <3>10. m \notin d.wire \cap d.lag BY <3>2, <3>3, <3>6, <3>8, Zenon
    <3>11. OnePlace(d, m) BY <3>1, <3>3, <3>4, <3>5, <3>7, <3>9, <3>10, Zenon DEF OnePlace
    <3>12. Ahead(d, m) => Ahead(c, m) BY <3>1, <3>2, <3>3, <3>4, Zenon DEF Ahead
    <3> QED BY <3>3, <3>4, <3>11, <3>12, Zenon DEF Moves
  <2> QED BY <2>2, <2>4, Zenon DEF Goes
<1>9. QED BY <1>3, <1>7, <1>8, Zenon DEF z, w

\* Messages on their way are lost or taken, and the connection may break.
LEMMA LessUnderway ==
    ASSUME NEW c \in ConnectorType, NEW d \in ConnectorType,
           d.state = c.state, d.current = c.current, d.requests = c.requests, d.ops = c.ops,
           d.socket = "closed" => c.socket = "closed",
           d.wire \cup d.lag \subseteq c.wire \cup c.lag, d.wire \cap d.lag \subseteq c.wire \cap c.lag
    PROVE  Chain(c) => Goes(c, d)
<1>1. ASSUME Chain(c) PROVE Chain(d)
  <2>1. c.requests # <<>> => c.state = "CONNECTING" \/ c.current # NoMsg BY <1>1, Zenon DEF Chain
  <2> QED BY <1>1, <2>1, ChainQueue, Zenon
<1>2. \A m : Unwritten(d, m) => Unwritten(c, m) BY Zenon DEF Unwritten
<1>3. \A m \in Messages : OnePlace(c, m) => Moves(c, d, m) BY <1>2, MovesLess, Zenon
<1> QED BY <1>1, <1>3, Zenon DEF Goes

-----------------------------------------------------------------------------
(***************************************************************************)
(* The request                                                             *)
(***************************************************************************)

LEMMA MessageTypes ==
    \A r \in Reqs : /\ QUEUED(r) \in Messages /\ STATUS(r) \in Messages
                    /\ QUEUED(r).id = r /\ QUEUED(r).kind = "QUEUED" /\ STATUS(r).kind = "STATUS"
                    /\ \A q \in Reqs : QUEUED(r) # STATUS(q) /\ (QUEUED(r) = QUEUED(q) => r = q)
BY Zenon DEF Messages, QUEUED, STATUS

\* The messages of the requests move on, and the worker receives none.
LEMMA MessagesMove ==
    ASSUME Messaged, \A r \in Reqs : OnePlace(con, QUEUED(r)) => Moves(con, con', QUEUED(r)), got' = got,
           \A r \in Reqs : rq'[r].state = "CREATED" => rq[r].state = "CREATED"
    PROVE  Messaged'
<1> SUFFICES ASSUME NEW r \in Reqs
             PROVE  /\ OnePlace(con', QUEUED(r))
                    /\ Ahead(con', QUEUED(r)) => got'[r] = 0
                    /\ rq'[r].state = "CREATED" =>
                          got'[r] = 0 /\ ~Ahead(con', QUEUED(r)) /\ con'.current # QUEUED(r)
  BY ZenonT(30) DEF Messaged, QUEUED
<1> DEFINE m == QUEUED(r)
<1>1. /\ OnePlace(con, m) /\ (Ahead(con, m) => got[r] = 0)
      /\ rq[r].state = "CREATED" => got[r] = 0 /\ ~Ahead(con, m) /\ con.current # m
  BY Zenon DEF Messaged
<1>2. Moves(con, con', m) BY <1>1, Zenon
<1> HIDE DEF m
<1>3. /\ OnePlace(con', m) /\ (Ahead(con', m) => Ahead(con, m))
      /\ con'.current = m => con.current = m \/ InQueue(con, m)
  BY <1>2, Zenon DEF Moves
<1>4. InQueue(con, m) => Ahead(con, m) BY Zenon DEF Ahead
<1>5. QED BY <1>1, <1>3, <1>4, Zenon DEF m

\* Reports of success are only passed on.
LEMMA ReportsMove ==
    ASSUME TypeOK, ReportsAreReal, Kept(con, con'), work' = work, done' = done, notes' \subseteq notes,
           \A r \in Reqs : rq'[r].ext = "SUCCESS" => r \in done
    PROVE  ReportsAreReal'
<1>1. SuccessIsReal' BY Zenon DEF SuccessIsReal
<1>2. \A r \in Reqs : work'[r] = "SUCCESS" => r \in done' BY Zenon DEF ReportsAreReal
<1>3. \A j \in 1..Len(con'.back) : con'.back[j].status = "SUCCESS" => con'.back[j].id \in done'
  BY Zenon DEF ReportsAreReal, Kept
<1>4. \A n \in notes' : n.success /\ n.status = "SUCCESS" => n.id \in done' BY Zenon DEF ReportsAreReal
<1> QED BY <1>1, <1>2, <1>3, <1>4, Zenon DEF ReportsAreReal

\* A step of the connector alone.
LEMMA ConnectorStep ==
    ASSUME IndInv, ~con.dead, Kept(con, con'), UNCHANGED <<rq, notes, worker, cut>>,
           Chain(con) /\ ~con'.dead => Goes(con, con')
    PROVE  IndInv'
<1>1. TypeOK' BY Zenon DEF IndInv, TypeOK, Kept, worker
<1>2. ReportsAreReal'
  <2>1. \A r \in Reqs : rq[r].ext = "SUCCESS" => r \in done BY Zenon DEF IndInv, ReportsAreReal, SuccessIsReal
  <2> QED BY <2>1, ReportsMove, Zenon DEF IndInv, worker
<1>3. SentOnce' BY Zenon DEF IndInv, SentOnce, worker
<1>4. ASSUME ~con'.dead, ~cut' PROVE Chain(con') /\ Messaged'
  <2>1. Chain(con) /\ Messaged BY <1>4, Zenon DEF IndInv
  <2>2. Goes(con, con') BY <1>4, <2>1, Zenon
  <2>3. \A r \in Reqs : OnePlace(con, QUEUED(r)) => Moves(con, con', QUEUED(r))
    BY <2>2, MessageTypes, Zenon DEF Goes
  <2>4. Messaged' BY <2>1, <2>3, MessagesMove, Zenon DEF worker
  <2> QED BY <2>2, <2>4, Zenon DEF Goes
<1> QED BY <1>1, <1>2, <1>3, <1>4, Zenon DEF IndInv

\* The beginning of a handler.
LEMMA HandlerBegins ==
    ASSUME NEW c \in ConnectorType, NEW o \in Ops, NEW x \in Results, c.ops[o][x] > 0
    PROVE  LET h == Handled(c, o, x)
           IN  /\ h \in ConnectorType /\ SameRest(c, h)
               /\ \A d : Kept(h, d) => Kept(c, d)
               /\ \A d : Derived(h, d) => Kept(c, d)
               /\ Chain(c) => Idle(h) /\ Only(c, o, x) /\ \A d : Goes(h, d) => Goes(c, d)
<1> DEFINE h == Handled(c, o, x)
<1>1. h \in ConnectorType /\ SameRest(c, h) /\ (Only(c, o, x) => Idle(h)) BY HandledToIdle, Zenon
<1> HIDE DEF h
<1>2. \A d : Kept(h, d) => Kept(c, d) BY <1>1, Zenon DEF Kept, SameRest
<1>3. \A d : Derived(h, d) => Kept(c, d) BY <1>1, <1>2, DerivedIsKept, Zenon
<1>4. ASSUME Chain(c) PROVE Idle(h) /\ Only(c, o, x) /\ \A d : Goes(h, d) => Goes(c, d)
  <2>1. Only(c, o, x) BY <1>4, ChainOnly, Zenon
  <2>2. Idle(h) BY <1>1, <2>1, Zenon
  <2>3. \A m \in Messages : OnePlace(c, m) => Moves(c, h, m) BY <1>1, <2>2, HandledMoves, Zenon
  <2>4. \A d : Goes(h, d) => Goes(c, d) BY <2>3, GoesOn, Zenon
  <2> QED BY <2>1, <2>2, <2>4, Zenon
<1>5. QED BY <1>1, <1>2, <1>3, <1>4, Zenon DEF h

LEMMA HandlersIndInv ==
    ASSUME IndInv, ~con.dead, OnResolve \/ OnConnect \/ OnTimer \/ OnWrite
    PROVE  IndInv'
<1>0. con \in ConnectorType BY Zenon DEF IndInv, TypeOK
<1>1. Ops = {"resolve", "connect", "timer", "write", "read"} /\ {"ok", "error", "aborted"} \subseteq Results
  BY Zenon DEF Ops, Results
<1>2. CASE OnResolve
  <2>1. PICK x \in {"ok", "error"} : Due("resolve", x) /\ con' = Resolved(Handled(con, "resolve", x), x)
    BY <1>2, Zenon DEF OnResolve
  <2> DEFINE h == Handled(con, "resolve", x)
  <2>2. con.ops["resolve"][x] > 0 BY <2>1, Zenon DEF Due
  <2>3. /\ h \in ConnectorType /\ SameRest(con, h) /\ \A d : Derived(h, d) => Kept(con, d)
        /\ Chain(con) => Idle(h) /\ \A d : Goes(h, d) => Goes(con, d)
    BY <1>0, <1>1, <2>2, HandlerBegins, Zenon
  <2>4. con' = Resolved(h, x) BY <2>1, Zenon
  <2> HIDE DEF h
  <2>5. Kept(con, con') BY <2>3, <2>4, ResolvedGoes, Zenon
  <2>6. ASSUME Chain(con) PROVE Goes(con, con')
    <3>1. h.state = "CONNECTING" /\ h.current = NoMsg BY <1>0, <1>1, <2>2, <2>3, <2>6, ChainOnly, Zenon DEF SameRest
    <3> QED BY <2>3, <2>4, <2>6, <3>1, ResolvedGoes, Zenon
  <2> QED BY <1>2, <2>5, <2>6, ConnectorStep, Zenon DEF OnResolve
<1>3. CASE OnConnect
  <2>1. PICK x \in {"ok", "error"} : Due("connect", x) /\ con' = Connected(Handled(con, "connect", x), x)
    BY <1>3, Zenon DEF OnConnect
  <2> DEFINE h == Handled(con, "connect", x)
  <2>2. con.ops["connect"][x] > 0 BY <2>1, Zenon DEF Due
  <2>3. /\ h \in ConnectorType /\ SameRest(con, h) /\ \A d : Derived(h, d) => Kept(con, d)
        /\ Chain(con) => Idle(h) /\ \A d : Goes(h, d) => Goes(con, d)
    BY <1>0, <1>1, <2>2, HandlerBegins, Zenon
  <2>4. con' = Connected(h, x) BY <2>1, Zenon
  <2> HIDE DEF h
  <2>5. Kept(con, con') BY <2>3, <2>4, ConnectedGoes, Zenon
  <2>6. ASSUME Chain(con) PROVE Goes(con, con')
    <3>1. h.state = "CONNECTING" /\ h.current = NoMsg /\ h.socket # "closed"
      BY <1>0, <1>1, <2>2, <2>3, <2>6, ChainOnly, Zenon DEF SameRest
    <3> QED BY <2>3, <2>4, <2>6, <3>1, ConnectedGoes, Zenon
  <2> QED BY <1>3, <2>5, <2>6, ConnectorStep, Zenon DEF OnConnect
<1>4. CASE OnTimer
  <2> DEFINE h == Handled(con, "timer", "ok")
  <2>1. con.ops["timer"]["ok"] > 0 /\ con' = AwakenForRestart(h) BY <1>4, Zenon DEF OnTimer, Due
  <2>2. /\ h \in ConnectorType /\ SameRest(con, h) /\ \A d : Derived(h, d) => Kept(con, d)
        /\ Chain(con) => Idle(h) /\ \A d : Goes(h, d) => Goes(con, d)
    BY <1>0, <1>1, <2>1, HandlerBegins, Zenon
  <2> HIDE DEF h
  <2>3. Kept(con, con') BY <2>1, <2>2, AwakenGoes, Zenon
  <2>4. ASSUME Chain(con), ~con'.dead PROVE Goes(con, con')
    <3>1. h.state = "CONNECTING" /\ h.current = NoMsg BY <1>0, <1>1, <2>1, <2>2, <2>4, ChainOnly, Zenon DEF SameRest
    <3> QED BY <2>1, <2>2, <2>4, <3>1, AwakenGoes, Zenon
  <2> QED BY <1>4, <2>3, <2>4, ConnectorStep, Zenon DEF OnTimer
<1>5. CASE OnWrite
  <2>1. PICK x \in {"ok", "error", "aborted"} : Due("write", x) /\ con' = RequestSent(Handled(con, "write", x), x)
    BY <1>5, Zenon DEF OnWrite
  <2> DEFINE h == Handled(con, "write", x)
  <2>2. con.ops["write"][x] > 0 BY <2>1, Zenon DEF Due
  <2>3. h \in ConnectorType /\ SameRest(con, h) /\ (Chain(con) => Idle(h) /\ Only(con, "write", x))
    BY <1>0, <1>1, <2>2, HandlerBegins, Zenon
  <2>4. con' = RequestSent(h, x) BY <2>1, Zenon
  <2> HIDE DEF h
  <2>5. Kept(con, con') BY <1>0, <2>3, <2>4, RequestSentGoes, DerivedIsKept, Zenon
  <2>6. ASSUME Chain(con), ~con'.dead PROVE Goes(con, con')
    <3>1. con.state = "COMMUNICATING" /\ con.current # NoMsg /\ x # "aborted"
      BY <1>0, <1>1, <2>2, <2>6, ChainOnly, Zenon
    <3> QED BY <1>0, <2>3, <2>4, <2>6, <3>1, RequestSentGoes, Zenon
  <2> QED BY <1>5, <2>5, <2>6, ConnectorStep, Zenon DEF OnWrite
<1> QED BY <1>2, <1>3, <1>4, <1>5, Zenon

\* An answer is passed on to the request of the message it was read for.
LEMMA OnReadIndInv ==
    ASSUME IndInv, ~con.dead, OnRead
    PROVE  IndInv'
<1>0. con \in ConnectorType BY Zenon DEF IndInv, TypeOK
<1>1. PICK x \in {"ok", "stale", "error", "aborted"} :
        /\ Due("read", x)
        /\ \E found \in ReadResults(con, x) :
             /\ con' = ResponseReceived(Handled(con, "read", x), x, found)
             /\ notes' = IF con'.dead THEN notes ELSE notes \cup Notified(x, found)
  BY ZenonT(30) DEF OnRead
<1>2. PICK found \in ReadResults(con, x) :
        /\ con' = ResponseReceived(Handled(con, "read", x), x, found)
        /\ notes' = IF con'.dead THEN notes ELSE notes \cup Notified(x, found)
  BY <1>1, Zenon
<1>3. UNCHANGED <<rq, worker, faults, cut>> BY Zenon DEF OnRead
<1> DEFINE h == Handled(con, "read", x)
<1>4. "read" \in Ops /\ x \in Results /\ con.ops["read"][x] > 0 BY <1>1, Zenon DEF Ops, Results, Due
<1>5. /\ h \in ConnectorType /\ SameRest(con, h) /\ \A d : Kept(h, d) => Kept(con, d)
      /\ Chain(con) => Idle(h) /\ \A d : Goes(h, d) => Goes(con, d)
  BY <1>0, <1>4, HandlerBegins, Zenon
<1>6. con' = ResponseReceived(h, x, found) BY <1>2, Zenon
<1> HIDE DEF h
<1>7. found \in {"error", "garbled", "answer"} /\ (found = "answer" => con.back # <<>>) BY Zenon DEF ReadResults
<1>8. h.current = con.current /\ h.back = con.back /\ h.state = con.state BY <1>5, Zenon DEF SameRest
<1>9. /\ Kept(h, con')
      /\ found = "answer" /\ x # "aborted" /\ h.current # NoMsg /\ ~con'.dead => Head(h.back).id = h.current.id
      /\ Idle(h) /\ x # "aborted" /\ h.current # NoMsg /\ h.state = "COMMUNICATING" /\ ~con'.dead => Goes(h, con')
  BY <1>5, <1>6, <1>7, <1>8, ResponseReceivedGoes, Zenon
<1>10. Kept(con, con') BY <1>5, <1>9, Zenon
<1>11. ASSUME Chain(con), ~con'.dead PROVE Goes(con, con')
  <2>1. con.state = "COMMUNICATING" /\ con.current # NoMsg /\ x # "aborted" BY <1>0, <1>4, <1>11, ChainOnly, Zenon
  <2> QED BY <1>5, <1>8, <1>9, <1>11, <2>1, Zenon
<1>12. ASSUME NEW n \in notes', n \notin notes
       PROVE  /\ n \in [id : Reqs, success : BOOLEAN, status : Statuses]
              /\ n.success /\ n.status = "SUCCESS" => n.id \in done
  <2>1. ~con'.dead /\ n \in Notified(x, found) BY <1>2, <1>12, Zenon
  <2>2. /\ con.current # NoMsg /\ x # "aborted"
        /\ n = IF found = "answer" THEN Note(con.current, TRUE, Head(con.back).status) ELSE Failure(con.current)
    BY ZenonT(30), <2>1 DEF Notified
  <2>3. con.current \in Messages BY <1>0, <2>2, Zenon DEF ConnectorType
  <2>4. con.current.id \in Reqs BY <2>3, Zenon DEF Messages
  <2>5. CASE found # "answer"
    <3>1. n = [id |-> con.current.id, success |-> FALSE, status |-> "SUCCESS"] BY <2>2, <2>5, Zenon DEF Failure, Note
    <3> QED BY <2>4, <3>1, Zenon DEF Statuses
  <2>6. CASE found = "answer"
    <3>1. n = [id |-> con.current.id, success |-> TRUE, status |-> Head(con.back).status] BY <2>2, <2>6, Zenon DEF Note
    <3>2. con.back \in Seq([id : Reqs, status : Statuses]) /\ con.back # <<>> BY <1>0, <1>7, <2>6, Zenon DEF ConnectorType
    <3>3. /\ Head(con.back) \in [id : Reqs, status : Statuses] /\ Head(con.back) = con.back[1]
          /\ 1 \in 1..Len(con.back)
      <4> DEFINE R == [id : Reqs, status : Statuses]
      <4>1. con.back \in Seq(R) /\ con.back # <<>> BY <3>2, Zenon
      <4> HIDE DEF R
      <4>2. Head(con.back) \in R BY <4>1, HeadTailProperties, Zenon
      <4>3. Len(con.back) \in Nat /\ Len(con.back) # 0 BY <4>1, LenProperties, EmptySeq, Zenon
      <4>4. Head(con.back) = con.back[1] BY <4>1
      <4>5. QED BY <4>2, <4>3, <4>4 DEF R
    <3>4. Head(con.back).status = "SUCCESS" => Head(con.back).id \in done BY <3>3, Zenon DEF IndInv, ReportsAreReal
    <3>5. Head(con.back).id = con.current.id BY <1>8, <1>9, <2>1, <2>2, <2>6, Zenon
    <3> QED BY <2>4, <3>1, <3>3, <3>4, <3>5, Zenon
  <2> QED BY <2>5, <2>6, Zenon
<1>13. TypeOK'
  <2>1. notes' \subseteq [id : Reqs, success : BOOLEAN, status : Statuses] BY <1>12, Zenon DEF IndInv, TypeOK
  <2> QED BY <1>3, <1>10, <2>1, Zenon DEF IndInv, TypeOK, Kept, worker
<1>14. ReportsAreReal'
  <2>1. SuccessIsReal' /\ \A r \in Reqs : work'[r] = "SUCCESS" => r \in done'
    BY <1>3, Zenon DEF IndInv, ReportsAreReal, SuccessIsReal, worker
  <2>2. \A j \in 1..Len(con'.back) : con'.back[j].status = "SUCCESS" => con'.back[j].id \in done'
    BY <1>3, <1>10, Zenon DEF IndInv, ReportsAreReal, Kept, worker
  <2>3. \A n \in notes' : n.success /\ n.status = "SUCCESS" => n.id \in done'
    BY <1>3, <1>12, Zenon DEF IndInv, ReportsAreReal, worker
  <2> QED BY <2>1, <2>2, <2>3, Zenon DEF ReportsAreReal
<1>15. SentOnce' BY <1>3, Zenon DEF IndInv, SentOnce, worker
<1>16. ASSUME ~con'.dead, ~cut' PROVE Chain(con') /\ Messaged'
  <2>1. Chain(con) /\ Messaged BY <1>3, <1>16, Zenon DEF IndInv
  <2>2. Goes(con, con') BY <1>11, <1>16, <2>1, Zenon
  <2>3. \A r \in Reqs : OnePlace(con, QUEUED(r)) => Moves(con, con', QUEUED(r))
    BY <2>2, MessageTypes, Zenon DEF Goes
  <2>4. Messaged' BY <1>3, <2>1, <2>3, MessagesMove, Zenon DEF worker
  <2> QED BY <2>2, <2>4, Zenon DEF Goes
<1> QED BY <1>13, <1>14, <1>15, <1>16, Zenon DEF IndInv

\* An operation ends: with its own count alone, or also with a connection or a
\* message that was written.
LEMMA CompletesIs ==
    ASSUME IndInv, ~con.dead, NEW o \in Ops, NEW x \in {"ok", "error"}, Completes(o, x),
           UNCHANGED <<rq, notes, worker, cut>>
    PROVE  IndInv'
<1>1. con \in ConnectorType BY Zenon DEF IndInv, TypeOK
<1>2. x \in Results \ {"pending"} BY Zenon DEF Results
<1>3. con.ops[o]["pending"] > 0 /\ con' = Completed(con, o, x) BY ZenonT(30), <1>1, <1>2, CompletedIs DEF Completes
<1>4. con' \in ConnectorType /\ SameRest(con, con') BY ZenonT(30), <1>1, <1>2, <1>3, CompletedIs
<1>5. Kept(con, con') BY <1>1, <1>4, DerivedIsKept, Zenon DEF Derived, SameRest
<1>6. Chain(con) => Goes(con, con') BY <1>1, <1>3, CompletedGoes, Zenon
<1> QED BY <1>5, <1>6, ConnectorStep, Zenon

LEMMA OperationIndInv ==
    ASSUME IndInv, ~con.dead, Operation
    PROVE  IndInv'
<1>0. con \in ConnectorType BY Zenon DEF IndInv, TypeOK
<1>1. Ops = {"resolve", "connect", "timer", "write", "read"} BY Zenon DEF Ops
<1>2. CASE ResolveEnds \/ TimerEnds \/ ReadEnds
  <2>1. \E o \in {"resolve", "timer", "read"}, x \in {"ok", "error"} : Completes(o, x)
    BY <1>2, Zenon DEF ResolveEnds, TimerEnds, ReadEnds
  <2>2. UNCHANGED <<rq, notes, worker, cut>> BY <1>2, Zenon DEF ResolveEnds, TimerEnds, ReadEnds
  <2> QED BY <1>1, <2>1, <2>2, CompletesIs, Zenon
<1>3. CASE ConnectEnds
  <2>1. con.ops["connect"]["pending"] > 0 /\ UNCHANGED <<rq, notes, worker, cut>> BY <1>3, Zenon DEF ConnectEnds
  <2>2. CASE alive
    <3>1. con' = [con EXCEPT !.ops["connect"]["pending"] = @ - 1, !.ops["connect"]["ok"] = @ + 1, !.socket = "connected"]
      BY <1>3, <2>2, Zenon DEF ConnectEnds
    <3>2. Derived(con, con') /\ (Chain(con) => Goes(con, con')) BY ZenonT(30), <1>0, <2>1, <3>1, ConnectedOk
    <3> QED BY <1>0, <2>1, <3>2, DerivedIsKept, ConnectorStep, Zenon
  <2>3. CASE ~alive
    <3>1. Completes("connect", "error") BY <1>3, <2>3, Zenon DEF ConnectEnds, Completes
    <3> QED BY <1>1, <2>1, <3>1, CompletesIs, Zenon
  <2> QED BY <2>2, <2>3, Zenon
<1>4. CASE WriteEnds
  <2>1. con.ops["write"]["pending"] > 0 /\ UNCHANGED <<rq, notes, worker, cut>> BY <1>4, Zenon DEF WriteEnds
  <2>2. CASE con' = [con EXCEPT !.ops["write"]["pending"] = @ - 1, !.ops["write"]["ok"] = @ + 1,
                                !.wire = @ \cup {m \in {con.current} : m # NoMsg}]
    <3>1. Derived(con, con') /\ (Chain(con) => Goes(con, con')) BY ZenonT(30), <1>0, <2>1, <2>2, WrittenOk
    <3> QED BY <1>0, <2>1, <3>1, DerivedIsKept, ConnectorStep, Zenon
  <2>3. CASE \E x \in {"ok", "error"} : Completes("write", x) BY <1>1, <2>1, <2>3, CompletesIs, Zenon
  <2> QED BY <1>4, <2>2, <2>3, Zenon DEF WriteEnds
<1> QED BY <1>2, <1>3, <1>4, Zenon DEF Operation

\* The worker takes in a message that was written once, and not before.
LEMMA ReceivedIndInv ==
    ASSUME IndInv, ~con.dead, NEW msg \in con.wire \cup con.lag, NEW w \in Taken(msg), Received(msg, w), con' \in ConnectorType,
           con'.state = con.state, con'.current = con.current, con'.requests = con.requests,
           con'.ops = con.ops, con'.socket = con.socket,
           con'.wire \cup con'.lag \subseteq con.wire \cup con.lag,
           con'.wire \cap con'.lag \subseteq con.wire \cap con.lag,
           msg \notin con.wire \cap con.lag => msg \notin con'.wire \cup con'.lag,
           \A i \in 1..Len(con'.back) : \/ i \in 1..Len(con.back) /\ con'.back[i] = con.back[i]
                                        \/ con'.back[i] = Reply(msg, w)
    PROVE  IndInv'
<1>0. con \in ConnectorType BY Zenon DEF IndInv, TypeOK
<1>1. msg \in Messages BY <1>0, Zenon DEF ConnectorType
<1>2. msg.id \in Reqs /\ msg.kind \in {"QUEUED", "STATUS"} BY <1>1, Zenon DEF Messages
<1>3. /\ work' = [work EXCEPT ![msg.id] = w] /\ UNCHANGED <<rq, notes, alive, done, cut>>
      /\ got' = [got EXCEPT ![msg.id] = IF msg.kind = "QUEUED" /\ w = "QUEUED" THEN got[msg.id] + 1 ELSE got[msg.id]]
  BY SMTT(30), <1>2 DEF Received, IndInv, TypeOK
<1>4. w \in {"NONE", "QUEUED", "SUCCESS", "FAILED"} /\ (w = "SUCCESS" => msg.id \in done)
  BY ZenonT(30), <1>2 DEF Taken, IndInv, TypeOK, ReportsAreReal
<1>5. TypeOK'
  <2>1. got' \in [Reqs -> Nat] BY <1>2, <1>3 DEF IndInv, TypeOK
  <2>2. work' \in [Reqs -> {"NONE", "QUEUED", "SUCCESS", "FAILED"}] BY ZenonT(30), <1>3, <1>4 DEF IndInv, TypeOK
  <2> QED BY <1>3, <2>1, <2>2, Zenon DEF IndInv, TypeOK
<1>6. ReportsAreReal'
  <2>1. SuccessIsReal' BY <1>3, Zenon DEF IndInv, ReportsAreReal, SuccessIsReal
  <2>2. \A r \in Reqs : work'[r] = "SUCCESS" => r \in done'
    BY <1>2, <1>3, <1>4, Zenon DEF IndInv, TypeOK, ReportsAreReal
  <2>3. Reply(msg, w).status = "SUCCESS" => Reply(msg, w).id \in done BY SMTT(30), <1>4 DEF Reply
  <2>4. \A i \in 1..Len(con'.back) : con'.back[i].status = "SUCCESS" => con'.back[i].id \in done'
    BY <1>3, <2>3, Zenon DEF IndInv, ReportsAreReal
  <2>5. \A n \in notes' : n.success /\ n.status = "SUCCESS" => n.id \in done' BY <1>3, Zenon DEF IndInv, ReportsAreReal
  <2> QED BY <2>1, <2>2, <2>4, <2>5, Zenon DEF ReportsAreReal
<1>7. CASE cut
  <2>1. SentOnce' BY <1>3, <1>7, Zenon DEF SentOnce
  <2> QED BY <1>3, <1>5, <1>6, <1>7, <2>1, Zenon DEF IndInv
<1>8. CASE ~cut
  <2>1. Chain(con) /\ Messaged /\ SentOnce BY <1>8, Zenon DEF IndInv
  <2>2. Goes(con, con') BY SMTT(30), <1>0, <2>1, LessUnderway
  <2>3. ASSUME NEW r \in Reqs
        PROVE  /\ got'[r] <= 1
               /\ OnePlace(con', QUEUED(r))
               /\ Ahead(con', QUEUED(r)) => got'[r] = 0
               /\ rq'[r].state = "CREATED" =>
                     got'[r] = 0 /\ ~Ahead(con', QUEUED(r)) /\ con'.current # QUEUED(r)
    <3> DEFINE m == QUEUED(r)
    <3>1. /\ OnePlace(con, m) /\ (Ahead(con, m) => got[r] = 0) /\ got[r] \in Nat /\ got[r] <= 1
          /\ rq[r].state = "CREATED" => got[r] = 0 /\ ~Ahead(con, m) /\ con.current # m
      BY SMTT(30), <1>8, <2>1 DEF Messaged, SentOnce, IndInv, TypeOK
    <3>2. Moves(con, con', m) BY <2>2, <3>1, MessageTypes, Zenon DEF Goes
    <3>3. OnePlace(con', m) /\ (Ahead(con', m) => Ahead(con, m)) BY <3>2, Zenon DEF Moves
    <3>4. CASE msg = m
      <4>1. Ahead(con, m) BY <3>4, Zenon DEF Ahead
      <4>2. ~InQueue(con, m) /\ ~Unwritten(con, m) /\ m \notin con.wire \cap con.lag
        BY <3>1, <3>4, Zenon DEF OnePlace
      <4>3. ~InQueue(con', m) /\ ~Unwritten(con', m) BY <4>2, Zenon DEF InQueue, Unwritten
      <4>4. ~Ahead(con', m) BY <3>4, <4>2, <4>3, Zenon DEF Ahead
      <4>7. m.id = r /\ m.kind = "QUEUED" BY Zenon DEF QUEUED
      <4>8. got \in [Reqs -> Nat] BY Zenon DEF IndInv, TypeOK
      <4>9. got[r] = 0 BY <3>1, <4>1, Zenon
      <4>10. got'[r] = got[r] + 1 \/ got'[r] = got[r] BY <1>3, <3>4, <4>7, <4>8, Zenon
      <4>5. got'[r] = 1 \/ got'[r] = 0 BY SMTT(30), <4>9, <4>10
      <4>6. rq'[r].state # "CREATED" BY <1>3, <3>1, <4>1, Zenon
      <4> HIDE DEF m
      <4>11. got'[r] <= 1 BY SMTT(30), <4>5
      <4>12. QED BY <3>3, <4>4, <4>6, <4>11, Zenon DEF m
    <3>5. CASE msg # m
      <4>1. msg.kind = "QUEUED" => msg.id # r BY <1>1, <3>5, Zenon DEF Messages, QUEUED
      <4>2. got'[r] = got[r] BY <1>2, <1>3, <4>1, Zenon DEF IndInv, TypeOK
      <4>3. con'.current = m => con.current = m OBVIOUS
      <4> HIDE DEF m
      <4>4. QED BY SMTT(30), <1>3, <3>1, <3>3, <4>2, <4>3 DEF m
    <3> QED BY <3>4, <3>5, ZenonT(30)
  <2>4. SentOnce' BY <2>3, Zenon DEF SentOnce
  <2>5. Messaged' BY ZenonT(30), <2>3 DEF Messaged, QUEUED
  <2> QED BY <1>5, <1>6, <2>2, <2>4, <2>5, Zenon DEF IndInv, Goes
<1> QED BY <1>7, <1>8, Zenon

\* The connection breaks.
LEMMA BrokenIs ==
    ASSUME NEW lag \in {{}, con.lag, con.lag \cup con.wire}, NEW back \in {con.back, <<>>},
           con \in ConnectorType, con' = Broken(lag, back)
    PROVE  Kept(con, con') /\ (Chain(con) => Goes(con, con'))
<1>1. lag \subseteq con.lag \cup con.wire BY Zenon DEF ConnectorType
<1>2. back \in Seq([id : Reqs, status : Statuses]) BY ZenonT(30), EmptySeq DEF ConnectorType
<1>3. con' \in ConnectorType BY ZenonT(30), <1>1, <1>2 DEF ConnectorType, Broken
<1>4. /\ con'.state = con.state /\ con'.current = con.current /\ con'.requests = con.requests
      /\ con'.ops = con.ops /\ con'.wire = {} /\ con'.lag = lag /\ con'.back = back
      /\ con'.socket = IF con.socket = "connected" THEN "broken" ELSE con.socket
  BY Zenon DEF ConnectorType, Broken
<1>5. Kept(con, con') BY <1>3, <1>4, DerivedIsKept, Zenon DEF Derived
<1>6. con'.wire \cup con'.lag \subseteq con.wire \cup con.lag /\ con'.wire \cap con'.lag \subseteq con.wire \cap con.lag
  BY <1>1, <1>4, Zenon
<1>7. con'.socket = "closed" => con.socket = "closed" BY <1>4, Zenon
<1> QED BY <1>3, <1>4, <1>5, <1>6, <1>7, LessUnderway, Zenon

LEMMA WorkerIndInv ==
    ASSUME IndInv, ~con.dead, Worker
    PROVE  IndInv'
<1>0. con \in ConnectorType BY Zenon DEF IndInv, TypeOK
<1>1. CASE Serve
  <2>0. PICK msg \in con.wire : \E w \in Taken(msg) :
          con' = [con EXCEPT !.wire = @ \ {msg}, !.back = Append(@, Reply(msg, w))] /\ Received(msg, w)
    BY ZenonT(30), <1>1 DEF Serve
  <2>1. PICK w \in Taken(msg) :
          con' = [con EXCEPT !.wire = @ \ {msg}, !.back = Append(@, Reply(msg, w))] /\ Received(msg, w)
    BY <2>0, Zenon
  <2>2. msg \in Messages BY <1>0, Zenon DEF ConnectorType
  <2>3. Reply(msg, w) \in [id : Reqs, status : Statuses]
    <3>1. msg.id \in Reqs BY <2>2, Zenon DEF Messages
    <3>2. w \in {"NONE", "QUEUED", "SUCCESS", "FAILED"} BY <3>1, ZenonT(30) DEF Taken, IndInv, TypeOK
    <3> QED BY <3>1, <3>2, Zenon DEF Reply, Statuses
  <2> DEFINE R == [id : Reqs, status : Statuses]
             q == Append(con.back, Reply(msg, w))
  <2>4. con.back \in Seq(R) BY <1>0, Zenon DEF ConnectorType
  <2>5. /\ q \in Seq(R) /\ Len(q) = Len(con.back) + 1 /\ Len(con.back) \in Nat
        /\ \A i \in 1..Len(con.back) : q[i] = con.back[i]
        /\ q[Len(con.back) + 1] = Reply(msg, w)
    <3> HIDE DEF R
    <3> QED BY <2>3, <2>4, AppendProperties, LenProperties DEF R
  <2>6. con' = [con EXCEPT !.wire = @ \ {msg}, !.back = q] BY <1>0, <2>1, Zenon DEF ConnectorType
  <2> HIDE DEF q
  <2>7. con' \in ConnectorType BY ZenonT(30), <1>0, <2>5, <2>6 DEF ConnectorType
  <2>8. /\ con'.state = con.state /\ con'.current = con.current /\ con'.requests = con.requests
        /\ con'.ops = con.ops /\ con'.socket = con.socket /\ con'.wire = con.wire \ {msg} /\ con'.lag = con.lag
        /\ con'.back = q
    BY <1>0, <2>6, Zenon DEF ConnectorType
  <2>9. \A i \in 1..Len(con'.back) : \/ i \in 1..Len(con.back) /\ con'.back[i] = con.back[i]
                                     \/ con'.back[i] = Reply(msg, w)
    BY <2>5, <2>8
  <2>10. /\ con'.wire \cup con'.lag \subseteq con.wire \cup con.lag
         /\ con'.wire \cap con'.lag \subseteq con.wire \cap con.lag
         /\ msg \notin con.wire \cap con.lag => msg \notin con'.wire \cup con'.lag
    BY <2>8, Zenon
  <2> QED BY <2>1, <2>7, <2>8, <2>9, <2>10, ReceivedIndInv, Zenon
<1>2. CASE ServeLate
  <2>0. PICK msg \in con.lag : \E w \in Taken(msg) : con' = [con EXCEPT !.lag = @ \ {msg}] /\ Received(msg, w)
    BY <1>2, Zenon DEF ServeLate
  <2>1. PICK w \in Taken(msg) : con' = [con EXCEPT !.lag = @ \ {msg}] /\ Received(msg, w) BY <2>0, Zenon
  <2>2. con' \in ConnectorType BY ZenonT(30), <1>0, <2>1 DEF ConnectorType
  <2>3. /\ con'.state = con.state /\ con'.current = con.current /\ con'.requests = con.requests
        /\ con'.ops = con.ops /\ con'.socket = con.socket /\ con'.wire = con.wire /\ con'.lag = con.lag \ {msg}
        /\ con'.back = con.back
    BY <1>0, <2>1, Zenon DEF ConnectorType
  <2>4. /\ con'.wire \cup con'.lag \subseteq con.wire \cup con.lag
        /\ con'.wire \cap con'.lag \subseteq con.wire \cap con.lag
        /\ msg \notin con.wire \cap con.lag => msg \notin con'.wire \cup con'.lag
    BY <2>3, Zenon
  <2>5. \A i \in 1..Len(con'.back) : i \in 1..Len(con.back) /\ con'.back[i] = con.back[i] BY <2>3, Zenon
  <2> QED BY ZenonT(30), <2>1, <2>2, <2>3, <2>4, <2>5, ReceivedIndInv
<1>3. CASE Disconnect
  <2>1. PICK back \in {con.back, <<>>} : \E lag \in {con.lag, con.lag \cup con.wire} : con' = Broken(lag, back)
    BY ZenonT(30), <1>3 DEF Disconnect
  <2>2. Kept(con, con') /\ (Chain(con) => Goes(con, con')) BY ZenonT(30), <1>0, <2>1, BrokenIs
  <2> QED BY <1>3, <2>2, ConnectorStep, Zenon DEF Disconnect
<1>4. CASE WorkerDies
  <2>1. PICK back \in {con.back, <<>>} : con' = Broken({}, back) BY SMTT(30), <1>4 DEF WorkerDies
  <2>2. Kept(con, con') /\ (Chain(con) => Goes(con, con')) BY <1>0, <2>1, BrokenIs, Zenon
  <2>3. /\ UNCHANGED <<rq, notes, got, done, cut>> /\ alive' = FALSE
        /\ work' = [r \in Reqs |-> "NONE"]
    BY <1>4, Zenon DEF WorkerDies
  <2>4. TypeOK' BY ZenonT(30), <2>2, <2>3 DEF IndInv, TypeOK, Kept
  <2>5. ReportsAreReal'
    <3>1. SuccessIsReal' BY <2>3, Zenon DEF IndInv, ReportsAreReal, SuccessIsReal
    <3>2. \A r \in Reqs : work'[r] = "SUCCESS" => r \in done' BY <2>3, Zenon
    <3>3. \A j \in 1..Len(con'.back) : con'.back[j].status = "SUCCESS" => con'.back[j].id \in done'
      BY <2>2, <2>3, Zenon DEF IndInv, ReportsAreReal, Kept
    <3>4. \A n \in notes' : n.success /\ n.status = "SUCCESS" => n.id \in done' BY <2>3, Zenon DEF IndInv, ReportsAreReal
    <3> QED BY <3>1, <3>2, <3>3, <3>4, Zenon DEF ReportsAreReal
  <2>6. SentOnce' BY <2>3, Zenon DEF IndInv, SentOnce
  <2>7. ASSUME ~cut' PROVE Chain(con') /\ Messaged'
    <3>1. Chain(con) /\ Messaged BY SMTT(30), <2>3, <2>7 DEF IndInv
    <3>2. \A r \in Reqs : OnePlace(con, QUEUED(r)) => Moves(con, con', QUEUED(r))
      BY SMTT(30), <2>2, <3>1, MessageTypes DEF Goes
    <3>3. Messaged' BY SMTT(30), <2>3, <3>1, <3>2, MessagesMove
    <3> QED BY <2>2, <3>1, <3>3, Zenon DEF Goes
  <2> QED BY <2>4, <2>5, <2>6, <2>7, Zenon DEF IndInv
<1>5. CASE WorkerStarts
  <2>1. UNCHANGED <<con, rq, notes, work, got, done, cut>> /\ alive' = TRUE BY <1>5, Zenon DEF WorkerStarts
  <2>2. TypeOK' BY <2>1, Zenon DEF IndInv, TypeOK
  <2> QED BY <2>1, <2>2, Zenon DEF IndInv, ReportsAreReal, SuccessIsReal, SentOnce, Messaged
<1>6. CASE \E r \in Reqs : Execute(r)
  <2>1. PICK r \in Reqs : Execute(r) BY <1>6, Zenon
  <2>2. UNCHANGED <<con, rq, notes, alive, got, cut>> BY <2>1, Zenon DEF Execute
  <2>3. done \subseteq done' /\ done' \subseteq Reqs BY <2>1, Zenon DEF Execute, IndInv, TypeOK
  <2>4. TypeOK' BY <2>1, <2>2, <2>3, Zenon DEF IndInv, TypeOK, Execute
  <2>5. ReportsAreReal'
    <3>1. SuccessIsReal' BY <2>2, <2>3, Zenon DEF IndInv, ReportsAreReal, SuccessIsReal
    <3>2. \A q \in Reqs : work'[q] = "SUCCESS" => q \in done' BY <2>1, Zenon DEF Execute, IndInv, ReportsAreReal, TypeOK
    <3>3. \A j \in 1..Len(con'.back) : con'.back[j].status = "SUCCESS" => con'.back[j].id \in done'
      BY <2>2, <2>3, Zenon DEF IndInv, ReportsAreReal
    <3>4. \A n \in notes' : n.success /\ n.status = "SUCCESS" => n.id \in done'
      BY <2>2, <2>3, Zenon DEF IndInv, ReportsAreReal
    <3> QED BY <3>1, <3>2, <3>3, <3>4, Zenon DEF ReportsAreReal
  <2> QED BY <2>2, <2>4, <2>5, Zenon DEF IndInv, SentOnce, Messaged
<1> QED BY <1>1, <1>2, <1>3, <1>4, <1>5, <1>6, Zenon DEF Worker

\* A step of a request.
RequestType == [state : {"CREATED", "IN_PROGRESS", "FINISHED"},
                ext   : {"NONE", "SUCCESS", "CLIENT_ERROR", "SERVER_QUEUED", "SERVER_BAD", "SERVER_ERROR", "GIVEN_UP"},
                at    : {"idle", "sent", "once", "wait", "cancel"}]

LEMMA RequestStep ==
    ASSUME IndInv, ~con.dead, Kept(con, con'), rq' \in [Reqs -> RequestType], UNCHANGED worker,
           notes' \subseteq notes, cut' \in BOOLEAN, cut => cut',
           \A r \in Reqs : rq'[r].ext = "SUCCESS" => r \in done,
           Chain(con) /\ Messaged /\ ~con'.dead /\ ~cut' => Chain(con') /\ Messaged'
    PROVE  IndInv'
<1>1. TypeOK' BY Zenon DEF IndInv, TypeOK, Kept, worker, RequestType
<1>2. ReportsAreReal' BY ReportsMove, Zenon DEF IndInv, worker
<1>3. SentOnce' BY Zenon DEF IndInv, SentOnce, worker
<1>4. ~con'.dead /\ ~cut' => Chain(con') /\ Messaged' BY Zenon DEF IndInv
<1> QED BY <1>1, <1>2, <1>3, <1>4, Zenon DEF IndInv

LEMMA KeptSame == con \in ConnectorType => Kept(con, con)
BY Zenon DEF Kept

LEMMA StartIndInv ==
    ASSUME IndInv, ~con.dead, NEW r \in Reqs, Start(r)
    PROVE  IndInv'
<1> DEFINE m == QUEUED(r)
           e == Queued(con, m)
<1>0. con \in ConnectorType /\ rq \in [Reqs -> RequestType] BY Zenon DEF IndInv, TypeOK, RequestType
<1>1. PICK at \in {"sent", "once"} :
      /\ rq[r].state = "CREATED" /\ con' = SendImpl(con, m)
      /\ rq' = [rq EXCEPT ![r].state = "IN_PROGRESS", ![r].at = at]
      /\ UNCHANGED <<notes, worker, cut>>
  BY Zenon DEF Start
<1>2. rq' \in [Reqs -> RequestType] BY ZenonT(30), <1>0, <1>1 DEF RequestType
<1>3. /\ \A q \in Reqs : rq'[q].ext = rq[q].ext
      /\ \A q \in Reqs : rq'[q].state = "CREATED" => rq[q].state = "CREATED" /\ q # r
  BY <1>0, <1>1, Zenon DEF RequestType
<1>4. m \in Messages BY MessageTypes, Zenon
<1>5. /\ Derived(con, con')
      /\ Chain(con) /\ ~con'.dead =>
           Chain(con') /\ \A n \in Messages : OnePlace(e, n) => Moves(e, con', n)
  BY <1>0, <1>1, <1>4, SendImplIs, Zenon
<1>6. /\ \A n \in Messages : OnePlace(con, n) /\ n # m => Moves(con, e, n)
      /\ OnePlace(con, m) /\ ~Ahead(con, m) /\ con.current # m => OnePlace(e, m)
  BY <1>0, <1>4, QueuedIs, Zenon
<1>7. ASSUME Chain(con), Messaged, ~con'.dead PROVE Chain(con') /\ Messaged'
  <2>1. OnePlace(con', m) /\ got[r] = 0
    <3>1. OnePlace(con, m) /\ ~Ahead(con, m) /\ con.current # m /\ got[r] = 0 BY <1>1, <1>7, Zenon DEF Messaged
    <3>2. OnePlace(e, m) BY <1>6, <3>1, Zenon
    <3>3. Moves(e, con', m) BY <1>4, <1>5, <1>7, <3>2, Zenon
    <3> QED BY <3>1, <3>3, Zenon DEF Moves
  <2>2. ASSUME NEW q \in Reqs, q # r
        PROVE  /\ OnePlace(con', QUEUED(q))
               /\ Ahead(con', QUEUED(q)) => got[q] = 0
               /\ rq'[q].state = "CREATED" =>
                     got[q] = 0 /\ ~Ahead(con', QUEUED(q)) /\ con'.current # QUEUED(q)
    <3> DEFINE n == QUEUED(q)
    <3>1. n \in Messages /\ n # m BY <2>2, MessageTypes, Zenon
    <3>2. /\ OnePlace(con, n) /\ (Ahead(con, n) => got[q] = 0)
          /\ rq[q].state = "CREATED" => got[q] = 0 /\ ~Ahead(con, n) /\ con.current # n
      BY <1>7, Zenon DEF Messaged
    <3>3. rq'[q].state = "CREATED" => rq[q].state = "CREATED" BY <1>3, Zenon
    <3> HIDE DEF n
    <3>4. Moves(con, e, n) BY <1>6, <3>1, <3>2, Zenon
    <3>5. Moves(e, con', n) BY <1>5, <1>7, <3>1, <3>4, Zenon DEF Moves
    <3>6. Moves(con, con', n) BY <3>4, <3>5, MovesOn, Zenon
    <3>7. /\ OnePlace(con', n) /\ (Ahead(con', n) => Ahead(con, n))
          /\ con'.current = n => con.current = n \/ InQueue(con, n)
      BY <3>6, Zenon DEF Moves
    <3>8. InQueue(con, n) => Ahead(con, n) BY Zenon DEF Ahead
    <3>9. QED BY <3>2, <3>3, <3>7, <3>8, Zenon DEF n
  <2>3. Messaged' BY ZenonT(30), <1>1, <1>3, <2>1, <2>2 DEF Messaged, worker, QUEUED
  <2> QED BY <1>5, <1>7, <2>3, Zenon
<1>8. \A q \in Reqs : rq'[q].ext = "SUCCESS" => q \in done BY <1>3, Zenon DEF IndInv, ReportsAreReal, SuccessIsReal
<1>9. Kept(con, con') BY <1>0, <1>5, DerivedIsKept, Zenon
<1>10. cut' \in BOOLEAN /\ (cut => cut') BY <1>1, Zenon DEF IndInv, TypeOK
<1> QED BY <1>1, <1>2, <1>7, <1>8, <1>9, <1>10, RequestStep, Zenon

LEMMA AwakenIndInv ==
    ASSUME IndInv, ~con.dead, NEW r \in Reqs, Awaken(r)
    PROVE  IndInv'
<1> DEFINE m == STATUS(r)
           e == Queued(con, m)
<1>0. con \in ConnectorType /\ rq \in [Reqs -> RequestType] BY Zenon DEF IndInv, TypeOK, RequestType
<1>1. /\ con' = SendImpl(con, m) /\ rq' = [rq EXCEPT ![r].at = "sent"]
      /\ UNCHANGED <<notes, worker, cut>>
  BY Zenon DEF Awaken
<1>2. rq' \in [Reqs -> RequestType] BY <1>0, <1>1, Zenon DEF RequestType
<1>3. \A q \in Reqs : rq'[q].ext = rq[q].ext /\ rq'[q].state = rq[q].state BY <1>0, <1>1, Zenon DEF RequestType
<1>4. m \in Messages BY MessageTypes, Zenon
<1>5. /\ Derived(con, con')
      /\ Chain(con) /\ ~con'.dead =>
           Chain(con') /\ \A n \in Messages : OnePlace(e, n) => Moves(e, con', n)
  BY SMTT(30), <1>0, <1>1, <1>4, SendImplIs
<1>6. \A n \in Messages : OnePlace(con, n) /\ n # m => Moves(con, e, n) BY <1>0, <1>4, QueuedIs, Zenon
<1>7. ASSUME Chain(con), Messaged, ~con'.dead PROVE Chain(con') /\ Messaged'
  <2>1. ASSUME NEW q \in Reqs, OnePlace(con, QUEUED(q)) PROVE Moves(con, con', QUEUED(q))
    <3>1. QUEUED(q) \in Messages /\ QUEUED(q) # m BY MessageTypes, Zenon
    <3>2. Moves(con, e, QUEUED(q)) BY <1>6, <2>1, <3>1, Zenon
    <3>3. Moves(e, con', QUEUED(q)) BY <1>5, <1>7, <3>1, <3>2, Zenon DEF Moves
    <3> QED BY <3>2, <3>3, MovesOn, Zenon
  <2>2. Messaged' BY <1>1, <1>3, <1>7, <2>1, MessagesMove, Zenon DEF worker
  <2> QED BY <1>5, <1>7, <2>2, Zenon
<1>8. \A q \in Reqs : rq'[q].ext = "SUCCESS" => q \in done BY <1>3, Zenon DEF IndInv, ReportsAreReal, SuccessIsReal
<1>9. Kept(con, con') BY <1>0, <1>5, DerivedIsKept, Zenon
<1>10. cut' \in BOOLEAN /\ (cut => cut') BY <1>1, Zenon DEF IndInv, TypeOK
<1> QED BY <1>1, <1>2, <1>7, <1>8, <1>9, <1>10, RequestStep, Zenon

\* A request that ends reports a success only if it was carried out.
LEMMA FinishIndInv ==
    ASSUME IndInv, ~con.dead, NEW r \in Reqs,
           NEW ext \in {"SUCCESS", "CLIENT_ERROR", "SERVER_QUEUED", "SERVER_BAD", "SERVER_ERROR", "GIVEN_UP"},
           Finish(r, ext), ext = "SUCCESS" => r \in done,
           UNCHANGED <<con, worker, cut>>, notes' \subseteq notes
    PROVE  IndInv'
<1>0. con \in ConnectorType /\ rq \in [Reqs -> RequestType] BY Zenon DEF IndInv, TypeOK, RequestType
<1>1. PICK at \in {"idle", "cancel"} : \/ rq' = [rq EXCEPT ![r] = [state |-> "FINISHED", ext |-> ext, at |-> at]]
                                      \/ rq' = rq
  BY ZenonT(30) DEF Finish
<1> DEFINE f == [state |-> "FINISHED", ext |-> ext, at |-> at]
<1>f. f \in RequestType /\ f.state = "FINISHED" /\ f.ext = ext BY SMTT(30) DEF RequestType
<1>g. rq' = [rq EXCEPT ![r] = f] \/ rq' = rq BY <1>1, Zenon
<1> HIDE DEF f
<1>h. \A q \in Reqs : rq'[q] = rq[q] \/ (q = r /\ rq'[q] = f) BY <1>0, <1>g, Zenon
<1>2. rq' \in [Reqs -> RequestType] BY <1>0, <1>f, <1>g, Zenon
<1>3. \A q \in Reqs : rq'[q].state = "CREATED" => rq[q].state = "CREATED" BY <1>f, <1>h, ZenonT(30)
<1>4. \A q \in Reqs : rq'[q].ext = "SUCCESS" => q \in done
  BY <1>f, <1>h, Zenon DEF IndInv, ReportsAreReal, SuccessIsReal
<1>5. Kept(con, con') BY SMTT(30), <1>0, KeptSame
<1>6. ASSUME Messaged PROVE Messaged'
  <2>1. \A q \in Reqs : OnePlace(con, QUEUED(q)) => Moves(con, con', QUEUED(q)) BY Zenon DEF Moves
  <2> QED BY <1>3, <1>6, <2>1, MessagesMove, Zenon DEF worker
<1>7. cut' \in BOOLEAN /\ (cut => cut') BY Zenon DEF IndInv, TypeOK
<1> QED BY <1>2, <1>4, <1>5, <1>6, <1>7, RequestStep, Zenon

LEMMA FinishImplIndInv ==
    ASSUME IndInv, ~con.dead, NEW r \in Reqs, FinishImpl(r)
    PROVE  IndInv'
<1>0. con \in ConnectorType /\ rq \in [Reqs -> RequestType] BY Zenon DEF IndInv, TypeOK, RequestType
<1>1. con' = Cancel(con, r) /\ rq' = [rq EXCEPT ![r].at = "idle"] /\ UNCHANGED <<notes, worker>>
  BY Zenon DEF FinishImpl
<1>2. rq' \in [Reqs -> RequestType] BY <1>0, <1>1, ZenonT(30) DEF RequestType
<1>3. \A q \in Reqs : rq'[q].ext = rq[q].ext /\ rq'[q].state = rq[q].state BY <1>0, <1>1, Zenon DEF RequestType
<1>4. \A q \in Reqs : rq'[q].ext = "SUCCESS" => q \in done BY <1>3, Zenon DEF IndInv, ReportsAreReal, SuccessIsReal
<1>5. /\ Derived(con, con')
      /\ ~IsCurrent(con, r) =>
           /\ Chain(con) => Chain(con')
           /\ \A m \in Messages : OnePlace(con, m) => Moves(con, con', m)
  BY <1>0, <1>1, CancelIs, Zenon
<1>6. Kept(con, con') BY <1>0, <1>5, DerivedIsKept, Zenon
<1>7. CASE IsCurrent(con, r)
  <2>1. cut' = TRUE BY <1>7, Zenon DEF FinishImpl, Cut
  <2> QED BY <1>1, <1>2, <1>4, <1>6, <2>1, RequestStep, Zenon
<1>8. CASE ~IsCurrent(con, r)
  <2>1. cut' = cut /\ cut \in BOOLEAN BY <1>8, Zenon DEF FinishImpl, IndInv, TypeOK
  <2>2. ASSUME Chain(con), Messaged PROVE Chain(con') /\ Messaged'
    <3>1. \A q \in Reqs : OnePlace(con, QUEUED(q)) => Moves(con, con', QUEUED(q)) BY <1>5, <1>8, MessageTypes, Zenon
    <3>2. Messaged' BY <1>1, <1>3, <2>2, <3>1, MessagesMove, Zenon DEF worker
    <3> QED BY <1>5, <1>8, <2>2, <3>2, Zenon
  <2> QED BY <1>1, <1>2, <1>4, <1>6, <2>1, <2>2, RequestStep, Zenon
<1> QED BY <1>7, <1>8, Zenon

LEMMA AnalyzeIndInv ==
    ASSUME IndInv, ~con.dead, NEW note \in notes, Analyze(note)
    PROVE  IndInv'
<1> DEFINE r == note.id
<1>0. con \in ConnectorType /\ rq \in [Reqs -> RequestType] BY Zenon DEF IndInv, TypeOK, RequestType
<1>1. r \in Reqs /\ note.status \in Statuses /\ (note.success /\ note.status = "SUCCESS" => r \in done)
  BY Zenon DEF IndInv, TypeOK, ReportsAreReal
<1>2. notes' \subseteq notes /\ UNCHANGED <<con, worker, cut>> BY Zenon DEF Analyze
<1>3. ASSUME rq' = rq \/ rq' = [rq EXCEPT ![r].at = "wait"] PROVE IndInv'
  <2>1. rq' \in [Reqs -> RequestType] BY <1>0, <1>3 DEF RequestType
  <2>2. \A q \in Reqs : rq'[q].ext = rq[q].ext /\ rq'[q].state = rq[q].state BY <1>0, <1>3 DEF RequestType
  <2>3. \A q \in Reqs : rq'[q].ext = "SUCCESS" => q \in done BY <2>2, Zenon DEF IndInv, ReportsAreReal, SuccessIsReal
  <2>4. Kept(con, con') BY <1>0, <1>2, KeptSame, Zenon
  <2>5. ASSUME Messaged PROVE Messaged'
    <3>1. \A q \in Reqs : OnePlace(con, QUEUED(q)) => Moves(con, con', QUEUED(q)) BY <1>2, Zenon DEF Moves
    <3> QED BY <1>2, <2>2, <2>5, <3>1, MessagesMove, Zenon DEF worker
  <2>6. cut' \in BOOLEAN /\ (cut => cut') BY <1>2, Zenon DEF IndInv, TypeOK
  <2> QED BY <1>2, <2>1, <2>3, <2>4, <2>5, <2>6, RequestStep, Zenon
<1>4. CASE rq[r].state = "FINISHED" BY <1>3, <1>4, Zenon DEF Analyze
<1>5. CASE rq[r].state # "FINISHED" /\ ~note.success
  <2>1. Finish(r, "CLIENT_ERROR") BY <1>5, Zenon DEF Analyze
  <2> QED BY <1>1, <1>2, <2>1, FinishIndInv, Zenon
<1>6. CASE rq[r].state # "FINISHED" /\ note.success
  <2>1. CASE note.status = "BAD"
    <3>1. Finish(r, "SERVER_BAD") BY <1>6, <2>1, Zenon DEF Analyze
    <3> QED BY <1>1, <1>2, <3>1, FinishIndInv, Zenon
  <2>2. CASE note.status = "QUEUED"
    <3>1. Finish(r, "SERVER_QUEUED") \/ rq' = [rq EXCEPT ![r].at = "wait"] BY <1>6, <2>2, Zenon DEF Analyze, Tracked
    <3> QED BY <1>1, <1>2, <1>3, <3>1, FinishIndInv, Zenon
  <2>3. CASE note.status = "SUCCESS"
    <3>1. Finish(r, "SUCCESS") BY <1>6, <2>3, Zenon DEF Analyze
    <3> QED BY <1>1, <1>2, <1>6, <2>3, <3>1, FinishIndInv, Zenon
  <2>4. CASE note.status = "FAILED"
    <3>1. Finish(r, "SERVER_ERROR") BY <1>6, <2>4, Zenon DEF Analyze
    <3> QED BY <1>1, <1>2, <3>1, FinishIndInv, Zenon
  <2> QED BY <1>1, <2>1, <2>2, <2>3, <2>4, Zenon DEF Statuses
<1> QED BY <1>4, <1>5, <1>6, Zenon

LEMMA InitIndInv == Init => IndInv
<1> SUFFICES ASSUME Init PROVE IndInv OBVIOUS
<1>1. /\ con.state = "INITIAL" /\ con.current = NoMsg /\ con.requests = <<>> /\ con.wire = {} /\ con.lag = {}
      /\ con.back = <<>>
      /\ con.ops = [o \in Ops |-> [x \in Results |-> 0]]
  BY Zenon DEF Init, Connector
<1>2. con \in ConnectorType BY EmptySeq, Zenon DEF Init, Connector, ConnectorType
<1>3. TypeOK BY ZenonT(30), <1>2 DEF Init, TypeOK
<1>4. ReportsAreReal BY <1>1 DEF Init, ReportsAreReal, SuccessIsReal
<1>5. SentOnce BY DEF Init, SentOnce
<1>6. Idle(con) BY <1>1 DEF Idle
<1>7. Chain(con) BY <1>1, <1>2, <1>6, ChainIdle, Zenon
<1>8. Messaged
  <2> SUFFICES ASSUME NEW r \in Reqs
               PROVE  OnePlace(con, QUEUED(r)) /\ ~Ahead(con, QUEUED(r)) /\ con.current # QUEUED(r) /\ got[r] = 0
    BY Zenon DEF Messaged
  <2>1. con.current # QUEUED(r) /\ got[r] = 0 BY <1>1, MessageTypes, NoMsgDistinct, Zenon DEF Init
  <2>2. ~InQueue(con, QUEUED(r)) BY <1>1 DEF InQueue
  <2>3. ~Unwritten(con, QUEUED(r)) BY <2>1, Zenon DEF Unwritten
  <2>4. \A i, j \in 1..Len(con.requests) : con.requests[i] = QUEUED(r) /\ con.requests[j] = QUEUED(r) => i = j
    BY <2>2, Zenon DEF InQueue
  <2>5. OnePlace(con, QUEUED(r)) BY <1>1, <2>2, <2>3, <2>4, Zenon DEF OnePlace
  <2> QED BY <1>1, <2>1, <2>2, <2>3, <2>5, Zenon DEF Ahead
<1> QED BY <1>3, <1>4, <1>5, <1>7, <1>8, Zenon DEF IndInv

LEMMA NextIndInv == IndInv /\ [Next]_vars => IndInv'
<1> SUFFICES ASSUME IndInv, [Next]_vars PROVE IndInv' OBVIOUS
<1>1. CASE UNCHANGED vars
  BY <1>1, Zenon DEF vars, worker, IndInv, TypeOK, ReportsAreReal, SuccessIsReal, SentOnce, Messaged
<1>2. CASE Next
  <2>1. ~con.dead BY <1>2, Zenon DEF Next
  <2>2. CASE Handler BY <2>1, <2>2, HandlersIndInv, OnReadIndInv, Zenon DEF Handler
  <2>3. CASE Operation BY <2>1, <2>3, OperationIndInv, Zenon
  <2>4. CASE Worker BY <2>1, <2>4, WorkerIndInv, Zenon
  <2>5. ASSUME NEW r \in Reqs, Owner(r) PROVE IndInv'
    <3>1. CASE Start(r) BY <2>1, <3>1, StartIndInv, Zenon
    <3>2. CASE GiveUp(r)
      <4>1. Finish(r, "GIVEN_UP") /\ UNCHANGED <<con, notes, worker, cut>> BY <3>2, Zenon DEF GiveUp
      <4> QED BY <2>1, <4>1, FinishIndInv, Zenon
    <3>3. CASE Awaken(r) BY <2>1, <3>3, AwakenIndInv, Zenon
    <3>4. CASE FinishImpl(r) BY <2>1, <3>4, FinishImplIndInv, Zenon
    <3> QED BY <2>5, <3>1, <3>2, <3>3, <3>4, Zenon DEF Owner
  <2>6. ASSUME NEW n \in notes, Analyze(n) PROVE IndInv' BY <2>1, <2>6, AnalyzeIndInv, Zenon
  <2> QED BY <1>2, <2>2, <2>3, <2>4, <2>5, <2>6, Zenon DEF Next
<1> QED BY <1>1, <1>2, Zenon

\* The inductive invariant: the chain of operations of the connector is never
\* doubled and never breaks, and a QUEUED message is at one place until the worker
\* has it (MessengerConnector.cc).
THEOREM IndInvariant == Spec => []IndInv
<1> QED BY InitIndInv, NextIndInv, PTL DEF Spec

\* A request reported as a SUCCESS was carried out, for any number of requests,
\* faults and cancellations (ReplicationRequest::_analyze).
THEOREM SuccessIsNeverMadeUp == Spec => []SuccessIsReal
<1>1. IndInv => SuccessIsReal BY Zenon DEF IndInv, ReportsAreReal
<1> QED BY <1>1, IndInvariant, PTL

\* Until cancel() has met a current message, the worker takes in a request at most
\* once: what is sent again was not received (_requestSent, _responseReceived).
THEOREM NothingIsSentTwice == Spec => []SentOnce
<1>1. IndInv => SentOnce BY Zenon DEF IndInv
<1> QED BY <1>1, IndInvariant, PTL

\* Until cancel() has met a current message, the connector has an operation under
\* way for everything that it waits for, and no message is left in its queue
\* (MessengerConnector's handlers).
THEOREM TheChainNeverBreaks == Spec => []Attended
<1>1. ASSUME IndInv PROVE Attended
  <2> SUFFICES ASSUME ~con.dead, ~cut
               PROVE  /\ con.current # NoMsg => Outstanding(con, "write") \/ Outstanding(con, "read")
                      /\ con.state = "CONNECTING" => \E o \in {"resolve", "connect", "timer"} : Outstanding(con, o)
                      /\ con.requests # <<>> => con.state = "CONNECTING" \/ con.current # NoMsg
    BY Zenon DEF Attended
  <2>1. con \in ConnectorType /\ Chain(con) BY <1>1, Zenon DEF IndInv, TypeOK
  <2>2. {"resolve", "connect", "timer", "write", "read"} = Ops BY Zenon DEF Ops
  <2>3. \A o \in Ops : Total(con, o) \in Nat BY <2>1, TotalIs, Zenon
  <2>4. ASSUME NEW o \in Ops, Total(con, o) # 0 PROVE Outstanding(con, o)
    <3>1. PICK x \in Results : con.ops[o][x] # 0 BY <2>1, <2>4, TotalIs, Zenon
    <3>2. con.ops[o][x] \in Nat BY <2>1, OpsAreCounted, Zenon
    <3> QED BY <3>1, <3>2 DEF Outstanding
  <2>5. con.current # NoMsg => Total(con, "write") # 0 \/ Total(con, "read") # 0 BY <2>1 DEF Chain
  <2>6. con.state = "CONNECTING" =>
          Total(con, "resolve") # 0 \/ Total(con, "connect") # 0 \/ Total(con, "timer") # 0
    BY <2>1 DEF Chain
  <2> QED BY <2>1, <2>2, <2>4, <2>5, <2>6, Zenon DEF Chain
<1> QED BY <1>1, IndInvariant, PTL

-------------------------------------------------------------------------------
(***************************************************************************)
(* The end of a request.                                                   *)
(***************************************************************************)

\* The connector d holds no message that c did not.
Fewer(c, d) == \A m \in Messages : d.current = m \/ InQueue(d, m) => c.current = m \/ InQueue(c, m)

LEMMA FewerOn ==
    ASSUME NEW c, NEW d, NEW e, Fewer(c, d), Fewer(d, e)
    PROVE  Fewer(c, e)
BY Zenon DEF Fewer

LEMMA FewerSame ==
    ASSUME NEW c, NEW d, d.requests = c.requests, d.current = c.current \/ d.current = NoMsg
    PROVE  Fewer(c, d)
BY NoMsgDistinct, Zenon DEF Fewer, InQueue

LEMMA FewerHolds ==
    ASSUME NEW c \in ConnectorType, NEW d \in ConnectorType, Fewer(c, d), NEW r, Holds(d, r)
    PROVE  Holds(c, r)
<1>1. \A m \in Messages : (c.current = m \/ InQueue(c, m)) /\ m.id = r => Holds(c, r)
  <2>1. c.requests \in Seq(Messages) /\ DOMAIN c.requests = 1..Len(c.requests) BY LenProperties, Zenon DEF ConnectorType
  <2> QED BY <2>1, NoMsgDistinct, Zenon DEF Holds, Exists, IsCurrent, InQueue
<1>2. \E m \in Messages : (d.current = m \/ InQueue(d, m)) /\ m.id = r
  <2>1. CASE IsCurrent(d, r) BY <2>1, Zenon DEF IsCurrent, ConnectorType
  <2>2. CASE Exists(d, r)
    <3>1. d.requests \in Seq(Messages) /\ DOMAIN d.requests = 1..Len(d.requests) BY LenProperties, Zenon DEF ConnectorType
    <3>2. PICK i \in DOMAIN d.requests : d.requests[i].id = r BY <2>2, Zenon DEF Exists
    <3>3. d.requests[i] \in Messages BY <3>1, ElementOfSeq, Zenon
    <3> QED BY <3>1, <3>2, <3>3, Zenon DEF InQueue
  <2> QED BY <2>1, <2>2, Zenon DEF Holds
<1> QED BY <1>1, <1>2, Zenon DEF Fewer

LEMMA SendRequestFewer ==
    ASSUME NEW c \in ConnectorType
    PROVE  Fewer(c, SendRequest(c))
<1> DEFINE d == SendRequest(c)
<1>1. CASE c.current # NoMsg \/ c.requests = <<>> BY <1>1, SendRequestIs, FewerSame, Zenon
<1>2. CASE c.current = NoMsg /\ c.requests # <<>>
  <2>1. d.current = Head(c.requests) /\ d.requests = Tail(c.requests) BY <1>2, SendRequestIs, Zenon
  <2>2. c.requests \in Seq(Messages) /\ Len(c.requests) \in Nat BY LenProperties, Zenon DEF ConnectorType
  <2>3. /\ Len(Tail(c.requests)) = Len(c.requests) - 1
        /\ \A i \in 1..Len(Tail(c.requests)) : Tail(c.requests)[i] = c.requests[i + 1]
    BY <1>2, <2>2, HeadTailProperties, Zenon
  <2>4. Head(c.requests) = c.requests[1] /\ 1 \in 1..Len(c.requests)
    <3>1. Len(c.requests) # 0 BY <1>2, <2>2, EmptySeq, Zenon
    <3> QED BY <2>2, <3>1
  <2>5. \A i \in 1..Len(Tail(c.requests)) : i + 1 \in 1..Len(c.requests) BY <2>2, <2>3
  <2> HIDE DEF d
  <2>6. QED BY <2>1, <2>3, <2>4, <2>5, Zenon DEF Fewer, InQueue, d
<1> QED BY <1>1, <1>2, Zenon

LEMMA RestartFewer ==
    ASSUME NEW c \in ConnectorType
    PROVE  Fewer(c, Restart(c))
BY RestartIs, FewerSame, Zenon

\* A message whose write failed is put back.
LEMMA RequestSentFewer ==
    ASSUME NEW c \in ConnectorType, NEW x
    PROVE  Fewer(c, RequestSent(c, x))
<1>1. CASE x = "aborted" BY <1>1, RestartFewer, Zenon DEF RequestSent
<1>2. CASE x # "aborted" /\ c.current = NoMsg BY <1>2, FewerSame, Zenon DEF RequestSent
<1>3. CASE x # "aborted" /\ c.current # NoMsg /\ x # "error"
  <2>1. RequestSent(c, x) = BeginIO(c, "read") /\ "read" \in Ops BY <1>3, Zenon DEF RequestSent, Ops
  <2>2. SameRest(c, BeginIO(c, "read")) BY <2>1, BeginIOFromIdle, Zenon
  <2> QED BY <2>1, <2>2, FewerSame, Zenon DEF SameRest
<1>4. CASE x = "error" /\ c.current # NoMsg
  <2> DEFINE q == <<c.current>> \o c.requests
             e == [c EXCEPT !.requests = q, !.current = NoMsg]
  <2>1. RequestSent(c, x) = Restart(e) BY <1>4, Zenon DEF RequestSent, ConnectorType
  <2>2. c.current \in Messages /\ c.requests \in Seq(Messages) /\ Len(c.requests) \in Nat
    BY <1>4, LenProperties, Zenon DEF ConnectorType
  <2>3. /\ q \in Seq(Messages) /\ Len(q) = 1 + Len(c.requests)
        /\ \A i \in 1..Len(q) : q[i] = IF i <= 1 THEN c.current ELSE c.requests[i - 1]
    BY <2>2, Prepended, Zenon
  <2> HIDE DEF q
  <2>4. e \in ConnectorType /\ e.requests = q /\ e.current = NoMsg BY ZenonT(30), <2>3 DEF ConnectorType
  <2> HIDE DEF e
  <2>5. \A i \in 1..Len(q) : i <= 1 \/ i - 1 \in 1..Len(c.requests) BY <2>2, <2>3
  <2>6. \A m : InQueue(e, m) => c.current = m \/ InQueue(c, m) BY <2>3, <2>4, <2>5, ZenonT(30) DEF InQueue
  <2>7. Fewer(c, e) BY <2>4, <2>6, NoMsgDistinct, Zenon DEF Fewer
  <2> QED BY <2>1, <2>4, <2>7, RestartFewer, FewerOn, Zenon
<1> QED BY <1>1, <1>2, <1>3, <1>4, Zenon

LEMMA ResponseReceivedFewer ==
    ASSUME NEW c \in ConnectorType, NEW x, NEW found \in {"error", "garbled", "answer"},
           found = "answer" => c.back # <<>>
    PROVE  Fewer(c, ResponseReceived(c, x, found))
<1> DEFINE e == [c EXCEPT !.current = NoMsg]
           f == [e EXCEPT !.back = Tail(@)]
<1>1. e \in ConnectorType /\ e.current = NoMsg /\ e.requests = c.requests BY ZenonT(30) DEF ConnectorType
<1>2. found = "answer" => f \in ConnectorType /\ f.current = NoMsg /\ f.requests = c.requests
  <2> SUFFICES ASSUME found = "answer" PROVE f \in ConnectorType /\ f.current = NoMsg /\ f.requests = c.requests
    OBVIOUS
  <2>1. c.back \in Seq([id : Reqs, status : Statuses]) BY Zenon DEF ConnectorType
  <2>2. Tail(c.back) \in Seq([id : Reqs, status : Statuses]) BY <2>1, HeadTailProperties, Zenon
  <2> QED BY ZenonT(30), <2>2 DEF ConnectorType
<1>3. Fewer(c, e) /\ (found = "answer" => Fewer(c, f)) BY <1>1, <1>2, FewerSame, Zenon
<1>4. Fewer(c, Terminated(c)) /\ Fewer(c, c)
  <2>1. Terminated(c).current = c.current /\ Terminated(c).requests = c.requests BY Zenon DEF Terminated, ConnectorType
  <2> QED BY <2>1, FewerSame, Zenon
<1>5. \/ ResponseReceived(c, x, found) \in {Restart(c), SendRequest(c), Restart(e), Terminated(c)}
      \/ found = "answer" /\ ResponseReceived(c, x, found) = SendRequest(f)
  <2>1. CASE x = "aborted" \/ c.current = NoMsg BY <2>1, Zenon DEF ResponseReceived
  <2>2. CASE x # "aborted" /\ c.current # NoMsg /\ found = "error" BY <2>2, Zenon DEF ResponseReceived
  <2>3. CASE x # "aborted" /\ c.current # NoMsg /\ found = "garbled" BY <2>3, Zenon DEF ResponseReceived
  <2>4. CASE x # "aborted" /\ c.current # NoMsg /\ found = "answer" BY <2>4, Zenon DEF ResponseReceived
  <2> QED BY <2>1, <2>2, <2>3, <2>4, Zenon
<1> HIDE DEF e, f
<1>6. /\ Fewer(c, Restart(c)) /\ Fewer(c, SendRequest(c)) /\ Fewer(c, Restart(e))
      /\ found = "answer" => Fewer(c, SendRequest(f))
  BY <1>1, <1>2, <1>3, RestartFewer, SendRequestFewer, FewerOn, Zenon
<1> QED BY <1>4, <1>5, <1>6, Zenon

LEMMA CancelFewer ==
    ASSUME NEW c \in ConnectorType, NEW id
    PROVE  Fewer(c, Cancel(c, id))
<1> DEFINE e == [c EXCEPT !.requests = Removed(c, id)]
           f == [e EXCEPT !.current = NoMsg]
<1>1. e \in ConnectorType /\ e.current = c.current /\ \A m : InQueue(e, m) => InQueue(c, m) BY RemovedIs, Zenon
<1>2. Cancel(c, id) \in {e, f, Restart(f)} BY ZenonT(30) DEF Cancel
<1>3. Fewer(c, e) BY <1>1, Zenon DEF Fewer
<1> HIDE DEF e
<1>4. f \in ConnectorType /\ f.current = NoMsg /\ f.requests = e.requests BY <1>1, ZenonT(30) DEF ConnectorType
<1> HIDE DEF f
<1>5. Fewer(c, f) BY <1>3, <1>4, FewerSame, FewerOn, Zenon
<1>6. Fewer(c, Restart(f)) BY <1>4, <1>5, RestartFewer, FewerOn, Zenon
<1> QED BY <1>2, <1>3, <1>5, <1>6, Zenon

\* Only start() and the timer give the connector a message.
LEMMA StepFewer ==
    ASSUME con \in ConnectorType, NEW r, Handler \/ Operation \/ Worker \/ FinishImpl(r)
    PROVE  Fewer(con, con')
<1>0. {"resolve", "connect", "timer", "write", "read"} = Ops BY Zenon DEF Ops
<1>1. ASSUME NEW o \in Ops, NEW x \in {"ok", "stale", "error", "aborted"}, Due(o, x)
      PROVE  Handled(con, o, x) \in ConnectorType /\ SameRest(con, Handled(con, o, x)) /\ Fewer(con, Handled(con, o, x))
  <2>1. x \in Results BY Zenon DEF Results
  <2>2. Handled(con, o, x) \in ConnectorType /\ SameRest(con, Handled(con, o, x))
    BY <1>1, <2>1, HandlerBegins, Zenon DEF Due
  <2> QED BY <2>2, FewerSame, Zenon DEF SameRest
<1>2. ASSUME NEW h \in ConnectorType
      PROVE  Fewer(h, h) /\ Fewer(h, Connect(h)) /\ Fewer(h, Begin(h, "timer"))
  <2>1. Connect(h).current = h.current /\ Connect(h).requests = h.requests BY <1>2, ConnectIs, Zenon
  <2>2. Begin(h, "timer").current = h.current /\ Begin(h, "timer").requests = h.requests
    BY <1>2, Zenon DEF Begin, ConnectorType
  <2> QED BY <2>1, <2>2, FewerSame, Zenon
<1>3. CASE OnResolve
  <2>1. PICK x \in {"ok", "error"} : Due("resolve", x) /\ con' = Resolved(Handled(con, "resolve", x), x)
    BY <1>3, Zenon DEF OnResolve
  <2> DEFINE h == Handled(con, "resolve", x)
  <2>2. h \in ConnectorType /\ Fewer(con, h) BY <1>0, <1>1, <2>1, Zenon
  <2>3. con' \in {Connect(h), Begin(h, "timer")} BY <2>1, Zenon DEF Resolved
  <2> HIDE DEF h
  <2> QED BY <1>2, <2>2, <2>3, FewerOn, Zenon
<1>4. CASE OnConnect
  <2>1. PICK x \in {"ok", "error"} : Due("connect", x) /\ con' = Connected(Handled(con, "connect", x), x)
    BY <1>4, Zenon DEF OnConnect
  <2> DEFINE h == Handled(con, "connect", x)
             e == [h EXCEPT !.state = "COMMUNICATING"]
  <2>2. h \in ConnectorType /\ Fewer(con, h) BY <1>0, <1>1, <2>1, Zenon
  <2>3. con' \in {h, SendRequest(e), Begin(h, "timer")} BY <2>1, Zenon DEF Connected
  <2> HIDE DEF h
  <2>4. e \in ConnectorType /\ e.current = h.current /\ e.requests = h.requests BY ZenonT(30), <2>2 DEF ConnectorType
  <2> HIDE DEF e
  <2>5. Fewer(h, SendRequest(e)) BY <2>4, FewerSame, SendRequestFewer, FewerOn, Zenon
  <2>6. Fewer(h, h) /\ Fewer(h, Begin(h, "timer")) BY <1>2, <2>2, Zenon
  <2>7. Fewer(h, con') BY <2>3, <2>5, <2>6, Zenon
  <2> QED BY <2>2, <2>7, FewerOn, Zenon
<1>5. CASE OnTimer
  <2> DEFINE h == Handled(con, "timer", "ok")
  <2>1. Due("timer", "ok") /\ con' \in {h, Restart(h)} BY <1>5, Zenon DEF OnTimer, AwakenForRestart
  <2>2. h \in ConnectorType /\ Fewer(con, h) BY <1>0, <1>1, <2>1, Zenon
  <2> HIDE DEF h
  <2>3. Fewer(h, h) /\ Fewer(h, Restart(h)) BY <1>2, <2>2, RestartFewer, Zenon
  <2>4. Fewer(h, con') BY <2>1, <2>3, Zenon
  <2> QED BY <2>2, <2>4, FewerOn, Zenon
<1>6. CASE OnWrite
  <2>1. PICK x \in {"ok", "error", "aborted"} : Due("write", x) /\ con' = RequestSent(Handled(con, "write", x), x)
    BY <1>6, Zenon DEF OnWrite
  <2>2. Handled(con, "write", x) \in ConnectorType /\ Fewer(con, Handled(con, "write", x)) BY <1>0, <1>1, <2>1, Zenon
  <2> QED BY <2>1, <2>2, RequestSentFewer, FewerOn, Zenon
<1>7. CASE OnRead
  <2>1. PICK x \in {"ok", "stale", "error", "aborted"} :
          Due("read", x) /\ \E found \in ReadResults(con, x) : con' = ResponseReceived(Handled(con, "read", x), x, found)
    BY <1>7, ZenonT(30) DEF OnRead
  <2>2. PICK found \in ReadResults(con, x) : con' = ResponseReceived(Handled(con, "read", x), x, found) BY <2>1, Zenon
  <2> DEFINE h == Handled(con, "read", x)
  <2>3. h \in ConnectorType /\ h.back = con.back /\ Fewer(con, h) BY <1>0, <1>1, <2>1, Zenon DEF SameRest
  <2>4. found \in {"error", "garbled", "answer"} /\ (found = "answer" => con.back # <<>>) BY Zenon DEF ReadResults
  <2>5. con' = ResponseReceived(h, x, found) BY <2>2, Zenon
  <2> HIDE DEF h
  <2> QED BY <2>3, <2>4, <2>5, ResponseReceivedFewer, FewerOn, Zenon
<1>8. CASE Operation \/ Worker
  <2>1. con'.current = con.current /\ con'.requests = con.requests
    <3>1. CASE Operation
      BY <3>1, ZenonT(30) DEF Operation, ResolveEnds, TimerEnds, ConnectEnds, WriteEnds, ReadEnds, Completes, ConnectorType
    <3>2. CASE Worker
      BY <3>2, ZenonT(30) DEF Worker, Serve, ServeLate, Disconnect, WorkerDies, WorkerStarts, Execute, Broken, ConnectorType
    <3> QED BY <1>8, <3>1, <3>2, Zenon
  <2> QED BY <2>1, FewerSame, Zenon
<1>9. CASE FinishImpl(r)
  <2>1. con' = Cancel(con, r) BY <1>9, Zenon DEF FinishImpl
  <2> QED BY <2>1, CancelFewer, Zenon
<1> QED BY <1>3, <1>4, <1>5, <1>6, <1>7, <1>8, <1>9, Zenon DEF Handler

\* A message of another request does not become one of r.
LEMMA SendImplHolds ==
    ASSUME NEW c \in ConnectorType, NEW m \in Messages, NEW r, m.id # r, Holds(SendImpl(c, m), r)
    PROVE  Holds(c, r)
<1> DEFINE e == Queued(c, m)
           d == SendImpl(c, m)
           q == Append(c.requests, m)
<1>1. c.requests \in Seq(Messages) /\ Len(c.requests) \in Nat /\ DOMAIN c.requests = 1..Len(c.requests)
  BY LenProperties, Zenon DEF ConnectorType
<1>2. /\ q \in Seq(Messages) /\ Len(q) = Len(c.requests) + 1 /\ DOMAIN q = 1..Len(q)
      /\ \A i \in 1..Len(c.requests) : q[i] = c.requests[i] /\ q[Len(c.requests) + 1] = m
  BY <1>1, AppendProperties, LenProperties
<1>3. e \in ConnectorType /\ e.requests = q /\ e.current = c.current BY <1>2, ZenonT(30) DEF ConnectorType, Queued
<1>4. Holds(e, r) => Holds(c, r)
  <2>1. \A i \in DOMAIN q : i \in DOMAIN c.requests \/ q[i] = m BY <1>1, <1>2
  <2>2. Exists(e, r) => Exists(c, r) BY <1>1, <1>2, <1>3, <2>1, Zenon DEF Exists
  <2> QED BY <1>3, <2>2, Zenon DEF Holds, IsCurrent
<1>5. d \in {Terminated(c), Resolve(e), e, SendRequest(e)}
  <2>1. c.state \in {"INITIAL", "CONNECTING", "COMMUNICATING"} BY Zenon DEF ConnectorType
  <2> QED BY <2>1, ZenonT(30) DEF SendImpl, Queued
<1> HIDE DEF e
<1>6. Holds(Terminated(c), r) => Holds(c, r)
  <2>1. Terminated(c).current = c.current /\ Terminated(c).requests = c.requests BY Zenon DEF Terminated, ConnectorType
  <2> QED BY <2>1, Zenon DEF Holds, Exists, IsCurrent
<1>7. Holds(Resolve(e), r) => Holds(e, r)
  <2>1. Resolve(e).current = e.current /\ Resolve(e).requests = e.requests BY <1>3, ResolveIs, Zenon
  <2> QED BY <2>1, Zenon DEF Holds, Exists, IsCurrent
<1>8. Holds(SendRequest(e), r) => Holds(e, r) BY <1>3, SendRequestIs, SendRequestFewer, FewerHolds, Zenon
<1> QED BY <1>4, <1>5, <1>6, <1>7, <1>8, Zenon

\* The end of a request is final, whatever arrives later, and nothing more is sent
\* for it (Request::finish, ReplicationRequest::_awaken).
THEOREM FinishedStays == Spec => FinishedIsFinal
<1> DEFINE Stays(r) == rq'[r].state = "FINISHED" /\ rq'[r].ext = rq[r].ext
           Silent(r) == Holds(con', r) => Holds(con, r)
           Final == \A r \in Reqs : rq[r].state = "FINISHED" =>
                        /\ rq'[r].state = "FINISHED" /\ rq'[r].ext = rq[r].ext
                        /\ Holds(con', r) => Holds(con, r)
<1>1. ASSUME IndInv, [Next]_vars PROVE [Final]_vars
  <2> SUFFICES ASSUME Next, NEW r \in Reqs, rq[r].state = "FINISHED" PROVE Stays(r) /\ Silent(r)
    BY <1>1, Zenon
  <2>0. rq \in [Reqs -> RequestType] /\ con \in ConnectorType BY <1>1, Zenon DEF IndInv, TypeOK, RequestType
  <2>1. con' \in ConnectorType
    <3>1. IndInv' BY <1>1, NextIndInv, Zenon
    <3> QED BY <3>1, Zenon DEF IndInv, TypeOK
  <2>2. CASE Handler \/ Operation \/ Worker
    <3>1. rq' = rq
      BY ZenonT(30), <2>2 DEF Handler, Operation, Worker, OnResolve, OnConnect, OnTimer, OnWrite, OnRead, ResolveEnds, TimerEnds,
                  ConnectEnds, WriteEnds, ReadEnds, Serve, ServeLate, Received, Disconnect, WorkerDies,
                  WorkerStarts, Execute
    <3>2. Fewer(con, con') BY <2>0, <2>2, StepFewer, Zenon
    <3> QED BY <2>0, <2>1, <3>1, <3>2, FewerHolds, Zenon
  <2>3. ASSUME NEW q \in Reqs, Owner(q) PROVE Stays(r) /\ Silent(r)
    <3>1. CASE FinishImpl(q)
      <4>1. Stays(r) BY <2>0, <3>1, Zenon DEF FinishImpl, RequestType
      <4>2. Fewer(con, con') BY <2>0, <3>1, StepFewer, Zenon
      <4> QED BY <2>0, <2>1, <4>1, <4>2, FewerHolds, Zenon
    <3>2. CASE GiveUp(q)
      <4>1. con' = con /\ q # r BY <3>2, Zenon DEF GiveUp
      <4>2. Stays(r) BY <2>0, <3>2, <4>1, Zenon DEF GiveUp, Finish
      <4> QED BY <4>1, <4>2, Zenon
    <3>3. CASE Start(q) \/ Awaken(q)
      <4>1. q # r BY <3>3, Zenon DEF Start, Awaken
      <4>2. Stays(r)
        <5>1. CASE Start(q)
          <6>1. PICK at \in {"sent", "once"} : rq' = [rq EXCEPT ![q].state = "IN_PROGRESS", ![q].at = at]
            BY <5>1, Zenon DEF Start
          <6> QED BY <2>0, <4>1, <6>1, Zenon
        <5>2. CASE Awaken(q) BY <2>0, <4>1, <5>2, Zenon DEF Awaken
        <5> QED BY <3>3, <5>1, <5>2, Zenon
      <4>3. PICK m \in {QUEUED(q), STATUS(q)} : con' = SendImpl(con, m) BY <3>3, Zenon DEF Start, Awaken
      <4>4. m \in Messages /\ m.id = q
        <5>1. STATUS(q).id = q BY Zenon DEF STATUS
        <5> QED BY <4>3, <5>1, MessageTypes, Zenon
      <4> QED BY <2>0, <4>1, <4>2, <4>3, <4>4, SendImplHolds, Zenon
    <3> QED BY <2>3, <3>1, <3>2, <3>3, Zenon DEF Owner
  <2>4. ASSUME NEW n \in notes, Analyze(n) PROVE Stays(r) /\ Silent(r)
    <3>1. con' = con BY <2>4, Zenon DEF Analyze
    <3>2. CASE n.id = r BY <2>4, <3>1, <3>2, Zenon DEF Analyze
    <3>3. CASE n.id # r
      <4>1. n.id \in Reqs /\ n.status \in Statuses BY <1>1, Zenon DEF IndInv, TypeOK
      <4>2. rq' = rq \/ \E v : rq' = [rq EXCEPT ![n.id] = v]
        BY ZenonT(30), <2>4, <4>1 DEF Analyze, Tracked, Finish, Statuses
      <4> QED BY <2>0, <3>1, <3>3, <4>1, <4>2, Zenon
    <3> QED BY <3>2, <3>3, Zenon
  <2> QED BY <2>2, <2>3, <2>4, Zenon DEF Next
<1> QED BY <1>1, IndInvariant, PTL DEF Spec, FinishedIsFinal
=============================================================================
