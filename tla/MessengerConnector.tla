-------------------------- MODULE MessengerConnector --------------------------
(***************************************************************************)
(* The controller's connection to one replication worker                   *)
(* (replica/MessengerConnector.cc): a queue of messages, of which one at a  *)
(* time is written to a socket and answered, and a chain of asynchronous   *)
(* operations that resolve, connect, write, read and wait.  A connector is *)
(* a record, and each method of the class a function of it; the mutex of   *)
(* the class makes each a single step.                                     *)
(*                                                                         *)
(* ops[o][x] counts the operations o started and not yet reported:         *)
(* "pending" ones, and those whose handler is due with the result x.  The  *)
(* handlers run on several threads, in any order.  Closing the socket      *)
(* aborts what is pending on it; a handler that is due already keeps its   *)
(* result.  A read that is "stale" succeeded on a connection closed since. *)
(*                                                                         *)
(* wire: messages on their way to the worker, lag: the same on connections *)
(* closed since; back: the answers on their way back.                      *)
(***************************************************************************)
EXTENDS Naturals, Sequences

CONSTANT NoMsg          \* no current request

Ops == {"resolve", "connect", "timer", "write", "read"}
Results == {"pending", "ok", "stale", "error", "aborted"}

\* messages and answers carry the id of the request they belong to
Connector ==
    [state    |-> "INITIAL",
     current  |-> NoMsg,
     requests |-> <<>>,
     socket   |-> "closed",
     ops      |-> [o \in Ops |-> [x \in Results |-> 0]],
     wire     |-> {},
     lag      |-> {},
     back     |-> <<>>,
     dead     |-> FALSE]

Begin(c, o) == [c EXCEPT !.ops[o]["pending"] = @ + 1]

\* On a socket that is not open an operation fails at once.
BeginIO(c, o) == IF c.socket = "closed" THEN [c EXCEPT !.ops[o]["error"] = @ + 1] ELSE Begin(c, o)

Handled(c, o, x) == [c EXCEPT !.ops[o][x] = @ - 1]

Outstanding(c, o) == \E x \in Results : c.ops[o][x] > 0

\* An exception nobody catches ends the process of the controller.
Terminated(c) == [c EXCEPT !.dead = TRUE]

\* The operations n of one kind when the socket is closed under them.
Aborted(n) == [n EXCEPT !["aborted"] = @ + n["pending"], !["pending"] = 0]
Outdated(n) == [n EXCEPT !["stale"] = @ + n["ok"], !["ok"] = 0]

\* socket.cancel(), socket.close().
Closed(c) ==
    [c EXCEPT !.socket = "closed",
              !.ops = [c.ops EXCEPT !["connect"] = [@ EXCEPT !["pending"] = 0],
                                    !["write"] = Aborted(@),
                                    !["read"] = Outdated(Aborted(@))],
              !.lag = @ \cup c.wire,
              !.wire = {},
              !.back = <<>>]

Resolve(c) ==
    IF c.state # "INITIAL" THEN c
    ELSE [Begin(c, "resolve") EXCEPT !.state = "CONNECTING"]

\* resolver.cancel(), socket.cancel(), socket.close(), timer.cancel().  The
\* second one throws when the socket is not open.
CancelAll(c) ==
    IF c.socket = "closed" THEN Terminated(c)
    ELSE [Closed(c) EXCEPT !.state = "INITIAL",
                           !.ops["resolve"]["pending"] = 0,
                           !.ops["timer"]["pending"] = 0]

Restart(c) == Resolve(IF c.state = "INITIAL" THEN c ELSE CancelAll(c))

SendRequest(c) ==
    IF c.current # NoMsg \/ c.requests = <<>> THEN c
    ELSE BeginIO([c EXCEPT !.current = Head(c.requests), !.requests = Tail(@)], "write")

Exists(c, id) == \E i \in DOMAIN c.requests : c.requests[i].id = id

SendImpl(c, msg) ==
    LET queued == [c EXCEPT !.requests = Append(@, msg)]
    IN  IF Exists(c, msg.id) THEN Terminated(c)
        ELSE CASE c.state = "INITIAL"       -> Resolve(queued)
               [] c.state = "CONNECTING"    -> queued
               [] c.state = "COMMUNICATING" -> SendRequest(queued)

IsCurrent(c, id) == c.current # NoMsg /\ c.current.id = id

\* remove_if: of a queue with at most one message of the id, as SendImpl ensures.
Removed(c, id) ==
    LET q == c.requests
        k == CHOOSE i \in DOMAIN q : q[i].id = id
    IN  IF Exists(c, id) THEN SubSeq(q, 1, k - 1) \o SubSeq(q, k + 1, Len(q)) ELSE q

Cancel(c, id) ==
    LET left == [c EXCEPT !.requests = Removed(c, id)]
    IN  IF ~IsCurrent(c, id) THEN left
        ELSE LET dropped == [left EXCEPT !.current = NoMsg]
             IN  IF c.state = "COMMUNICATING" THEN Restart(dropped) ELSE dropped

(***************************************************************************)
(* The handlers.                                                           *)
(***************************************************************************)

\* boost::asio::async_connect() closes an open socket first.
Connect(c) == Begin([Closed(c) EXCEPT !.socket = "open"], "connect")

Resolved(c, x) == IF x = "ok" THEN Connect(c) ELSE Begin(c, "timer")

\* async_connect() reports operation_aborted if the socket was closed meanwhile.
Connected(c, x) ==
    IF c.socket = "closed" THEN c
    ELSE IF x = "ok" THEN SendRequest([c EXCEPT !.state = "COMMUNICATING"])
    ELSE Begin(c, "timer")

AwakenForRestart(c) == IF c.state = "CONNECTING" THEN Restart(c) ELSE c

\* Mutant: a write that failed puts the message back, and that is all.
RequestSentStays(c, x) ==
    IF x = "aborted" THEN Restart(c)
    ELSE IF c.current = NoMsg THEN c
    ELSE IF x = "error" THEN [c EXCEPT !.requests = <<c.current>> \o @, !.current = NoMsg]
    ELSE BeginIO(c, "read")

RequestSent(c, x) ==
    IF x = "aborted" THEN Restart(c)
    ELSE IF c.current = NoMsg THEN c
    ELSE IF x = "error" THEN Restart([c EXCEPT !.requests = <<c.current>> \o @, !.current = NoMsg])
    ELSE BeginIO(c, "read")

\* What responseReceived() finds on the socket: the rest of an answer; a lost
\* connection; or, if no answer was announced on this connection, bytes that do
\* not parse.
ReadResults(c, x) ==
    IF x \notin {"ok", "stale"} THEN {"error"}
    ELSE IF c.back # <<>> /\ c.ops["read"]["ok"] > 0 THEN {"answer"}
    ELSE IF c.socket = "connected" THEN {"error", "garbled"}
    ELSE {"error"}

\* Mutant: a message whose answer was lost is sent again.
ResponseReceivedAgain(c, x, found) ==
    IF x = "aborted" \/ (c.current = NoMsg /\ x = "error") THEN Restart(c)
    ELSE IF c.current = NoMsg THEN SendRequest(c)
    ELSE LET taken == [c EXCEPT !.current = NoMsg]
         IN  CASE found = "error"   -> Restart([taken EXCEPT !.requests = <<c.current>> \o @])
               [] found = "garbled" -> Terminated(c)
               [] found = "answer"  ->
                    IF Head(c.back).id # c.current.id THEN Terminated(c)
                    ELSE SendRequest([taken EXCEPT !.back = Tail(@)])

\* With the answer of another request the header's id is wrong, which throws.
ResponseReceived(c, x, found) ==
    IF x = "aborted" \/ (c.current = NoMsg /\ x = "error") THEN Restart(c)
    ELSE IF c.current = NoMsg THEN SendRequest(c)
    ELSE LET taken == [c EXCEPT !.current = NoMsg]
         IN  CASE found = "error"   -> Restart(taken)
               [] found = "garbled" -> Terminated(c)
               [] found = "answer"  ->
                    IF Head(c.back).id # c.current.id THEN Terminated(c)
                    ELSE SendRequest([taken EXCEPT !.back = Tail(@)])

===============================================================================
