----------------------------- MODULE ResultTable -----------------------------
(***************************************************************************)
(* What the result merger promises to a user query: a table to which the   *)
(* rows of job attempts are added and which is published once.  The rows   *)
(* of an attempt vanish the moment the attempt is declared invalid, as     *)
(* long as the table is open.  The table is closed when the merger begins  *)
(* to build what it publishes; an attempt declared invalid after that is   *)
(* remembered as such, but its rows are published unless a cleaning comes  *)
(* first.  InfileMerger implements it with rows that linger in MySQL until *)
(* somebody deletes them (module InvalidJobAttemptMgr).                    *)
(***************************************************************************)
EXTENDS Naturals

CONSTANTS Attempts,     \* the jobId * MAX_JOB_ATTEMPTS + attempt numbers
          Unpublished   \* value of "published" before the merger finalizes

VARIABLES table,        \* number of result messages of each attempt in the table
          invalid,      \* attempts declared invalid
          dropped,      \* those of them whose rows are out of the table for good
          closed,       \* the merger has begun to finalize
          published     \* what the user reads, or Unpublished

vars == <<table, invalid, dropped, closed, published>>

Init == /\ table = [a \in Attempts |-> 0]
        /\ invalid = {}
        /\ dropped = {}
        /\ closed = FALSE
        /\ published = Unpublished

Load(a) == /\ a \notin dropped
           /\ published = Unpublished
           /\ table' = [table EXCEPT ![a] = @ + 1]
           /\ UNCHANGED <<invalid, dropped, closed, published>>

\* The rows of the attempts in S leave the table, never to come back.
Drop(S) == /\ dropped' = dropped \cup S
           /\ table' = [a \in Attempts |-> IF a \in S THEN 0 ELSE table[a]]

\* A scrub of an open table takes effect at once.
Scrub(a) == /\ invalid' = invalid \cup {a}
            /\ \/ ~closed /\ Drop({a})
               \/ closed /\ UNCHANGED <<dropped, table>>
            /\ UNCHANGED <<closed, published>>

\* A delete on behalf of a merge catches attempts scrubbed too late.
Clean(S) == /\ published = Unpublished
            /\ Drop(S)
            /\ UNCHANGED <<invalid, closed, published>>

Close == /\ ~closed
         /\ closed' = TRUE
         /\ UNCHANGED <<table, invalid, dropped, published>>

Publish == /\ closed
           /\ published = Unpublished
           /\ published' = table
           /\ UNCHANGED <<table, invalid, dropped, closed>>

Next == \/ Close
        \/ Publish
        \/ \E a \in Attempts : Load(a) \/ Scrub(a)
        \/ \E S \in SUBSET invalid : Clean(S)

Spec == Init /\ [][Next]_vars
=============================================================================
