---------------------------- MODULE MCQdispPool -----------------------------
EXTENDS QdispPool

\* An urgent queue of one thread and the default queue.
MCPriorities == {0, 100}
MCAsked == {0, 100}
\* 9 has no queue.
MCAskedAny == {0, 9, 100}
MCMin == [p \in MCPriorities |-> 1]
MCMax == [p \in MCPriorities |-> IF p = 0 THEN 1 ELSE 2]
=============================================================================
