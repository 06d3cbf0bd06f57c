------------------------- MODULE MCWorkerProcessor -------------------------
EXTENDS WorkerProcessor

CONSTANTS create, delete, echo

\* A replica is created and deleted; the third request concerns no replica.
MCChunk == [r \in Requests |-> IF r = echo THEN NoChunk ELSE "chunk"]
MCPriority == [r \in Requests |-> IF r = delete THEN 1 ELSE 0]
=============================================================================
