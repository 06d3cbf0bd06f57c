-------------------------- MODULE MCReplicationCycle --------------------------
(***************************************************************************)
(* Three workers.  Three sets of initial dispositions: the chunks of       *)
(* Scattered placed in every possible way, each database for itself; the   *)
(* chunks of Spread with one database placed in every possible way, the    *)
(* overflow chunk being on all workers or on the first (what rebalancing   *)
(* needs); and the chunks of Damaged with replicas that may be incomplete. *)
(***************************************************************************)
EXTENDS ReplicationCycle

CONSTANTS Scattered, Spread, Damaged

NoReplica == [d \in Databases |-> "NONE"]

Only(S, ds, statuses) ==
    {[w \in Workers |-> [c \in Chunks |->
        IF c \in S THEN [d \in Databases |-> IF d \in ds THEN f[w][c][d] ELSE "NONE"]
        ELSE NoReplica]] :
            f \in [Workers -> [S -> [ds -> statuses]]]}

WithOverflow(disk, S) ==
    [w \in Workers |-> [disk[w] EXCEPT ![Overflow]["d1"] = IF w \in S THEN "COMPLETE" ELSE "NONE"]]

MCInitial ==
    Only(Scattered, Databases, {"NONE", "COMPLETE"})
        \cup {WithOverflow(disk, S) : disk \in Only(Spread, {"d1"}, {"NONE", "COMPLETE"}),
                                      S \in {{1}, Workers}}
        \cup Only(Damaged, Databases, Status)

===============================================================================
