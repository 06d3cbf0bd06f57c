-------------------------- MODULE MCBlendScheduler --------------------------
(***************************************************************************)
(* Instances of BlendScheduler: a group scheduler, one scan and the snail  *)
(* scan.                                                                    *)
(***************************************************************************)
EXTENDS BlendScheduler

GroupAndScan == <<"group", "scan">>
OneScan == <<"group", "scan", "snail">>

\* Two tasks of chunk 1, on one and on two tables, and one of chunk 2.
TwoTasks == {"a1", "a2"}
FourTasks == {"g1", "a1", "a2", "b1"}
MCSchedOf == "g1" :> "group" @@ "s1" :> "snail" @@ [t \in Tasks |-> "scan"]
MCChunkOf == "b1" :> 2 @@ [t \in Tasks |-> 1]
MCSlowness == "a2" :> 2 @@ [t \in Tasks |-> 1]
MCFiles == "g1" :> <<>> @@ "a1" :> <<"x">> @@ "a2" :> <<"x", "y">> @@ [t \in Tasks |-> <<"y">>]
EveryOne == [s \in Scheds |-> 1]
EveryJobOnce == [t \in Tasks |-> t]

\* a1 and a2 are two attempts of one job, both on the same table.
TwoAttempts == [t \in Tasks |-> IF t \in {"a1", "a2"} THEN "job" ELSE t]
SameFiles == [t \in Tasks |-> <<"x">>]

\* The default reserve of two threads, and more tasks than that for the group.
FourInGroup == {"g1", "g2", "g3", "g4", "a1"}
MostInGroup == [t \in Tasks |-> IF t = "a1" THEN "scan" ELSE "group"]
EveryTwo == [s \in Scheds |-> 2]
NoFiles == [t \in Tasks |-> <<>>]

\* Two active chunks are allowed, and tasks come for four.
FourChunks == [t \in Tasks |-> IF t = "c4" THEN 4 ELSE IF t = "c3" THEN 3 ELSE IF t = "c2" THEN 2 ELSE 1]
OnScan == [t \in Tasks |-> "scan"]
=============================================================================
