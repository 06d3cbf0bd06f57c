--------------------------- MODULE MCReplicationJobs ---------------------------
(***************************************************************************)
(* QuietPlaces: complete replicas to start from, with no fault to come.    *)
(* FaultyPlaces: a few dispositions from which faults may happen.          *)
(***************************************************************************)
EXTENDS ReplicationJobs

CONSTANTS MaxFaults, FaultyPlaces, QuietPlaces

\* a disposition from the set of <<worker, chunk, database>> that are complete
Place(S) == [w \in Workers |-> [c \in Chunks |-> [d \in Databases |->
                IF <<w, c, d>> \in S THEN "COMPLETE" ELSE "NONE"]]]

MCInitial == {Place(S) : S \in FaultyPlaces \cup QuietPlaces}

MCFaults(d) == IF \E S \in FaultyPlaces : d = Place(S) THEN MaxFaults ELSE 0

\* dispositions to start from; "d1" and "d2" are the databases
AllOnFirst == {<<1, c, "d1">> : c \in Chunks}
Split == {<<1, 1, "d1">>, <<2, 1, "d2">>}
Pair == {<<w, c, "d1">> : w \in {1, 2}, c \in Chunks}
BothOn(w, c) == {<<w, c, d>> : d \in Databases}
PairBoth == BothOn(1, 1) \cup BothOn(2, 1)
Everywhere == {<<w, c, "d1">> : w \in Workers, c \in Chunks}
MCFaulty == {AllOnFirst, Split, Pair, PairBoth, Everywhere}
Colocated == BothOn(1, 1) \cup BothOn(1, 2) \cup BothOn(2, 2)
Mixed == BothOn(1, 1) \cup {<<2, 1, "d1">>, <<2, 2, "d1">>, <<3, 2, "d2">>}
TwoGaps == {<<1, 1, "d1">>, <<2, 1, "d2">>, <<1, 2, "d2">>, <<3, 2, "d1">>}
MCQuiet == {Colocated, Mixed, TwoGaps}
           \cup SUBSET {<<w, c, "d1">> : w \in Workers, c \in Chunks}

===============================================================================
