--------------------- MODULE InvalidJobAttemptMgrProofs ---------------------
(***************************************************************************)
(* IndInv is an inductive invariant of the result merger, for any number   *)
(* of threads, attempts and messages; the four safety properties and the   *)
(* refinement of ResultTable follow from it.                               *)
(***************************************************************************)
EXTENDS InvalidJobAttemptMgr, FiniteSetTheorems, TLAPS

USE ThreadsFinite, ProcsDistinct

\* A set of threads to which one thread is added, or from which one is taken.
LEMMA ThreadCount ==
    ASSUME NEW S \in SUBSET Threads, NEW t \in Threads
    PROVE  /\ IsFiniteSet(S) /\ Cardinality(S) \in Nat
           /\ t \notin S => Cardinality(S \cup {t}) = Cardinality(S) + 1
           /\ t \in S => /\ Cardinality(S \ {t}) = Cardinality(S) - 1
                         /\ Cardinality(S) > 0
<1>1. IsFiniteSet(S) BY FS_Subset
<1>2. Cardinality(S) \in Nat BY <1>1, FS_CardinalityType
<1>3. t \notin S => Cardinality(S \cup {t}) = Cardinality(S) + 1
  BY ZenonT(30), <1>1, FS_AddElement
<1>4. t \in S => Cardinality(S \ {t}) = Cardinality(S) - 1
  BY ZenonT(30), <1>1, FS_RemoveElement
<1>5. t \in S => Cardinality(S) > 0
  BY <1>1, <1>2, FS_EmptySet
<1> QED BY <1>1, <1>2, <1>3, <1>4, <1>5

LEMMA EmptyCount ==
    ASSUME NEW S \in SUBSET Threads, Cardinality(S) = 0
    PROVE  S = {}
<1>1. IsFiniteSet(S) BY FS_Subset
<1> QED BY <1>1, FS_EmptySet

\* The initial state satisfies the inductive invariant.
LEMMA InitIndInv == Init => IndInv
<1> SUFFICES ASSUME Init PROVE IndInv OBVIOUS
<1> USE DEF Init
<1>1. TypeOK BY ZenonT(30), MaxMsgsNat DEF TypeOK, PCs, Procs
<1>2. ControlInv BY DEF ControlInv, Procs
<1>3. Merging = {} BY DEF Merging, Procs
<1>4. CountInv BY <1>3, FS_EmptySet DEF CountInv
<1>5. DeleteInv BY DEF DeleteInv, Procs
<1>6. SetsInv BY DEF SetsInv, InvalidRowsTracked, Loading, Procs
<1>7. \A a \in Attempts : Unreported(a) = {} BY DEF Unreported, Procs
<1>8. AckInv BY <1>7, FS_EmptySet DEF AckInv
<1>9. PublishInv BY DEF PublishInv, BeforeClose, Procs
<1>10. FinalInv BY DEF FinalInv, Procs
<1> QED BY <1>1, <1>2, <1>4, <1>5, <1>6, <1>8, <1>9, <1>10 DEF IndInv

\* A merge that passes the invalid check: shared by the two ways into it.
LEMMA EnterIndInv ==
    ASSUME IndInv, NEW t \in Threads, NEW a \in Attempts,
           pc[t] \in {"idle", "flagWait"}, mutex = NoThread,
           att' = [att EXCEPT ![t] = a],
           left' \in [Attempts -> Nat],
           EnterOrLeave(t, a),
           UNCHANGED <<waitFlag, invalidJobAttempts, invalidJAWithRows, tableVars,
                       dropped, cvWaiters, mutex, toDelete, acked, ret>>
    PROVE  IndInv'
<1> USE DEF IndInv, EnterOrLeave, Goto, tableVars
<1>1. TypeOK' BY DEF TypeOK, PCs, Procs
<1>2. ControlInv' BY DEF ControlInv, TypeOK, Procs
<1>3. CASE a \in invalidJobAttempts
  <2>1. Merging' = Merging BY <1>3 DEF Merging, TypeOK, Procs
  <2>2. CountInv' BY <1>3, <2>1 DEF CountInv
  <2>3. DeleteInv' BY <1>3 DEF DeleteInv, TypeOK, Procs
  <2>4. \A b : Loading(b)' => Loading(b) BY <1>3 DEF Loading, TypeOK, Procs
  <2>5. SetsInv' BY <1>3, <2>4 DEF SetsInv, InvalidRowsTracked
  <2>6. \A b : Unreported(b)' = Unreported(b) BY <1>3 DEF Unreported, TypeOK, Procs
  <2>7. AckInv' BY <2>6 DEF AckInv
  <2>8. PublishInv' BY <1>3, <2>4 DEF PublishInv, BeforeClose, TypeOK, Procs
  <2>9. FinalInv' BY <1>3 DEF FinalInv, TypeOK, Procs
  <2> QED BY <1>1, <1>2, <2>2, <2>3, <2>5, <2>7, <2>8, <2>9
<1>4. CASE a \notin invalidJobAttempts
  <2>1. Merging' = Merging \cup {t} /\ t \notin Merging
    BY <1>4 DEF Merging, TypeOK, Procs
  <2>2. CountInv' BY <1>4, <2>1, ThreadCount DEF CountInv, Merging
  <2>3. DeleteInv' BY <1>4 DEF DeleteInv, TypeOK, Procs
  <2>4. \A b : Loading(b)' => Loading(b) \/ b = a
    BY <1>4 DEF Loading, TypeOK, Procs
  <2>5. SetsInv' BY <1>4, <2>4 DEF SetsInv, InvalidRowsTracked, TypeOK
  <2>6. \A b : Unreported(b)' = Unreported(b) BY <1>4 DEF Unreported, TypeOK, Procs
  <2>7. AckInv' BY <2>6 DEF AckInv
  <2>8. PublishInv' BY ZenonT(30), <1>4, <2>4 DEF PublishInv, BeforeClose, TypeOK, Procs
  <2>9. FinalInv' BY <1>4 DEF FinalInv, TypeOK, Procs
  <2> QED BY <1>1, <1>2, <2>2, <2>3, <2>5, <2>7, <2>8, <2>9
<1> QED BY <1>3, <1>4 DEF EnterOrLeave

\* A merge returns, acknowledging its message or not: AckInv is kept.
LEMMA ReturnAck ==
    ASSUME IndInv, NEW t \in Threads,
           pc[t] \in {"decr", "hold", "countWait", "delete"},
           pc' = [pc EXCEPT ![t] = "idle"],
           Acknowledge(t) \/ acked' = acked,
           UNCHANGED <<invalidJobAttempts, rows, att, ret>>
    PROVE  AckInv' /\ acked' \in [Attempts -> Nat]
<1> USE DEF IndInv, Acknowledge
<1>1. acked' \in [Attempts -> Nat] BY DEF TypeOK
<1>2. SUFFICES ASSUME NEW a \in Attempts \ invalidJobAttempts
               PROVE  acked'[a] + Cardinality(Unreported(a)') =< rows[a]
  BY <1>1 DEF AckInv
<1>3. Unreported(a)' = Unreported(a) \ {t} BY DEF Unreported, TypeOK, Procs
<1>4. /\ Cardinality(Unreported(a)) \in Nat
      /\ t \in Unreported(a) => Cardinality(Unreported(a) \ {t}) = Cardinality(Unreported(a)) - 1
      /\ t \notin Unreported(a) => Unreported(a) \ {t} = Unreported(a)
  BY ZenonT(30), ThreadCount DEF Unreported
<1>5. acked[a] + Cardinality(Unreported(a)) =< rows[a] BY DEF AckInv
<1>6. CASE att[t] = a /\ ret[t]
  <2>1. t \in Unreported(a) BY <1>6 DEF Unreported
  <2>2. acked'[a] =< acked[a] + 1 BY DEF TypeOK
  <2> QED BY <1>1, <1>3, <1>4, <1>5, <2>1, <2>2 DEF TypeOK
<1>7. CASE ~(att[t] = a /\ ret[t])
  <2>1. t \notin Unreported(a) BY <1>7 DEF Unreported
  <2>2. acked'[a] = acked[a] BY <1>7 DEF TypeOK
  <2> QED BY ZenonT(30), <1>3, <1>4, <1>5, <2>1, <2>2
<1> QED BY <1>1, <1>6, <1>7

\* Steps that leave pc, the table and the acknowledgements alone.
LEMMA SleepIndInv ==
    ASSUME IndInv, NEW p \in Procs,
           cvWaiters' = cvWaiters \cup {p},
           UNCHANGED <<mgrVars, tableVars, dropped, mutex, toDelete, left, acked, pc, att, ret>>
    PROVE  IndInv'
BY SMTT(30) DEF IndInv, TypeOK, ControlInv, CountInv, DeleteInv, SetsInv, AckInv, PublishInv,
       FinalInv, BeforeClose, InvalidRowsTracked, Merging, Loading, Unreported,
       mgrVars, tableVars

LEMMA IncrIndInv ==
    ASSUME IndInv, NEW t \in Threads, NEW a \in Attempts,
           IncrConcurrentMergeCount(t, a)
    PROVE  IndInv'
<1> USE DEF IncrConcurrentMergeCount
<1>1. left' \in [Attempts -> Nat] BY DEF IndInv, TypeOK
<1>2. CASE waitFlag /\ a \notin invalidJobAttempts
  <2> USE <1>2 DEF EnterOrLeave, Goto, IndInv, tableVars
  <2>0. pc' = [pc EXCEPT ![t] = "flagWait"] OBVIOUS
  <2>1. TypeOK' BY <1>1, <2>0 DEF TypeOK, PCs, Procs
  <2>2. ControlInv' BY <2>0 DEF ControlInv, TypeOK, Procs
  <2>3. Merging' = Merging BY <2>0 DEF Merging, TypeOK, Procs
  <2>4. CountInv' BY <2>3 DEF CountInv
  <2>5. DeleteInv' BY <2>0 DEF DeleteInv, TypeOK, Procs
  <2>6. \A b : Loading(b)' => Loading(b) BY <2>0 DEF Loading, TypeOK, Procs
  <2>7. SetsInv' BY SMTT(30), <2>6 DEF SetsInv, InvalidRowsTracked
  <2>8. \A b : Unreported(b)' = Unreported(b) BY <2>0 DEF Unreported, TypeOK, Procs
  <2>9. AckInv' BY SMTT(30), <2>8 DEF AckInv
  <2>10. PublishInv' BY <2>0, <2>6 DEF PublishInv, BeforeClose, TypeOK, Procs
  <2>11. FinalInv' BY <2>0 DEF FinalInv, TypeOK, Procs
  <2> QED BY <2>1, <2>2, <2>4, <2>5, <2>7, <2>9, <2>10, <2>11
<1>3. CASE ~(waitFlag /\ a \notin invalidJobAttempts)
  BY ZenonT(30), <1>1, <1>3, EnterIndInv DEF IndInv
<1> QED BY <1>2, <1>3

LEMMA FlagWakeIndInv ==
    ASSUME IndInv, NEW t \in Threads, FlagWake(t)
    PROVE  IndInv'
<1> USE DEF FlagWake
<1>1. CASE waitFlag
  BY ZenonT(30), <1>1, SleepIndInv DEF Procs, mgrVars, tableVars
<1>2. CASE ~waitFlag
  <2>1. att[t] \in Attempts /\ left' \in [Attempts -> Nat]
        /\ att' = [att EXCEPT ![t] = att[t]]
    BY SMTT(30) DEF IndInv, TypeOK
  <2> QED BY ZenonT(30), <1>2, <2>1, EnterIndInv
<1> QED BY <1>1, <1>2

LEMMA ApplyMysqlIndInv ==
    ASSUME IndInv, NEW t \in Threads, ApplyMysql(t)
    PROVE  IndInv'
<1> USE DEF IndInv, mgrVars
<1>1. PICK ok \in BOOLEAN, wrote \in BOOLEAN :
          /\ ok => wrote
          /\ wrote => published = Unpublished
          /\ rows' = IF wrote THEN [rows EXCEPT ![att[t]] = @ + 1] ELSE rows
          /\ ret' = [ret EXCEPT ![t] = ok]
  BY ZenonT(30) DEF ApplyMysql
<1>2. /\ pc[t] = "load" /\ pc' = [pc EXCEPT ![t] = "decr"]
      /\ UNCHANGED <<mgrVars, published, dropped, cvWaiters, mutex, toDelete, left,
                     acked, att>>
  BY SMTT(30) DEF ApplyMysql, Goto
<1>3. TypeOK' BY <1>1, <1>2 DEF TypeOK, PCs, Procs
<1>4. ControlInv' BY <1>2 DEF ControlInv, TypeOK, Procs
<1>5. Merging' = Merging /\ t \in Merging BY <1>2 DEF Merging, TypeOK, Procs
<1>6. CountInv' BY <1>2, <1>5 DEF CountInv
<1>7. mutex = NoThread
  <2>1. Cardinality(Merging) > 0 BY ZenonT(30), <1>5, ThreadCount DEF Merging
  <2> QED BY <2>1 DEF CountInv, DeleteInv
<1>8. DeleteInv' BY SMTT(30), <1>2, <1>7 DEF DeleteInv, TypeOK, Procs
<1>9. Loading(att[t]) BY SMTT(30), <1>2 DEF Loading
<1>10. \A b : Loading(b)' => Loading(b) BY <1>2 DEF Loading, TypeOK, Procs
<1>11. \A b \in Attempts : rows'[b] > 0 => rows[b] > 0 \/ b = att[t]
  BY SMTT(30), <1>1 DEF TypeOK
<1>12. SetsInv' BY <1>2, <1>9, <1>10, <1>11 DEF SetsInv, InvalidRowsTracked, TypeOK
<1>13. AckInv'
  <2>1. SUFFICES ASSUME NEW a \in Attempts \ invalidJobAttempts
                 PROVE  acked[a] + Cardinality(Unreported(a)') =< rows'[a]
    BY SMTT(30), <1>2 DEF AckInv
  <2>2. acked[a] + Cardinality(Unreported(a)) =< rows[a] /\ t \notin Unreported(a)
    BY <1>2 DEF AckInv, Unreported
  <2>3. Unreported(a)' = IF ok /\ att[t] = a THEN Unreported(a) \cup {t} ELSE Unreported(a)
    BY <1>1, <1>2 DEF Unreported, TypeOK, Procs
  <2>4. /\ Cardinality(Unreported(a)) \in Nat
        /\ Cardinality(Unreported(a) \cup {t}) = Cardinality(Unreported(a)) + 1
    BY ZenonT(30), <2>2, ThreadCount DEF Unreported
  <2>5. rows'[a] = IF wrote /\ att[t] = a THEN rows[a] + 1 ELSE rows[a]
    BY SMTT(30), <1>1 DEF TypeOK
  <2> QED BY <1>1, <2>2, <2>3, <2>4, <2>5 DEF TypeOK
<1>14. PublishInv'
  <2>1. pc'[Finalizer] = pc[Finalizer] BY <1>2 DEF TypeOK, Procs
  <2>2. (published # Unpublished => published = rows)' BY <1>1, <1>2 DEF PublishInv
  <2>3. ASSUME pc[Finalizer] \in {"publish", "done"}, NEW a \in dropped
        PROVE  rows'[a] = 0 /\ ~Loading(a)'
    <3>1. a \in Attempts /\ rows[a] = 0 /\ ~Loading(a)
      BY ZenonT(30), <2>3 DEF PublishInv, TypeOK
    <3>2. a # att[t] BY ZenonT(30), <1>9, <3>1
    <3>3. rows'[a] = rows[a] BY <1>1, <3>1, <3>2 DEF TypeOK
    <3> QED BY ZenonT(30), <1>10, <3>1, <3>3
  <2> QED BY ZenonT(30), <1>2, <2>1, <2>2, <2>3 DEF PublishInv, BeforeClose
<1>15. FinalInv' BY <1>2 DEF FinalInv, TypeOK, Procs
<1> QED BY <1>3, <1>4, <1>6, <1>8, <1>12, <1>13, <1>14, <1>15

LEMMA DecrIndInv ==
    ASSUME IndInv, NEW t \in Threads, DecrConcurrentMergeCount(t)
    PROVE  IndInv'
<1> USE DEF IndInv, tableVars
<1>1. /\ pc[t] = "decr" /\ mutex = NoThread
      /\ concurrentMergeCount' = concurrentMergeCount - 1
      /\ UNCHANGED <<waitFlag, invalidJobAttempts, invalidJAWithRows,
                     jobIdAttemptsHaveRows, tableVars, dropped, mutex, toDelete, left, att, ret>>
      /\ \/ pc' = [pc EXCEPT ![t] = "idle"] /\ Acknowledge(t)
         \/ pc' = [pc EXCEPT ![t] = "hold"] /\ UNCHANGED acked
      /\ cvWaiters' \in {{}, cvWaiters}
  BY SMTT(30) DEF DecrConcurrentMergeCount, Goto
<1>2. Merging' = Merging \ {t} /\ t \in Merging BY SMTT(30), <1>1 DEF Merging, TypeOK, Procs
<1>3. CountInv' /\ concurrentMergeCount > 0
  BY <1>1, <1>2, ThreadCount DEF CountInv, Merging
<1>4. AckInv' /\ acked' \in [Attempts -> Nat]
  <2>1. CASE pc' = [pc EXCEPT ![t] = "idle"] /\ Acknowledge(t)
    BY ZenonT(30), <1>1, <2>1, ReturnAck
  <2>2. CASE pc' = [pc EXCEPT ![t] = "hold"] /\ UNCHANGED acked
    <3>1. \A b : Unreported(b)' = Unreported(b)
      BY SMTT(30), <1>1, <2>2 DEF Unreported, TypeOK, Procs
    <3> QED BY <1>1, <2>2, <3>1 DEF AckInv, TypeOK
  <2> QED BY <1>1, <2>1, <2>2
<1>5. TypeOK' BY SMTT(30), <1>1, <1>3, <1>4 DEF TypeOK, PCs, Procs
<1>6. ControlInv' BY SMTT(30), <1>1 DEF ControlInv, TypeOK, Procs
<1>7. DeleteInv' BY SMTT(30), <1>1 DEF DeleteInv, TypeOK, Procs
<1>8. \A b : Loading(b)' => Loading(b) BY SMTT(30), <1>1 DEF Loading, TypeOK, Procs
<1>9. SetsInv' BY SMTT(30), <1>1, <1>8 DEF SetsInv, InvalidRowsTracked
<1>10. PublishInv'
  <2>1. pc'[Finalizer] = pc[Finalizer] BY <1>1 DEF TypeOK, Procs
  <2> QED BY ZenonT(30), <1>1, <1>8, <2>1 DEF PublishInv, BeforeClose
<1>11. FinalInv' BY SMTT(30), <1>1 DEF FinalInv, TypeOK, Procs
<1> QED BY <1>3, <1>4, <1>5, <1>6, <1>7, <1>9, <1>10, <1>11

LEMMA PrepScrubIndInv ==
    ASSUME IndInv, NEW a \in Attempts, PrepScrub(a)
    PROVE  IndInv'
<1> USE DEF IndInv, PrepScrub, tableVars
<1>1. TypeOK' BY ZenonT(30) DEF TypeOK
<1>2. ControlInv' BY SMTT(30) DEF ControlInv
<1>3. CountInv' BY DEF CountInv, Merging
<1>4. DeleteInv' BY DEF DeleteInv
<1>5. \A b : Loading(b)' <=> Loading(b) BY SMTT(30) DEF Loading
<1>6. SetsInv' BY SMTT(30), <1>5 DEF SetsInv, InvalidRowsTracked, TypeOK
<1>7. AckInv' BY DEF AckInv, Unreported
<1>8. PublishInv' BY <1>5 DEF PublishInv, BeforeClose
<1>9. FinalInv' BY DEF FinalInv
<1> QED BY <1>1, <1>2, <1>3, <1>4, <1>6, <1>7, <1>8, <1>9

\* The caller of a hold goes on, to the end of merge() or of finalize().
LEMMA AfterHoldAck ==
    ASSUME IndInv, NEW p \in Procs, NEW valid \in BOOLEAN,
           pc[p] \in {"hold", "delete"}, AfterHold(p, valid),
           UNCHANGED <<invalidJobAttempts, rows, att, ret>>
    PROVE  AckInv' /\ acked' \in [Attempts -> Nat]
<1>1. CASE p = Finalizer
  <2>1. \A a : Unreported(a)' = Unreported(a)
    BY <1>1 DEF Unreported, AfterHold, Goto, IndInv, TypeOK, Procs
  <2> QED BY SMTT(30), <1>1, <2>1 DEF AfterHold, AckInv, IndInv, TypeOK
<1>2. CASE p \in Threads
  BY SMTT(30), <1>2, ReturnAck DEF AfterHold, Goto
<1> QED BY SMTT(30), <1>1, <1>2 DEF Procs

LEMMA AfterHoldPc ==
    ASSUME IndInv, NEW p \in Procs, NEW valid \in BOOLEAN, AfterHold(p, valid)
    PROVE  /\ pc' \in [Procs -> PCs]
           /\ \A q \in Procs : q # p => pc'[q] = pc[q]
           /\ p \in Threads => pc'[p] = "idle"
           /\ p = Finalizer => pc'[p] = IF valid THEN "publish" ELSE "failed"
BY DEF AfterHold, Goto, IndInv, TypeOK, PCs, Procs

\* The first DELETE is about to be sent: shared by the two ways there.
LEMMA StartDeleteIndInv ==
    ASSUME IndInv, NEW p \in Procs, pc[p] \in {"hold", "countWait"},
           mutex = NoThread, concurrentMergeCount = 0, StartDelete(p),
           waitFlag' \in BOOLEAN,
           UNCHANGED <<invalidJobAttempts, invalidJAWithRows, jobIdAttemptsHaveRows,
                       concurrentMergeCount, tableVars, dropped, cvWaiters, left, acked,
                       att, ret>>
    PROVE  IndInv'
<1> USE DEF IndInv, tableVars
<1>0. /\ mutex' = p /\ toDelete' = invalidJAWithRows
      /\ pc' = [pc EXCEPT ![p] = "delete"]
  BY DEF StartDelete, Goto
<1>1. TypeOK' BY ZenonT(30), <1>0 DEF TypeOK, PCs, Procs
<1>2. ControlInv' BY SMTT(30), <1>0 DEF ControlInv, TypeOK, Procs
<1>3. Merging' = Merging BY <1>0 DEF Merging, TypeOK, Procs
<1>4. CountInv' BY ZenonT(30), <1>3 DEF CountInv
<1>5. DeleteInv' BY ZenonT(30), <1>0 DEF DeleteInv, TypeOK, Procs
<1>6. \A b : Loading(b)' => Loading(b) BY ZenonT(30), <1>0 DEF Loading, TypeOK, Procs
<1>7. SetsInv' BY SMTT(30), <1>6 DEF SetsInv, InvalidRowsTracked
<1>8. \A b : Unreported(b)' = Unreported(b) BY <1>0 DEF Unreported, TypeOK, Procs
<1>9. AckInv' BY ZenonT(30), <1>8 DEF AckInv
<1>10. PublishInv' BY ZenonT(30), <1>0, <1>6 DEF PublishInv, BeforeClose, TypeOK, Procs
<1>11. FinalInv' BY SMTT(30), <1>0 DEF FinalInv, TypeOK, Procs
<1> QED BY <1>1, <1>2, <1>4, <1>5, <1>7, <1>9, <1>10, <1>11

LEMMA HoldIndInv ==
    ASSUME IndInv, NEW p \in Procs, HoldMergingForRowDelete(p)
    PROVE  IndInv'
<1>0. /\ pc[p] = "hold" /\ mutex = NoThread
      /\ UNCHANGED <<invalidJobAttempts, invalidJAWithRows, jobIdAttemptsHaveRows,
                     concurrentMergeCount, tableVars, dropped, left, att, ret>>
  BY DEF HoldMergingForRowDelete
<1> USE <1>0 DEF tableVars
<1>1. CASE /\ invalidJAWithRows = {}
           /\ CleanupIJA
           /\ AfterHold(p, TRUE)
           /\ UNCHANGED <<mutex, toDelete>>
  <2> USE <1>1 DEF IndInv, CleanupIJA
  <2>1. /\ pc' \in [Procs -> PCs]
        /\ \A q \in Procs : q # p => pc'[q] = pc[q]
        /\ p \in Threads => pc'[p] = "idle"
        /\ p = Finalizer => pc'[p] = "publish"
    BY ZenonT(30), AfterHoldPc
  <2>2. AckInv' /\ acked' \in [Attempts -> Nat] BY ZenonT(30), AfterHoldAck
  <2>3. TypeOK' BY ZenonT(30), <2>1, <2>2 DEF TypeOK
  <2>4. ControlInv' BY ZenonT(30), <2>1 DEF ControlInv, Procs
  <2>5. Merging' = Merging BY ZenonT(30), <2>1 DEF Merging, Procs
  <2>6. CountInv' BY <2>5 DEF CountInv
  <2>7. DeleteInv' BY ZenonT(30), <2>1 DEF DeleteInv, Procs
  <2>8. \A b : Loading(b)' => Loading(b) BY <2>1, ZenonT(30) DEF Loading, Procs
  <2>9. SetsInv' BY <2>8 DEF SetsInv, InvalidRowsTracked
  <2>10. PublishInv'
    <3>1. \A a \in invalidJobAttempts : ~(rows[a] > 0) /\ ~Loading(a)
      BY DEF SetsInv, InvalidRowsTracked, TypeOK
    <3>2. \A a \in invalidJobAttempts : rows[a] = 0 BY SMTT(30), <3>1 DEF TypeOK
    <3>3. BeforeClose' => BeforeClose BY ZenonT(30), <2>1 DEF BeforeClose, Procs
    <3> QED BY ZenonT(30), <2>8, <3>1, <3>2, <3>3 DEF PublishInv
  <2>11. FinalInv' BY ZenonT(30), <2>1 DEF FinalInv, Procs
  <2> QED BY <2>2, <2>3, <2>4, <2>6, <2>7, <2>9, <2>10, <2>11
<1>2. CASE /\ invalidJAWithRows # {}
           /\ concurrentMergeCount > 0
           /\ waitFlag' = TRUE
           /\ cvWaiters' = cvWaiters \cup {p}
           /\ Goto(p, "countWait")
           /\ UNCHANGED <<mutex, toDelete, acked>>
  <2> USE <1>2 DEF IndInv, Goto
  <2>1. TypeOK' BY ZenonT(30) DEF TypeOK, PCs, Procs
  <2>2. ControlInv' BY ZenonT(30) DEF ControlInv, TypeOK, Procs
  <2>3. Merging' = Merging BY ZenonT(30) DEF Merging, TypeOK, Procs
  <2>4. CountInv' BY <2>3 DEF CountInv
  <2>5. DeleteInv' BY ZenonT(30) DEF DeleteInv, TypeOK, Procs
  <2>6. \A b : Loading(b)' => Loading(b) BY ZenonT(30) DEF Loading, TypeOK, Procs
  <2>7. SetsInv' BY <2>6 DEF SetsInv, InvalidRowsTracked
  <2>8. \A b : Unreported(b)' = Unreported(b) BY ZenonT(30) DEF Unreported, TypeOK, Procs
  <2>9. AckInv' BY ZenonT(30), <2>8 DEF AckInv
  <2>10. PublishInv' BY ZenonT(30), <2>6 DEF PublishInv, BeforeClose, TypeOK, Procs
  <2>11. FinalInv' BY DEF FinalInv, TypeOK, Procs
  <2> QED BY SMTT(30), <2>1, <2>2, <2>4, <2>5, <2>7, <2>9, <2>10, <2>11
<1>3. CASE /\ concurrentMergeCount = 0
           /\ waitFlag' = TRUE
           /\ StartDelete(p)
           /\ UNCHANGED <<cvWaiters, acked>>
  BY SMTT(30), <1>3, StartDeleteIndInv
<1> QED BY ZenonT(30), <1>1, <1>2, <1>3 DEF HoldMergingForRowDelete

LEMMA CountWakeIndInv ==
    ASSUME IndInv, NEW p \in Procs, CountWake(p)
    PROVE  IndInv'
<1>1. CASE concurrentMergeCount > 0
  BY SMTT(30), <1>1, SleepIndInv DEF CountWake
<1>2. CASE concurrentMergeCount = 0
  <2>1. waitFlag' \in BOOLEAN BY SMTT(30) DEF CountWake, mgrVars, IndInv, TypeOK
  <2>2. pc[p] \in {"hold", "countWait"} /\ mutex = NoThread BY SMTT(30) DEF CountWake
  <2>3. StartDelete(p) /\ UNCHANGED cvWaiters BY <1>2 DEF CountWake
  <2>4. UNCHANGED <<invalidJobAttempts, invalidJAWithRows, jobIdAttemptsHaveRows,
                    concurrentMergeCount, tableVars, dropped, left, acked, att, ret>>
    BY ZenonT(30) DEF CountWake, mgrVars
  <2> QED BY <1>2, <2>1, <2>2, <2>3, <2>4, StartDeleteIndInv
<1> QED BY SMTT(30), <1>1, <1>2 DEF CountWake

LEMMA DeleteBatchIndInv ==
    ASSUME IndInv, NEW p \in Procs, DeleteBatch(p)
    PROVE  IndInv'
<1> USE DEF IndInv, mgrVars
<1>1. PICK batch \in SUBSET toDelete :
          /\ rows' = [a \in Attempts |-> IF a \in batch THEN 0 ELSE rows[a]]
          /\ toDelete' = toDelete \ batch
          /\ dropped' = dropped \cup batch
  BY SMTT(30) DEF DeleteBatch
<1>2. /\ pc[p] = "delete" /\ published = Unpublished
      /\ UNCHANGED <<mgrVars, published, cvWaiters, mutex, left, acked, pc, att, ret>>
  BY DEF DeleteBatch
<1>3. mutex = p /\ mutex # NoThread BY ZenonT(30), <1>2 DEF DeleteInv
<1>4. batch \subseteq invalidJobAttempts BY <1>3 DEF DeleteInv, SetsInv
<1>5. TypeOK' BY ZenonT(30), <1>1, <1>2 DEF TypeOK
<1>6. ControlInv' BY SMTT(30), <1>2 DEF ControlInv
<1>7. CountInv' BY <1>2 DEF CountInv, Merging
<1>8. DeleteInv' BY ZenonT(30), <1>1, <1>2, <1>3 DEF DeleteInv, TypeOK
<1>9. \A b : Loading(b)' <=> Loading(b) BY <1>2 DEF Loading
<1>10. \A b \in Attempts : rows'[b] > 0 => rows[b] > 0 BY <1>1
<1>11. SetsInv' BY ZenonT(30), <1>2, <1>9, <1>10 DEF SetsInv, InvalidRowsTracked, TypeOK
<1>12. \A b : Unreported(b)' = Unreported(b) BY <1>2 DEF Unreported
<1>13. AckInv' BY ZenonT(30), <1>1, <1>2, <1>4, <1>12 DEF AckInv
<1>14. PublishInv'
  <2>1. dropped' \subseteq invalidJobAttempts' BY ZenonT(30), <1>1, <1>2, <1>4 DEF PublishInv
  <2>2. BeforeClose' => dropped' = invalidJobAttempts'
    BY <1>1, <1>2, <1>4 DEF PublishInv, BeforeClose
  <2>3. \A b : ~Loading(b)
    <3>1. Merging = {} BY <1>3, EmptyCount DEF DeleteInv, CountInv, Merging
    <3> QED BY <3>1 DEF Loading, Merging
  <2>4. pc'[Finalizer] \in {"publish", "done"} =>
          \A a \in dropped' : rows'[a] = 0 /\ ~Loading(a)'
    BY ZenonT(30), <1>1, <1>2, <1>9, <2>3 DEF PublishInv, TypeOK
  <2> QED BY ZenonT(30), <1>2, <2>1, <2>2, <2>4 DEF PublishInv
<1>15. FinalInv' BY <1>2 DEF FinalInv
<1> QED BY <1>5, <1>6, <1>7, <1>8, <1>11, <1>13, <1>14, <1>15

LEMMA HoldReturnIndInv ==
    ASSUME IndInv, NEW p \in Procs, HoldReturn(p)
    PROVE  IndInv'
<1> USE DEF IndInv, CleanupIJA, tableVars
<1>1. PICK res \in BOOLEAN :
          /\ res <=> toDelete = {}
          /\ invalidJAWithRows' = IF res THEN {} ELSE invalidJAWithRows
          /\ AfterHold(p, res)
  BY SMTT(30) DEF HoldReturn
<1>2. /\ pc[p] = "delete" /\ CleanupIJA /\ mutex' = NoThread /\ toDelete' = {}
      /\ UNCHANGED <<invalidJobAttempts, jobIdAttemptsHaveRows,
                     concurrentMergeCount, tableVars, dropped, left, att, ret>>
  BY DEF HoldReturn
<1>3. /\ pc' \in [Procs -> PCs]
      /\ \A q \in Procs : q # p => pc'[q] = pc[q]
      /\ p \in Threads => pc'[p] = "idle"
      /\ p = Finalizer => pc'[p] = IF res THEN "publish" ELSE "failed"
  BY <1>1, AfterHoldPc
<1>4. AckInv' /\ acked' \in [Attempts -> Nat] BY <1>1, <1>2, AfterHoldAck
<1>5. mutex = p /\ mutex # NoThread BY ZenonT(30), <1>2 DEF DeleteInv
<1>6. TypeOK' BY ZenonT(30), <1>1, <1>2, <1>3, <1>4 DEF TypeOK
<1>7. ControlInv' BY <1>3 DEF ControlInv, Procs
<1>8. Merging' = Merging BY ZenonT(30), <1>2, <1>3 DEF Merging, Procs
<1>9. CountInv' BY <1>2, <1>8 DEF CountInv
<1>10. DeleteInv' BY ZenonT(30), <1>2, <1>3, <1>5 DEF DeleteInv, Procs
<1>11. \A b : ~Loading(b)
  <2>1. Merging = {} BY <1>5, EmptyCount DEF DeleteInv, CountInv, Merging
  <2> QED BY <2>1 DEF Loading, Merging
<1>12. \A b : ~Loading(b)' BY <1>2, <1>3, <1>11 DEF Loading, Procs
<1>13. res => \A a \in invalidJobAttempts : rows[a] = 0
  <2> SUFFICES ASSUME res, NEW a \in invalidJobAttempts PROVE rows[a] = 0 OBVIOUS
  <2>1. a \in Attempts /\ rows[a] \in Nat BY DEF TypeOK
  <2>2. rows[a] > 0 => a \in invalidJAWithRows BY <2>1 DEF SetsInv, InvalidRowsTracked
  <2>3. a \in invalidJAWithRows => rows[a] = 0 BY <1>1, <1>5 DEF DeleteInv
  <2> QED BY <2>1, <2>2, <2>3
<1>14. SetsInv'
  <2>1. invalidJAWithRows' \subseteq invalidJobAttempts' BY SMTT(30), <1>1, <1>2 DEF SetsInv
  <2>2. \A a \in Attempts : (rows[a] > 0 \/ Loading(a) => a \in jobIdAttemptsHaveRows)'
    BY <1>2, <1>12 DEF SetsInv
  <2>3. InvalidRowsTracked'
    BY <1>1, <1>2, <1>12, <1>13, SMTT(30) DEF SetsInv, InvalidRowsTracked
  <2> QED BY <2>1, <2>2, <2>3 DEF SetsInv
<1>15. PublishInv'
  <2>1. BeforeClose' => BeforeClose BY ZenonT(30), <1>2, <1>3 DEF BeforeClose, Procs
  <2>2. pc'[Finalizer] \in {"publish", "done"} => \A a \in dropped : rows[a] = 0
    <3>1. CASE p = Finalizer
      BY ZenonT(30), <1>1, <1>3, <1>13, <3>1 DEF PublishInv
    <3>2. CASE p # Finalizer BY ZenonT(30), <1>3, <3>2 DEF PublishInv, Procs
    <3> QED BY <3>1, <3>2
  <2> QED BY ZenonT(30), <1>2, <1>12, <2>1, <2>2 DEF PublishInv
<1>16. FinalInv' BY ZenonT(30), <1>2, <1>3 DEF FinalInv, Procs
<1> QED BY <1>4, <1>6, <1>7, <1>9, <1>10, <1>14, <1>15, <1>16

LEMMA FinalizeTableIndInv ==
    ASSUME IndInv, FinalizeTable
    PROVE  IndInv'
<1> USE DEF IndInv, FinalizeTable, Goto, mgrVars
<1>0. pc[Finalizer] = "publish" /\ published = Unpublished BY DEF FinalInv
<1>1. TypeOK' BY ZenonT(30) DEF TypeOK, PCs, Procs
<1>2. ControlInv' BY ZenonT(30) DEF ControlInv, TypeOK, Procs
<1>3. Merging' = Merging BY ZenonT(30) DEF Merging, TypeOK, Procs
<1>4. CountInv' BY SMTT(30), <1>3 DEF CountInv
<1>5. DeleteInv' BY SMTT(30) DEF DeleteInv, TypeOK, Procs
<1>6. \A b : Loading(b)' => Loading(b) BY DEF Loading, TypeOK, Procs
<1>7. SetsInv' BY <1>6 DEF SetsInv, InvalidRowsTracked
<1>8. \A b : Unreported(b)' = Unreported(b) BY ZenonT(30) DEF Unreported, TypeOK, Procs
<1>9. AckInv' BY ZenonT(30), <1>8 DEF AckInv
<1>10. PublishInv'
  <2>1. ~BeforeClose' BY ZenonT(30) DEF BeforeClose, TypeOK, Procs
  <2> QED BY ZenonT(30), <1>0, <1>6, <2>1 DEF PublishInv
<1>11. FinalInv' BY ZenonT(30), <1>0, UnpublishedFresh DEF FinalInv, TypeOK, Procs
<1> QED BY <1>1, <1>2, <1>4, <1>5, <1>7, <1>9, <1>10, <1>11

\* Every step of the merger preserves the inductive invariant.
LEMMA NextIndInv == IndInv /\ [Next]_vars => IndInv'
<1> SUFFICES ASSUME IndInv, [Next]_vars PROVE IndInv' OBVIOUS
<1>1. ASSUME NEW t \in Threads, MergeStep(t) PROVE IndInv'
  BY ZenonT(30), <1>1, IncrIndInv, FlagWakeIndInv, ApplyMysqlIndInv, DecrIndInv DEF MergeStep
<1>2. ASSUME NEW p \in Procs, HoldStep(p) PROVE IndInv'
  BY <1>2, HoldIndInv, CountWakeIndInv, DeleteBatchIndInv, HoldReturnIndInv DEF HoldStep
<1>3. ASSUME NEW a \in Attempts, PrepScrub(a) PROVE IndInv'
  BY <1>3, PrepScrubIndInv
<1>4. CASE FinalizeTable BY <1>4, FinalizeTableIndInv
<1>5. CASE UNCHANGED vars
  <2> USE <1>5 DEF vars, mgrVars, tableVars, IndInv
  <2>1. TypeOK' BY ZenonT(30) DEF TypeOK
  <2>2. ControlInv' /\ FinalInv' BY ZenonT(30) DEF ControlInv, FinalInv
  <2>3. CountInv' BY ZenonT(30) DEF CountInv, Merging
  <2>4. DeleteInv' BY ZenonT(30) DEF DeleteInv
  <2>5. SetsInv' BY ZenonT(30) DEF SetsInv, InvalidRowsTracked, Loading
  <2>6. AckInv' BY ZenonT(30) DEF AckInv, Unreported
  <2>7. PublishInv' BY ZenonT(30) DEF PublishInv, BeforeClose, Loading
  <2> QED BY ZenonT(30), <2>1, <2>2, <2>3, <2>4, <2>5, <2>6, <2>7
<1> QED BY <1>1, <1>2, <1>3, <1>4, <1>5 DEF Next

\* The strengthening is an invariant of the merger.
THEOREM IndInvariant == Spec => []IndInv
BY InitIndInv, NextIndInv, PTL DEF Spec

\* No LOAD DATA ever runs beside a DELETE (InfileMerger.h: "Deletes are only to
\* be allowed when _concurrentMergeCount is 0").
THEOREM DeleteExclusion == Spec => []NoWriteDuringDelete
<1>1. IndInv => NoWriteDuringDelete
  <2> SUFFICES ASSUME IndInv, NEW p \in Procs, pc[p] = "delete" PROVE Merging = {}
    BY DEF NoWriteDuringDelete
  <2>1. Cardinality(Merging) = 0 BY DEF IndInv, DeleteInv, CountInv
  <2> QED BY <2>1, EmptyCount DEF Merging
<1> QED BY <1>1, IndInvariant, PTL

\* Every row of an invalid attempt, written or about to be, is scheduled for
\* deletion.
THEOREM InvalidRowsAreTracked == Spec => []InvalidRowsTracked
<1>1. IndInv => InvalidRowsTracked BY DEF IndInv, SetsInv
<1> QED BY <1>1, IndInvariant, PTL

\* No delete takes away a row that merge() acknowledged and that is valid.
THEOREM AckedRowsAreKept == Spec => []AckedRowsKept
<1>1. IndInv => AckedRowsKept
  <2> SUFFICES ASSUME IndInv, NEW a \in Attempts \ invalidJobAttempts
               PROVE  acked[a] =< rows[a]
    BY DEF AckedRowsKept
  <2>1. IsFiniteSet(Unreported(a)) BY FS_Subset DEF Unreported
  <2>2. Cardinality(Unreported(a)) \in Nat BY <2>1, FS_CardinalityType
  <2> QED BY <2>2 DEF IndInv, AckInv, TypeOK
<1> QED BY <1>1, IndInvariant, PTL

\* What finalize() publishes has every acknowledged message of a valid attempt
\* and nothing of an attempt that was given up in time.
THEOREM PublishedRowsAreExact == Spec => []PublishedExact
<1>1. IndInv /\ AckedRowsKept => PublishedExact
  <2> SUFFICES ASSUME IndInv, AckedRowsKept, published # Unpublished, NEW a \in Attempts
               PROVE  /\ a \in dropped => published[a] = 0
                      /\ a \notin invalidJobAttempts => acked[a] =< published[a]
    BY ZenonT(30) DEF PublishedExact
  <2>1. published = rows /\ pc[Finalizer] = "done"
    BY ZenonT(30) DEF IndInv, PublishInv, FinalInv
  <2>2. a \in dropped => rows[a] = 0 BY <2>1 DEF IndInv, PublishInv
  <2>3. a \notin invalidJobAttempts => acked[a] =< rows[a] BY DEF AckedRowsKept
  <2> QED BY ZenonT(30), <2>1, <2>2, <2>3
<1> QED BY <1>1, IndInvariant, AckedRowsAreKept, PTL

-----------------------------------------------------------------------------
(* Refinement of ResultTable.  LogicalTable hides the rows of dropped      *)
(* attempts, so a late LOAD of a dropped attempt is a stuttering step, and *)
(* so is a DELETE unless it catches an attempt scrubbed after the close.   *)
(* PublishInv makes the physical table equal to the logical one when it is *)
(* published.                                                              *)

\* Steps that leave the tables and the finalizer's side of the hold alone.
LEMMA StutterRefines ==
    ASSUME UNCHANGED <<rows, invalidJobAttempts, dropped, published, BeforeClose>>
    PROVE  [Table!Next]_(Table!vars)
BY DEF Table!vars, LogicalTable

\* A move of one process, to or from a hold: a stutter, or the close.
LEMMA CloseRefines ==
    ASSUME UNCHANGED <<rows, invalidJobAttempts, dropped, published>>,
           BeforeClose' => BeforeClose
    PROVE  [Table!Next]_(Table!vars)
<1>1. CASE BeforeClose /\ ~BeforeClose'
  <2>1. Table!Close BY <1>1 DEF Table!Close, LogicalTable
  <2> QED BY <2>1 DEF Table!Next
<1>2. CASE (BeforeClose <=> BeforeClose')
  <2>1. (~BeforeClose)' = ~BeforeClose BY <1>2
  <2> QED BY <2>1 DEF Table!vars, LogicalTable
<1> QED BY <1>1, <1>2

LEMMA StepRefines ==
    ASSUME IndInv, [Next]_vars
    PROVE  [Table!Next]_(Table!vars)
<1> USE DEF mgrVars, tableVars
<1>0. pc \in [Procs -> PCs] /\ Finalizer \in Procs
  BY ZenonT(30) DEF IndInv, TypeOK, Procs
<1>1. ASSUME NEW t \in Threads, NEW a \in Attempts, IncrConcurrentMergeCount(t, a)
      PROVE  [Table!Next]_(Table!vars)
  <2>1. pc'[Finalizer] = pc[Finalizer]
    BY <1>0, <1>1 DEF IncrConcurrentMergeCount, EnterOrLeave, Goto, Procs
  <2>2. BeforeClose' => BeforeClose BY ZenonT(30), <2>1 DEF BeforeClose
  <2> QED BY ZenonT(30), <1>1, <2>2, CloseRefines DEF IncrConcurrentMergeCount
<1>2. ASSUME NEW t \in Threads, FlagWake(t) PROVE [Table!Next]_(Table!vars)
  <2>1. pc'[Finalizer] = pc[Finalizer]
    BY <1>0, <1>2 DEF FlagWake, EnterOrLeave, Goto, Procs
  <2>2. BeforeClose' => BeforeClose BY ZenonT(30), <2>1 DEF BeforeClose
  <2> QED BY ZenonT(30), <1>2, <2>2, CloseRefines DEF FlagWake
<1>3. ASSUME NEW t \in Threads, ApplyMysql(t) PROVE [Table!Next]_(Table!vars)
  <2>1. PICK wrote \in BOOLEAN :
          /\ wrote => published = Unpublished
          /\ rows' = IF wrote THEN [rows EXCEPT ![att[t]] = @ + 1] ELSE rows
    BY ZenonT(30), <1>3 DEF ApplyMysql
  <2>2. UNCHANGED <<invalidJobAttempts, dropped, published>>
    BY ZenonT(30), <1>3 DEF ApplyMysql
  <2>3. rows \in [Attempts -> Nat] /\ att[t] \in Attempts BY DEF IndInv, TypeOK
  <2>4. pc'[Finalizer] = pc[Finalizer] BY <1>0, <1>3 DEF ApplyMysql, Goto, Procs
  <2>5. UNCHANGED BeforeClose BY ZenonT(30), <2>4 DEF BeforeClose
  <2>6. CASE ~wrote BY ZenonT(30), <2>1, <2>2, <2>5, <2>6, StutterRefines
  <2>7. CASE wrote /\ att[t] \in dropped
    <3>1. LogicalTable' = LogicalTable BY <2>1, <2>2, <2>3, <2>7 DEF LogicalTable
    <3> QED BY <2>2, <2>5, <3>1 DEF Table!vars
  <2>8. CASE wrote /\ att[t] \notin dropped
    <3>1. LogicalTable' = [LogicalTable EXCEPT ![att[t]] = @ + 1]
      BY <2>1, <2>2, <2>3, <2>8 DEF LogicalTable
    <3>2. Table!Load(att[t])
      BY ZenonT(30), <2>1, <2>2, <2>5, <2>8, <3>1 DEF Table!Load
    <3> QED BY <2>3, <3>2 DEF Table!Next
  <2> QED BY <2>6, <2>7, <2>8
<1>4. ASSUME NEW t \in Threads, DecrConcurrentMergeCount(t)
      PROVE  [Table!Next]_(Table!vars)
  <2>1. pc'[Finalizer] = pc[Finalizer]
    BY <1>0, <1>4 DEF DecrConcurrentMergeCount, Goto, Procs
  <2>2. BeforeClose' => BeforeClose BY ZenonT(30), <2>1 DEF BeforeClose
  <2> QED BY ZenonT(30), <1>4, <2>2, CloseRefines DEF DecrConcurrentMergeCount
<1>5. ASSUME NEW p \in Procs, HoldMergingForRowDelete(p)
      PROVE  [Table!Next]_(Table!vars)
  <2>1. pc'[Finalizer] = pc[Finalizer] \/ p = Finalizer
    BY <1>0, <1>5 DEF HoldMergingForRowDelete, AfterHold, StartDelete, Goto
  <2>2. BeforeClose' => BeforeClose
    BY ZenonT(30), <1>5, <2>1 DEF BeforeClose, HoldMergingForRowDelete
  <2> QED BY ZenonT(30), <1>5, <2>2, CloseRefines DEF HoldMergingForRowDelete
<1>6. ASSUME NEW p \in Procs, CountWake(p) PROVE [Table!Next]_(Table!vars)
  <2>1. pc'[Finalizer] = pc[Finalizer] \/ p = Finalizer
    BY <1>0, <1>6 DEF CountWake, StartDelete, Goto
  <2>2. BeforeClose' => BeforeClose BY ZenonT(30), <1>6, <2>1 DEF BeforeClose, CountWake
  <2> QED BY ZenonT(30), <1>6, <2>2, CloseRefines DEF CountWake
<1>7. ASSUME NEW p \in Procs, DeleteBatch(p) PROVE [Table!Next]_(Table!vars)
  <2>1. PICK batch \in SUBSET toDelete :
          /\ rows' = [a \in Attempts |-> IF a \in batch THEN 0 ELSE rows[a]]
          /\ dropped' = dropped \cup batch
    BY ZenonT(30), <1>7 DEF DeleteBatch
  <2>2. published = Unpublished /\ UNCHANGED <<invalidJobAttempts, published, pc>>
    BY ZenonT(30), <1>7 DEF DeleteBatch
  <2>3. mutex # NoThread BY <1>7 DEF DeleteBatch, IndInv, DeleteInv
  <2>4. batch \subseteq invalidJobAttempts BY <2>3 DEF IndInv, DeleteInv, SetsInv
  <2>5. LogicalTable' = [a \in Attempts |-> IF a \in batch THEN 0 ELSE LogicalTable[a]]
    BY <2>1 DEF LogicalTable
  <2>6. UNCHANGED BeforeClose BY ZenonT(30), <2>2 DEF BeforeClose
  <2>7. Table!Clean(batch)
    BY ZenonT(30), <2>1, <2>2, <2>5, <2>6 DEF Table!Clean, Table!Drop
  <2> QED BY <2>4, <2>7 DEF Table!Next
<1>8. ASSUME NEW p \in Procs, HoldReturn(p) PROVE [Table!Next]_(Table!vars)
  <2>1. pc'[Finalizer] = pc[Finalizer] \/ p = Finalizer
    BY <1>0, <1>8 DEF HoldReturn, AfterHold, Goto
  <2>2. BeforeClose' => BeforeClose BY ZenonT(30), <1>8, <2>1 DEF BeforeClose, HoldReturn
  <2> QED BY ZenonT(30), <1>8, <2>2, CloseRefines DEF HoldReturn
<1>9. ASSUME NEW a \in Attempts, PrepScrub(a) PROVE [Table!Next]_(Table!vars)
  <2>1. /\ invalidJobAttempts' = invalidJobAttempts \cup {a}
        /\ dropped' = IF BeforeClose THEN dropped \cup {a} ELSE dropped
        /\ UNCHANGED <<rows, published, pc>>
    BY ZenonT(30), <1>9 DEF PrepScrub
  <2>2. UNCHANGED BeforeClose BY ZenonT(30), <2>1 DEF BeforeClose
  <2>3. CASE BeforeClose
    <3>1. LogicalTable' = [b \in Attempts |-> IF b \in {a} THEN 0 ELSE LogicalTable[b]]
      BY <2>1, <2>3 DEF LogicalTable
    <3> QED BY ZenonT(30), <2>1, <2>2, <2>3, <3>1
            DEF Table!Scrub, Table!Drop, Table!Next
  <2>4. CASE ~BeforeClose
    <3>1. LogicalTable' = LogicalTable BY <2>1, <2>4 DEF LogicalTable
    <3> QED BY ZenonT(30), <2>1, <2>2, <2>4, <3>1 DEF Table!Scrub, Table!Next
  <2> QED BY <2>3, <2>4
<1>10. CASE FinalizeTable
  <2>1. UNCHANGED <<rows, invalidJobAttempts, dropped>> BY ZenonT(30), <1>10 DEF FinalizeTable
  <2>2. ~BeforeClose /\ ~BeforeClose'
    BY <1>0, <1>10 DEF FinalizeTable, Goto, BeforeClose
  <2>3. CASE UNCHANGED published BY ZenonT(30), <2>1, <2>2, <2>3, CloseRefines
  <2>4. CASE published' = rows
    <3>1. published = Unpublished BY <1>10 DEF FinalizeTable, IndInv, FinalInv
    <3>2. LogicalTable = rows
      BY ZenonT(30), <1>10 DEF FinalizeTable, IndInv, PublishInv, LogicalTable, TypeOK
    <3>3. LogicalTable' = LogicalTable BY <2>1 DEF LogicalTable
    <3>4. (~BeforeClose)' = ~BeforeClose BY <2>2
    <3>5. Table!Publish BY <2>1, <2>2, <2>4, <3>1, <3>2, <3>3, <3>4 DEF Table!Publish
    <3> QED BY <3>5 DEF Table!Next
  <2> QED BY ZenonT(30), <1>10, <2>3, <2>4 DEF FinalizeTable
<1>11. CASE UNCHANGED vars
  BY ZenonT(30), <1>11, CloseRefines DEF vars, BeforeClose
<1> QED BY SMTT(30), <1>1, <1>2, <1>3, <1>4, <1>5, <1>6, <1>7, <1>8, <1>9, <1>10, <1>11
       DEF Next, MergeStep, HoldStep

\* The merger implements the abstract result table: what finalize() publishes
\* is what the attempts loaded, and nothing of one given up in time.
THEOREM MergerRefinesResultTable == Spec => ImplementsResultTable
<1>1. Init => Table!Init
  <2> SUFFICES ASSUME Init PROVE Table!Init OBVIOUS
  <2>1. BeforeClose BY ZenonT(30) DEF Init, BeforeClose, Procs
  <2>2. LogicalTable = [a \in Attempts |-> 0] BY DEF Init, LogicalTable
  <2> QED BY <2>1, <2>2 DEF Init, Table!Init
<1> QED BY <1>1, StepRefines, IndInvariant, PTL DEF ImplementsResultTable, Spec, Table!Spec

=============================================================================
