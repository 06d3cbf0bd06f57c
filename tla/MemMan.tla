------------------------------- MODULE MemMan -------------------------------
(***************************************************************************)
(* memman: MemManReal over MemFileSet, MemFile and Memory.  The scan       *)
(* schedulers of a worker reserve memory for the tables of a task before   *)
(* the task may start.  A handle is named by the task it was prepared for, *)
(* and every file has size 1, so that Memory::_rsvBytes is the number of   *)
(* reserved files.  mmap() and stat() do not fail here.                    *)
(***************************************************************************)
EXTENDS Naturals, Sequences, FiniteSets, SequencesExt

CONSTANTS Files,    \* the files of the tables each task scans, slowest first
          MaxBytes  \* Memory::_maxBytes

\* hanCache, the handles prepared with LockType::REQUIRED, the files that
\* have a MemFile with _isFlex, and those with _isReserved (and _isMapped).
NoMemory == [han |-> {}, req |-> {}, flex |-> {}, rsv |-> {}]

Referenced(han) == UNION {ToSet(Files[t]) : t \in han}

\* MemFile::release() of every file that is in no file set any more.
Released(m) ==
    LET refs == Referenced(m.han)
    IN [m EXCEPT !.req = @ \cap m.han, !.flex = @ \cap refs, !.rsv = @ \cap refs]

\* Mutant: a file set releases its files, whoever else refers to them.
UnlockFiles(m, t) ==
    [m EXCEPT !.han = @ \ {t}, !.req = @ \ {t},
              !.flex = @ \ ToSet(Files[t]), !.rsv = @ \ ToSet(Files[t])]
Unlock(m, t) == Released([m EXCEPT !.han = @ \ {t}])

\* MemFile::memMap() of one file, after a = [ok, rsv] of the ones before it.
MemMap(flex, a, f) ==
    IF ~a.ok \/ f \in a.rsv THEN a
    ELSE IF Cardinality(a.rsv) < MaxBytes THEN [a EXCEPT !.rsv = @ \cup {f}]
    ELSE [a EXCEPT !.ok = f \in flex]

\* MemManReal::prepare() with the outcome `all' of mapping the files: the file
\* set gets a handle, or is deleted.
Prepared(m, t, flexible, flex, all) ==
    IF all.ok
    THEN [ok |-> TRUE, mem |-> [han |-> m.han \cup {t}, flex |-> flex, rsv |-> all.rsv,
                                req |-> IF flexible THEN m.req ELSE m.req \cup {t}]]
    ELSE [ok |-> FALSE, mem |-> Released([m EXCEPT !.rsv = all.rsv])]

\* A file keeps the _isFlex of the file set that first obtained it.
Prepare(m, t, flexible) ==
    LET fresh == ToSet(Files[t]) \ Referenced(m.han)
        flex  == IF flexible THEN m.flex \cup fresh ELSE m.flex
        Map(a, f) == MemMap(flex, a, f)
    IN IF Files[t] = <<>> THEN [ok |-> TRUE, mem |-> m]
       ELSE Prepared(m, t, flexible, flex, FoldLeft(Map, [ok |-> TRUE, rsv |-> m.rsv], Files[t]))

\* lock(handle, strict) may fail when mlock() of a required file fails.
MayFail(m, t) == t \in m.req /\ ToSet(Files[t]) \cap (m.rsv \ m.flex) # {}
=============================================================================
