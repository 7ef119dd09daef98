------------------------- MODULE EventStorageProofs -------------------------
(* Theorems about EventStorage, for every number of requests, files and    *)
(* faults and every file size.                                             *)
EXTENDS EventStorage, TLAPS, FiniteSetTheorems, SequenceTheorems, WellFoundedInduction

-----------------------------------------------------------------------------
(* Facts about the operators the store is built from.                      *)

(* A nonempty set of naturals has a least element: the Min of indexFile's  *)
(* times is one of them.                                                   *)
LEMMA MinIsMember ==
    ASSUME NEW S \in SUBSET Nat, S # {}
    PROVE  Min(S) \in S /\ \A t \in S : Min(S) <= t
<1> DEFINE Less == {p \in Nat \X Nat : p[1] < p[2]}
<1>1. IsWellFoundedOn(Less, Nat)
  BY NatLessThanWellFounded, Zenon DEF OpToRel
<1>2. \E m \in S : \A t \in S : ~(<<t, m>> \in Less)
  <2> HIDE DEF Less
  <2> QED  BY <1>1, WFMin, Zenon
<1>3. PICK m \in S : \A t \in S : ~(<<t, m>> \in Less)
  BY <1>2
<1>4. \A t \in S : m <= t
  <2> TAKE t \in S
  <2>1. t \in Nat /\ m \in Nat
    OBVIOUS
  <2>2. ~(t < m)
    BY <1>3, <2>1
  <2> QED  BY <2>1, <2>2
<1> QED  BY <1>4 DEF Min

(* A nonempty set of naturals with a bound has a greatest element.         *)
LEMMA MaxIsMember ==
    ASSUME NEW n \in Nat, NEW S \in SUBSET (0..n), S # {}
    PROVE  Max(S) \in S /\ \A t \in S : t <= Max(S)
<1> DEFINE R == {n - t : t \in S}
<1>1. R \in SUBSET Nat /\ R # {}
  <2>1. \A t \in S : t \in 0..n
    OBVIOUS
  <2>2. \A t \in S : n - t \in Nat
    BY <2>1
  <2> QED  BY <2>2
<1>2. PICK d \in R : \A e \in R : d <= e
  BY <1>1, MinIsMember
<1>3. PICK m \in S : d = n - m
  OBVIOUS
<1>4. \A t \in S : t <= m
  <2> TAKE t \in S
  <2>1. t \in 0..n /\ m \in 0..n
    OBVIOUS
  <2>2. d <= n - t
    BY <1>2
  <2> QED  BY <2>1, <2>2, <1>3
<1> QED  BY <1>4 DEF Max

(* The size of a document is a natural number.                             *)
LEMMA SizeType ==
    ASSUME NEW c \in Seq(Entry)
    PROVE  Size(c) \in Nat
<1> DEFINE Flagged == {i \in DOMAIN c : c[i].processed}
<1>1. IsFiniteSet(1..Len(c))
  BY FS_Interval
<1>2. IsFiniteSet(Flagged)
  <2>1. Flagged \in SUBSET (1..Len(c))
    OBVIOUS
  <2> QED  BY <1>1, <2>1, FS_Subset
<1>3. Cardinality(Flagged) \in Nat
  BY <1>2, FS_CardinalityType
<1> QED  BY <1>3, ConstantsAssumption DEF Size

(* A write at offset 0 leaves a file, readable or not.                     *)
LEMMA OverwriteType ==
    ASSUME NEW old \in File, NEW c \in Seq(Entry)
    PROVE  Overwrite(old, c) \in File
<1>1. Size(c) \in Nat
  BY SizeType
<1>2. Json(c) \in File
  BY <1>1 DEF File, Json
<1>3. [ok |-> FALSE, evs |-> <<>>, size |-> old.size] \in File
  BY EmptySeq DEF File
<1> QED  BY <1>2, <1>3 DEF Overwrite

(* The index indexFile computes from a nonempty file is an index.          *)
LEMMA IndexOfType ==
    ASSUME ts \in [Events -> 0..MaxTime], NEW c \in Seq(Entry), c # <<>>
    PROVE  IndexOf(c) \in Index
<1> DEFINE times == {ts[e] : e \in Ids(c)}
<1>1. \A i \in DOMAIN c : c[i].id \in Events
  <2>1. \A i \in DOMAIN c : c[i] \in Entry
    OBVIOUS
  <2> QED  BY <2>1 DEF Entry
<1>2. times \in SUBSET (0..MaxTime)
  BY <1>1 DEF Ids
<1>3. times # {}
  <2>1. 1 \in DOMAIN c
    OBVIOUS
  <2> QED  BY <2>1 DEF Ids
<1>4. Min(times) \in times
  <2>1. times \in SUBSET Nat
    BY <1>2, ConstantsAssumption
  <2> QED  BY <2>1, <1>3, MinIsMember
<1>5. Max(times) \in times
  BY <1>2, <1>3, MaxIsMember, ConstantsAssumption
<1> QED  BY <1>2, <1>4, <1>5 DEF IndexOf, Index

(* updateFileIndex extends an index, or starts one.                        *)
LEMMA IndexAddType ==
    ASSUME NEW idx \in Index \union {NoIndex}, NEW t \in 0..MaxTime
    PROVE  IndexAdd(idx, t) \in Index
BY DEF IndexAdd, Index

(* Setting flags keeps the events of a document.                           *)
LEMMA MarkedType ==
    ASSUME NEW c \in Seq(Entry), NEW S
    PROVE  /\ Marked(c, S) \in Seq(Entry)
           /\ DOMAIN Marked(c, S) = DOMAIN c
           /\ \A i \in DOMAIN c : /\ Marked(c, S)[i].id = c[i].id
                                  /\ Marked(c, S)[i].processed = (c[i].processed \/ c[i].id \in S)
<1>1. DOMAIN c = 1..Len(c) /\ Len(c) \in Nat
  OBVIOUS
<1>2. \A i \in DOMAIN c : [c[i] EXCEPT !.processed = @ \/ c[i].id \in S] \in Entry
  <2> TAKE i \in DOMAIN c
  <2>1. c[i] \in Entry
    OBVIOUS
  <2>2. (c[i].processed \/ c[i].id \in S) \in BOOLEAN
    OBVIOUS
  <2> QED  BY <2>1, <2>2 DEF Entry
<1>3. Marked(c, S) \in [1..Len(c) -> Entry]
  BY <1>1, <1>2 DEF Marked
<1>4. Marked(c, S) \in Seq(Entry)
  BY <1>1, <1>3, IsASeq
<1>5. \A i \in DOMAIN c : c[i] \in Entry
  OBVIOUS
<1> QED  BY <1>4, <1>5 DEF Marked, Entry

(* Appending an alert keeps the others, in place.                          *)
LEMMA WithAlertType ==
    ASSUME NEW c \in Seq(Entry), NEW e \in Events
    PROVE  /\ WithAlert(c, e) \in Seq(Entry)
           /\ DOMAIN WithAlert(c, e) = 1..(Len(c) + 1)
           /\ WithAlert(c, e)[Len(c) + 1] = [id |-> e, processed |-> FALSE]
           /\ \A i \in DOMAIN c : WithAlert(c, e)[i] = c[i]
BY DEF WithAlert, Entry
-----------------------------------------------------------------------------
(* Type correctness.                                                       *)

(* Every file indexFile accepts at start gets an index.                    *)
LEMMA RebuiltType ==
    ASSUME TypeOK
    PROVE  RebuiltIndexes \in [Files -> Index \union {NoIndex}]
<1>1. \A f \in Files : disk[f].evs \in Seq(Entry)
  BY DEF TypeOK, File
<1>2. \A f \in Files : disk[f].evs # <<>> => IndexOf(disk[f].evs) \in Index
  BY <1>1, IndexOfType DEF TypeOK
<1> QED  BY <1>2 DEF RebuiltIndexes

(* TypeOK alone is not inductive: an applier that reads, marks or indexes  *)
(* needs the file it picked.                                               *)
AtFile ==
    \A l \in Loads :
        lpc[l] \in {"aread", "aopen", "awrite", "aindex", "apublish"} => at[l] \in Files

WellFormed == TypeOK /\ AtFile

(* NewEventStorage starts from a well-formed state.                        *)
LEMMA InitWellFormed == Init => WellFormed
<1> SUFFICES ASSUME Init PROVE WellFormed
  OBVIOUS
<1>1. Json(<<>>) \in File /\ Absent \in File
  BY EmptySeq, SizeType DEF Json, Absent, File
<1>2. 1 \in Files
  BY ConstantsAssumption DEF Files
<1>3. disk \in [Files -> File]
  BY <1>1 DEF Init
<1>4. 0 \in 0..MaxTime /\ 0 \in 0..MaxFaults
  BY ConstantsAssumption
<1>5. filter \in [Loads -> Filter]
  BY <1>4 DEF Init, Filter, Severity, Info
<1>6. <<>> \in Seq(Entry)
  BY EmptySeq
<1> QED  BY <1>2, <1>3, <1>4, <1>5, <1>6 DEF Init, WellFormed, TypeOK, AtFile, StoreRunning, LoadRunning, Files

(* Every step keeps the state well formed.                                 *)
LEMMA StepWellFormed == WellFormed /\ [Next]_vars => WellFormed'
<1> SUFFICES ASSUME WellFormed, [Next]_vars PROVE WellFormed'
  OBVIOUS
<1> USE DEF memory, storeVars, loadVars, world, StoreRunning, LoadRunning, Requests
<1>1. ASSUME NEW e \in Events, StoreBegin(e) PROVE WellFormed'
  BY <1>1 DEF WellFormed, TypeOK, AtFile, StoreBegin
<1>2. ASSUME NEW e \in Events, StoreLock(e) PROVE WellFormed'
  BY <1>2 DEF WellFormed, TypeOK, AtFile, StoreLock
<1>3. ASSUME NEW e \in Events, StoreRead(e) PROVE WellFormed'
  <2>1. disk[currentFile].evs \in Seq(Entry)
    BY DEF WellFormed, TypeOK, AtFile, File
  <2>2. WithAlert(disk[currentFile].evs, e) \in Seq(Entry) /\ <<>> \in Seq(Entry)
    BY <2>1, WithAlertType, EmptySeq
  <2>3. buf' \in [Requests -> Seq(Entry)]
    BY <1>3, <2>2 DEF WellFormed, TypeOK, StoreRead, StoreFail
  <2>4. /\ currentMutex' \in Events \union {NoOne}
        /\ spc' \in [Events -> StoreRunning \union {"new", "stored", "failed", "killed"}]
        /\ overlapped' \subseteq Files
    BY <1>3 DEF WellFormed, TypeOK, StoreRead, StoreFail
  <2> QED  BY <1>3, <2>3, <2>4 DEF WellFormed, TypeOK, AtFile, StoreRead
<1>4. ASSUME NEW e \in Events, StoreOpen(e) PROVE WellFormed'
  <2>1. Emptied \in File
    BY EmptySeq DEF Emptied, Absent, File
  <2> QED  BY <1>4, <2>1 DEF WellFormed, TypeOK, AtFile, StoreOpen
<1>5. ASSUME NEW e \in Events, StoreWrite(e) PROVE WellFormed'
  <2>1. Overwrite(disk[currentFile], buf[e]) \in File
    BY OverwriteType DEF WellFormed, TypeOK, AtFile
  <2> QED  BY <1>5, <2>1 DEF WellFormed, TypeOK, AtFile, StoreWrite
<1>6. ASSUME NEW e \in Events, StoreWriteFails(e) PROVE WellFormed'
  <2>1. <<>> \in Seq(Entry)
    BY EmptySeq
  <2>2. faults' \in 0..MaxFaults
    BY <1>6, ConstantsAssumption DEF WellFormed, TypeOK, AtFile, StoreWriteFails
  <2> QED  BY <1>6, <2>1, <2>2 DEF WellFormed, TypeOK, AtFile, StoreWriteFails, StoreFail
<1>7. ASSUME NEW e \in Events, StoreIndex(e) PROVE WellFormed'
  <2>1. IndexAdd(fileIndexes[currentFile], ts[e]) \in Index
    BY IndexAddType DEF WellFormed, TypeOK, AtFile
  <2>2. <<>> \in Seq(Entry)
    BY EmptySeq
  <2> QED  BY <1>7, <2>1, <2>2 DEF WellFormed, TypeOK, AtFile, StoreIndex
<1>8. ASSUME NEW l \in Loads, NEW q \in Queries, LoadBegin(l, q) PROVE WellFormed'
  <2>1. q \in Filter /\ now \in 0..MaxTime
    BY QueriesAssumption DEF WellFormed, TypeOK
  <2>2. Resolved(q) \in Filter
    BY <2>1 DEF Resolved, Filter
  <2> QED  BY <1>8, <2>2 DEF WellFormed, TypeOK, AtFile, LoadBegin
<1>9. ASSUME NEW l \in Loads, NEW f \in Files, LoadRead(l, f) PROVE WellFormed'
  <2>1. disk[f].evs \in Seq(Entry)
    BY DEF WellFormed, TypeOK, AtFile, File
  <2> QED  BY <1>9, <2>1 DEF WellFormed, TypeOK, AtFile, LoadRead
<1>10. ASSUME NEW l \in Loads, LoadScan(l) PROVE WellFormed'
  <2>1. Head(scan[l]) \in Entry /\ Tail(scan[l]) \in Seq(Entry)
    BY <1>10, HeadTailProperties DEF WellFormed, TypeOK, AtFile, LoadScan
  <2>2. Head(scan[l]).id \in Events
    BY <2>1 DEF Entry
  <2>3. scan' \in [Loads -> Seq(Entry)]
    BY <1>10, <2>1 DEF WellFormed, TypeOK, AtFile, LoadScan
  <2>4. pending' \in [Files -> SUBSET Events] /\ got' \in [Loads -> SUBSET Events]
    <3>1. CASE UNCHANGED <<pending, got>>
      BY <3>1 DEF WellFormed, TypeOK
    <3>2. CASE /\ pending' = [pending EXCEPT ![at[l]] = @ \union {Head(scan[l]).id}]
               /\ got' = [got EXCEPT ![l] = @ \union {Head(scan[l]).id}]
      BY <3>2, <2>2 DEF WellFormed, TypeOK
    <3> QED  BY <1>10, <3>1, <3>2 DEF LoadScan
  <2> QED  BY <1>10, <2>3, <2>4 DEF WellFormed, TypeOK, AtFile, LoadScan
<1>11. ASSUME NEW l \in Loads, ApplyLock(l) PROVE WellFormed'
  <2>1. MarkedFiles \in SUBSET Files
    BY DEF MarkedFiles
  <2> QED  BY <1>11, <2>1 DEF WellFormed, TypeOK, AtFile, ApplyLock
<1>12. ASSUME NEW l \in Loads, NEW f \in Files, ApplyPick(l, f) PROVE WellFormed'
  BY <1>12 DEF WellFormed, TypeOK, AtFile, ApplyPick
<1> DEFINE Rest == /\ disk' \in [Files -> File]
                   /\ fileIndexes' \in [Files -> Index \union {NoIndex}]
                   /\ UNCHANGED <<currentFile, currentMutex, pendingMutex, storeVars,
                                  filter, todo, scan, got, due, now>>
                   /\ faults' \in 0..MaxFaults
                   /\ unmarked' \subseteq Files /\ overlapped' \subseteq Files
<1>13. ASSUME NEW l \in Loads, ApplyNextFile(l), Rest PROVE WellFormed'
  <2>1. <<>> \in Seq(Entry)
    BY EmptySeq
  <2> QED  BY <1>13, <2>1 DEF WellFormed, TypeOK, AtFile, ApplyNextFile
<1>14. ASSUME NEW l \in Loads, ApplyRead(l) PROVE WellFormed'
  <2> DEFINE marked == Marked(disk[at[l]].evs, pending[at[l]])
  <2>1. CASE ApplyNextFile(l)
    <3>1. Rest
      BY <1>14 DEF WellFormed, TypeOK, AtFile, ApplyRead, StorerInside
    <3> QED  BY <1>13, <2>1, <3>1
  <2>2. CASE /\ buf' = [buf EXCEPT ![l] = marked]
             /\ lpc' = [lpc EXCEPT ![l] = "aopen"]
             /\ UNCHANGED <<fileLock, pending, at, idxbuf>>
    <3>1. at[l] \in Files
      BY <1>14 DEF WellFormed, AtFile, ApplyRead
    <3>2. disk[at[l]].evs \in Seq(Entry)
      BY <3>1 DEF WellFormed, TypeOK, File
    <3>3. marked \in Seq(Entry)
      BY <3>2, MarkedType
    <3> QED  BY <1>14, <2>2, <3>1, <3>3 DEF WellFormed, TypeOK, AtFile, ApplyRead
  <2> QED  BY <1>14, <2>1, <2>2 DEF ApplyRead
<1>15. ASSUME NEW l \in Loads, ApplyOpen(l) PROVE WellFormed'
  <2>1. Emptied \in File
    BY EmptySeq DEF Emptied, Absent, File
  <2> QED  BY <1>15, <2>1 DEF WellFormed, TypeOK, AtFile, ApplyOpen
<1>16. ASSUME NEW l \in Loads, ApplyWrite(l) PROVE WellFormed'
  <2>1. at[l] \in Files
    BY <1>16 DEF WellFormed, AtFile, ApplyWrite
  <2>2. Overwrite(disk[at[l]], buf[l]) \in File
    BY <2>1, OverwriteType DEF WellFormed, TypeOK
  <2> QED  BY <1>16, <2>2 DEF WellFormed, TypeOK, AtFile, ApplyWrite
<1>17. ASSUME NEW l \in Loads, ApplyWriteFails(l) PROVE WellFormed'
  <2>1. faults' \in 0..MaxFaults
    BY <1>17, ConstantsAssumption DEF WellFormed, TypeOK, ApplyWriteFails
  <2>2. unmarked' \subseteq Files
    BY <1>17 DEF WellFormed, TypeOK, AtFile, ApplyWriteFails
  <2>3. ApplyNextFile(l) /\ Rest
    BY <1>17, <2>1, <2>2 DEF WellFormed, TypeOK, ApplyWriteFails
  <2> QED  BY <1>13, <2>3
<1>18. ASSUME NEW l \in Loads, ApplyReindex(l) PROVE WellFormed'
  <2>1. CASE ApplyNextFile(l)
    <3>1. Rest
      BY <1>18 DEF WellFormed, TypeOK, ApplyReindex
    <3> QED  BY <1>13, <2>1, <3>1
  <2>2. CASE /\ disk[at[l]].evs # <<>>
             /\ idxbuf' = [idxbuf EXCEPT ![l] = IndexOf(disk[at[l]].evs)]
             /\ lpc' = [lpc EXCEPT ![l] = "apublish"]
             /\ UNCHANGED <<fileLock, pending, at, buf>>
    <3>1. at[l] \in Files
      BY <1>18 DEF WellFormed, AtFile, ApplyReindex
    <3>2. disk[at[l]].evs \in Seq(Entry)
      BY <3>1 DEF WellFormed, TypeOK, File
    <3>3. IndexOf(disk[at[l]].evs) \in Index
      BY <2>2, <3>2, IndexOfType DEF WellFormed, TypeOK
    <3> QED  BY <1>18, <2>2, <3>1, <3>3 DEF WellFormed, TypeOK, AtFile, ApplyReindex
  <2> QED  BY <1>18, <2>1, <2>2 DEF ApplyReindex
<1>19. ASSUME NEW l \in Loads, ApplyPublish(l) PROVE WellFormed'
  <2>1. ApplyNextFile(l) /\ Rest
    BY <1>19 DEF WellFormed, TypeOK, ApplyPublish
  <2> QED  BY <1>13, <2>1
<1>20. ASSUME NEW l \in Loads, LoadReturn(l) PROVE WellFormed'
  BY <1>20 DEF WellFormed, TypeOK, AtFile, LoadReturn
<1>21. ASSUME Reboot PROVE WellFormed'
  <2>1. RebuiltIndexes \in [Files -> Index \union {NoIndex}]
    BY RebuiltType DEF WellFormed
  <2>2. Json(<<>>) \in File /\ <<>> \in Seq(Entry)
    BY EmptySeq, SizeType DEF Json, File
  <2>3. disk' \in [Files -> File] /\ currentFile' \in Files
    BY <1>21, <2>2 DEF WellFormed, TypeOK, Reboot
  <2> QED  BY <1>21, <2>1, <2>2, <2>3 DEF WellFormed, TypeOK, AtFile, Reboot
<1>22. ASSUME Tick PROVE WellFormed'
  <2>1. now' \in 0..MaxTime
    BY <1>22, ConstantsAssumption DEF WellFormed, TypeOK, Tick
  <2> QED  BY <1>22, <2>1 DEF WellFormed, TypeOK, AtFile, Tick
<1>23. CASE UNCHANGED vars
  BY <1>23 DEF WellFormed, TypeOK, AtFile, vars
<1>24. CASE Next
  <2>1. Quiet => UNCHANGED vars
    BY DEF Quiet
  <2> QED
    BY <1>24, <2>1, <1>1, <1>2, <1>3, <1>4, <1>5, <1>6, <1>7, <1>8, <1>9, <1>10,
       <1>11, <1>12, <1>14, <1>15, <1>16, <1>17, <1>18, <1>19, <1>20, <1>21, <1>22,
       <1>23
       DEF Next, Internal, StoreStep, LoadStep
<1> QED  BY <1>23, <1>24

(* TypeOK holds in every reachable state: the store's variables keep their *)
(* shape whatever the interleaving of StoreEvent, LoadEvents, failed       *)
(* writes and restarts.                                                    *)
THEOREM TypeCorrect == Spec => []TypeOK
<1>1. WellFormed => TypeOK
  BY DEF WellFormed
<1> QED  BY <1>1, InitWellFormed, StepWellFormed, PTL DEF Spec

-----------------------------------------------------------------------------
(* Lock discipline.                                                        *)

Locking == OneStorer /\ OneApplier

(* No mutex is held in the initial state.                                  *)
LEMMA InitLocking == Init => Locking
BY ConstantsAssumption DEF Init, Locking, OneStorer, OneApplier, StoreRunning, LoadRunning

(* Every step keeps the owner of each mutex and the program counters of    *)
(* the requests in agreement.                                              *)
LEMMA StepLocking == WellFormed /\ Locking /\ [Next]_vars => Locking'
<1> SUFFICES ASSUME WellFormed, Locking, [Next]_vars PROVE Locking'
  OBVIOUS
<1> USE ConstantsAssumption DEF memory, storeVars, loadVars, world, StoreRunning, LoadRunning
<1> DEFINE StoreSide == <<currentMutex, spc>>
           LoadSide  == <<pendingMutex, fileLock, lpc, at>>
(* The two locks do not touch: a step of one side leaves the other alone.  *)
<1>1. ASSUME UNCHANGED StoreSide PROVE OneStorer'
  BY <1>1 DEF Locking, OneStorer
<1>2. ASSUME UNCHANGED LoadSide PROVE OneApplier'
  BY <1>2 DEF Locking, OneApplier
<1>3. ASSUME NEW e \in Events, StoreBegin(e) \/ StoreStep(e) PROVE Locking'
  <2>1. UNCHANGED LoadSide
    BY <1>3 DEF StoreBegin, StoreStep, StoreLock, StoreRead, StoreOpen, StoreWrite,
                StoreWriteFails, StoreIndex
  <2> SUFFICES OneStorer'
    BY <1>2, <2>1 DEF Locking
  <2>2. CASE StoreBegin(e) \/ StoreOpen(e) \/ StoreWrite(e)
    BY <2>2 DEF WellFormed, TypeOK, Locking, OneStorer, StoreBegin, StoreOpen, StoreWrite
  <2>3. CASE StoreLock(e)
    BY <2>3 DEF WellFormed, TypeOK, Locking, OneStorer, StoreLock
  <2>4. CASE StoreRead(e)
    <3>1. /\ spc[e] = "read"
          /\ \/ currentMutex' = NoOne /\ spc' = [spc EXCEPT ![e] = "failed"]
             \/ currentMutex' = currentMutex /\ spc' = [spc EXCEPT ![e] = "full"]
             \/ currentMutex' = currentMutex /\ spc' = [spc EXCEPT ![e] = "open"]
      BY <2>4 DEF StoreRead, StoreFail
    <3> QED  BY <3>1 DEF WellFormed, TypeOK, Locking, OneStorer
  <2>5. CASE StoreWriteFails(e) \/ StoreIndex(e)
    BY <2>5 DEF WellFormed, TypeOK, Locking, OneStorer, StoreWriteFails, StoreFail, StoreIndex
  <2> QED  BY <1>3, <2>2, <2>3, <2>4, <2>5 DEF StoreStep
<1>4. ASSUME NEW l \in Loads, LoadStep(l) PROVE Locking'
  <2>1. UNCHANGED StoreSide
    BY <1>4 DEF LoadStep, LoadRead, LoadScan, ApplyLock, ApplyPick, ApplyRead, ApplyOpen,
                ApplyWrite, ApplyWriteFails, ApplyReindex, ApplyPublish, LoadReturn
  <2> SUFFICES OneApplier'
    BY <1>1, <2>1 DEF Locking
  <2>2. CASE \E f \in Files : LoadRead(l, f)
    BY <2>2 DEF WellFormed, TypeOK, Locking, OneApplier, LoadRead
  <2>3. CASE LoadScan(l)
    BY <2>3 DEF WellFormed, TypeOK, Locking, OneApplier, LoadScan
  <2>4. CASE ApplyLock(l)
    BY <2>4 DEF WellFormed, TypeOK, Locking, OneApplier, ApplyLock
  <2>5. CASE \E f \in Files : ApplyPick(l, f)
    BY <2>5 DEF WellFormed, TypeOK, Locking, OneApplier, ApplyPick
  <2>6. CASE ApplyNextFile(l) /\ UNCHANGED pendingMutex
             /\ lpc[l] \in {"aread", "aopen", "awrite", "aindex", "apublish"}
    BY <2>6 DEF WellFormed, TypeOK, AtFile, Locking, OneApplier, ApplyNextFile
  <2>7. CASE /\ lpc[l] \in {"aread", "aopen", "awrite", "aindex"}
             /\ \E pc \in {"aopen", "awrite", "aindex", "apublish"} : lpc' = [lpc EXCEPT ![l] = pc]
             /\ UNCHANGED <<pendingMutex, fileLock, at>>
    <3>1. PICK pc \in {"aopen", "awrite", "aindex", "apublish"} : lpc' = [lpc EXCEPT ![l] = pc]
      BY <2>7
    <3>2. lpc'[l] = pc /\ \A k \in Loads \ {l} : lpc'[k] = lpc[k]
      BY <3>1 DEF WellFormed, TypeOK
    <3> QED  BY <2>7, <3>2 DEF Locking, OneApplier
  <2>8. CASE LoadReturn(l)
    BY <2>8 DEF WellFormed, TypeOK, Locking, OneApplier, LoadReturn
  <2>9. CASE ApplyRead(l)
    BY <2>9, <2>6, <2>7 DEF ApplyRead
  <2>10. CASE ApplyOpen(l) \/ ApplyWrite(l)
    BY <2>10, <2>7 DEF ApplyOpen, ApplyWrite
  <2>11. CASE ApplyWriteFails(l) \/ ApplyPublish(l)
    BY <2>11, <2>6 DEF ApplyWriteFails, ApplyPublish
  <2>12. CASE ApplyReindex(l)
    BY <2>12, <2>6, <2>7 DEF ApplyReindex
  <2> QED  BY <1>4, <2>2, <2>3, <2>4, <2>5, <2>8, <2>9, <2>10, <2>11, <2>12 DEF LoadStep
<1>5. ASSUME NEW l \in Loads, NEW q \in Queries, LoadBegin(l, q) PROVE Locking'
  <2>1. OneApplier'
    BY <1>5 DEF WellFormed, TypeOK, Locking, OneApplier, LoadBegin
  <2> QED  BY <1>1, <1>5, <2>1 DEF LoadBegin, Locking
<1>6. CASE Reboot
  BY <1>6 DEF WellFormed, TypeOK, Locking, OneApplier, OneStorer, Reboot
<1>7. CASE Tick \/ UNCHANGED vars
  BY <1>1, <1>2, <1>7 DEF Tick, vars, Locking
<1>8. CASE Next
  <2>1. Quiet => UNCHANGED vars
    BY DEF Quiet
  <2> QED  BY <1>8, <2>1, <1>3, <1>4, <1>5, <1>6, <1>7 DEF Next, Internal
<1> QED  BY <1>7, <1>8

(* One StoreEvent at a time is between its read and its index update, for  *)
(* any number of webhook requests.                                         *)
THEOREM StorersTakeTurns == Spec => []OneStorer
<1>1. Locking => OneStorer
  BY DEF Locking
<1> QED
  BY <1>1, InitWellFormed, StepWellFormed, InitLocking, StepLocking, PTL DEF Spec

(* One applier at a time is among the files, for any number of GetAlerts   *)
(* requests, and a per-file mutex is only ever held by the owner of the    *)
(* pending mutex.                                                          *)
THEOREM AppliersTakeTurns == Spec => []OneApplier
<1>1. Locking => OneApplier
  BY DEF Locking
<1> QED
  BY <1>1, InitWellFormed, StepWellFormed, InitLocking, StepLocking, PTL DEF Spec

(* The two together, for any number of requests: the mutexes hold.         *)
THEOREM TurnsAreTaken == Spec => []MutexesHold
<1>1. Locking => MutexesHold
  BY DEF Locking, MutexesHold
<1> QED
  BY <1>1, InitWellFormed, StepWellFormed, InitLocking, StepLocking, PTL DEF Spec

-----------------------------------------------------------------------------
(* Processed flags.                                                        *)

(* Alerts some GetAlerts request has put in its answer.                    *)
Seen == {e \in Events : \E l \in Loads : e \in got[l]}

FlagsSeen(c) == \A i \in DOMAIN c : c[i].processed => c[i].id \in Seen

(* The inductive form of ProcessedWasRead: a flag, a mark that may become  *)
(* one, and a document about to be written only name alerts already seen.  *)
FlagInv ==
    /\ \A f \in Files : FlagsSeen(disk[f].evs)
    /\ \A r \in Requests : FlagsSeen(buf[r])
    /\ \A f \in Files : pending[f] \subseteq Seen

(* Documents without flags satisfy FlagsSeen.                              *)
LEMMA InitFlagInv == Init => FlagInv
<1> SUFFICES ASSUME Init PROVE FlagInv
  OBVIOUS
<1>1. FlagsSeen(<<>>)
  BY EmptySeq DEF FlagsSeen
<1> QED  BY <1>1 DEF Init, FlagInv, Json, Absent

(* Once seen, always seen: no step takes an alert out of a collected       *)
(* answer.                                                                 *)
LEMMA SeenGrows == WellFormed /\ [Next]_vars => Seen \subseteq Seen'
<1> SUFFICES ASSUME WellFormed, [Next]_vars PROVE Seen \subseteq Seen'
  OBVIOUS
<1> USE DEF memory, storeVars, loadVars, world
<1>1. ASSUME NEW l \in Loads, LoadScan(l) PROVE \A k \in Loads : got[k] \subseteq got'[k]
  <2>1. got' = got \/ \E e : got' = [got EXCEPT ![l] = @ \union {e}]
    BY <1>1 DEF LoadScan
  <2> QED  BY <2>1 DEF WellFormed, TypeOK
<1>2. UNCHANGED got => Seen \subseteq Seen'
  BY DEF Seen
<1>3. (\A k \in Loads : got[k] \subseteq got'[k]) => Seen \subseteq Seen'
  BY DEF Seen
<1>4. (\E l \in Loads : LoadScan(l)) \/ UNCHANGED got
  BY DEF Next, Internal, StoreStep, LoadStep, StoreBegin, StoreLock, StoreRead, StoreOpen,
         StoreWrite, StoreWriteFails, StoreIndex, LoadBegin, LoadRead, ApplyLock, ApplyPick,
         ApplyRead, ApplyOpen, ApplyWrite, ApplyWriteFails, ApplyReindex, ApplyPublish,
         LoadReturn, Reboot, Tick, Quiet, vars
<1> QED  BY <1>1, <1>2, <1>3, <1>4

(* A document without new flags, or with the pending marks applied, still  *)
(* only flags alerts that have been seen.                                  *)
LEMMA FlagsSeenMarked ==
    ASSUME NEW c \in Seq(Entry), FlagsSeen(c), NEW S \in SUBSET Seen
    PROVE  FlagsSeen(Marked(c, S))
<1> DEFINE d == Marked(c, S)
<1>1. DOMAIN d = DOMAIN c
  BY MarkedType
<1>2. \A i \in DOMAIN c : d[i].id = c[i].id /\ d[i].processed = (c[i].processed \/ c[i].id \in S)
  BY MarkedType
<1> HIDE DEF d
<1>3. \A i \in DOMAIN d : d[i].processed => d[i].id \in Seen
  BY <1>1, <1>2 DEF FlagsSeen
<1> QED  BY <1>3 DEF FlagsSeen, d

(* Inserting or replacing an alert that comes without a flag adds none.    *)
LEMMA FlagsSeenWithAlert ==
    ASSUME NEW c \in Seq(Entry), FlagsSeen(c), NEW e \in Events
    PROVE  FlagsSeen(WithAlert(c, e))
<1> DEFINE d == WithAlert(c, e)
<1>1. DOMAIN d = 1..(Len(c) + 1) /\ DOMAIN c = 1..Len(c) /\ Len(c) \in Nat
  <2>1. DOMAIN d = 1..(Len(c) + 1)
    BY WithAlertType
  <2> HIDE DEF d
  <2> QED  BY <2>1, LenProperties
<1>2. d[Len(c) + 1] = [id |-> e, processed |-> FALSE] /\ \A i \in DOMAIN c : d[i] = c[i]
  BY WithAlertType
<1> HIDE DEF d
<1>3. \A i \in DOMAIN d : i \in DOMAIN c \/ i = Len(c) + 1
  BY <1>1
<1>4. \A i \in DOMAIN d : d[i].processed => d[i].id \in Seen
  BY <1>2, <1>3 DEF FlagsSeen
<1> QED  BY <1>4 DEF FlagsSeen, d

(* Every step preserves FlagInv.                                           *)
LEMMA StepFlagInv == WellFormed /\ FlagInv /\ [Next]_vars => FlagInv'
<1> SUFFICES ASSUME WellFormed, FlagInv, [Next]_vars PROVE FlagInv'
  OBVIOUS
<1> USE DEF memory, storeVars, loadVars, world, Requests
<1>1. Seen \subseteq Seen'
  BY SeenGrows
(* It is enough that the new documents and marks are clean now.            *)
<1>2. ASSUME /\ \A f \in Files : FlagsSeen(disk'[f].evs)
             /\ \A r \in Requests : FlagsSeen(buf'[r])
             /\ \A f \in Files : pending'[f] \subseteq Seen'
      PROVE  FlagInv'
  BY <1>1, <1>2 DEF FlagInv, FlagsSeen
<1>3. FlagsSeen(<<>>)
  BY EmptySeq DEF FlagsSeen
<1>4. \A f \in Files : pending[f] \subseteq Seen'
  BY <1>1 DEF FlagInv
<1>5. \A f \in Files : disk[f].evs \in Seq(Entry)
  BY DEF WellFormed, TypeOK, File
<1>6. ASSUME NEW f \in Files, NEW c \in Seq(Entry), FlagsSeen(c)
      PROVE  FlagsSeen(Overwrite(disk[f], c).evs)
  BY <1>3, <1>6 DEF Overwrite, Json
<1>7. CASE UNCHANGED <<disk, buf, pending>>
  BY <1>2, <1>4, <1>7 DEF FlagInv
<1>8. ASSUME NEW e \in Events, StoreRead(e) PROVE FlagInv'
  <2>1. FlagsSeen(WithAlert(disk[currentFile].evs, e))
    BY <1>5, FlagsSeenWithAlert DEF WellFormed, TypeOK, FlagInv
  <2>2. \A r \in Requests : FlagsSeen(buf'[r])
    BY <1>3, <1>8, <2>1 DEF WellFormed, TypeOK, FlagInv, StoreRead, StoreFail
  <2> QED  BY <1>2, <1>4, <1>8, <2>2 DEF FlagInv, StoreRead
<1>9. ASSUME NEW e \in Events, StoreOpen(e) PROVE FlagInv'
  BY <1>2, <1>3, <1>4, <1>9 DEF WellFormed, TypeOK, FlagInv, StoreOpen, Emptied, Absent
<1>10. ASSUME NEW e \in Events, StoreWrite(e) PROVE FlagInv'
  <2>1. FlagsSeen(Overwrite(disk[currentFile], buf[e]).evs)
    BY <1>6 DEF WellFormed, TypeOK, FlagInv
  <2> QED  BY <1>2, <1>4, <1>10, <2>1 DEF WellFormed, TypeOK, FlagInv, StoreWrite
<1>11. ASSUME NEW e \in Events, StoreWriteFails(e) \/ StoreIndex(e) PROVE FlagInv'
  BY <1>2, <1>3, <1>4, <1>11 DEF WellFormed, TypeOK, FlagInv, StoreWriteFails, StoreFail, StoreIndex
<1>12. ASSUME NEW l \in Loads, LoadScan(l) PROVE FlagInv'
  <2>1. CASE UNCHANGED <<pending, got>>
    BY <1>7, <1>12, <2>1 DEF LoadScan
  <2>2. CASE /\ pending' = [pending EXCEPT ![at[l]] = @ \union {Head(scan[l]).id}]
             /\ got' = [got EXCEPT ![l] = @ \union {Head(scan[l]).id}]
    <3>1. Head(scan[l]) \in Entry
      BY <1>12, HeadTailProperties DEF WellFormed, TypeOK, LoadScan
    <3>2. Head(scan[l]).id \in Seen'
      BY <2>2, <3>1 DEF Seen, Entry, WellFormed, TypeOK
    <3>3. \A f \in Files : pending'[f] \subseteq Seen'
      BY <1>4, <2>2, <3>2 DEF WellFormed, TypeOK
    <3> QED  BY <1>2, <1>12, <3>3 DEF FlagInv, LoadScan
  <2> QED  BY <1>12, <2>1, <2>2 DEF LoadScan
<1>13. ASSUME NEW l \in Loads, ApplyNextFile(l), UNCHANGED <<disk, got>> PROVE FlagInv'
  BY <1>2, <1>3, <1>4, <1>13 DEF WellFormed, TypeOK, FlagInv, ApplyNextFile
<1>14. ASSUME NEW l \in Loads, ApplyRead(l) PROVE FlagInv'
  <2>1. CASE ApplyNextFile(l)
    BY <1>13, <1>14, <2>1 DEF ApplyRead
  <2>2. CASE /\ buf' = [buf EXCEPT ![l] = Marked(disk[at[l]].evs, pending[at[l]])]
             /\ UNCHANGED pending
    <3>1. at[l] \in Files
      BY <1>14 DEF WellFormed, AtFile, ApplyRead
    <3>2. FlagsSeen(Marked(disk[at[l]].evs, pending[at[l]]))
      BY <1>5, <3>1, FlagsSeenMarked DEF FlagInv
    <3> QED  BY <1>2, <1>4, <1>14, <2>2, <3>2 DEF WellFormed, TypeOK, FlagInv, ApplyRead
  <2> QED  BY <1>14, <2>1, <2>2 DEF ApplyRead
<1>15. ASSUME NEW l \in Loads, ApplyOpen(l) PROVE FlagInv'
  BY <1>2, <1>3, <1>4, <1>15 DEF WellFormed, TypeOK, FlagInv, ApplyOpen, Emptied, Absent
<1>16. ASSUME NEW l \in Loads, ApplyWrite(l) PROVE FlagInv'
  <2>1. at[l] \in Files
    BY <1>16 DEF WellFormed, AtFile, ApplyWrite
  <2>2. FlagsSeen(Overwrite(disk[at[l]], buf[l]).evs)
    BY <1>6, <2>1 DEF WellFormed, TypeOK, FlagInv
  <2> QED  BY <1>2, <1>4, <1>16, <2>2 DEF WellFormed, TypeOK, FlagInv, ApplyWrite
<1>17. ASSUME NEW l \in Loads, ApplyWriteFails(l) \/ ApplyPublish(l) PROVE FlagInv'
  BY <1>13, <1>17 DEF ApplyWriteFails, ApplyPublish
<1>18. ASSUME NEW l \in Loads, ApplyReindex(l) PROVE FlagInv'
  BY <1>7, <1>13, <1>18 DEF ApplyReindex
<1>19. CASE Reboot
  BY <1>2, <1>3, <1>19 DEF WellFormed, TypeOK, FlagInv, Reboot, Json
<1>20. ASSUME NEW e \in Events, StoreBegin(e) \/ StoreLock(e) PROVE FlagInv'
  BY <1>7, <1>20 DEF StoreBegin, StoreLock
<1>21. ASSUME NEW l \in Loads, NEW q \in Queries, LoadBegin(l, q) PROVE FlagInv'
  BY <1>7, <1>21 DEF LoadBegin
<1>22. ASSUME NEW l \in Loads, NEW f \in Files, LoadRead(l, f) \/ ApplyPick(l, f) PROVE FlagInv'
  BY <1>7, <1>22 DEF LoadRead, ApplyPick
<1>23. ASSUME NEW l \in Loads, ApplyLock(l) \/ LoadReturn(l) PROVE FlagInv'
  BY <1>7, <1>23 DEF ApplyLock, LoadReturn
<1>24. CASE Tick \/ Quiet \/ UNCHANGED vars
  BY <1>7, <1>24 DEF Tick, Quiet, vars
<1> QED
  BY <1>8, <1>9, <1>10, <1>11, <1>12, <1>14, <1>15, <1>16, <1>17, <1>18, <1>19, <1>20,
     <1>21, <1>22, <1>23, <1>24
     DEF Next, Internal, StoreStep, LoadStep

(* No alert is flagged processed on disk unless some GetAlerts request put *)
(* it in its answer: across lost updates, failed writes and restarts.      *)
THEOREM FlagsWereRead == Spec => []ProcessedWasRead
<1>1. WellFormed /\ FlagInv => ProcessedWasRead
  BY DEF FlagInv, FlagsSeen, Seen, ProcessedWasRead
<1> QED
  BY <1>1, InitWellFormed, StepWellFormed, InitFlagInv, StepFlagInv, PTL DEF Spec

-----------------------------------------------------------------------------
(* No acknowledged alert is lost without an overlap.                       *)

(* The alerts f answers for: those whose path it is, and the one that has  *)
(* been written and waits for its index.                                   *)
Needed(f) ==
    {e \in Events : (spc[e] = "stored" /\ home[e] = f) \/ (spc[e] = "index" /\ currentFile = f)}

(* A file that has seen no overlap has one read-modify-write at most; what *)
(* is on disk, if readable, and what is about to be written have all the   *)
(* alerts the file answers for; a writer finds the file as it truncated    *)
(* it, so nothing of a longer document shows behind its own; and the file  *)
(* of the first process is readable but for a writer or a failed write.    *)
FileOK(f) ==
    /\ ~(StorerInside(f) /\ ApplierInside(f))
    /\ disk[f].ok => Needed(f) \subseteq Ids(disk[f].evs)
    /\ \A e \in Events : spc[e] \in {"open", "write"} /\ currentFile = f =>
          /\ Needed(f) \subseteq Ids(buf[e]) /\ e \in Ids(buf[e])
          /\ spc[e] = "write" => disk[f] = Emptied
    /\ \A l \in Loads : lpc[l] \in {"aopen", "awrite"} /\ at[l] = f =>
          /\ Needed(f) \subseteq Ids(buf[l])
          /\ lpc[l] = "awrite" => disk[f] = Emptied
    /\ f = 1 /\ currentFile = 1 /\ faults = 0 /\ ~disk[f].ok =>
          \/ \E e \in Events : spc[e] = "write"
          \/ \E l \in Loads : lpc[l] = "awrite" /\ at[l] = f

HomesOK == \A e \in Events : spc[e] = "stored" => home[e] \in Files /\ home[e] <= currentFile

KeptInv == HomesOK /\ \A f \in Files \ overlapped : FileOK(f)

(* The ids of the two documents a read-modify-write prepares.              *)
LEMMA IdsPrepared ==
    ASSUME NEW c \in Seq(Entry)
    PROVE  /\ \A e \in Events : Ids(WithAlert(c, e)) = Ids(c) \union {e}
           /\ \A S : Ids(Marked(c, S)) = Ids(c)
<1>1. ASSUME NEW e \in Events PROVE Ids(WithAlert(c, e)) = Ids(c) \union {e}
  <2> DEFINE d == WithAlert(c, e)
  <2>1. /\ DOMAIN d = DOMAIN c \union {Len(c) + 1}
        /\ d[Len(c) + 1].id = e /\ \A i \in DOMAIN c : d[i] = c[i]
    <3>1. /\ DOMAIN d = 1..(Len(c) + 1) /\ d[Len(c) + 1].id = e
          /\ \A i \in DOMAIN c : d[i] = c[i]
      <4>1. /\ DOMAIN d = 1..(Len(c) + 1) /\ d[Len(c) + 1] = [id |-> e, processed |-> FALSE]
            /\ \A i \in DOMAIN c : d[i] = c[i]
        BY WithAlertType, Zenon
      <4> HIDE DEF d
      <4> QED  BY <4>1
    <3>2. DOMAIN c = 1..Len(c) /\ Len(c) \in Nat
      BY LenProperties
    <3> HIDE DEF d
    <3>3. 1..(Len(c) + 1) = DOMAIN c \union {Len(c) + 1}
      BY <3>2
    <3> QED  BY <3>1, <3>3
  <2> HIDE DEF d
  <2> QED  BY <2>1 DEF Ids, d
<1>2. ASSUME NEW S PROVE Ids(Marked(c, S)) = Ids(c)
  <2> DEFINE d == Marked(c, S)
  <2>1. DOMAIN d = DOMAIN c /\ \A i \in DOMAIN c : d[i].id = c[i].id
    BY MarkedType
  <2> HIDE DEF d
  <2> QED  BY <2>1 DEF Ids, d
<1> QED  BY <1>1, <1>2

(* Over a truncated file a write leaves its own document.                  *)
LEMMA WriteEmptied ==
    ASSUME NEW c \in Seq(Entry)
    PROVE  Overwrite(Emptied, c) = Json(c) /\ Json(c).ok /\ Json(c).evs = c /\ ~Emptied.ok
<1>1. Size(c) \in Nat
  BY SizeType
<1> QED  BY <1>1 DEF Overwrite, Emptied, Absent, Json

(* No alert is home anywhere at the start.                                 *)
LEMMA InitKept == Init => KeptInv
<1> SUFFICES ASSUME Init PROVE KeptInv
  OBVIOUS
<1>1. \A f \in Files : disk[f] = IF f = 1 THEN Json(<<>>) ELSE Absent
  BY DEF Init
<1>2. /\ \A e \in Events : spc[e] = "new"
      /\ \A l \in Loads : lpc[l] = "new"
  BY DEF Init
<1>3. \A f : Needed(f) = {}
  BY <1>2 DEF Needed
<1>4. \A f \in Files : FileOK(f)
  BY <1>1, <1>2, <1>3 DEF FileOK, StorerInside, Json
<1> QED  BY <1>2, <1>4 DEF KeptInv, HomesOK

-----------------------------------------------------------------------------
(* What a step of a storer leaves alone.                                   *)
LEMMA StorerView ==
    ASSUME WellFormed, NEW e \in Events, StoreBegin(e) \/ StoreStep(e)
    PROVE  /\ UNCHANGED <<currentFile, lpc, at>>
           /\ \A d \in Events \ {e} : spc'[d] = spc[d] /\ home'[d] = home[d]
           /\ \A r \in Requests \ {e} : buf'[r] = buf[r]
           /\ \A g \in Files \ {currentFile} : disk'[g] = disk[g]
           /\ overlapped \subseteq overlapped'
<1> USE DEF memory, storeVars, loadVars, world, WellFormed, TypeOK
<1>1. CASE StoreBegin(e) \/ StoreLock(e)
  BY <1>1 DEF StoreBegin, StoreLock
<1>2. CASE StoreRead(e)
  BY <1>2 DEF StoreRead, StoreFail
<1>3. CASE StoreOpen(e) \/ StoreWrite(e)
  BY <1>3 DEF StoreOpen, StoreWrite
<1>4. CASE StoreWriteFails(e) \/ StoreIndex(e)
  BY <1>4 DEF StoreWriteFails, StoreFail, StoreIndex
<1> QED  BY <1>1, <1>2, <1>3, <1>4 DEF StoreStep

(* The files the storer is not working on do not notice.                   *)
LEMMA StorerElsewhere ==
    ASSUME WellFormed, NEW e \in Events, StoreBegin(e) \/ StoreStep(e),
           NEW f \in Files, f # currentFile, FileOK(f)
    PROVE  FileOK(f)'
<1>1. /\ UNCHANGED <<currentFile, lpc, at>> /\ disk'[f] = disk[f]
      /\ \A l \in Loads : buf'[l] = buf[l]
      /\ \A d \in Events \ {e} : spc'[d] = spc[d] /\ home'[d] = home[d]
  BY StorerView, ConstantsAssumption DEF Requests
<1>2. spc[e] # "stored" /\ (spc'[e] = "stored" => home'[e] = currentFile)
  BY DEF WellFormed, TypeOK, StoreBegin, StoreStep, StoreLock, StoreRead, StoreFail, StoreOpen,
         StoreWrite, StoreWriteFails, StoreIndex
<1>3. Needed(f)' = Needed(f)
  BY <1>1, <1>2 DEF Needed
<1>4. ~StorerInside(f)' /\ (ApplierInside(f)' <=> ApplierInside(f))
  BY <1>1 DEF StorerInside, ApplierInside
<1> QED  BY <1>1, <1>3, <1>4 DEF FileOK

(* What a step of a GetAlerts request leaves alone.                        *)
LEMMA LoaderView ==
    ASSUME WellFormed, NEW l \in Loads,
           LoadStep(l) \/ \E q \in Queries : LoadBegin(l, q)
    PROVE  /\ UNCHANGED <<currentFile, spc, home>>
           /\ \A k \in Loads \ {l} : lpc'[k] = lpc[k] /\ at'[k] = at[k]
           /\ \A r \in Requests \ {l} : buf'[r] = buf[r]
           /\ \A g \in Files \ {at[l]} : disk'[g] = disk[g]
           /\ overlapped \subseteq overlapped'
<1> USE DEF memory, storeVars, loadVars, world, WellFormed, TypeOK
<1>1. CASE \E q \in Queries : LoadBegin(l, q)
  BY <1>1 DEF LoadBegin
<1>2. CASE (\E f \in Files : LoadRead(l, f) \/ ApplyPick(l, f)) \/ LoadScan(l) \/ ApplyLock(l)
           \/ LoadReturn(l)
  BY <1>2 DEF LoadRead, ApplyPick, LoadScan, ApplyLock, LoadReturn
<1>3. CASE ApplyRead(l)
  BY <1>3 DEF ApplyRead, ApplyNextFile
<1>4. CASE ApplyOpen(l) \/ ApplyWrite(l)
  BY <1>4 DEF ApplyOpen, ApplyWrite
<1>5. CASE ApplyWriteFails(l) \/ ApplyReindex(l) \/ ApplyPublish(l)
  BY <1>5 DEF ApplyWriteFails, ApplyReindex, ApplyPublish, ApplyNextFile
<1> QED  BY <1>1, <1>2, <1>3, <1>4, <1>5 DEF LoadStep

(* Steps of a storer on the current file.                                  *)
LEMMA StorerHere ==
    ASSUME WellFormed, Locking, NEW e \in Events, StoreBegin(e) \/ StoreStep(e),
           currentFile \notin overlapped', FileOK(currentFile)
    PROVE  FileOK(currentFile)'
<1> USE DEF memory, storeVars, loadVars, world
<1> DEFINE f == currentFile
           Rest == /\ UNCHANGED <<lpc, at, home>>
                   /\ \A l \in Loads : buf'[l] = buf[l]
                   /\ \A d \in Events \ {e} : spc'[d] = spc[d] /\ buf'[d] = buf[d]
<1>1. /\ f \in Files /\ UNCHANGED <<currentFile, lpc, at>>
      /\ \A l \in Loads : buf'[l] = buf[l]
      /\ \A d \in Events \ {e} : spc'[d] = spc[d] /\ home'[d] = home[d] /\ buf'[d] = buf[d]
  BY StorerView, ConstantsAssumption DEF WellFormed, TypeOK, Requests
<1>2. \A d \in Events \ {e} : spc[e] \in StoreRunning \ {"wait"} => spc[d] \notin {"open", "write", "index"}
  BY DEF Locking, OneStorer, StoreRunning
<1>3. ApplierInside(f)' <=> ApplierInside(f)
  BY <1>1 DEF ApplierInside
<1>4. ASSUME spc'[e] \in {"wait", "read", "full", "failed"}, spc[e] \in {"new", "wait", "read"},
             UNCHANGED <<disk, faults, home>>
      PROVE  FileOK(f)'
  <2>1. Needed(f)' = Needed(f)
    BY <1>1, <1>4 DEF Needed
  <2>2. ~(StorerInside(f)' /\ ApplierInside(f)')
    BY <1>1, <1>3, <1>4 DEF FileOK, StorerInside
  <2> QED  BY <1>1, <1>4, <2>1, <2>2 DEF FileOK
<1>5. CASE StoreBegin(e) \/ StoreLock(e)
  BY <1>4, <1>5 DEF StoreBegin, StoreLock, WellFormed, TypeOK
<1>6. CASE StoreRead(e)
  <2>1. CASE spc'[e] \in {"full", "failed"}
    BY <1>4, <1>6, <2>1 DEF StoreRead, WellFormed, TypeOK
  <2>2. CASE spc'[e] \notin {"full", "failed"}
    <3>1. /\ spc[e] = "read" /\ spc'[e] = "open" /\ UNCHANGED <<disk, faults, home>>
          /\ disk[f].ok /\ buf'[e] = WithAlert(disk[f].evs, e)
          /\ ~ApplierInside(f)
      BY <1>1, <1>6, <2>2 DEF StoreRead, StoreFail, WellFormed, TypeOK, Requests
    <3>2. Ids(buf'[e]) = Ids(disk[f].evs) \union {e}
      BY <1>1, <3>1, IdsPrepared DEF WellFormed, TypeOK, File
    <3>3. Needed(f)' = Needed(f)
      BY <1>1, <3>1 DEF Needed
    <3>4. Needed(f) \subseteq Ids(disk[f].evs)
      BY <3>1 DEF FileOK
    <3>5. \A d \in Events : spc'[d] \in {"open", "write"} => d = e
      BY <1>1, <1>2, <3>1 DEF StoreRunning
    <3> QED  BY <1>1, <1>3, <3>1, <3>2, <3>3, <3>4, <3>5 DEF FileOK
  <2> QED  BY <2>1, <2>2
<1>7. ASSUME spc[e] \in {"open", "write", "index"}
      PROVE  /\ ~ApplierInside(f) /\ ~ApplierInside(f)'
             /\ \A l \in Loads : ~(lpc[l] \in {"aopen", "awrite"} /\ at[l] = f)
             /\ \A d \in Events \ {e} : spc'[d] \notin {"open", "write", "index"}
  BY <1>1, <1>2, <1>3, <1>7 DEF FileOK, StorerInside, ApplierInside, StoreRunning
<1>8. CASE StoreOpen(e)
  <2>1. /\ spc[e] = "open" /\ spc'[e] = "write" /\ disk'[f] = Emptied /\ UNCHANGED <<faults, home>>
        /\ buf'[e] = buf[e]
    BY <1>8 DEF StoreOpen, WellFormed, TypeOK
  <2>2. Needed(f)' = Needed(f) /\ ~Emptied.ok
    BY <1>1, <2>1 DEF Needed, Emptied, Absent
  <2>3. Needed(f) \subseteq Ids(buf[e]) /\ e \in Ids(buf[e])
    BY <2>1 DEF FileOK
  <2> QED  BY <1>1, <1>7, <2>1, <2>2, <2>3 DEF FileOK
<1>9. CASE StoreWrite(e)
  <2>1. /\ spc[e] = "write" /\ spc'[e] = "index" /\ disk'[f] = Overwrite(disk[f], buf[e])
        /\ UNCHANGED <<faults, home>> /\ buf[e] \in Seq(Entry)
    BY <1>9 DEF StoreWrite, WellFormed, TypeOK, Requests
  <2>2. /\ Needed(f) \subseteq Ids(buf[e]) /\ e \in Ids(buf[e]) /\ disk[f] = Emptied
    BY <2>1 DEF FileOK
  <2>3. disk'[f].ok /\ disk'[f].evs = buf[e]
    BY <2>1, <2>2, WriteEmptied
  <2>4. Needed(f)' = Needed(f) \union {e}
    BY <1>1, <2>1 DEF Needed
  <2> QED  BY <1>1, <1>7, <2>1, <2>2, <2>3, <2>4 DEF FileOK
<1>10. CASE StoreWriteFails(e)
  <2>1. /\ spc[e] \in {"open", "write"} /\ spc'[e] = "failed" /\ UNCHANGED <<disk, home>>
        /\ faults' = faults + 1 /\ faults \in Nat
    BY <1>10, ConstantsAssumption DEF StoreWriteFails, StoreFail, WellFormed, TypeOK
  <2>2. Needed(f)' = Needed(f) /\ faults' # 0
    BY <1>1, <2>1 DEF Needed
  <2> QED  BY <1>1, <1>7, <2>1, <2>2 DEF FileOK
<1>11. CASE StoreIndex(e)
  <2>1. /\ spc[e] = "index" /\ spc'[e] = "stored" /\ UNCHANGED <<disk, faults>> /\ home'[e] = f
    BY <1>11 DEF StoreIndex, WellFormed, TypeOK
  <2>2. Needed(f)' = Needed(f)
    BY <1>1, <2>1 DEF Needed
  <2> QED  BY <1>1, <1>7, <2>1, <2>2 DEF FileOK
<1> QED  BY <1>5, <1>6, <1>8, <1>9, <1>10, <1>11 DEF StoreStep

(* A GetAlerts request at file g: what a step of it means for any file.    *)
LEMMA LoaderFile ==
    ASSUME WellFormed, Locking, NEW l \in Loads,
           LoadStep(l) \/ (\E q \in Queries : LoadBegin(l, q)),
           NEW f \in Files, f \notin overlapped', FileOK(f)
    PROVE  FileOK(f)'
<1> USE DEF memory, storeVars, loadVars, world
<1> DEFINE Inside == {"aopen", "awrite", "aindex", "apublish"}
<1>1. /\ UNCHANGED <<currentFile, spc, home>>
      /\ \A k \in Loads \ {l} : lpc'[k] = lpc[k] /\ at'[k] = at[k] /\ buf'[k] = buf[k]
      /\ \A d \in Events : buf'[d] = buf[d]
      /\ at[l] # f => disk'[f] = disk[f]
  BY LoaderView, ConstantsAssumption DEF Requests
<1>2. Needed(f)' = Needed(f) /\ (StorerInside(f)' <=> StorerInside(f))
  BY <1>1 DEF Needed, StorerInside
<1>3. \A k \in Loads \ {l} : lpc[l] \in LoadRunning \ {"load"} => lpc[k] \notin Inside
  BY DEF Locking, OneApplier, LoadRunning
<1>4. ASSUME UNCHANGED <<disk, faults>>, lpc[l] # "awrite",
             lpc'[l] \notin {"aopen", "awrite"},
             lpc'[l] \in Inside => lpc[l] \in Inside /\ at'[l] = at[l]
      PROVE  FileOK(f)'
  <2>1. ApplierInside(f)' => ApplierInside(f)
    BY <1>1, <1>4 DEF ApplierInside
  <2> QED  BY <1>1, <1>2, <1>4, <2>1 DEF FileOK
<1>5. CASE (\E q \in Queries : LoadBegin(l, q)) \/ (\E g \in Files : LoadRead(l, g) \/ ApplyPick(l, g))
           \/ LoadScan(l) \/ ApplyLock(l) \/ LoadReturn(l)
  <2>1. /\ UNCHANGED <<disk, faults>> /\ lpc[l] # "awrite" /\ lpc'[l] \notin Inside
    BY <1>5 DEF LoadBegin, LoadRead, ApplyPick, LoadScan, ApplyLock, LoadReturn, WellFormed, TypeOK
  <2> QED  BY <1>4, <2>1
<1>6. CASE ApplyReindex(l) \/ ApplyPublish(l)
  <2>1. /\ UNCHANGED <<disk, faults>> /\ lpc[l] \in {"aindex", "apublish"}
        /\ (lpc'[l] = "apply" \/ (lpc'[l] = "apublish" /\ at'[l] = at[l]))
    BY <1>6 DEF ApplyReindex, ApplyPublish, ApplyNextFile, WellFormed, TypeOK
  <2> QED  BY <1>4, <2>1
<1>7. CASE ApplyRead(l)
  <2>1. UNCHANGED <<disk, faults>> /\ lpc[l] = "aread" /\ at[l] \in Files
    BY <1>7 DEF ApplyRead, WellFormed, AtFile
  <2>2. CASE ApplyNextFile(l)
    <3>1. lpc'[l] = "apply"
      BY <2>2 DEF ApplyNextFile, WellFormed, TypeOK
    <3> QED  BY <1>4, <2>1, <3>1
  <2>3. CASE ~ApplyNextFile(l)
    <3>1. /\ disk[at[l]].ok /\ buf'[l] = Marked(disk[at[l]].evs, pending[at[l]])
          /\ lpc'[l] = "aopen" /\ UNCHANGED at
          /\ overlapped' = IF StorerInside(at[l]) THEN overlapped \union {at[l]} ELSE overlapped
      BY <1>7, <2>3 DEF ApplyRead, WellFormed, TypeOK, Requests
    <3>2. CASE at[l] = f
      <4>1. ~StorerInside(f)
        BY <3>1, <3>2
      <4>2. Ids(buf'[l]) = Ids(disk[f].evs)
        BY <3>1, <3>2, IdsPrepared DEF WellFormed, TypeOK, File
      <4>3. Needed(f) \subseteq Ids(disk[f].evs)
        BY <3>1, <3>2 DEF FileOK
      <4> QED  BY <1>1, <1>2, <2>1, <3>1, <4>1, <4>2, <4>3 DEF FileOK
    <3>3. CASE at[l] # f
      <4>1. ApplierInside(f)' => ApplierInside(f)
        BY <1>1, <3>1, <3>3 DEF ApplierInside
      <4> QED  BY <1>1, <1>2, <2>1, <3>1, <3>3, <4>1 DEF FileOK
    <3> QED  BY <3>2, <3>3
  <2> QED  BY <2>2, <2>3
<1>8. ASSUME lpc[l] \in Inside, lpc'[l] \in Inside \union {"apply"}, at[l] # f,
             at'[l] \in {at[l], NoFile}, faults <= faults', faults \in Nat, faults' \in Nat
      PROVE  FileOK(f)'
  <2>1. disk'[f] = disk[f] /\ at'[l] # f /\ (faults' = 0 => faults = 0)
    BY <1>1, <1>8 DEF Files, NoFile
  <2>2. ApplierInside(f)' => ApplierInside(f)
    BY <1>1, <2>1 DEF ApplierInside
  <2> QED  BY <1>1, <1>2, <1>8, <2>1, <2>2 DEF FileOK
<1>9. ASSUME lpc[l] \in Inside, at[l] = f
      PROVE  /\ ~StorerInside(f) /\ ~StorerInside(f)'
             /\ \A e \in Events : ~(spc[e] \in {"open", "write", "index"} /\ currentFile = f)
             /\ \A k \in Loads \ {l} : lpc'[k] \notin Inside
  <2>1. ApplierInside(f) /\ lpc[l] \in LoadRunning \ {"load"}
    BY <1>9 DEF ApplierInside, LoadRunning
  <2>2. ~StorerInside(f)
    BY <2>1 DEF FileOK
  <2> QED  BY <1>1, <1>2, <1>3, <2>1, <2>2 DEF StorerInside
<1>10. CASE ApplyOpen(l)
  <2>1. /\ lpc[l] = "aopen" /\ lpc'[l] = "awrite" /\ UNCHANGED <<at, faults, buf>>
        /\ disk' = [disk EXCEPT ![at[l]] = Emptied] /\ faults \in Nat
    BY <1>10, ConstantsAssumption DEF ApplyOpen, WellFormed, TypeOK
  <2>2. CASE at[l] = f
    <3>1. disk'[f] = Emptied /\ ~Emptied.ok /\ Needed(f) \subseteq Ids(buf[l])
      BY <2>1, <2>2 DEF WellFormed, TypeOK, FileOK, Emptied, Absent
    <3> QED  BY <1>1, <1>2, <1>9, <2>1, <2>2, <3>1 DEF FileOK
  <2> QED  BY <1>8, <2>1, <2>2
<1>11. CASE ApplyWrite(l)
  <2>1. /\ lpc[l] = "awrite" /\ lpc'[l] = "aindex" /\ UNCHANGED <<at, faults, buf>>
        /\ disk' = [disk EXCEPT ![at[l]] = Overwrite(@, buf[l])] /\ faults \in Nat
        /\ buf[l] \in Seq(Entry)
    BY <1>11, ConstantsAssumption DEF ApplyWrite, WellFormed, TypeOK, Requests
  <2>2. CASE at[l] = f
    <3>1. disk[f] = Emptied /\ Needed(f) \subseteq Ids(buf[l])
      BY <2>1, <2>2 DEF FileOK
    <3>2. disk'[f].ok /\ disk'[f].evs = buf[l]
      BY <2>1, <2>2, <3>1, WriteEmptied DEF WellFormed, TypeOK
    <3> QED  BY <1>1, <1>2, <1>9, <2>1, <2>2, <3>1, <3>2 DEF FileOK
  <2> QED  BY <1>8, <2>1, <2>2
<1>12. CASE ApplyWriteFails(l)
  <2>1. /\ lpc[l] \in {"aopen", "awrite"} /\ lpc'[l] = "apply" /\ at'[l] = NoFile
        /\ faults' = faults + 1 /\ faults \in Nat /\ UNCHANGED disk
    BY <1>12, ConstantsAssumption DEF ApplyWriteFails, ApplyNextFile, WellFormed, TypeOK
  <2>2. CASE at[l] = f
    <3>1. faults' # 0
      BY <2>1
    <3> QED  BY <1>1, <1>2, <1>9, <2>1, <2>2, <3>1 DEF FileOK
  <2>3. CASE at[l] # f
    <3>1. at'[l] \in {at[l], NoFile} /\ faults <= faults' /\ faults' \in Nat
      BY <2>1
    <3> QED  BY <1>8, <2>1, <2>3, <3>1
  <2> QED  BY <2>2, <2>3
<1> QED  BY <1>5, <1>6, <1>7, <1>10, <1>11, <1>12 DEF LoadStep

(* A restart: the files stay as the killed process left them, and the      *)
(* fresh one has no alert to answer for.                                   *)
LEMMA RebootKept ==
    ASSUME WellFormed, KeptInv, Reboot
    PROVE  KeptInv'
<1>1. /\ currentFile' = currentFile + 1 /\ currentFile' \in Files /\ currentFile \in Nat
      /\ overlapped' = overlapped /\ home' = home /\ currentFile' # 1
      /\ \A e \in Events : spc'[e] \notin StoreRunning /\ (spc'[e] = "stored" <=> spc[e] = "stored")
      /\ \A l \in Loads : lpc'[l] \notin LoadRunning
      /\ disk' = [disk EXCEPT ![currentFile + 1] = Json(<<>>)]
  BY DEF Reboot, WellFormed, TypeOK, Files, StoreRunning, LoadRunning, storeVars, world
<1>2. HomesOK'
  BY <1>1 DEF KeptInv, HomesOK, Files
<1>3. ASSUME NEW f \in Files \ overlapped PROVE FileOK(f)'
  <2>1. /\ \A e \in Events : spc'[e] \notin {"open", "write", "index"}
        /\ \A l \in Loads : lpc'[l] \notin {"aopen", "awrite", "aindex", "apublish"}
    BY <1>1 DEF StoreRunning, LoadRunning
  <2>2. ~StorerInside(f)'
    BY <2>1 DEF StorerInside
  <2>3. Needed(f)' \subseteq Needed(f)
    BY <1>1, <2>1 DEF Needed
  <2>4. CASE f = currentFile'
    <3>1. Needed(f)' = {}
      BY <1>1, <2>1, <2>4 DEF Needed, KeptInv, HomesOK
    <3> QED  BY <1>1, <2>1, <2>2, <3>1 DEF FileOK
  <2>5. CASE f # currentFile'
    <3>1. disk'[f] = disk[f]
      BY <1>1, <2>5 DEF WellFormed, TypeOK
    <3> QED  BY <1>1, <2>1, <2>2, <2>3, <3>1 DEF FileOK, KeptInv
  <2> QED  BY <2>4, <2>5
<1> QED  BY <1>1, <1>2, <1>3 DEF KeptInv

(* Every step keeps the files whole.                                       *)
LEMMA StepKept == WellFormed /\ Locking /\ KeptInv /\ [Next]_vars => KeptInv'
<1> SUFFICES ASSUME WellFormed, Locking, KeptInv, [Next]_vars PROVE KeptInv'
  OBVIOUS
<1>1. ASSUME NEW e \in Events, StoreBegin(e) \/ StoreStep(e) PROVE KeptInv'
  <2>1. overlapped \subseteq overlapped'
    BY <1>1, StorerView
  <2>2. HomesOK'
    <3>1. /\ currentFile' = currentFile /\ currentFile \in Files /\ currentFile <= currentFile
          /\ \A d \in Events \ {e} : spc'[d] = spc[d] /\ home'[d] = home[d]
      BY <1>1, StorerView DEF WellFormed, TypeOK, Files
    <3>2. spc'[e] = "stored" => home'[e] = currentFile
      BY <1>1 DEF WellFormed, TypeOK, StoreBegin, StoreStep, StoreLock, StoreRead, StoreFail,
         StoreOpen, StoreWrite, StoreWriteFails, StoreIndex
    <3> QED  BY <3>1, <3>2 DEF KeptInv, HomesOK
  <2>3. ASSUME NEW f \in Files \ overlapped' PROVE FileOK(f)'
    <3>1. FileOK(f)
      BY <2>1 DEF KeptInv
    <3>2. CASE f = currentFile
      <4>1. FileOK(currentFile)'
        BY <1>1, <3>1, <3>2, StorerHere
      <4>2. currentFile' = f
        BY <1>1, <3>2, StorerView
      <4> QED  BY <4>1, <4>2
    <3>3. CASE f # currentFile
      BY <1>1, <3>1, <3>3, StorerElsewhere
    <3> QED  BY <3>2, <3>3
  <2> QED  BY <2>2, <2>3 DEF KeptInv
<1>2. ASSUME NEW l \in Loads, LoadStep(l) \/ \E q \in Queries : LoadBegin(l, q) PROVE KeptInv'
  <2>1. UNCHANGED <<currentFile, spc, home>> /\ overlapped \subseteq overlapped'
    BY <1>2, LoaderView
  <2>2. HomesOK'
    BY <2>1 DEF KeptInv, HomesOK
  <2>3. ASSUME NEW f \in Files \ overlapped' PROVE FileOK(f)'
    BY <1>2, <2>1, LoaderFile DEF KeptInv
  <2> QED  BY <2>2, <2>3 DEF KeptInv
<1>3. CASE Tick \/ UNCHANGED vars
  <2>1. UNCHANGED <<disk, memory, storeVars, loadVars, buf, faults, overlapped>>
    BY <1>3 DEF Tick, vars, world
  <2> QED  BY <2>1 DEF KeptInv, HomesOK, FileOK, Needed, StorerInside, ApplierInside,
                       memory, storeVars, loadVars
<1>4. CASE Next
  <2>1. Quiet => UNCHANGED vars
    BY DEF Quiet
  <2> QED  BY <1>1, <1>2, <1>3, <1>4, <2>1, RebootKept DEF Next, Internal
<1> QED  BY <1>3, <1>4

(* A file that is neither ruined nor being written can be read.            *)
LEMMA Readable ==
    ASSUME WellFormed, KeptInv, NEW f \in Files \ overlapped, f <= currentFile,
           ~Ruined(f), Writing(f) = {}
    PROVE  disk[f].ok
<1> SUFFICES ASSUME ~disk[f].ok PROVE FALSE
  OBVIOUS
<1>1. ~(faults > 0) /\ ~(currentFile > 1)
  BY DEF Ruined
<1>2. faults = 0 /\ currentFile = 1 /\ f = 1
  BY <1>1, ConstantsAssumption DEF WellFormed, TypeOK, Files
<1>3. \/ \E d \in Events : spc[d] = "write"
      \/ \E l \in Loads : lpc[l] = "awrite" /\ at[l] = f
  BY <1>2 DEF KeptInv, FileOK
<1> QED  BY <1>2, <1>3 DEF Writing

(* The store's promise with its exceptions, for any number of requests,    *)
(* files, failed writes and restarts: an acknowledged alert stays in its   *)
(* file unless a write failed on the file, the process died while writing  *)
(* it, or a StoreEvent and an applier were in it at once.                  *)
THEOREM KeptWithoutOverlap == Spec => []KeptUnlessOverlapped
<1>1. WellFormed /\ KeptInv => KeptUnlessOverlapped
  <2> SUFFICES ASSUME WellFormed, KeptInv, NEW e \in Events, spc[e] = "stored",
                      home[e] \notin overlapped, ~Ruined(home[e]),
                      NEW c \in Settled(home[e])
               PROVE  e \in Ids(c)
    BY DEF KeptUnlessOverlapped
  <2> DEFINE f == home[e]
  <2>1. f \in Files /\ f <= currentFile /\ FileOK(f) /\ e \in Needed(f)
    BY DEF KeptInv, HomesOK, Needed
  <2>2. CASE Writing(f) = {}
    <3>1. c = disk[f].evs
      BY <2>2 DEF Settled
    <3>2. disk[f].ok
      BY <2>1, <2>2, Readable
    <3> QED  BY <2>1, <3>1, <3>2 DEF FileOK
  <2>3. CASE Writing(f) # {}
    <3>1. PICK r \in Writing(f) : c = buf[r]
      BY <2>3 DEF Settled
    <3>2. CASE r \in Events /\ spc[r] = "write" /\ currentFile = f
      BY <2>1, <3>1, <3>2 DEF FileOK
    <3>3. CASE r \in Loads /\ lpc[r] = "awrite" /\ at[r] = f
      BY <2>1, <3>1, <3>3 DEF FileOK
    <3> QED  BY <3>1, <3>2, <3>3 DEF Writing
  <2> QED  BY <2>2, <2>3
<1> QED
  BY <1>1, InitWellFormed, StepWellFormed, InitLocking, StepLocking, InitKept, StepKept, PTL DEF Spec

-----------------------------------------------------------------------------
(* The index without an overlap.                                           *)

(* idx admits every query that asks for a stored alert of c.               *)
Admits(f, idx, c) ==
    \A i \in DOMAIN c : spc[c[i].id] = "stored" /\ home[c[i].id] = f =>
        /\ idx # NoIndex
        /\ idx.min <= ts[c[i].id] /\ ts[c[i].id] <= idx.max
        /\ ~c[i].processed => ~idx.allProcessed

(* The published index admits what is on disk and what is about to be      *)
(* written, and the index about to be published what is on disk.           *)
IndexOK(f) ==
    /\ Admits(f, fileIndexes[f], disk[f].evs)
    /\ \A e \in Events : spc[e] \in {"open", "write"} /\ currentFile = f =>
          Admits(f, fileIndexes[f], buf[e])
    /\ \A l \in Loads : lpc[l] \in {"aopen", "awrite"} /\ at[l] = f =>
          Admits(f, fileIndexes[f], buf[l])
    /\ \A l \in Loads : lpc[l] = "apublish" /\ at[l] = f =>
          Admits(f, idxbuf[l], disk[f].evs)

IndexInv == \A f \in Files \ overlapped : IndexOK(f)

(* An entry of a document names an alert.                                  *)
LEMMA IdsAreEvents ==
    ASSUME NEW c \in Seq(Entry), NEW i \in DOMAIN c
    PROVE  c[i].id \in Events /\ c[i].processed \in BOOLEAN
<1>1. c[i] \in Entry
  OBVIOUS
<1> QED  BY <1>1 DEF Entry

(* An alert appended by one that is not stored needs nothing of the index; *)
(* flags only relieve it; and the index of a document admits all of it.    *)
LEMMA Admitted ==
    ASSUME WellFormed, NEW f \in Files, NEW c \in Seq(Entry), NEW idx
    PROVE  /\ \A e \in Events : Admits(f, idx, c) /\ spc[e] # "stored" =>
                  Admits(f, idx, WithAlert(c, e))
           /\ \A S : Admits(f, idx, c) => Admits(f, idx, Marked(c, S))
           /\ Admits(f, idx, <<>>)
           /\ c # <<>> => Admits(f, IndexOf(c), c)
<1>1. ASSUME NEW e \in Events, Admits(f, idx, c), spc[e] # "stored"
      PROVE  Admits(f, idx, WithAlert(c, e))
  <2> DEFINE d == WithAlert(c, e)
  <2>1. /\ DOMAIN d = 1..(Len(c) + 1) /\ d[Len(c) + 1] = [id |-> e, processed |-> FALSE]
        /\ \A i \in DOMAIN c : d[i] = c[i]
    BY WithAlertType, Zenon
  <2>2. DOMAIN c = 1..Len(c) /\ Len(c) \in Nat
    BY LenProperties
  <2> HIDE DEF d
  <2>3. \A i \in DOMAIN d : i \in DOMAIN c \/ i = Len(c) + 1
    BY <2>1, <2>2
  <2>4. d[Len(c) + 1].id = e
    BY <2>1
  <2>5. Admits(f, idx, d)
    BY <1>1, <2>1, <2>3, <2>4 DEF Admits
  <2> QED  BY <2>5 DEF d
<1>2. ASSUME NEW S, Admits(f, idx, c) PROVE Admits(f, idx, Marked(c, S))
  <2> DEFINE d == Marked(c, S)
  <2>1. DOMAIN d = DOMAIN c /\ \A i \in DOMAIN c : d[i].id = c[i].id /\ (c[i].processed => d[i].processed)
    <3>1. DOMAIN d = DOMAIN c
      BY MarkedType
    <3>2. \A i \in DOMAIN c : d[i].id = c[i].id /\ d[i].processed = (c[i].processed \/ c[i].id \in S)
      BY MarkedType
    <3> HIDE DEF d
    <3>3. \A i \in DOMAIN c : c[i].processed => d[i].processed
      BY <3>2, Zenon
    <3> QED  BY <3>1, <3>2, <3>3
  <2> HIDE DEF d
  <2>2. Admits(f, idx, d)
    BY <1>2, <2>1 DEF Admits
  <2> QED  BY <2>2 DEF d
<1>3. Admits(f, idx, <<>>)
  <2>1. DOMAIN <<>> = {}
    OBVIOUS
  <2> QED  BY <2>1 DEF Admits
<1>4. ASSUME c # <<>> PROVE Admits(f, IndexOf(c), c)
  <2> DEFINE times == {ts[e] : e \in Ids(c)}
  <2>1. times \subseteq 0..MaxTime /\ \A i \in DOMAIN c : ts[c[i].id] \in times
    BY IdsAreEvents DEF Ids, WellFormed, TypeOK
  <2>2. 1 \in DOMAIN c
    BY <1>4
  <2>3. times # {} /\ times \subseteq Nat
    BY <2>1, <2>2, ConstantsAssumption
  <2> HIDE DEF times
  <2>4. \A t \in times : Min(times) <= t /\ t <= Max(times)
    BY <2>1, <2>3, MinIsMember, MaxIsMember, ConstantsAssumption
  <2>5. /\ IndexOf(c).min = Min(times) /\ IndexOf(c).max = Max(times)
        /\ IndexOf(c).allProcessed = \A i \in DOMAIN c : c[i].processed
        /\ IndexOf(c) # NoIndex
    <3>1. IndexOf(c) \in Index
      BY <1>4, IndexOfType DEF WellFormed, TypeOK
    <3> QED  BY <3>1, QueriesAssumption DEF IndexOf, times
  <2> QED  BY <2>1, <2>4, <2>5 DEF Admits
<1> QED  BY <1>1, <1>2, <1>3, <1>4

(* An index that is extended with the time of an alert admits the alert,   *)
(* and what it admitted before.                                            *)
LEMMA AdmittedMore ==
    ASSUME WellFormed, NEW f \in Files, NEW idx \in Index \union {NoIndex}, NEW c \in Seq(Entry),
           Admits(f, idx, c), NEW e \in Events, NEW i \in DOMAIN c,
           c[i].id = e \/ (spc[c[i].id] = "stored" /\ home[c[i].id] = f)
    PROVE  LET new == IndexAdd(idx, ts[e])
           IN  /\ new # NoIndex /\ ~new.allProcessed
               /\ new.min <= ts[c[i].id] /\ ts[c[i].id] <= new.max
<1> DEFINE new == IndexAdd(idx, ts[e])
           t == ts[c[i].id]
<1>1. t \in Nat /\ ts[e] \in Nat /\ ts[e] \in 0..MaxTime
  BY IdsAreEvents, ConstantsAssumption DEF WellFormed, TypeOK
<1>2. new \in Index /\ new # NoIndex /\ new.allProcessed = FALSE
  BY <1>1, IndexAddType, QueriesAssumption DEF IndexAdd
<1>3. CASE idx = NoIndex
  <2>1. c[i].id = e
    BY <1>3 DEF Admits
  <2> QED  BY <1>1, <1>2, <1>3, <2>1 DEF IndexAdd
<1>4. CASE idx # NoIndex
  <2>1. idx.min \in Nat /\ idx.max \in Nat
    BY <1>4, ConstantsAssumption DEF Index
  <2>2. /\ new.min = IF ts[e] < idx.min THEN ts[e] ELSE idx.min
        /\ new.max = IF ts[e] > idx.max THEN ts[e] ELSE idx.max
    BY <1>4 DEF IndexAdd
  <2>3. t = ts[e] \/ (idx.min <= t /\ t <= idx.max)
    BY DEF Admits
  <2> HIDE DEF t, new
  <2> QED  BY <1>1, <1>2, <2>1, <2>2, <2>3 DEF t, new
<1> QED  BY <1>3, <1>4

(* No index and no alert at the start.                                     *)
LEMMA InitIndex == Init => IndexInv
<1> SUFFICES ASSUME Init PROVE IndexInv
  OBVIOUS
<1>1. /\ \A e \in Events : spc[e] = "new"
      /\ \A l \in Loads : lpc[l] = "new"
      /\ \A f \in Files : disk[f].evs = <<>>
  BY DEF Init, Json, Absent
<1>2. DOMAIN <<>> = {}
  OBVIOUS
<1> QED  BY <1>1, <1>2 DEF IndexInv, IndexOK, Admits

(* A document is admitted as before when its file's alerts and index are.  *)
LEMMA AdmitsKept ==
    ASSUME WellFormed, NEW f \in Files, NEW c \in Seq(Entry), NEW idx, Admits(f, idx, c),
           \A d \in Events : spc'[d] = "stored" /\ home'[d] = f =>
               spc[d] = "stored" /\ home[d] = f /\ ts'[d] = ts[d]
    PROVE  Admits(f, idx, c)'
BY IdsAreEvents DEF Admits

(* The files the storer is not working on do not notice.                   *)
LEMMA IndexElsewhere ==
    ASSUME WellFormed, NEW e \in Events, StoreBegin(e) \/ StoreStep(e),
           NEW f \in Files, f # currentFile, IndexOK(f)
    PROVE  IndexOK(f)'
<1>1. /\ UNCHANGED <<currentFile, lpc, at>> /\ disk'[f] = disk[f]
      /\ \A l \in Loads : buf'[l] = buf[l]
      /\ \A d \in Events \ {e} : spc'[d] = spc[d] /\ home'[d] = home[d]
  BY StorerView, ConstantsAssumption DEF Requests
<1>2. /\ spc[e] # "stored" /\ (spc'[e] = "stored" => home'[e] = currentFile)
      /\ \A d \in Events : d # e \/ ~StoreBegin(e) => ts'[d] = ts[d]
      /\ fileIndexes'[f] = fileIndexes[f] /\ UNCHANGED idxbuf
      /\ spc'[e] = "stored" => ~StoreBegin(e)
  BY DEF WellFormed, TypeOK, StoreBegin, StoreStep, StoreLock, StoreRead, StoreFail, StoreOpen,
         StoreWrite, StoreWriteFails, StoreIndex, memory, storeVars, loadVars
<1>3. \A d \in Events : spc'[d] = "stored" /\ home'[d] = f =>
          spc[d] = "stored" /\ home[d] = f /\ ts'[d] = ts[d]
  BY <1>1, <1>2
<1>4. /\ disk[f].evs \in Seq(Entry) /\ \A l \in Loads : buf[l] \in Seq(Entry)
  BY DEF WellFormed, TypeOK, File, Requests
<1>5. \A c \in Seq(Entry) : \A idx : Admits(f, idx, c) => Admits(f, idx, c)'
  <2> TAKE c \in Seq(Entry)
  <2> TAKE idx
  <2> QED  BY <1>3, AdmitsKept
<1> QED  BY <1>1, <1>2, <1>4, <1>5 DEF IndexOK

(* Steps of a storer on the current file.                                  *)
LEMMA IndexHere ==
    ASSUME WellFormed, Locking, NEW e \in Events, StoreBegin(e) \/ StoreStep(e),
           currentFile \notin overlapped', FileOK(currentFile), IndexOK(currentFile)
    PROVE  IndexOK(currentFile)'
<1> USE DEF memory, storeVars, loadVars, world
<1> DEFINE f == currentFile
<1>1. /\ f \in Files /\ UNCHANGED <<currentFile, lpc, at, idxbuf>>
      /\ \A l \in Loads : buf'[l] = buf[l]
      /\ \A d \in Events \ {e} : spc'[d] = spc[d] /\ home'[d] = home[d] /\ buf'[d] = buf[d]
  <2>1. UNCHANGED idxbuf
    BY DEF StoreBegin, StoreStep, StoreLock, StoreRead, StoreOpen, StoreWrite, StoreWriteFails,
           StoreIndex
  <2> QED  BY <2>1, StorerView, ConstantsAssumption DEF WellFormed, TypeOK, Requests
<1>2. \A d \in Events \ {e} : spc[e] \in StoreRunning \ {"wait"} => spc[d] \notin {"open", "write", "index"}
  BY DEF Locking, OneStorer, StoreRunning
<1>3. /\ disk[f].evs \in Seq(Entry) /\ \A r \in Requests : buf[r] \in Seq(Entry)
      /\ \A l \in Loads : l \in Requests
      /\ \A d \in Events : d \in Requests
  BY <1>1 DEF WellFormed, TypeOK, File, Requests
<1>4. ASSUME spc'[e] # "stored", \A d \in Events \ {e} : ts'[d] = ts[d]
      PROVE  \A c \in Seq(Entry) : \A idx : Admits(f, idx, c) => Admits(f, idx, c)'
  <2> SUFFICES ASSUME NEW c \in Seq(Entry), NEW idx, Admits(f, idx, c) PROVE Admits(f, idx, c)'
    OBVIOUS
  <2>1. \A d \in Events : spc'[d] = "stored" /\ home'[d] = f =>
            spc[d] = "stored" /\ home[d] = f /\ ts'[d] = ts[d]
    BY <1>1, <1>4
  <2>2. \A i \in DOMAIN c : c[i].id \in Events
    BY IdsAreEvents
  <2> QED  BY <1>1, <2>1, <2>2 DEF Admits
<1>5. ASSUME spc'[e] \in {"wait", "read", "full", "failed"}, UNCHANGED <<disk, fileIndexes>>,
             \A d \in Events \ {e} : ts'[d] = ts[d]
      PROVE  IndexOK(f)'
  <2>1. \A c \in Seq(Entry) : \A idx : Admits(f, idx, c) => Admits(f, idx, c)'
    BY <1>4, <1>5
  <2> QED  BY <1>1, <1>3, <1>5, <2>1 DEF IndexOK
<1>6. CASE StoreBegin(e) \/ StoreLock(e) \/ StoreWriteFails(e)
  BY <1>5, <1>6 DEF StoreBegin, StoreLock, StoreWriteFails, StoreFail, WellFormed, TypeOK
<1>7. CASE StoreRead(e)
  <2>1. UNCHANGED <<disk, fileIndexes, ts>> /\ spc[e] = "read"
    BY <1>7 DEF StoreRead
  <2>2. CASE spc'[e] \in {"full", "failed"}
    BY <1>5, <2>1, <2>2
  <2>3. CASE spc'[e] \notin {"full", "failed"}
    <3>1. spc'[e] = "open" /\ buf'[e] = WithAlert(disk[f].evs, e)
      BY <1>3, <1>7, <2>3 DEF StoreRead, StoreFail, WellFormed, TypeOK
    <3>2. \A c \in Seq(Entry) : \A idx : Admits(f, idx, c) => Admits(f, idx, c)'
      BY <1>4, <2>1, <3>1
    <3>3. WithAlert(disk[f].evs, e) \in Seq(Entry)
      BY <1>3, WithAlertType
    <3>4. Admits(f, fileIndexes[f], WithAlert(disk[f].evs, e))
      BY <1>1, <1>3, <2>1, Admitted DEF IndexOK
    <3>5. \A d \in Events : spc'[d] \in {"open", "write"} => d = e
      BY <1>1, <1>2, <2>1 DEF StoreRunning
    <3> QED  BY <1>1, <1>3, <2>1, <3>1, <3>2, <3>3, <3>4, <3>5 DEF IndexOK
  <2> QED  BY <2>2, <2>3
<1>8. ASSUME spc[e] \in {"open", "write", "index"}
      PROVE  /\ \A l \in Loads : ~(lpc[l] \in {"aopen", "awrite", "apublish"} /\ at[l] = f)
             /\ \A d \in Events \ {e} : spc'[d] \notin {"open", "write"}
  BY <1>1, <1>2, <1>8 DEF FileOK, StorerInside, ApplierInside, StoreRunning
<1>9. CASE StoreOpen(e)
  <2>1. /\ spc[e] = "open" /\ spc'[e] = "write" /\ disk'[f] = Emptied /\ UNCHANGED <<fileIndexes, ts>>
        /\ buf'[e] = buf[e]
    BY <1>9 DEF StoreOpen, WellFormed, TypeOK
  <2>2. \A c \in Seq(Entry) : \A idx : Admits(f, idx, c) => Admits(f, idx, c)'
    BY <1>4, <2>1
  <2>3. disk'[f].evs = <<>> /\ <<>> \in Seq(Entry) /\ Admits(f, fileIndexes[f], <<>>)
    BY <1>1, <1>3, <2>1, Admitted, EmptySeq DEF Emptied, Absent
  <2>4. Admits(f, fileIndexes[f], buf[e])
    BY <2>1 DEF IndexOK
  <2> QED  BY <1>1, <1>3, <1>8, <2>1, <2>2, <2>3, <2>4 DEF IndexOK
<1>10. CASE StoreWrite(e)
  <2>1. /\ spc[e] = "write" /\ spc'[e] = "index" /\ disk'[f] = Overwrite(disk[f], buf[e])
        /\ UNCHANGED <<fileIndexes, ts>>
    BY <1>10 DEF StoreWrite, WellFormed, TypeOK
  <2>2. disk[f] = Emptied /\ Admits(f, fileIndexes[f], buf[e])
    BY <2>1 DEF FileOK, IndexOK
  <2>3. disk'[f].evs = buf[e]
    BY <1>3, <2>1, <2>2, WriteEmptied
  <2>4. \A c \in Seq(Entry) : \A idx : Admits(f, idx, c) => Admits(f, idx, c)'
    BY <1>4, <2>1
  <2> QED  BY <1>1, <1>3, <1>8, <2>1, <2>2, <2>3, <2>4 DEF IndexOK
<1>11. CASE StoreIndex(e)
  <2> DEFINE idx == fileIndexes[f]
             new == IndexAdd(idx, ts[e])
             c == disk[f].evs
  <2>1. /\ spc[e] = "index" /\ spc'[e] = "stored" /\ UNCHANGED <<disk, ts>> /\ home'[e] = f
        /\ fileIndexes'[f] = new /\ idx \in Index \union {NoIndex}
    BY <1>11 DEF StoreIndex, WellFormed, TypeOK
  <2>2. Admits(f, idx, c)
    BY DEF IndexOK
  <2>3. \A i \in DOMAIN c : c[i].id = e \/ (spc[c[i].id] = "stored" /\ home[c[i].id] = f) =>
            /\ new # NoIndex /\ ~new.allProcessed
            /\ new.min <= ts[c[i].id] /\ ts[c[i].id] <= new.max
    BY <1>1, <1>3, <2>1, <2>2, AdmittedMore
  <2> HIDE DEF new
  <2>4. \A i \in DOMAIN c : spc'[c[i].id] = "stored" /\ home'[c[i].id] = f =>
            c[i].id = e \/ (spc[c[i].id] = "stored" /\ home[c[i].id] = f)
    BY <1>1, <1>3, IdsAreEvents
  <2>5. Admits(f, fileIndexes[f], disk[f].evs)'
    BY <1>1, <2>1, <2>3, <2>4 DEF Admits
  <2> QED  BY <1>1, <1>8, <2>1, <2>5 DEF IndexOK
<1> QED  BY <1>6, <1>7, <1>9, <1>10, <1>11 DEF StoreStep

(* Steps of a GetAlerts request, for any file.                             *)
LEMMA IndexLoader ==
    ASSUME WellFormed, Locking, NEW l \in Loads,
           LoadStep(l) \/ (\E q \in Queries : LoadBegin(l, q)),
           NEW f \in Files, f \notin overlapped', FileOK(f), IndexOK(f)
    PROVE  IndexOK(f)'
<1> USE DEF memory, storeVars, loadVars, world
<1>1. /\ UNCHANGED <<currentFile, spc, home>>
      /\ \A k \in Loads \ {l} : lpc'[k] = lpc[k] /\ at'[k] = at[k] /\ buf'[k] = buf[k]
      /\ \A d \in Events : buf'[d] = buf[d]
      /\ at[l] # f => disk'[f] = disk[f]
  BY LoaderView, ConstantsAssumption DEF Requests
<1>2. /\ ts' = ts /\ \A k \in Loads \ {l} : idxbuf'[k] = idxbuf[k]
      /\ UNCHANGED fileIndexes \/ ApplyPublish(l)
  BY DEF LoadBegin, LoadStep, LoadRead, ApplyPick, LoadScan, ApplyLock, LoadReturn, ApplyRead,
         ApplyOpen, ApplyWrite, ApplyWriteFails, ApplyReindex, ApplyPublish, ApplyNextFile,
         WellFormed, TypeOK
<1>3. \A k \in Loads \ {l} : lpc[l] \in LoadRunning \ {"load"} =>
          lpc[k] \notin {"aopen", "awrite", "apublish"}
  BY DEF Locking, OneApplier, LoadRunning
<1>4. /\ disk[f].evs \in Seq(Entry) /\ \A r \in Requests : buf[r] \in Seq(Entry)
      /\ l \in Requests /\ \A d \in Events : d \in Requests /\ \A k \in Loads : k \in Requests
  BY DEF WellFormed, TypeOK, File, Requests
<1>5. ASSUME NEW c \in Seq(Entry), NEW idx, Admits(f, idx, c) PROVE Admits(f, idx, c)'
  BY <1>1, <1>2, <1>5 DEF Admits
<1>a. ASSUME fileIndexes'[f] = fileIndexes[f], disk'[f] = disk[f]
      PROVE  /\ Admits(f, fileIndexes[f], disk[f].evs)'
             /\ \A e \in Events : spc'[e] \in {"open", "write"} /\ currentFile' = f =>
                   Admits(f, fileIndexes[f], buf[e])'
             /\ \A k \in Loads \ {l} : lpc'[k] \in {"aopen", "awrite"} /\ at'[k] = f =>
                   Admits(f, fileIndexes[f], buf[k])'
             /\ \A k \in Loads \ {l} : lpc'[k] = "apublish" /\ at'[k] = f =>
                   Admits(f, idxbuf[k], disk[f].evs)'
  <2>1. Admits(f, fileIndexes[f], disk[f].evs)'
    <3>1. Admits(f, fileIndexes[f], disk[f].evs)
      BY DEF IndexOK
    <3> QED  BY <1>1, <1>2, <1>a, <3>1 DEF Admits
  <2>2. ASSUME NEW e \in Events, spc'[e] \in {"open", "write"}, currentFile' = f
        PROVE  Admits(f, fileIndexes[f], buf[e])'
    <3>1. Admits(f, fileIndexes[f], buf[e])
      BY <1>1, <2>2 DEF IndexOK
    <3> QED  BY <1>1, <1>2, <1>a, <3>1 DEF Admits
  <2>3. ASSUME NEW k \in Loads \ {l}, lpc'[k] \in {"aopen", "awrite"}, at'[k] = f
        PROVE  Admits(f, fileIndexes[f], buf[k])'
    <3>1. Admits(f, fileIndexes[f], buf[k])
      BY <1>1, <2>3 DEF IndexOK
    <3> QED  BY <1>1, <1>2, <1>a, <3>1 DEF Admits
  <2>4. ASSUME NEW k \in Loads \ {l}, lpc'[k] = "apublish", at'[k] = f
        PROVE  Admits(f, idxbuf[k], disk[f].evs)'
    <3>1. Admits(f, idxbuf[k], disk[f].evs)
      BY <1>1, <2>4 DEF IndexOK
    <3> QED  BY <1>1, <1>2, <1>a, <3>1 DEF Admits
  <2> QED  BY <2>1, <2>2, <2>3, <2>4
<1>6. ASSUME fileIndexes'[f] = fileIndexes[f], disk'[f] = disk[f],
             lpc'[l] \in {"aopen", "awrite", "apublish"} => at'[l] # f
      PROVE  IndexOK(f)'
  BY <1>a, <1>6 DEF IndexOK
<1>7. CASE (\E q \in Queries : LoadBegin(l, q)) \/ (\E g \in Files : LoadRead(l, g) \/ ApplyPick(l, g))
           \/ LoadScan(l) \/ ApplyLock(l) \/ LoadReturn(l) \/ ApplyWriteFails(l)
  <2>1. /\ UNCHANGED <<disk, fileIndexes>> /\ lpc'[l] \notin {"aopen", "awrite", "apublish"}
    BY <1>7 DEF LoadBegin, LoadRead, ApplyPick, LoadScan, ApplyLock, LoadReturn, ApplyWriteFails,
                ApplyNextFile, WellFormed, TypeOK
  <2> QED  BY <1>6, <2>1
<1>8. ASSUME lpc[l] \in {"aopen", "awrite", "aindex", "apublish"}, at[l] = f
      PROVE  /\ \A e \in Events : ~(spc[e] \in {"open", "write", "index"} /\ currentFile = f)
             /\ \A k \in Loads \ {l} : lpc'[k] \notin {"aopen", "awrite", "apublish"}
  BY <1>1, <1>3, <1>8 DEF FileOK, StorerInside, ApplierInside, LoadRunning
<1>9. CASE ApplyRead(l)
  <2>1. UNCHANGED <<disk, fileIndexes>> /\ lpc[l] = "aread" /\ at[l] \in Files
    BY <1>9 DEF ApplyRead, WellFormed, AtFile
  <2>2. CASE ApplyNextFile(l)
    <3>1. lpc'[l] = "apply"
      BY <2>2 DEF ApplyNextFile, WellFormed, TypeOK
    <3> QED  BY <1>6, <2>1, <3>1
  <2>3. CASE ~ApplyNextFile(l)
    <3> DEFINE doc == Marked(disk[f].evs, pending[f])
    <3>1. /\ buf'[l] = Marked(disk[at[l]].evs, pending[at[l]])
          /\ lpc'[l] = "aopen" /\ UNCHANGED at
      BY <1>9, <2>3 DEF ApplyRead, WellFormed, TypeOK, Requests
    <3>2. CASE at[l] = f
      <4>1. Admits(f, fileIndexes[f], disk[f].evs)
        BY DEF IndexOK
      <4>2. doc \in Seq(Entry) /\ Admits(f, fileIndexes[f], doc)
        BY <1>4, <4>1, Admitted, MarkedType
      <4>3. buf'[l] = doc
        BY <3>1, <3>2
      <4> HIDE DEF doc
      <4>4. Admits(f, fileIndexes[f], buf[l])'
        BY <1>1, <1>2, <2>1, <4>2, <4>3 DEF Admits
      <4> QED  BY <1>a, <2>1, <3>1, <4>4 DEF IndexOK
    <3>3. CASE at[l] # f
      BY <1>6, <2>1, <3>1, <3>3
    <3> QED  BY <3>2, <3>3
  <2> QED  BY <2>2, <2>3
<1>10. CASE ApplyOpen(l)
  <2>1. /\ lpc[l] = "aopen" /\ lpc'[l] = "awrite" /\ UNCHANGED <<at, buf, fileIndexes>>
        /\ disk' = [disk EXCEPT ![at[l]] = Emptied]
    BY <1>10 DEF ApplyOpen, WellFormed, TypeOK
  <2>2. CASE at[l] = f
    <3>1. /\ disk'[f].evs = <<>> /\ <<>> \in Seq(Entry) /\ Admits(f, fileIndexes[f], <<>>)
      BY <1>4, <2>1, <2>2, Admitted, EmptySeq DEF WellFormed, TypeOK, Emptied, Absent
    <3>2. Admits(f, fileIndexes[f], buf[l])
      BY <2>1, <2>2 DEF IndexOK
    <3> QED  BY <1>1, <1>2, <1>4, <1>5, <1>8, <2>1, <2>2, <3>1, <3>2 DEF IndexOK
  <2> QED  BY <1>1, <1>6, <2>1, <2>2
<1>11. CASE ApplyWrite(l)
  <2>1. /\ lpc[l] = "awrite" /\ lpc'[l] = "aindex" /\ UNCHANGED <<at, buf, fileIndexes>>
        /\ disk' = [disk EXCEPT ![at[l]] = Overwrite(@, buf[l])]
    BY <1>11 DEF ApplyWrite, WellFormed, TypeOK
  <2>2. CASE at[l] = f
    <3>1. disk[f] = Emptied /\ Admits(f, fileIndexes[f], buf[l])
      BY <2>1, <2>2 DEF FileOK, IndexOK
    <3>2. disk'[f].evs = buf[l]
      BY <1>4, <2>1, <2>2, <3>1, WriteEmptied DEF WellFormed, TypeOK
    <3> QED  BY <1>1, <1>2, <1>4, <1>5, <1>8, <2>1, <2>2, <3>1, <3>2 DEF IndexOK
  <2> QED  BY <1>1, <1>6, <2>1, <2>2
<1>12. CASE ApplyReindex(l)
  <2>1. UNCHANGED <<disk, fileIndexes>> /\ lpc[l] = "aindex"
    BY <1>12 DEF ApplyReindex
  <2>2. CASE ApplyNextFile(l)
    <3>1. lpc'[l] = "apply"
      BY <2>2 DEF ApplyNextFile, WellFormed, TypeOK
    <3> QED  BY <1>6, <2>1, <3>1
  <2>3. CASE ~ApplyNextFile(l)
    <3>1. /\ disk[at[l]].evs # <<>> /\ idxbuf'[l] = IndexOf(disk[at[l]].evs)
          /\ lpc'[l] = "apublish" /\ UNCHANGED <<at, buf>>
      BY <1>12, <2>3 DEF ApplyReindex, WellFormed, TypeOK
    <3>2. CASE at[l] = f
      <4> DEFINE idx == IndexOf(disk[f].evs)
      <4>1. Admits(f, idx, disk[f].evs) /\ idxbuf'[l] = idx
        BY <1>4, <3>1, <3>2, Admitted
      <4> HIDE DEF idx
      <4>2. Admits(f, idxbuf[l], disk[f].evs)'
        BY <1>1, <1>2, <2>1, <4>1 DEF Admits
      <4> QED  BY <1>a, <2>1, <3>1, <4>2 DEF IndexOK
    <3>3. CASE at[l] # f
      BY <1>6, <2>1, <3>1, <3>3
    <3> QED  BY <3>2, <3>3
  <2> QED  BY <2>2, <2>3
<1>13. CASE ApplyPublish(l)
  <2>1. /\ lpc[l] = "apublish" /\ lpc'[l] = "apply" /\ UNCHANGED disk
        /\ fileIndexes' = [fileIndexes EXCEPT ![at[l]] = idxbuf[l]]
    BY <1>13 DEF ApplyPublish, ApplyNextFile, WellFormed, TypeOK
  <2>2. CASE at[l] = f
    <3>1. fileIndexes'[f] = idxbuf[l] /\ Admits(f, idxbuf[l], disk[f].evs)
      BY <2>1, <2>2 DEF IndexOK, WellFormed, TypeOK
    <3> QED  BY <1>1, <1>4, <1>5, <1>8, <2>1, <2>2, <3>1 DEF IndexOK
  <2>3. CASE at[l] # f
    <3>1. fileIndexes'[f] = fileIndexes[f]
      BY <2>1, <2>3 DEF WellFormed, TypeOK
    <3> QED  BY <1>6, <2>1, <3>1
  <2> QED  BY <2>2, <2>3
<1> QED  BY <1>7, <1>9, <1>10, <1>11, <1>12, <1>13 DEF LoadStep

(* A file json.Unmarshal rejects has no alert.                             *)
NothingUnreadable == \A f \in Files : ~disk[f].ok => disk[f].evs = <<>>

(* So it is at the start, and after every step.                            *)
LEMMA UnreadableStep ==
    (Init => NothingUnreadable) /\ (WellFormed /\ NothingUnreadable /\ [Next]_vars => NothingUnreadable')
<1>1. Init => NothingUnreadable
  BY DEF Init, NothingUnreadable, Json, Absent
<1>2. ASSUME WellFormed, NothingUnreadable, [Next]_vars PROVE NothingUnreadable'
  <2>1. ~Emptied.ok /\ Emptied.evs = <<>>
    BY DEF Emptied, Absent
  <2>2. ASSUME NEW old, NEW c PROVE ~Overwrite(old, c).ok => Overwrite(old, c).evs = <<>>
    BY DEF Overwrite, Json
  <2>3. Json(<<>>).ok
    BY DEF Json
  <2>4. \/ UNCHANGED disk
        \/ \E f \in Files : \E d :
                               /\ disk' = [disk EXCEPT ![f] = d]
                               /\ ~d.ok => d.evs = <<>>
    <3>1. ASSUME NEW e \in Events, StoreOpen(e) \/ StoreWrite(e)
          PROVE  \E f \in Files : \E d : disk' = [disk EXCEPT ![f] = d] /\ (~d.ok => d.evs = <<>>)
      <4> DEFINE d == Overwrite(disk[currentFile], buf[e])
      <4>1. currentFile \in Files
        BY <1>2 DEF WellFormed, TypeOK
      <4>2. CASE StoreOpen(e)
        BY <2>1, <4>1, <4>2 DEF StoreOpen
      <4>3. CASE StoreWrite(e)
        <5>1. disk' = [disk EXCEPT ![currentFile] = d] /\ (~d.ok => d.evs = <<>>)
          BY <2>2, <4>3 DEF StoreWrite
        <5> HIDE DEF d
        <5> QED  BY <4>1, <5>1
      <4> QED  BY <3>1, <4>2, <4>3
    <3>2. ASSUME NEW l \in Loads, ApplyOpen(l) \/ ApplyWrite(l)
          PROVE  \E f \in Files : \E d : disk' = [disk EXCEPT ![f] = d] /\ (~d.ok => d.evs = <<>>)
      <4> DEFINE d == Overwrite(disk[at[l]], buf[l])
      <4>1. at[l] \in Files
        BY <1>2, <3>2 DEF ApplyOpen, ApplyWrite, WellFormed, AtFile
      <4>2. CASE ApplyOpen(l)
        BY <2>1, <4>1, <4>2 DEF ApplyOpen
      <4>3. CASE ApplyWrite(l)
        <5>1. disk' = [disk EXCEPT ![at[l]] = d] /\ (~d.ok => d.evs = <<>>)
          BY <2>2, <4>3 DEF ApplyWrite
        <5> HIDE DEF d
        <5> QED  BY <4>1, <5>1
      <4> QED  BY <3>2, <4>2, <4>3
    <3>3. CASE Reboot
      BY <2>3, <3>3 DEF Reboot
    <3>4. CASE ~Reboot /\ ~(\E e \in Events : StoreOpen(e) \/ StoreWrite(e))
               /\ ~(\E l \in Loads : ApplyOpen(l) \/ ApplyWrite(l))
      BY <1>2, <3>4 DEF Next, Internal, StoreStep, LoadStep, StoreBegin, StoreLock, StoreRead,
         StoreWriteFails, StoreIndex, LoadBegin, LoadRead, LoadScan, ApplyLock, ApplyPick,
         ApplyRead, ApplyWriteFails, ApplyReindex, ApplyPublish, LoadReturn, Tick, Quiet, vars
    <3> QED  BY <3>1, <3>2, <3>3, <3>4
  <2> QED  BY <1>2, <2>4 DEF NothingUnreadable, WellFormed, TypeOK
<1> QED  BY <1>1, <1>2

(* A restart rebuilds an index that admits what is on disk.                *)
LEMMA RebootIndex ==
    ASSUME WellFormed, NothingUnreadable, IndexInv, Reboot
    PROVE  IndexInv'
<1>1. /\ overlapped' = overlapped /\ home' = home /\ ts' = ts
      /\ \A e \in Events : spc'[e] \notin StoreRunning /\ (spc'[e] = "stored" => spc[e] = "stored")
      /\ \A l \in Loads : lpc'[l] \notin LoadRunning
      /\ disk' = [disk EXCEPT ![currentFile + 1] = Json(<<>>)]
      /\ fileIndexes' = RebuiltIndexes
  BY DEF Reboot, WellFormed, TypeOK, StoreRunning, LoadRunning, storeVars, world
<1>2. ASSUME NEW f \in Files \ overlapped PROVE IndexOK(f)'
  <2>1. /\ \A e \in Events : spc'[e] \notin {"open", "write"}
        /\ \A l \in Loads : lpc'[l] \notin {"aopen", "awrite", "apublish"}
    BY <1>1 DEF StoreRunning, LoadRunning
  <2> DEFINE c == disk'[f].evs
             idx == RebuiltIndexes[f]
  <2>2. /\ disk'[f] = disk[f] \/ c = <<>>
        /\ disk[f].evs \in Seq(Entry)
    BY <1>1 DEF WellFormed, TypeOK, File, Json
  <2>3. DOMAIN <<>> = {}
    OBVIOUS
  <2>4. CASE c = <<>>
    <3>1. Admits(f, fileIndexes[f], disk[f].evs)'
      BY <2>3, <2>4 DEF Admits
    <3> QED  BY <2>1, <3>1 DEF IndexOK
  <2>5. CASE c # <<>>
    <3>1. disk'[f] = disk[f] /\ c = disk[f].evs /\ disk[f].ok
      BY <2>2, <2>5 DEF NothingUnreadable
    <3>2. idx = IndexOf(disk[f].evs)
      BY <2>5, <3>1 DEF RebuiltIndexes
    <3>3. Admits(f, idx, disk[f].evs)
      BY <2>2, <2>5, <3>1, <3>2, Admitted
    <3>4. fileIndexes'[f] = idx
      BY <1>1
    <3> HIDE DEF idx
    <3>5. \A i \in DOMAIN disk[f].evs : disk[f].evs[i].id \in Events
      BY <2>2, IdsAreEvents
    <3>6. Admits(f, fileIndexes[f], disk[f].evs)'
      BY <1>1, <3>1, <3>3, <3>4, <3>5 DEF Admits
    <3> QED  BY <2>1, <3>6 DEF IndexOK
  <2> QED  BY <2>4, <2>5
<1> QED  BY <1>1, <1>2 DEF IndexInv

(* Every step keeps the index honest.                                      *)
LEMMA StepIndex ==
    WellFormed /\ Locking /\ KeptInv /\ NothingUnreadable /\ IndexInv /\ [Next]_vars => IndexInv'
<1> SUFFICES ASSUME WellFormed, Locking, KeptInv, NothingUnreadable, IndexInv, [Next]_vars
             PROVE  IndexInv'
  OBVIOUS
<1>1. ASSUME NEW e \in Events, StoreBegin(e) \/ StoreStep(e) PROVE IndexInv'
  <2>1. overlapped \subseteq overlapped' /\ currentFile' = currentFile
    BY <1>1, StorerView
  <2>2. ASSUME NEW f \in Files \ overlapped' PROVE IndexOK(f)'
    <3>1. FileOK(f) /\ IndexOK(f)
      BY <2>1 DEF KeptInv, IndexInv
    <3>2. CASE f = currentFile
      <4>1. IndexOK(currentFile)'
        BY <1>1, <3>1, <3>2, IndexHere
      <4> QED  BY <2>1, <3>2, <4>1
    <3>3. CASE f # currentFile
      BY <1>1, <3>1, <3>3, IndexElsewhere
    <3> QED  BY <3>2, <3>3
  <2> QED  BY <2>2 DEF IndexInv
<1>2. ASSUME NEW l \in Loads, LoadStep(l) \/ \E q \in Queries : LoadBegin(l, q) PROVE IndexInv'
  <2>1. overlapped \subseteq overlapped'
    BY <1>2, LoaderView
  <2>2. ASSUME NEW f \in Files \ overlapped' PROVE IndexOK(f)'
    <3>1. FileOK(f) /\ IndexOK(f)
      BY <2>1 DEF KeptInv, IndexInv
    <3> QED  BY <1>2, <3>1, IndexLoader
  <2> QED  BY <2>2 DEF IndexInv
<1>3. CASE Tick \/ UNCHANGED vars
  <2>1. UNCHANGED <<disk, memory, storeVars, loadVars, buf, faults, overlapped>>
    BY <1>3 DEF Tick, vars, world
  <2> QED  BY <2>1 DEF IndexInv, IndexOK, Admits, memory, storeVars, loadVars
<1>4. CASE Next
  <2>1. Quiet => UNCHANGED vars
    BY DEF Quiet
  <2> QED  BY <1>1, <1>2, <1>3, <1>4, <2>1, RebootIndex DEF Next, Internal
<1> QED  BY <1>3, <1>4

(* The index is sound without an overlap, for any number of requests,      *)
(* files, failed writes and restarts, whatever the clock did between the   *)
(* alerts: no query that asks for an acknowledged alert is kept from the   *)
(* file that has it.                                                       *)
THEOREM IndexHonest == Spec => []IndexHonestUnlessOverlapped
<1>1. WellFormed /\ KeptInv /\ IndexInv => IndexHonestUnlessOverlapped
  <2> SUFFICES ASSUME WellFormed, KeptInv, IndexInv, NEW e \in Events, spc[e] = "stored",
                      home[e] \notin overlapped, Hidden(e)
               PROVE  FALSE
    BY DEF IndexHonestUnlessOverlapped
  <2> DEFINE f == home[e]
             c == disk[f].evs
             idx == fileIndexes[f]
  <2>1. f \in Files /\ IndexOK(f)
    BY DEF KeptInv, HomesOK, IndexInv
  <2>2. PICK q \in Queries : /\ \E i \in DOMAIN c : c[i].id = e /\ Matches(c[i], q)
                             /\ ~Candidate(f, q)
    BY DEF Hidden
  <2>3. PICK i \in DOMAIN c : c[i].id = e /\ Matches(c[i], q)
    BY <2>2
  <2>4. /\ idx # NoIndex /\ idx.min <= ts[e] /\ ts[e] <= idx.max
        /\ ~c[i].processed => ~idx.allProcessed
    BY <2>1, <2>3 DEF IndexOK, Admits
  <2>5. /\ ts[e] >= q.start /\ ts[e] <= q.end /\ Info >= q.minSeverity
        /\ ~(q.unprocessed /\ c[i].processed)
    BY <2>3 DEF Matches
  <2>6. /\ ts[e] \in Nat /\ q.start \in Nat /\ q.end \in Nat /\ idx \in Index
        /\ idx.min \in Nat /\ idx.max \in Nat
    BY <2>1, <2>4, ConstantsAssumption, QueriesAssumption DEF WellFormed, TypeOK, Filter, Index
  <2>7. idx.max >= q.start /\ idx.min <= q.end
    BY <2>4, <2>5, <2>6
  <2>8. ~(q.unprocessed /\ idx.allProcessed)
    BY <2>4, <2>5
  <2> QED  BY <2>2, <2>4, <2>5, <2>7, <2>8 DEF Candidate
<1> QED
  BY <1>1, InitWellFormed, StepWellFormed, InitLocking, StepLocking, InitKept, StepKept,
     UnreadableStep, InitIndex, StepIndex, PTL DEF Spec
=============================================================================
