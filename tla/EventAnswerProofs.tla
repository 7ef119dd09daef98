------------------------- MODULE EventAnswerProofs -------------------------
(* What GetAlerts has answered is recorded as processed: the theorem of    *)
(* EventStorage that needs to know where every alert can be.               *)
EXTENDS EventStorageProofs

-----------------------------------------------------------------------------
(* Where alerts are.                                                       *)

Written == {"index", "stored", "failed", "killed"}

(* e may be in a document of f: its StoreEvent has written it, to f if it  *)
(* is there that the alert is acknowledged.                                *)
Belongs(f, e) ==
    /\ spc[e] \in Written
    /\ spc[e] = "stored" => home[e] = f
    /\ spc[e] = "index" => currentFile = f

Located(f, c) == \A e \in Ids(c) : Belongs(f, e)

(* Documents on disk, being scanned or about to be written only have       *)
(* alerts that belong to their file; answers only alerts that have been    *)
(* written; and a request scans only while it loads.                       *)
PlaceInv ==
    /\ \A f \in Files : Located(f, disk[f].evs)
    /\ \A l \in Loads : Located(at[l], scan[l])
    /\ \A l \in Loads : lpc[l] \in {"aopen", "awrite"} => Located(at[l], buf[l])
    /\ \A d \in Events : spc[d] \in {"open", "write"} =>
          \A e \in Ids(buf[d]) : e = d \/ Belongs(currentFile, e)
    /\ \A l \in Loads : \A e \in got[l] : spc[e] \in Written
    /\ \A l \in Loads : scan[l] # <<>> => lpc[l] = "load"
    /\ \A l \in Loads : lpc[l] = "new" => got[l] = {}

(* What belongs to a file goes on belonging to it.                         *)
LEMMA BelongsKept ==
    ASSUME WellFormed, [Next]_vars, NEW f, NEW e \in Events, Belongs(f, e)
    PROVE  Belongs(f, e)'
<1> USE DEF memory, storeVars, loadVars, world, Belongs, Written
<1>1. ASSUME NEW d \in Events, StoreBegin(d) \/ StoreStep(d) PROVE Belongs(f, e)'
  <2>1. /\ UNCHANGED currentFile
        /\ d # e => spc'[e] = spc[e] /\ home'[e] = home[e]
    BY <1>1, StorerView
  <2>2. CASE d = e
    <3>1. StoreIndex(e)
      BY <1>1, <2>2 DEF StoreBegin, StoreStep, StoreLock, StoreRead, StoreOpen, StoreWrite,
                        StoreWriteFails, StoreIndex
    <3> QED  BY <3>1 DEF StoreIndex, WellFormed, TypeOK
  <2> QED  BY <2>1, <2>2
<1>2. ASSUME NEW l \in Loads, LoadStep(l) \/ \E q \in Queries : LoadBegin(l, q) PROVE Belongs(f, e)'
  BY <1>2, LoaderView
<1>3. CASE Reboot
  BY <1>3 DEF Reboot, StoreRunning, WellFormed, TypeOK
<1>4. CASE Tick \/ UNCHANGED vars
  BY <1>4 DEF Tick, vars
<1>5. CASE Next
  <2>1. Quiet => UNCHANGED vars
    BY DEF Quiet
  <2> QED  BY <1>1, <1>2, <1>3, <1>4, <1>5, <2>1 DEF Next, Internal
<1> QED  BY <1>4, <1>5

(* And a document located in a file stays so.                              *)
LEMMA LocatedKept ==
    ASSUME WellFormed, [Next]_vars, NEW f, NEW c \in Seq(Entry), Located(f, c)
    PROVE  Located(f, c)'
<1>1. \A e \in Ids(c) : e \in Events
  BY IdsAreEvents DEF Ids
<1>2. ASSUME NEW e \in Ids(c) PROVE Belongs(f, e)'
  BY <1>1, BelongsKept DEF Located
<1> QED  BY <1>2 DEF Located

(* Nothing is anywhere at the start.                                       *)
LEMMA InitPlace == Init => PlaceInv
<1> SUFFICES ASSUME Init PROVE PlaceInv
  OBVIOUS
<1>1. Ids(<<>>) = {}
  <2>1. DOMAIN <<>> = {}
    OBVIOUS
  <2> QED  BY <2>1 DEF Ids
<1>2. /\ \A f \in Files : disk[f].evs = <<>>
      /\ \A l \in Loads : scan[l] = <<>> /\ lpc[l] = "new" /\ got[l] = {}
      /\ \A e \in Events : spc[e] = "new"
  BY DEF Init, Json, Absent
<1> QED  BY <1>1, <1>2 DEF PlaceInv, Located

(* Steps of a storer.                                                      *)
LEMMA PlaceStorer ==
    ASSUME WellFormed, PlaceInv, [Next]_vars, NEW e \in Events, StoreBegin(e) \/ StoreStep(e)
    PROVE  PlaceInv'
<1> USE DEF memory, storeVars, loadVars, world
<1>1. /\ UNCHANGED <<currentFile, lpc, at, scan, got>> /\ currentFile \in Files
      /\ \A l \in Loads : buf'[l] = buf[l]
      /\ \A d \in Events \ {e} : spc'[d] = spc[d] /\ buf'[d] = buf[d]
      /\ \A f \in Files \ {currentFile} : disk'[f] = disk[f]
  <2>1. UNCHANGED <<scan, got>>
    BY DEF StoreBegin, StoreStep, StoreLock, StoreRead, StoreOpen, StoreWrite, StoreWriteFails,
           StoreIndex
  <2> QED  BY <2>1, StorerView, ConstantsAssumption DEF WellFormed, TypeOK, Requests
<1>2. /\ \A f \in Files : disk[f].evs \in Seq(Entry)
      /\ \A r \in Events \union Loads : buf[r] \in Seq(Entry)
      /\ \A l \in Loads : scan[l] \in Seq(Entry) /\ got[l] \subseteq Events
  BY DEF WellFormed, TypeOK, File, Requests
<1>3. \A f, c : c \in Seq(Entry) /\ Located(f, c) => Located(f, c)'
  <2> TAKE f, c
  <2> SUFFICES ASSUME c \in Seq(Entry), Located(f, c) PROVE Located(f, c)'
    OBVIOUS
  <2> QED  BY LocatedKept
<1>4. \A f, d : d \in Events /\ Belongs(f, d) => Belongs(f, d)'
  <2> TAKE f, d
  <2> SUFFICES ASSUME d \in Events, Belongs(f, d) PROVE Belongs(f, d)'
    OBVIOUS
  <2> QED  BY BelongsKept
<1>5. /\ \A l \in Loads : Located(at[l], scan[l])'
      /\ \A l \in Loads : lpc'[l] \in {"aopen", "awrite"} => Located(at[l], buf[l])'
      /\ \A l \in Loads : \A d \in got'[l] : spc'[d] \in Written
      /\ \A l \in Loads : scan'[l] # <<>> => lpc'[l] = "load"
      /\ \A l \in Loads : lpc'[l] = "new" => got'[l] = {}
  <2>1. ASSUME NEW l \in Loads PROVE Located(at[l], scan[l])'
    <3> DEFINE c == scan[l]
    <3>1. Located(at[l], c) /\ c \in Seq(Entry) /\ scan'[l] = c /\ at'[l] = at[l]
      BY <1>1, <1>2 DEF PlaceInv
    <3> QED  BY <1>2, <1>4, <3>1, IdsAreEvents DEF Located, Ids
  <2>2. ASSUME NEW l \in Loads, lpc'[l] \in {"aopen", "awrite"} PROVE Located(at[l], buf[l])'
    <3>1. Located(at[l], buf[l]) /\ buf[l] \in Seq(Entry) /\ buf'[l] = buf[l] /\ at'[l] = at[l]
      BY <1>1, <1>2, <2>2 DEF PlaceInv
    <3> QED  BY <1>4, <3>1, IdsAreEvents DEF Located, Ids
  <2>3. ASSUME NEW l \in Loads, NEW d \in got[l] PROVE spc'[d] \in Written
    <3>1. spc[d] \in Written /\ d \in Events
      BY <1>2 DEF PlaceInv
    <3>2. Belongs(IF spc[d] = "stored" THEN home[d] ELSE currentFile, d)
      BY <3>1 DEF Belongs
    <3> QED  BY <1>4, <3>1, <3>2 DEF Belongs
  <2>4. /\ \A l \in Loads : scan[l] # <<>> => lpc[l] = "load"
        /\ \A l \in Loads : lpc[l] = "new" => got[l] = {}
    BY DEF PlaceInv
  <2>5. UNCHANGED <<lpc, at, scan, got>>
    BY <1>1
  <2> QED  BY <2>1, <2>2, <2>3, <2>4, <2>5
<1>6. ASSUME NEW c \in Seq(Entry), NEW x \in Ids(c) PROVE x \in Events
  BY <1>6, IdsAreEvents DEF Ids
<1>7. /\ \A f \in Files : Located(f, disk[f].evs)'
      /\ spc'[e] \in {"open", "write"} => \A x \in Ids(buf'[e]) : x = e \/ Belongs(currentFile, x)'
  <2>1. \A f \in Files : Located(f, disk[f].evs) /\ disk[f].evs \in Seq(Entry)
    BY <1>2 DEF PlaceInv
  <2>2. ASSUME NEW f \in Files, disk'[f].evs = disk[f].evs PROVE Located(f, disk[f].evs)'
    BY <1>4, <1>6, <2>1, <2>2 DEF Located
  <2>3. ASSUME spc[e] \in {"open", "write"}
        PROVE  \A x \in Ids(buf[e]) : x \in Events /\ (x = e \/ Belongs(currentFile, x)')
    <3> TAKE x \in Ids(buf[e])
    <3>1. x \in Events
      BY <1>2, <1>6
    <3>2. x = e \/ Belongs(currentFile, x)
      BY <2>3 DEF PlaceInv
    <3>3. Belongs(currentFile, x) => Belongs(currentFile, x)'
      BY <1>1, <1>4, <3>1
    <3> QED  BY <3>1, <3>2, <3>3
  <2>4. CASE StoreBegin(e) \/ StoreLock(e) \/ StoreWriteFails(e) \/ StoreIndex(e)
    <3>1. UNCHANGED disk /\ spc'[e] \notin {"open", "write"}
      BY <2>4 DEF StoreBegin, StoreLock, StoreWriteFails, StoreFail, StoreIndex, WellFormed, TypeOK
    <3> QED  BY <2>2, <3>1
  <2>5. CASE StoreRead(e)
    <3>1. UNCHANGED disk
      BY <2>5 DEF StoreRead
    <3>2. ASSUME spc'[e] \in {"open", "write"}
          PROVE  Ids(buf'[e]) = Ids(disk[currentFile].evs) \union {e}
      <4>1. buf'[e] = WithAlert(disk[currentFile].evs, e)
        BY <2>5, <3>2 DEF StoreRead, StoreFail, WellFormed, TypeOK, Requests
      <4> QED  BY <1>1, <1>2, <4>1, IdsPrepared
    <3>3. \A x \in Ids(disk[currentFile].evs) : Belongs(currentFile, x)'
      BY <1>1, <1>4, <1>6, <2>1 DEF Located
    <3> QED  BY <2>2, <3>1, <3>2, <3>3
  <2>6. CASE StoreOpen(e)
    <3>1. /\ spc[e] = "open" /\ buf'[e] = buf[e] /\ disk'[currentFile].evs = <<>>
      BY <1>1, <2>6 DEF StoreOpen, Emptied, Absent, WellFormed, TypeOK
    <3>2. Located(currentFile, disk[currentFile].evs)'
      <4>1. \A x \in Ids(<<>>) : FALSE
        BY DEF Ids
      <4> QED  BY <1>1, <3>1, <4>1 DEF Located
    <3> QED  BY <1>1, <2>2, <2>3, <3>1, <3>2
  <2>7. CASE StoreWrite(e)
    <3>1. /\ spc[e] = "write" /\ spc'[e] = "index" /\ currentFile' = currentFile
          /\ disk'[currentFile].evs \in {buf[e], <<>>}
      BY <1>1, <2>7 DEF StoreWrite, Overwrite, Json, WellFormed, TypeOK
    <3>2. Belongs(currentFile, e)'
      BY <3>1 DEF Belongs, Written
    <3>3. \A x \in Ids(buf[e]) : Belongs(currentFile, x)'
      BY <2>3, <3>1, <3>2
    <3>4. Ids(<<>>) = {}
      BY DEF Ids
    <3>5. Located(currentFile, disk[currentFile].evs)'
      BY <3>1, <3>3, <3>4 DEF Located
    <3> QED  BY <1>1, <2>2, <3>1, <3>5
  <2> QED  BY <2>4, <2>5, <2>6, <2>7 DEF StoreStep
<1>8. ASSUME NEW d \in Events \ {e}, spc'[d] \in {"open", "write"}, NEW x \in Ids(buf'[d])
      PROVE  x = d \/ Belongs(currentFile, x)'
  <2>1. buf'[d] = buf[d] /\ spc'[d] = spc[d] /\ buf[d] \in Seq(Entry)
    BY <1>1, <1>2
  <2>2. x = d \/ Belongs(currentFile, x)
    BY <1>8, <2>1 DEF PlaceInv
  <2>3. x \in Events
    BY <1>6, <2>1
  <2>4. \A y \in Events : Belongs(currentFile, y) => Belongs(currentFile, y)'
    BY <1>1, <1>4
  <2> QED  BY <2>2, <2>3, <2>4
<1>9. currentFile' = currentFile
  BY <1>1
<1> QED  BY <1>5, <1>7, <1>8, <1>9 DEF PlaceInv

(* The first event of a scan is one of it, and the others are of it too.   *)
LEMMA ScanTurn ==
    ASSUME NEW c \in Seq(Entry), c # <<>>
    PROVE  /\ Head(c).id \in Ids(c) /\ Tail(c) \in Seq(Entry)
           /\ \A x \in Ids(Tail(c)) : x \in Ids(c)
<1>1. /\ Head(c) = c[1] /\ 1 \in DOMAIN c
      /\ Tail(c) \in Seq(Entry) /\ Len(Tail(c)) = Len(c) - 1
      /\ \A i \in 1..Len(Tail(c)) : Tail(c)[i] = c[i + 1]
      /\ DOMAIN c = 1..Len(c) /\ DOMAIN Tail(c) = 1..Len(Tail(c)) /\ Len(c) \in Nat
  BY HeadTailProperties, EmptySeq, LenProperties
<1>2. ASSUME NEW i \in DOMAIN Tail(c) PROVE i + 1 \in DOMAIN c /\ Tail(c)[i].id = c[i + 1].id
  BY <1>1
<1> QED  BY <1>1, <1>2 DEF Ids

(* Steps of a GetAlerts request.                                           *)
LEMMA PlaceLoader ==
    ASSUME WellFormed, PlaceInv, NEW l \in Loads,
           LoadStep(l) \/ \E q \in Queries : LoadBegin(l, q)
    PROVE  PlaceInv'
<1> USE DEF memory, storeVars, loadVars, world
<1>1. /\ UNCHANGED <<currentFile, spc, home>>
      /\ \A k \in Loads \ {l} : lpc'[k] = lpc[k] /\ at'[k] = at[k] /\ buf'[k] = buf[k]
      /\ \A d \in Events : buf'[d] = buf[d]
      /\ \A g \in Files \ {at[l]} : disk'[g] = disk[g]
  BY LoaderView, ConstantsAssumption DEF Requests
<1>2. \A f, e : Belongs(f, e)' <=> Belongs(f, e)
  BY <1>1 DEF Belongs
<1>3. \A f, c : Located(f, c)' <=> Located(f, c)
  BY <1>2 DEF Located
<1>4. Ids(<<>>) = {}
  BY DEF Ids
<1>5. /\ \A f \in Files : Located(f, disk[f].evs) /\ disk[f].evs \in Seq(Entry)
      /\ \A k \in Loads : Located(at[k], scan[k]) /\ scan[k] \in Seq(Entry)
      /\ \A k \in Loads : lpc[k] \in {"aopen", "awrite"} => Located(at[k], buf[k])
      /\ \A k \in Loads : \A e \in got[k] : spc[e] \in Written
      /\ \A k \in Loads : scan[k] # <<>> => lpc[k] = "load"
      /\ \A k \in Loads : lpc[k] = "new" => got[k] = {}
  BY DEF PlaceInv, WellFormed, TypeOK, File
<1> DEFINE Moved == /\ \A f \in Files : Located(f, disk'[f].evs)
                    /\ Located(at'[l], scan'[l])
                    /\ lpc'[l] \in {"aopen", "awrite"} => Located(at'[l], buf'[l])
                    /\ \A e \in got'[l] : spc[e] \in Written
                    /\ scan'[l] # <<>> => lpc'[l] = "load"
                    /\ lpc'[l] # "new"
<1>7. ASSUME \E q \in Queries : LoadBegin(l, q) PROVE Moved
  BY <1>5, <1>7 DEF LoadBegin, WellFormed, TypeOK
<1>8. ASSUME \E f \in Files : LoadRead(l, f) PROVE Moved
  BY <1>5, <1>8 DEF LoadRead, WellFormed, TypeOK
<1>9. ASSUME LoadScan(l) PROVE Moved
  <2>1. /\ UNCHANGED <<disk, at, buf, lpc>> /\ lpc[l] = "load" /\ scan[l] # <<>>
        /\ scan'[l] = Tail(scan[l]) /\ got'[l] \subseteq got[l] \union {Head(scan[l]).id}
    BY <1>9 DEF LoadScan, WellFormed, TypeOK
  <2>2. Belongs(at[l], Head(scan[l]).id) /\ Located(at[l], Tail(scan[l]))
    BY <1>5, <2>1, ScanTurn DEF Located
  <2> QED  BY <1>5, <2>1, <2>2 DEF Belongs
<1>10. ASSUME (\E f \in Files : ApplyPick(l, f)) \/ ApplyLock(l) \/ LoadReturn(l) PROVE Moved
  <2>1. /\ UNCHANGED <<disk, scan, got, buf>> /\ scan[l] = <<>>
        /\ lpc'[l] \in {"aread", "apply", "done"}
    BY <1>5, <1>10 DEF ApplyPick, ApplyLock, LoadReturn, WellFormed, TypeOK
  <2> QED  BY <1>4, <1>5, <2>1 DEF Located
<1>11. ASSUME lpc[l] \notin {"new", "load"}, UNCHANGED <<disk, scan, got>>,
              lpc'[l] \in {"apply", "aindex", "apublish"}
       PROVE  Moved
  BY <1>4, <1>5, <1>11 DEF Located
<1>12. ASSUME ApplyRead(l) PROVE Moved
  <2>1. UNCHANGED <<disk, scan, got>> /\ lpc[l] = "aread" /\ at[l] \in Files
    BY <1>12 DEF ApplyRead, WellFormed, AtFile
  <2>2. CASE ApplyNextFile(l)
    <3>1. lpc'[l] = "apply"
      BY <2>2 DEF ApplyNextFile, WellFormed, TypeOK
    <3> QED  BY <1>11, <2>1, <3>1
  <2>3. CASE ~ApplyNextFile(l)
    <3>1. /\ buf'[l] = Marked(disk[at[l]].evs, pending[at[l]])
          /\ lpc'[l] = "aopen" /\ UNCHANGED at
      BY <1>12, <2>3 DEF ApplyRead, WellFormed, TypeOK, Requests
    <3>2. Located(at[l], buf'[l])
      BY <1>5, <2>1, <3>1, IdsPrepared DEF Located
    <3>3. scan[l] = <<>>
      BY <1>5, <2>1
    <3> QED  BY <1>4, <1>5, <2>1, <3>1, <3>2, <3>3 DEF Located
  <2> QED  BY <2>2, <2>3
<1>13. ASSUME ApplyOpen(l) \/ ApplyWrite(l) PROVE Moved
  <2>1. /\ UNCHANGED <<scan, got, at, buf>> /\ at[l] \in Files /\ scan[l] = <<>>
        /\ lpc[l] \in {"aopen", "awrite"}
        /\ lpc'[l] \in {"awrite", "aindex"}
    BY <1>5, <1>13 DEF ApplyOpen, ApplyWrite, WellFormed, TypeOK, AtFile
  <2>2. disk'[at[l]].evs \in {buf[l], <<>>}
    BY <1>13, <2>1 DEF ApplyOpen, ApplyWrite, Emptied, Absent, Overwrite, Json, WellFormed, TypeOK
  <2>3. \A f \in Files : Located(f, disk'[f].evs)
    BY <1>1, <1>4, <1>5, <2>1, <2>2 DEF Located
  <2> QED  BY <1>4, <1>5, <2>1, <2>3 DEF Located
<1>14. ASSUME ApplyWriteFails(l) \/ ApplyReindex(l) \/ ApplyPublish(l) PROVE Moved
  <2>1. /\ UNCHANGED <<disk, scan, got>> /\ lpc[l] \notin {"new", "load"}
        /\ lpc'[l] \in {"apply", "apublish"}
    BY <1>14 DEF ApplyWriteFails, ApplyReindex, ApplyPublish, ApplyNextFile, WellFormed, TypeOK
  <2> QED  BY <1>11, <2>1
<1>15. Moved
  BY <1>7, <1>8, <1>9, <1>10, <1>12, <1>13, <1>14 DEF LoadStep
<1>16. \A k \in Loads \ {l} : scan'[k] = scan[k] /\ got'[k] = got[k]
  BY DEF LoadStep, LoadBegin, LoadRead, ApplyPick, LoadScan, ApplyLock, LoadReturn, ApplyRead,
     ApplyOpen, ApplyWrite, ApplyWriteFails, ApplyReindex, ApplyPublish, WellFormed, TypeOK
<1>17. \A d \in Events : spc'[d] \in {"open", "write"} =>
            \A e \in Ids(buf'[d]) : e = d \/ Belongs(currentFile, e)'
  <2>1. \A d \in Events : spc[d] \in {"open", "write"} =>
            \A e \in Ids(buf[d]) : e = d \/ Belongs(currentFile, e)
    BY DEF PlaceInv
  <2>2. \A e : Belongs(currentFile, e)' <=> Belongs(currentFile, e)
    BY <1>1 DEF Belongs
  <2> QED  BY <1>1, <2>1, <2>2
<1>18. /\ \A f \in Files : Located(f, disk[f].evs)'
       /\ \A k \in Loads : Located(at[k], scan[k])'
       /\ \A k \in Loads : lpc'[k] \in {"aopen", "awrite"} => Located(at[k], buf[k])'
       /\ \A k \in Loads : \A e \in got'[k] : spc'[e] \in Written
       /\ \A k \in Loads : scan'[k] # <<>> => lpc'[k] = "load"
       /\ \A k \in Loads : lpc'[k] = "new" => got'[k] = {}
  BY <1>1, <1>2, <1>5, <1>15, <1>16 DEF Located
<1> QED  BY <1>17, <1>18 DEF PlaceInv

(* A restart.                                                              *)
LEMMA PlaceReboot ==
    ASSUME WellFormed, PlaceInv, [Next]_vars, Reboot
    PROVE  PlaceInv'
<1>1. /\ \A l \in Loads : /\ scan'[l] = <<>> /\ got'[l] = got[l]
                          /\ lpc'[l] \notin LoadRunning /\ (lpc'[l] = "new" => lpc[l] = "new")
      /\ \A e \in Events : spc'[e] \notin StoreRunning
                           /\ (spc[e] \in Written => spc'[e] \in Written)
      /\ currentFile + 1 \in Files /\ disk' = [disk EXCEPT ![currentFile + 1] = Json(<<>>)]
  BY DEF Reboot, StoreRunning, LoadRunning, Written, WellFormed, TypeOK
<1>2. \A f \in Files : disk'[f].evs \in {disk[f].evs, <<>>}
  BY <1>1 DEF Json, WellFormed, TypeOK
<1>3. \A x \in Ids(<<>>) : FALSE
  BY DEF Ids
<1>4. ASSUME NEW f \in Files PROVE Located(f, disk[f].evs)'
  <2>1. Located(f, disk[f].evs) /\ disk[f].evs \in Seq(Entry)
    BY DEF PlaceInv, WellFormed, TypeOK, File
  <2>2. \A x \in Ids(disk[f].evs) : Belongs(f, x)'
    BY <2>1, BelongsKept, IdsAreEvents DEF Located, Ids
  <2> QED  BY <1>2, <1>3, <2>2 DEF Located
<1>5. \A l \in Loads : Located(at[l], scan[l])'
  BY <1>1, <1>3 DEF Located
<1>6. /\ \A l \in Loads : lpc'[l] \notin {"aopen", "awrite"}
      /\ \A e \in Events : spc'[e] \notin {"open", "write"}
  BY <1>1 DEF LoadRunning, StoreRunning
<1>7. \A l \in Loads : \A e \in got'[l] : spc'[e] \in Written
  BY <1>1 DEF PlaceInv, WellFormed, TypeOK
<1>8. \A l \in Loads : lpc'[l] = "new" => got'[l] = {}
  BY <1>1 DEF PlaceInv
<1> QED  BY <1>1, <1>4, <1>5, <1>6, <1>7, <1>8 DEF PlaceInv

(* Every step keeps alerts in their places.                                *)
LEMMA StepPlace == WellFormed /\ PlaceInv /\ [Next]_vars => PlaceInv'
<1> SUFFICES ASSUME WellFormed, PlaceInv, [Next]_vars PROVE PlaceInv'
  OBVIOUS
<1>1. ASSUME NEW e \in Events, StoreBegin(e) \/ StoreStep(e) PROVE PlaceInv'
  BY <1>1, PlaceStorer
<1>2. ASSUME NEW l \in Loads, LoadStep(l) \/ \E q \in Queries : LoadBegin(l, q) PROVE PlaceInv'
  BY <1>2, PlaceLoader
<1>3. CASE Tick \/ UNCHANGED vars
  <2>1. UNCHANGED <<disk, memory, storeVars, loadVars, buf>>
    BY <1>3 DEF Tick, vars
  <2> QED  BY <2>1 DEF PlaceInv, Located, Belongs, memory, storeVars, loadVars
<1>4. CASE Next
  <2>1. Quiet => UNCHANGED vars
    BY DEF Quiet
  <2> QED  BY <1>1, <1>2, <1>3, <1>4, <2>1, PlaceReboot DEF Next, Internal
<1> QED  BY <1>3, <1>4

-----------------------------------------------------------------------------
(* What is recorded.                                                       *)

Flagged(c, e) == \E i \in DOMAIN c : c[i].id = e /\ c[i].processed

(* e is flagged in f, and nobody is about to write f without its flag.     *)
Recorded(f, e) ==
    /\ disk[f].ok => Flagged(disk[f].evs, e)
    /\ \A d \in Events : spc[d] \in {"open", "write"} /\ currentFile = f => Flagged(buf[d], e)
    /\ \A l \in Loads : lpc[l] \in {"aopen", "awrite"} /\ at[l] = f => Flagged(buf[l], e)

(* An alert of f in an answer under way is marked or recorded; when the    *)
(* answer is given it is recorded; and an applier carries the mark of its  *)
(* file's alerts to the disk before it drops them.                         *)
AnswerOK(f) ==
    \A e \in Needed(f) :
        /\ \A l \in Loads : lpc[l] = "done" /\ e \in got[l] => Recorded(f, e)
        /\ \A l \in Loads : lpc[l] \in LoadRunning /\ e \in got[l] =>
              e \in pending[f] \/ Recorded(f, e)
        /\ \A l \in Loads : at[l] = f /\ e \in pending[f] =>
              /\ lpc[l] \in {"aopen", "awrite"} => Flagged(buf[l], e)
              /\ lpc[l] \in {"aindex", "apublish"} /\ disk[f].ok => Flagged(disk[f].evs, e)

AnswerInv == \A f \in Files \ (overlapped \union unmarked) : AnswerOK(f)

(* The loop over the marks has still to come to every file that has some,  *)
(* but for the one it is at.                                               *)
RangeInv ==
    \A l \in Loads : lpc[l] \in LoadRunning \ {"load"} =>
        \A f \in Files : pending[f] # {} => f \in todo[l] \/ (lpc[l] # "apply" /\ at[l] = f)

(* No mark is added while the loop runs, and it skips no file.             *)
LEMMA StepRange == WellFormed /\ Locking /\ RangeInv /\ [Next]_vars => RangeInv'
<1> SUFFICES ASSUME WellFormed, Locking, RangeInv, [Next]_vars PROVE RangeInv'
  OBVIOUS
<1> USE DEF memory, storeVars, loadVars, world
<1> DEFINE Applying(l) == lpc[l] \in LoadRunning \ {"load"}
<1>1. ASSUME UNCHANGED <<lpc, pending, todo, at>> PROVE RangeInv'
  BY <1>1 DEF RangeInv
<1>2. \A k, l \in Loads : Applying(k) /\ Applying(l) => k = l
  BY DEF Locking, OneApplier
<1>3. pendingMutex = NoOne => \A l \in Loads : ~Applying(l)
  BY ConstantsAssumption DEF Locking, OneApplier
<1>4. ASSUME NEW l \in Loads, LoadStep(l) \/ \E q \in Queries : LoadBegin(l, q) PROVE RangeInv'
  <2>1. \A k \in Loads \ {l} : lpc'[k] = lpc[k] /\ at'[k] = at[k]
    BY <1>4, LoaderView
  <2>2. CASE (\E q \in Queries : LoadBegin(l, q)) \/ (\E f \in Files : LoadRead(l, f))
    <3>1. /\ lpc'[l] = "load" /\ UNCHANGED pending
          /\ \A k \in Loads \ {l} : todo'[k] = todo[k]
      BY <2>2 DEF LoadBegin, LoadRead, WellFormed, TypeOK
    <3> QED  BY <2>1, <3>1 DEF RangeInv
  <2>3. CASE LoadScan(l)
    <3>1. CASE UNCHANGED pending
      BY <1>1, <2>3, <3>1 DEF LoadScan
    <3>2. CASE pendingMutex = NoOne
      BY <1>3, <2>3, <3>2 DEF LoadScan, RangeInv
    <3> QED  BY <2>3, <3>1, <3>2 DEF LoadScan
  <2>4. CASE ApplyLock(l)
    <3>1. /\ \A k \in Loads : ~Applying(k)
          /\ todo'[l] = MarkedFiles /\ UNCHANGED pending
      BY <1>3, <2>4 DEF ApplyLock, WellFormed, TypeOK
    <3> QED  BY <2>1, <3>1 DEF RangeInv, MarkedFiles
  <2>5. CASE \E f \in Files : ApplyPick(l, f)
    <3>1. PICK f \in Files : ApplyPick(l, f)
      BY <2>5
    <3>2. /\ lpc[l] = "apply" /\ lpc'[l] = "aread" /\ at'[l] = f /\ UNCHANGED pending
          /\ todo'[l] = todo[l] \ {f}
      BY <3>1 DEF ApplyPick, WellFormed, TypeOK
    <3> QED  BY <1>2, <2>1, <3>2 DEF RangeInv, LoadRunning
  <2>6. CASE ApplyNextFile(l) /\ UNCHANGED todo
             /\ lpc[l] \in {"aread", "aopen", "awrite", "aindex", "apublish"}
    <3>1. /\ Applying(l) /\ lpc'[l] = "apply" /\ at[l] \in Files
          /\ \A f \in Files : pending'[f] = IF f = at[l] THEN {} ELSE pending[f]
      BY <2>6 DEF ApplyNextFile, LoadRunning, WellFormed, TypeOK, AtFile
    <3> QED  BY <1>2, <2>1, <2>6, <3>1 DEF RangeInv
  <2>7. CASE /\ lpc[l] \in {"aread", "aopen", "awrite", "aindex"}
             /\ lpc'[l] # "apply" /\ UNCHANGED <<pending, todo, at>>
    BY <2>1, <2>7 DEF RangeInv, LoadRunning
  <2>8. CASE ApplyRead(l) \/ ApplyOpen(l) \/ ApplyWrite(l) \/ ApplyReindex(l)
    <3>1. UNCHANGED todo /\ lpc[l] \in {"aread", "aopen", "awrite", "aindex"}
      BY <2>8 DEF ApplyRead, ApplyOpen, ApplyWrite, ApplyReindex
    <3>2. CASE ~ApplyNextFile(l)
      <4>1. lpc'[l] # "apply" /\ UNCHANGED <<pending, at>>
        BY <2>8, <3>2 DEF ApplyRead, ApplyOpen, ApplyWrite, ApplyReindex, WellFormed, TypeOK
      <4> QED  BY <2>7, <3>1, <4>1
    <3> QED  BY <2>6, <3>1, <3>2
  <2>9. CASE ApplyWriteFails(l) \/ ApplyPublish(l)
    BY <2>6, <2>9 DEF ApplyWriteFails, ApplyPublish
  <2>10. CASE LoadReturn(l)
    <3>1. /\ Applying(l) /\ lpc'[l] = "done"
      BY <2>10 DEF LoadReturn, LoadRunning, WellFormed, TypeOK
    <3> QED  BY <1>2, <2>1, <3>1 DEF RangeInv, LoadRunning
  <2> QED  BY <1>4, <2>2, <2>3, <2>4, <2>5, <2>8, <2>9, <2>10 DEF LoadStep
<1>5. ASSUME NEW d \in Events, StoreBegin(d) \/ StoreStep(d) PROVE RangeInv'
  BY <1>1, <1>5 DEF StoreBegin, StoreStep, StoreLock, StoreRead, StoreOpen, StoreWrite,
                    StoreWriteFails, StoreIndex
<1>6. CASE Reboot
  BY <1>6 DEF Reboot, RangeInv
<1>7. CASE Tick \/ UNCHANGED vars
  BY <1>1, <1>7 DEF Tick, vars
<1>8. CASE Next
  <2>1. Quiet => UNCHANGED vars
    BY DEF Quiet
  <2> QED  BY <1>4, <1>5, <1>6, <1>7, <1>8, <2>1 DEF Next, Internal
<1> QED  BY <1>7, <1>8

(* Forgotten marks stay forgotten.                                         *)
LEMMA UnmarkedGrows ==
    /\ \A e \in Events : StoreBegin(e) \/ StoreStep(e) => unmarked' = unmarked
    /\ \A l \in Loads : LoadStep(l) \/ (\E q \in Queries : LoadBegin(l, q)) =>
          /\ unmarked \subseteq unmarked'
          /\ ~ApplyWriteFails(l) => unmarked' = unmarked
<1> USE DEF memory, storeVars, loadVars, world
<1>1. ASSUME NEW e \in Events, StoreBegin(e) \/ StoreStep(e) PROVE unmarked' = unmarked
  BY <1>1 DEF StoreBegin, StoreStep, StoreLock, StoreRead, StoreOpen, StoreWrite,
              StoreWriteFails, StoreIndex
<1>2. ASSUME NEW l \in Loads, LoadStep(l) \/ (\E q \in Queries : LoadBegin(l, q))
      PROVE  unmarked \subseteq unmarked' /\ (~ApplyWriteFails(l) => unmarked' = unmarked)
  <2>1. CASE ApplyWriteFails(l)
    BY <2>1 DEF ApplyWriteFails
  <2>2. CASE ~ApplyWriteFails(l)
    BY <1>2, <2>2 DEF LoadStep, LoadBegin, LoadRead, ApplyPick, LoadScan, ApplyLock, LoadReturn,
       ApplyRead, ApplyOpen, ApplyWrite, ApplyReindex, ApplyPublish
  <2> QED  BY <2>1, <2>2
<1> QED  BY <1>1, <1>2

(* What the two documents of a read-modify-write do to flags.              *)
LEMMA FlagsPrepared ==
    ASSUME NEW c \in Seq(Entry), NEW e, Flagged(c, e)
    PROVE  /\ \A d \in Events : Flagged(WithAlert(c, d), e)
           /\ \A S : Flagged(Marked(c, S), e)
<1>1. PICK i \in DOMAIN c : c[i].id = e /\ c[i].processed
  BY DEF Flagged
<1>2. ASSUME NEW d \in Events PROVE Flagged(WithAlert(c, d), e)
  <2>1. i \in 1..(Len(c) + 1)
    BY LenProperties
  <2>2. i \in DOMAIN WithAlert(c, d) /\ WithAlert(c, d)[i] = c[i]
    BY <2>1, WithAlertType, Zenon
  <2> QED  BY <1>1, <2>2 DEF Flagged
<1>3. ASSUME NEW S PROVE Flagged(Marked(c, S), e)
  BY <1>1, MarkedType DEF Flagged
<1> QED  BY <1>2, <1>3

(* A marked alert of a document is flagged in the one the applier writes.  *)
LEMMA MarksTaken ==
    ASSUME NEW c \in Seq(Entry), NEW S, NEW e \in S, e \in Ids(c)
    PROVE  Flagged(Marked(c, S), e)
<1>1. PICK i \in DOMAIN c : c[i].id = e
  BY DEF Ids
<1> QED  BY <1>1, MarkedType DEF Flagged

(* What is recorded stays so while storers work.                           *)
LEMMA RecordedStorer ==
    ASSUME WellFormed, NEW e \in Events, StoreBegin(e) \/ StoreStep(e),
           NEW f \in Files, NEW x, Recorded(f, x)
    PROVE  Recorded(f, x)'
<1> USE DEF memory, storeVars, loadVars, world
<1>1. /\ UNCHANGED <<currentFile, lpc, at>> /\ currentFile \in Files
      /\ \A l \in Loads : buf'[l] = buf[l]
      /\ \A d \in Events \ {e} : spc'[d] = spc[d] /\ buf'[d] = buf[d]
      /\ f # currentFile => disk'[f] = disk[f]
  BY StorerView, ConstantsAssumption DEF WellFormed, TypeOK, Requests
<1>2. ASSUME f = currentFile
      PROVE  /\ disk'[f].ok => Flagged(disk'[f].evs, x)
             /\ spc'[e] \in {"open", "write"} => Flagged(buf'[e], x)
  <2>1. CASE StoreBegin(e) \/ StoreLock(e) \/ StoreWriteFails(e) \/ StoreIndex(e)
    <3>1. UNCHANGED disk /\ spc'[e] \notin {"open", "write"}
      BY <2>1 DEF StoreBegin, StoreLock, StoreWriteFails, StoreFail, StoreIndex, WellFormed, TypeOK
    <3> QED  BY <3>1 DEF Recorded
  <2>2. CASE StoreRead(e)
    <3>1. UNCHANGED disk
      BY <2>2 DEF StoreRead
    <3>2. ASSUME spc'[e] \in {"open", "write"} PROVE Flagged(buf'[e], x)
      <4>1. disk[f].ok /\ buf'[e] = WithAlert(disk[f].evs, e)
        BY <1>2, <2>2, <3>2 DEF StoreRead, StoreFail, WellFormed, TypeOK, Requests
      <4>2. disk[f].evs \in Seq(Entry)
        BY DEF WellFormed, TypeOK, File
      <4> QED  BY <4>1, <4>2, FlagsPrepared DEF Recorded
    <3> QED  BY <3>1, <3>2 DEF Recorded
  <2>3. CASE StoreOpen(e)
    <3>1. /\ spc[e] = "open" /\ buf'[e] = buf[e] /\ ~disk'[f].ok
      BY <1>2, <2>3 DEF StoreOpen, Emptied, Absent, WellFormed, TypeOK
    <3> QED  BY <1>2, <3>1 DEF Recorded
  <2>4. CASE StoreWrite(e)
    <3>1. /\ spc[e] = "write" /\ spc'[e] = "index" /\ (disk'[f].ok => disk'[f].evs = buf[e])
      BY <1>2, <2>4 DEF StoreWrite, Overwrite, Json, WellFormed, TypeOK
    <3> QED  BY <1>2, <3>1 DEF Recorded
  <2> QED  BY <2>1, <2>2, <2>3, <2>4 DEF StoreStep
<1> QED  BY <1>1, <1>2 DEF Recorded

(* And while GetAlerts requests work.                                      *)
LEMMA RecordedLoader ==
    ASSUME WellFormed, NEW l \in Loads,
           LoadStep(l) \/ (\E q \in Queries : LoadBegin(l, q)),
           NEW f \in Files, NEW x, Recorded(f, x)
    PROVE  Recorded(f, x)'
<1> USE DEF memory, storeVars, loadVars, world
<1>1. /\ UNCHANGED <<currentFile, spc>>
      /\ \A k \in Loads \ {l} : lpc'[k] = lpc[k] /\ at'[k] = at[k] /\ buf'[k] = buf[k]
      /\ \A d \in Events : buf'[d] = buf[d]
      /\ at[l] # f => disk'[f] = disk[f]
  BY LoaderView, ConstantsAssumption DEF Requests
<1>2. ASSUME disk'[f].ok => Flagged(disk'[f].evs, x),
             lpc'[l] \in {"aopen", "awrite"} /\ at'[l] = f => Flagged(buf'[l], x)
      PROVE  Recorded(f, x)'
  BY <1>1, <1>2 DEF Recorded
<1>3. ASSUME UNCHANGED disk, lpc'[l] \notin {"aopen", "awrite"} PROVE Recorded(f, x)'
  BY <1>2, <1>3 DEF Recorded
<1>4. CASE (\E q \in Queries : LoadBegin(l, q)) \/ (\E g \in Files : LoadRead(l, g) \/ ApplyPick(l, g))
           \/ LoadScan(l) \/ ApplyLock(l) \/ LoadReturn(l)
           \/ ApplyWriteFails(l) \/ ApplyReindex(l) \/ ApplyPublish(l)
  <2>1. UNCHANGED disk /\ lpc'[l] \notin {"aopen", "awrite"}
    BY <1>4 DEF LoadBegin, LoadRead, ApplyPick, LoadScan, ApplyLock, LoadReturn, ApplyWriteFails,
       ApplyReindex, ApplyPublish, ApplyNextFile, WellFormed, TypeOK
  <2> QED  BY <1>3, <2>1
<1>5. CASE ApplyRead(l)
  <2>1. UNCHANGED disk
    BY <1>5 DEF ApplyRead
  <2>2. ASSUME lpc'[l] \in {"aopen", "awrite"}, at'[l] = f PROVE Flagged(buf'[l], x)
    <3>1. disk[f].ok /\ buf'[l] = Marked(disk[f].evs, pending[f])
      BY <1>5, <2>2 DEF ApplyRead, ApplyNextFile, WellFormed, TypeOK, Requests
    <3>2. disk[f].evs \in Seq(Entry)
      BY DEF WellFormed, TypeOK, File
    <3> QED  BY <3>1, <3>2, FlagsPrepared DEF Recorded
  <2> QED  BY <1>2, <2>1, <2>2 DEF Recorded
<1>6. CASE ApplyOpen(l)
  <2>1. /\ lpc[l] = "aopen" /\ UNCHANGED <<at, buf>> /\ (at[l] = f => ~disk'[f].ok)
    BY <1>6 DEF ApplyOpen, Emptied, Absent, WellFormed, TypeOK
  <2> QED  BY <1>1, <1>2, <2>1 DEF Recorded
<1>7. CASE ApplyWrite(l)
  <2>1. /\ lpc[l] = "awrite" /\ lpc'[l] = "aindex" /\ UNCHANGED <<at, buf>>
        /\ at[l] = f /\ disk'[f].ok => disk'[f].evs = buf[l]
    BY <1>7 DEF ApplyWrite, Overwrite, Json, WellFormed, TypeOK
  <2> QED  BY <1>1, <1>2, <2>1 DEF Recorded
<1> QED  BY <1>4, <1>5, <1>6, <1>7 DEF LoadStep

(* Nothing has been answered at the start.                                 *)
LEMMA InitAnswer == Init => AnswerInv /\ RangeInv
<1> SUFFICES ASSUME Init PROVE AnswerInv /\ RangeInv
  OBVIOUS
<1>1. /\ \A e \in Events : spc[e] = "new"
      /\ \A l \in Loads : lpc[l] = "new"
  BY DEF Init
<1> QED  BY <1>1 DEF AnswerInv, AnswerOK, Needed, RangeInv, LoadRunning

(* Steps of a storer: what it has just written has not been read yet, and  *)
(* it finds no applier in its file.                                        *)
LEMMA AnswerStorer ==
    ASSUME WellFormed, PlaceInv, NEW e \in Events, StoreBegin(e) \/ StoreStep(e),
           NEW f \in Files, FileOK(f), AnswerOK(f)
    PROVE  AnswerOK(f)'
<1> USE DEF memory, storeVars, loadVars, world
<1> DEFINE Inside == {"aopen", "awrite", "aindex", "apublish"}
<1>1. /\ UNCHANGED <<currentFile, lpc, at, got, pending>>
      /\ \A l \in Loads : buf'[l] = buf[l]
      /\ \A d \in Events \ {e} : spc'[d] = spc[d] /\ home'[d] = home[d]
  <2>1. UNCHANGED <<got, pending>>
    BY DEF StoreBegin, StoreStep, StoreLock, StoreRead, StoreOpen, StoreWrite, StoreWriteFails,
           StoreIndex
  <2> QED  BY <2>1, StorerView, ConstantsAssumption DEF Requests
<1>2. disk'[f] = disk[f] \/ \A l \in Loads : ~(at[l] = f /\ lpc[l] \in Inside)
  <2>1. CASE StoreOpen(e) \/ StoreWrite(e)
    <3>1. spc[e] \in {"open", "write"} /\ (f # currentFile => disk'[f] = disk[f])
      BY <2>1, StorerView DEF StoreOpen, StoreWrite
    <3> QED  BY <3>1 DEF FileOK, StorerInside, ApplierInside
  <2>2. CASE ~(StoreOpen(e) \/ StoreWrite(e))
    BY <2>2 DEF StoreBegin, StoreStep, StoreLock, StoreRead, StoreWriteFails, StoreIndex
  <2> QED  BY <2>1, <2>2
<1>3. ASSUME NEW x \in Needed(f), x \in Needed(f)'
      PROVE  /\ \A l \in Loads : lpc'[l] = "done" /\ x \in got'[l] => Recorded(f, x)'
             /\ \A l \in Loads : lpc'[l] \in LoadRunning /\ x \in got'[l] =>
                   x \in pending'[f] \/ Recorded(f, x)'
             /\ \A l \in Loads : at'[l] = f /\ x \in pending'[f] =>
                   /\ lpc'[l] \in {"aopen", "awrite"} => Flagged(buf'[l], x)
                   /\ lpc'[l] \in {"aindex", "apublish"} /\ disk'[f].ok => Flagged(disk'[f].evs, x)
  <2>1. Recorded(f, x) => Recorded(f, x)'
    BY RecordedStorer
  <2>2. /\ \A l \in Loads : lpc[l] = "done" /\ x \in got[l] => Recorded(f, x)
        /\ \A l \in Loads : lpc[l] \in LoadRunning /\ x \in got[l] => x \in pending[f] \/ Recorded(f, x)
        /\ \A l \in Loads : at[l] = f /\ x \in pending[f] =>
              /\ lpc[l] \in {"aopen", "awrite"} => Flagged(buf[l], x)
              /\ lpc[l] \in {"aindex", "apublish"} /\ disk[f].ok => Flagged(disk[f].evs, x)
    BY <1>3 DEF AnswerOK
  <2> QED  BY <1>1, <1>2, <2>1, <2>2
<1>4. ASSUME NEW x \in Needed(f)', x \notin Needed(f)
      PROVE  /\ \A l \in Loads : x \notin got'[l]
             /\ \A l \in Loads : ~(at'[l] = f /\ lpc'[l] \in Inside)
  <2>1. x = e /\ x \in Events
    BY <1>1, <1>4 DEF Needed
  <2>2. spc[e] = "write" /\ currentFile = f
    BY <1>1, <1>4, <2>1 DEF Needed, StoreBegin, StoreStep, StoreLock, StoreRead, StoreFail, StoreOpen,
       StoreWrite, StoreWriteFails, StoreIndex, WellFormed, TypeOK
  <2>3. \A l \in Loads : x \notin got[l]
    BY <2>1, <2>2 DEF PlaceInv, Written
  <2>4. \A l \in Loads : ~(at[l] = f /\ lpc[l] \in Inside)
    BY <2>1, <2>2 DEF FileOK, StorerInside, ApplierInside
  <2> QED  BY <1>1, <2>3, <2>4
<1> QED  BY <1>3, <1>4 DEF AnswerOK

(* A request that leaves a file: its alerts are recorded if they were      *)
(* flagged on disk, or if the file is unreadable.                          *)
LEMMA RecordedOnLeaving ==
    ASSUME WellFormed, NEW l \in Loads, NEW f \in Files, NEW x,
           UNCHANGED <<disk, currentFile, spc>>, lpc'[l] = "apply",
           \A k \in Loads \ {l} : lpc'[k] \notin {"aopen", "awrite"},
           \A d \in Events : ~(spc[d] \in {"open", "write", "index"} /\ currentFile = f),
           disk[f].ok => Flagged(disk[f].evs, x)
    PROVE  Recorded(f, x)'
BY DEF Recorded

(* Steps of a GetAlerts request: a scanned alert is marked, a marked one   *)
(* is carried to the disk, and what is dropped is recorded.                *)
LEMMA AnswerLoader ==
    ASSUME WellFormed, Locking, RangeInv, PlaceInv, NEW l \in Loads,
           LoadStep(l) \/ (\E q \in Queries : LoadBegin(l, q)),
           NEW f \in Files, f \notin overlapped' \union unmarked', FileOK(f), AnswerOK(f)
    PROVE  AnswerOK(f)'
<1> USE DEF memory, storeVars, loadVars, world
<1> DEFINE Inside == {"aopen", "awrite", "aindex", "apublish"}
           Carried(k, x) ==
               /\ lpc[k] \in {"aopen", "awrite"} => Flagged(buf[k], x)
               /\ lpc[k] \in {"aindex", "apublish"} /\ disk[f].ok => Flagged(disk[f].evs, x)
           Kept(k, x) ==
               /\ lpc'[k] = "done" /\ x \in got'[k] => Recorded(f, x)'
               /\ lpc'[k] \in LoadRunning /\ x \in got'[k] => x \in pending'[f] \/ Recorded(f, x)'
               /\ at'[k] = f /\ x \in pending'[f] => Carried(k, x)'
<1>1. /\ UNCHANGED <<currentFile, spc, home>>
      /\ \A k \in Loads \ {l} : lpc'[k] = lpc[k] /\ at'[k] = at[k] /\ buf'[k] = buf[k] /\ got'[k] = got[k]
      /\ \A d \in Events : buf'[d] = buf[d]
      /\ at[l] # f => disk'[f] = disk[f]
  <2>1. \A k \in Loads \ {l} : got'[k] = got[k]
    BY DEF LoadStep, LoadBegin, LoadRead, ApplyPick, LoadScan, ApplyLock, LoadReturn, ApplyRead,
       ApplyOpen, ApplyWrite, ApplyWriteFails, ApplyReindex, ApplyPublish, WellFormed, TypeOK
  <2> QED  BY <2>1, LoaderView, ConstantsAssumption DEF Requests
<1>2. Needed(f)' = Needed(f)
  BY <1>1 DEF Needed
<1>3. \A x : Recorded(f, x) => Recorded(f, x)'
  BY RecordedLoader
<1>4. \A x \in Needed(f), k \in Loads :
          /\ lpc[k] = "done" /\ x \in got[k] => Recorded(f, x)
          /\ lpc[k] \in LoadRunning /\ x \in got[k] => x \in pending[f] \/ Recorded(f, x)
          /\ at[k] = f /\ x \in pending[f] => Carried(k, x)
  BY DEF AnswerOK
<1>5. lpc[l] \in LoadRunning \ {"load"} => \A k \in Loads \ {l} : lpc[k] \notin Inside
  BY DEF Locking, OneApplier, LoadRunning
<1>6. ASSUME \A x \in Needed(f), k \in Loads : Kept(k, x) PROVE AnswerOK(f)'
  BY <1>2, <1>6 DEF AnswerOK
(* Nothing that matters to f changes but l's place.                        *)
<1>7. ASSUME UNCHANGED <<disk, buf, got>>, pending'[f] = pending[f],
             lpc[l] \in LoadRunning, lpc'[l] \in LoadRunning \ {"aopen", "awrite"},
             lpc'[l] \in {"aindex", "apublish"} => lpc[l] \in {"aindex", "apublish"} /\ at'[l] = at[l]
      PROVE  AnswerOK(f)'
  <2>1. ASSUME NEW x \in Needed(f), NEW k \in Loads \ {l} PROVE Kept(k, x)
    BY <1>1, <1>3, <1>4, <1>7
  <2>2. ASSUME NEW x \in Needed(f) PROVE Kept(l, x)
    BY <1>1, <1>3, <1>4, <1>7 DEF LoadRunning
  <2> QED  BY <1>6, <2>1, <2>2
<1>8. CASE \E q \in Queries : LoadBegin(l, q)
  <2>1. UNCHANGED <<disk, buf, got, pending, at>> /\ lpc[l] = "new" /\ lpc'[l] = "load"
    BY <1>8 DEF LoadBegin, WellFormed, TypeOK
  <2>2. got[l] = {}
    BY <2>1 DEF PlaceInv
  <2>3. ASSUME NEW x \in Needed(f), NEW k \in Loads \ {l} PROVE Kept(k, x)
    BY <1>1, <1>3, <1>4, <2>1
  <2>4. ASSUME NEW x \in Needed(f) PROVE Kept(l, x)
    BY <2>1, <2>2
  <2> QED  BY <1>6, <2>3, <2>4
<1>9. CASE (\E g \in Files : LoadRead(l, g) \/ ApplyPick(l, g)) \/ ApplyLock(l)
  <2>1. /\ UNCHANGED <<disk, buf, got, pending>> /\ lpc[l] \in {"load", "apply"}
        /\ lpc'[l] \in {"load", "apply", "aread"}
    BY <1>9 DEF LoadRead, ApplyPick, ApplyLock, WellFormed, TypeOK
  <2> QED  BY <1>7, <2>1 DEF LoadRunning
<1>10. CASE LoadScan(l)
  <2> DEFINE first == Head(scan[l]).id
  <2>1. /\ UNCHANGED <<disk, buf, at, lpc>> /\ lpc[l] = "load" /\ scan[l] # <<>>
        /\ \/ UNCHANGED <<pending, got>>
           \/ /\ pendingMutex = NoOne
              /\ pending' = [pending EXCEPT ![at[l]] = @ \union {first}]
              /\ got' = [got EXCEPT ![l] = @ \union {first}]
    BY <1>10 DEF LoadScan
  <2>2. CASE UNCHANGED <<pending, got>>
    BY <1>7, <2>1, <2>2 DEF LoadRunning
  <2>3. CASE /\ pendingMutex = NoOne
             /\ pending' = [pending EXCEPT ![at[l]] = @ \union {first}]
             /\ got' = [got EXCEPT ![l] = @ \union {first}]
    <3>1. \A k \in Loads : lpc[k] \notin Inside
      BY <2>3, ConstantsAssumption DEF Locking, OneApplier, LoadRunning
    <3>2. Belongs(at[l], first)
      <4>1. scan[l] \in Seq(Entry)
        BY DEF WellFormed, TypeOK
      <4> QED  BY <2>1, <4>1, ScanTurn DEF PlaceInv, Located
    <3>3. first \in Needed(f) => at[l] = f
      BY <3>2 DEF Needed, Belongs
    <3>4. /\ pending[f] \subseteq pending'[f] /\ (at[l] = f => first \in pending'[f])
          /\ got'[l] = got[l] \union {first}
      <4> HIDE DEF first
      <4> QED  BY <2>3 DEF WellFormed, TypeOK
    <3> HIDE DEF first
    <3>5. ASSUME NEW x \in Needed(f), NEW k \in Loads \ {l} PROVE Kept(k, x)
      BY <1>1, <1>3, <1>4, <2>1, <3>1, <3>4, <3>5
    <3>6. ASSUME NEW x \in Needed(f) PROVE Kept(l, x)
      BY <1>1, <1>3, <1>4, <2>1, <3>3, <3>4, <3>6 DEF LoadRunning
    <3> QED  BY <1>6, <3>5, <3>6
  <2> QED  BY <2>1, <2>2, <2>3
<1>11. CASE LoadReturn(l)
  <2>1. /\ UNCHANGED <<disk, buf, got, pending, at>> /\ lpc[l] = "apply" /\ lpc'[l] = "done"
        /\ pending[f] = {}
    BY <1>11 DEF LoadReturn, WellFormed, TypeOK, RangeInv, LoadRunning
  <2>2. ASSUME NEW x \in Needed(f), NEW k \in Loads PROVE Kept(k, x)
    BY <1>1, <1>3, <1>4, <2>1 DEF LoadRunning
  <2> QED  BY <1>6, <2>2
<1>12. ASSUME lpc[l] \in Inside, at[l] = f
       PROVE  \A d \in Events : ~(spc[d] \in {"open", "write", "index"} /\ currentFile = f)
  BY <1>12 DEF FileOK, StorerInside, ApplierInside
(* l leaves the file it works on.                                          *)
<1>13. ASSUME ApplyNextFile(l), UNCHANGED <<disk, got>>, lpc[l] \in Inside \union {"aread"},
              at[l] \in Files,
              at[l] = f =>
                 /\ \A d \in Events : ~(spc[d] \in {"open", "write", "index"} /\ currentFile = f)
                 /\ \A x \in Needed(f) \intersect pending[f] :
                       disk[f].ok => Flagged(disk[f].evs, x)
       PROVE  AnswerOK(f)'
  <2>1. /\ lpc'[l] = "apply" /\ at'[l] = NoFile /\ NoFile # f
        /\ pending' = [pending EXCEPT ![at[l]] = {}]
    BY <1>13 DEF ApplyNextFile, WellFormed, TypeOK, Files, NoFile
  <2>2. lpc[l] \in LoadRunning \ {"load"} /\ lpc[l] # "done"
    BY <1>13 DEF LoadRunning
  <2>3. \A k \in Loads \ {l} : lpc'[k] \notin Inside
    BY <1>1, <1>5, <2>2
  <2>4. CASE at[l] = f
    <3>1. pending'[f] = {}
      BY <2>1, <2>4 DEF WellFormed, TypeOK
    <3>2. ASSUME NEW x \in Needed(f) \intersect pending[f] PROVE Recorded(f, x)'
      BY <1>1, <1>13, <2>1, <2>3, <2>4, RecordedOnLeaving
    <3>3. ASSUME NEW x \in Needed(f), NEW k \in Loads PROVE Kept(k, x)
      BY <1>1, <1>3, <1>4, <1>13, <2>1, <2>2, <3>1, <3>2 DEF LoadRunning
    <3> QED  BY <1>6, <3>3
  <2>5. CASE at[l] # f
    <3>1. pending'[f] = pending[f]
      BY <2>1, <2>5 DEF WellFormed, TypeOK
    <3>2. ASSUME NEW x \in Needed(f), NEW k \in Loads \ {l} PROVE Kept(k, x)
      BY <1>1, <1>3, <1>4, <1>13, <3>1
    <3>3. ASSUME NEW x \in Needed(f) PROVE Kept(l, x)
      BY <1>3, <1>4, <1>13, <2>1, <2>2, <3>1 DEF LoadRunning
    <3> QED  BY <1>6, <3>2, <3>3
  <2> QED  BY <2>4, <2>5
<1>14. CASE ApplyRead(l)
  <2>1. /\ UNCHANGED <<disk, got>> /\ lpc[l] = "aread" /\ at[l] \in Files
        /\ at[l] = f => ~StorerInside(f)
    BY <1>14 DEF ApplyRead, WellFormed, AtFile
  <2>2. \A d \in Events : at[l] = f => ~(spc[d] \in {"open", "write", "index"} /\ currentFile = f)
    BY <2>1 DEF StorerInside
  <2>3. CASE ApplyNextFile(l) /\ ~(disk[at[l]].ok /\ Ids(disk[at[l]].evs) \intersect pending[at[l]] # {})
    <3>1. ASSUME at[l] = f, disk[f].ok, NEW x \in Needed(f) \intersect pending[f] PROVE FALSE
      BY <2>3, <3>1 DEF FileOK
    <3> QED  BY <1>13, <2>1, <2>2, <2>3, <3>1
  <2>4. CASE /\ disk[at[l]].ok /\ UNCHANGED <<pending, at>>
             /\ buf' = [buf EXCEPT ![l] = Marked(disk[at[l]].evs, pending[at[l]])]
             /\ lpc' = [lpc EXCEPT ![l] = "aopen"]
    <3>1. /\ lpc'[l] = "aopen" /\ buf'[l] = Marked(disk[at[l]].evs, pending[at[l]])
      BY <2>4 DEF WellFormed, TypeOK, Requests
    <3>2. ASSUME at[l] = f, NEW x \in Needed(f) \intersect pending[f] PROVE Flagged(buf'[l], x)
      <4>1. x \in Ids(disk[f].evs) /\ disk[f].evs \in Seq(Entry)
        BY <2>4, <3>2 DEF FileOK, WellFormed, TypeOK, File
      <4> QED  BY <3>1, <3>2, <4>1, MarksTaken
    <3>3. ASSUME NEW x \in Needed(f), NEW k \in Loads \ {l} PROVE Kept(k, x)
      BY <1>1, <1>3, <1>4, <2>1, <2>4
    <3>4. ASSUME NEW x \in Needed(f) PROVE Kept(l, x)
      BY <1>3, <1>4, <2>1, <2>4, <3>1, <3>2 DEF LoadRunning
    <3> QED  BY <1>6, <3>3, <3>4
  <2> QED  BY <1>14, <2>3, <2>4 DEF ApplyRead
<1>15. CASE ApplyOpen(l) \/ ApplyWrite(l)
  <2>1. /\ UNCHANGED <<buf, got, pending, at>> /\ at[l] \in Files
        /\ lpc[l] \in {"aopen", "awrite"}
        /\ \/ lpc'[l] = "awrite"
           \/ lpc'[l] = "aindex" /\ (at[l] = f /\ disk'[f].ok => disk'[f].evs = buf[l])
    BY <1>15 DEF ApplyOpen, ApplyWrite, Overwrite, Json, WellFormed, TypeOK, AtFile
  <2>2. lpc[l] \in LoadRunning \ {"load"} /\ lpc[l] \in Inside
    BY <2>1 DEF LoadRunning
  <2>3. ASSUME NEW x \in Needed(f), NEW k \in Loads \ {l} PROVE Kept(k, x)
    BY <1>1, <1>3, <1>4, <1>5, <2>1, <2>2, <2>3
  <2>4. ASSUME NEW x \in Needed(f) PROVE Kept(l, x)
    BY <1>3, <1>4, <2>1, <2>4 DEF LoadRunning
  <2> QED  BY <1>6, <2>3, <2>4
<1>16. CASE ApplyWriteFails(l)
  <2>1. /\ UNCHANGED <<disk, got>> /\ lpc[l] \in {"aopen", "awrite"} /\ at[l] \in Files
        /\ ApplyNextFile(l)
        /\ lpc[l] = "aopen" => at[l] \in unmarked'
    BY <1>16 DEF ApplyWriteFails, WellFormed, AtFile
  <2>2. at[l] = f => ~disk[f].ok
    BY <2>1 DEF FileOK, Emptied, Absent
  <2> QED  BY <1>12, <1>13, <2>1, <2>2
<1>17. CASE ApplyReindex(l) \/ ApplyPublish(l)
  <2>1. /\ UNCHANGED <<disk, got>> /\ lpc[l] \in {"aindex", "apublish"} /\ at[l] \in Files
    BY <1>17 DEF ApplyReindex, ApplyPublish, WellFormed, AtFile
  <2>2. CASE ApplyNextFile(l)
    <3>1. at[l] = f => \A x \in Needed(f) \intersect pending[f] : disk[f].ok => Flagged(disk[f].evs, x)
      BY <1>4, <2>1
    <3> QED  BY <1>12, <1>13, <2>1, <2>2, <3>1
  <2>3. CASE ~ApplyNextFile(l)
    <3>1. lpc'[l] = "apublish" /\ UNCHANGED <<pending, at, buf>>
      BY <1>17, <2>3 DEF ApplyReindex, ApplyPublish, WellFormed, TypeOK
    <3> QED  BY <1>7, <2>1, <3>1 DEF LoadRunning
  <2> QED  BY <2>2, <2>3
<1> QED  BY <1>8, <1>9, <1>10, <1>11, <1>14, <1>15, <1>16, <1>17 DEF LoadStep

(* A restart drops the marks of the requests it kills, and what was        *)
(* recorded is on disk.                                                    *)
LEMMA AnswerReboot ==
    ASSUME WellFormed, KeptInv, AnswerInv, Reboot
    PROVE  AnswerInv'
<1>1. /\ currentFile' = currentFile + 1 /\ currentFile' \in Files /\ currentFile \in Nat
      /\ UNCHANGED <<overlapped, unmarked, home, got>>
      /\ \A e \in Events : spc'[e] \notin StoreRunning /\ (spc'[e] = "stored" <=> spc[e] = "stored")
      /\ \A l \in Loads : lpc'[l] \notin LoadRunning /\ (lpc'[l] = "done" <=> lpc[l] = "done")
      /\ disk' = [disk EXCEPT ![currentFile + 1] = Json(<<>>)]
      /\ \A f \in Files : pending'[f] = {}
  BY DEF Reboot, WellFormed, TypeOK, Files, StoreRunning, LoadRunning, storeVars, world
<1>2. /\ \A e \in Events : spc'[e] \notin {"open", "write", "index"}
      /\ \A l \in Loads : lpc'[l] \notin {"aopen", "awrite"}
  BY <1>1 DEF StoreRunning, LoadRunning
<1>3. ASSUME NEW f \in Files \ (overlapped \union unmarked), NEW e \in Needed(f)',
             NEW l \in Loads, lpc'[l] = "done", e \in got'[l]
      PROVE  Recorded(f, e)'
  <2>1. spc[e] = "stored" /\ home[e] = f /\ e \in Events
    BY <1>1, <1>2, <1>3 DEF Needed
  <2>2. f <= currentFile /\ e \in Needed(f)
    BY <2>1 DEF KeptInv, HomesOK, Needed
  <2>3. disk'[f] = disk[f]
    BY <1>1, <2>2 DEF WellFormed, TypeOK, Files
  <2>4. Recorded(f, e)
    BY <1>1, <1>3, <2>2 DEF AnswerInv, AnswerOK
  <2> QED  BY <1>2, <2>3, <2>4 DEF Recorded
<1> QED  BY <1>1, <1>3 DEF AnswerInv, AnswerOK

(* Every step keeps answers recorded.                                      *)
LEMMA StepAnswer ==
    WellFormed /\ Locking /\ KeptInv /\ RangeInv /\ PlaceInv /\ AnswerInv /\ [Next]_vars =>
        AnswerInv'
<1> SUFFICES ASSUME WellFormed, Locking, KeptInv, RangeInv, PlaceInv, AnswerInv, [Next]_vars
             PROVE  AnswerInv'
  OBVIOUS
<1>1. ASSUME NEW e \in Events, StoreBegin(e) \/ StoreStep(e) PROVE AnswerInv'
  <2>1. overlapped \subseteq overlapped' /\ unmarked \subseteq unmarked'
    BY <1>1, StorerView, UnmarkedGrows
  <2>2. ASSUME NEW f \in Files \ (overlapped' \union unmarked') PROVE AnswerOK(f)'
    BY <1>1, <2>1, AnswerStorer DEF KeptInv, AnswerInv
  <2> QED  BY <2>2 DEF AnswerInv
<1>2. ASSUME NEW l \in Loads, LoadStep(l) \/ \E q \in Queries : LoadBegin(l, q) PROVE AnswerInv'
  <2>1. overlapped \subseteq overlapped' /\ unmarked \subseteq unmarked'
    BY <1>2, LoaderView, UnmarkedGrows
  <2>2. ASSUME NEW f \in Files \ (overlapped' \union unmarked') PROVE AnswerOK(f)'
    BY <1>2, <2>1, AnswerLoader DEF KeptInv, AnswerInv
  <2> QED  BY <2>2 DEF AnswerInv
<1>3. CASE Tick \/ UNCHANGED vars
  <2>1. UNCHANGED <<disk, memory, storeVars, loadVars, buf, unmarked, overlapped>>
    BY <1>3 DEF Tick, vars, world
  <2> QED  BY <2>1 DEF AnswerInv, AnswerOK, Needed, Recorded, memory, storeVars, loadVars
<1>4. CASE Next
  <2>1. Quiet => UNCHANGED vars
    BY DEF Quiet
  <2> QED  BY <1>1, <1>2, <1>3, <1>4, <2>1, AnswerReboot DEF Next, Internal
<1> QED  BY <1>3, <1>4

(* The answer of GetAlerts is recorded: each alert of it is processed in   *)
(* its file, or in what a writer will put there, for any number of         *)
(* requests, failures and restarts, unless the file was ruined, or could   *)
(* not be opened for its marks, or two read-modify-writes met on it.       *)
THEOREM AnswersRecorded == Spec => []AnsweredIsProcessed
<1>1. WellFormed /\ KeptInv /\ AnswerInv => AnsweredIsProcessed
  <2> SUFFICES ASSUME WellFormed, KeptInv, AnswerInv, NEW l \in Loads, NEW e \in Events,
                      lpc[l] = "done", e \in got[l], spc[e] = "stored",
                      home[e] \notin overlapped \union unmarked, ~Ruined(home[e]),
                      NEW c \in Settled(home[e])
               PROVE  Flagged(c, e)
    BY DEF AnsweredIsProcessed, Flagged
  <2> DEFINE f == home[e]
  <2>1. f \in Files /\ f <= currentFile /\ FileOK(f) /\ e \in Needed(f)
    BY DEF KeptInv, HomesOK, Needed
  <2>2. Recorded(f, e)
    BY <2>1 DEF AnswerInv, AnswerOK
  <2>3. CASE Writing(f) = {}
    <3>1. c = disk[f].evs
      BY <2>3 DEF Settled
    <3>2. disk[f].ok
      BY <2>1, <2>3, Readable
    <3> QED  BY <2>2, <3>1, <3>2 DEF Recorded
  <2>4. CASE Writing(f) # {}
    <3>1. PICK r \in Writing(f) : c = buf[r]
      BY <2>4 DEF Settled
    <3>2. CASE r \in Events /\ spc[r] = "write" /\ currentFile = f
      BY <2>2, <3>1, <3>2 DEF Recorded
    <3>3. CASE r \in Loads /\ lpc[r] = "awrite" /\ at[r] = f
      BY <2>2, <3>1, <3>3 DEF Recorded
    <3> QED  BY <3>1, <3>2, <3>3 DEF Writing
  <2> QED  BY <2>3, <2>4
<1> QED
  BY <1>1, InitWellFormed, StepWellFormed, InitLocking, StepLocking, InitKept, StepKept,
     InitPlace, StepPlace, InitAnswer, StepRange, StepAnswer, PTL DEF Spec

-----------------------------------------------------------------------------
(* Alerts are answered once.                                               *)

Distinct(c) == \A i, j \in DOMAIN c : c[i].id = c[j].id => i = j

(* No document has an alert twice.                                         *)
OnceInv ==
    /\ \A f \in Files : Distinct(disk[f].evs)
    /\ \A d \in Events : spc[d] \in {"open", "write"} => Distinct(buf[d])
    /\ \A l \in Loads : lpc[l] \in {"aopen", "awrite"} => Distinct(buf[l])

(* Neither flags nor a new alert make a document have one twice.           *)
LEMMA DistinctPrepared ==
    ASSUME NEW c \in Seq(Entry), Distinct(c)
    PROVE  /\ \A S : Distinct(Marked(c, S))
           /\ \A e \in Events \ Ids(c) : Distinct(WithAlert(c, e))
<1>1. ASSUME NEW S PROVE Distinct(Marked(c, S))
  BY MarkedType DEF Distinct
<1>2. ASSUME NEW e \in Events \ Ids(c) PROVE Distinct(WithAlert(c, e))
  <2> DEFINE d == WithAlert(c, e)
  <2>1. /\ DOMAIN d = 1..(Len(c) + 1) /\ d[Len(c) + 1].id = e
        /\ \A i \in DOMAIN c : d[i] = c[i]
    <3>1. /\ DOMAIN d = 1..(Len(c) + 1) /\ d[Len(c) + 1] = [id |-> e, processed |-> FALSE]
          /\ \A i \in DOMAIN c : d[i] = c[i]
      BY WithAlertType, Zenon
    <3> HIDE DEF d
    <3> QED  BY <3>1
  <2>2. DOMAIN c = 1..Len(c) /\ Len(c) \in Nat
    BY LenProperties
  <2>3. \A i \in DOMAIN c : c[i].id # e
    BY <1>2 DEF Ids
  <2> HIDE DEF d
  <2>4. ASSUME NEW i \in DOMAIN d, NEW j \in DOMAIN d, d[i].id = d[j].id PROVE i = j
    <3>1. \A k \in DOMAIN d : k \in DOMAIN c \/ k = Len(c) + 1
      BY <2>1, <2>2
    <3>2. CASE i \in DOMAIN c /\ j \in DOMAIN c
      <4>1. c[i].id = c[j].id
        BY <2>1, <2>4, <3>2
      <4> QED  BY <3>2, <4>1 DEF Distinct
    <3>3. CASE i = Len(c) + 1 /\ j \in DOMAIN c
      BY <2>1, <2>3, <2>4, <3>3
    <3>4. CASE j = Len(c) + 1 /\ i \in DOMAIN c
      BY <2>1, <2>3, <2>4, <3>4
    <3> QED  BY <3>1, <3>2, <3>3, <3>4
  <2> QED  BY <2>4 DEF Distinct, d
<1> QED  BY <1>1, <1>2

(* A write leaves what was there, less, or a document of its own.          *)
LEMMA WrittenIsDistinct ==
    ASSUME NEW old \in File, NEW c \in Seq(Entry), Distinct(c)
    PROVE  Distinct(Overwrite(old, c).evs)
<1>1. Distinct(<<>>)
  BY DEF Distinct
<1> QED  BY <1>1 DEF Overwrite, Json

(* No alert has been written yet, so none is in two documents.             *)
LEMMA InitOnce == Init => OnceInv
<1> SUFFICES ASSUME Init PROVE OnceInv
  OBVIOUS
<1>1. Distinct(<<>>)
  BY DEF Distinct
<1>2. /\ \A f \in Files : disk[f].evs = <<>>
      /\ \A e \in Events : spc[e] = "new"
      /\ \A l \in Loads : lpc[l] = "new"
  BY DEF Init, Json, Absent
<1> QED  BY <1>1, <1>2 DEF OnceInv

(* Every step keeps documents without duplicates: a storer adds its alert  *)
(* to a document where it cannot be yet.                                   *)
LEMMA StepOnce == WellFormed /\ PlaceInv /\ OnceInv /\ [Next]_vars => OnceInv'
<1> SUFFICES ASSUME WellFormed, PlaceInv, OnceInv, [Next]_vars PROVE OnceInv'
  OBVIOUS
<1> USE DEF memory, storeVars, loadVars, world
<1>0. /\ Distinct(<<>>)
      /\ \A f \in Files : disk[f] \in File /\ disk[f].evs \in Seq(Entry)
      /\ \A r \in Requests : buf[r] \in Seq(Entry)
      /\ currentFile \in Files
  BY DEF Distinct, WellFormed, TypeOK, File
<1>1. ASSUME NEW e \in Events, StoreBegin(e) \/ StoreStep(e) PROVE OnceInv'
  <2>1. /\ UNCHANGED <<currentFile, lpc, at>>
        /\ \A d \in Events \ {e} : spc'[d] = spc[d] /\ buf'[d] = buf[d]
        /\ \A l \in Loads : buf'[l] = buf[l]
        /\ \A g \in Files \ {currentFile} : disk'[g] = disk[g]
    BY <1>1, StorerView, ConstantsAssumption DEF Requests
  <2>2. ASSUME Distinct(disk'[currentFile].evs), spc'[e] \in {"open", "write"} => Distinct(buf'[e])
        PROVE  OnceInv'
    BY <2>1, <2>2 DEF OnceInv
  <2>3. CASE StoreBegin(e) \/ StoreLock(e) \/ StoreWriteFails(e) \/ StoreIndex(e)
    <3>1. disk' = disk /\ spc'[e] \notin {"open", "write"}
      BY <2>3 DEF StoreBegin, StoreLock, StoreWriteFails, StoreFail, StoreIndex, WellFormed, TypeOK
    <3> QED  BY <1>0, <2>2, <3>1 DEF OnceInv
  <2>4. CASE StoreRead(e)
    <3> DEFINE c == disk[currentFile].evs
    <3>1. /\ disk' = disk
          /\ spc'[e] \in {"open", "write"} => buf'[e] = WithAlert(c, e)
          /\ spc[e] = "read"
      BY <2>4 DEF StoreRead, StoreFail, Requests, WellFormed, TypeOK
    <3>2. e \notin Ids(c)
      BY <1>0, <3>1 DEF PlaceInv, Located, Belongs, Written
    <3>3. Distinct(WithAlert(c, e))
      BY <1>0, <3>2, DistinctPrepared DEF OnceInv
    <3> QED  BY <1>0, <2>2, <3>1, <3>3 DEF OnceInv
  <2>5. CASE StoreOpen(e)
    <3>1. disk'[currentFile].evs = <<>> /\ spc[e] = "open" /\ buf' = buf
      BY <1>0, <2>5 DEF StoreOpen, Emptied, Absent, WellFormed, TypeOK
    <3> QED  BY <1>0, <2>2, <3>1 DEF OnceInv
  <2>6. CASE StoreWrite(e)
    <3>1. /\ disk'[currentFile] = Overwrite(disk[currentFile], buf[e])
          /\ spc[e] = "write" /\ spc'[e] = "index"
      BY <1>0, <2>6 DEF StoreWrite, WellFormed, TypeOK
    <3>2. Distinct(buf[e]) /\ buf[e] \in Seq(Entry)
      BY <1>0, <3>1 DEF OnceInv, Requests
    <3> QED  BY <1>0, <2>2, <3>1, <3>2, WrittenIsDistinct
  <2> QED  BY <1>1, <2>3, <2>4, <2>5, <2>6 DEF StoreStep
<1>2. ASSUME NEW l \in Loads, LoadStep(l) \/ \E q \in Queries : LoadBegin(l, q) PROVE OnceInv'
  <2>1. /\ UNCHANGED <<currentFile, spc>>
        /\ \A k \in Loads \ {l} : lpc'[k] = lpc[k] /\ buf'[k] = buf[k]
        /\ \A d \in Events : buf'[d] = buf[d]
        /\ \A g \in Files \ {at[l]} : disk'[g] = disk[g]
    BY <1>2, LoaderView, ConstantsAssumption DEF Requests
  <2>2. ASSUME at[l] \in Files => Distinct(disk'[at[l]].evs),
               lpc'[l] \in {"aopen", "awrite"} => Distinct(buf'[l])
        PROVE  OnceInv'
    BY <2>1, <2>2 DEF OnceInv
  <2>3. CASE (\E f \in Files : LoadRead(l, f) \/ ApplyPick(l, f)) \/ LoadScan(l) \/ ApplyLock(l)
             \/ LoadReturn(l) \/ \E q \in Queries : LoadBegin(l, q)
    <3>1. disk' = disk /\ lpc'[l] \notin {"aopen", "awrite"}
      BY <2>3 DEF LoadRead, ApplyPick, LoadScan, ApplyLock, LoadReturn, LoadBegin, WellFormed, TypeOK
    <3> QED  BY <2>2, <3>1 DEF OnceInv
  <2>4. CASE ApplyRead(l)
    <3> DEFINE c == disk[at[l]].evs
    <3>1. /\ disk' = disk /\ at[l] \in Files
          /\ lpc'[l] \in {"aopen", "awrite"} => buf'[l] = Marked(c, pending[at[l]])
      BY <2>4 DEF ApplyRead, ApplyNextFile, Requests, WellFormed, TypeOK, AtFile
    <3>2. Distinct(Marked(c, pending[at[l]]))
      BY <1>0, <3>1, DistinctPrepared DEF OnceInv
    <3> QED  BY <2>2, <3>1, <3>2 DEF OnceInv
  <2>5. CASE ApplyOpen(l)
    <3>1. /\ at[l] \in Files => disk'[at[l]].evs = <<>>
          /\ lpc[l] = "aopen" /\ buf' = buf
      BY <1>0, <2>5 DEF ApplyOpen, Emptied, Absent, WellFormed, TypeOK
    <3> QED  BY <1>0, <2>2, <3>1 DEF OnceInv
  <2>6. CASE ApplyWrite(l)
    <3>1. /\ at[l] \in Files /\ disk'[at[l]] = Overwrite(disk[at[l]], buf[l])
          /\ lpc[l] = "awrite" /\ lpc'[l] = "aindex"
      BY <2>6 DEF ApplyWrite, WellFormed, TypeOK, AtFile
    <3>2. Distinct(buf[l]) /\ buf[l] \in Seq(Entry)
      BY <1>0, <3>1 DEF OnceInv, Requests
    <3> QED  BY <1>0, <2>2, <3>1, <3>2, WrittenIsDistinct
  <2>7. CASE ApplyWriteFails(l) \/ ApplyReindex(l) \/ ApplyPublish(l)
    <3>1. disk' = disk /\ lpc'[l] \notin {"aopen", "awrite"}
      BY <2>7 DEF ApplyWriteFails, ApplyReindex, ApplyPublish, ApplyNextFile, WellFormed, TypeOK
    <3> QED  BY <2>2, <3>1 DEF OnceInv
  <2> QED  BY <1>2, <2>3, <2>4, <2>5, <2>6, <2>7 DEF LoadStep
<1>3. CASE Reboot
  <2>1. /\ currentFile + 1 \in Files /\ disk' = [disk EXCEPT ![currentFile + 1] = Json(<<>>)]
        /\ \A r \in Requests : buf'[r] = <<>>
    BY <1>3 DEF Reboot
  <2>2. Json(<<>>).evs = <<>>
    BY DEF Json
  <2>3. \A f \in Files : Distinct(disk'[f].evs)
    BY <1>0, <2>1, <2>2 DEF OnceInv, WellFormed, TypeOK
  <2> QED  BY <1>0, <2>1, <2>3 DEF OnceInv, Requests
<1>4. CASE Tick \/ UNCHANGED vars
  <2>1. UNCHANGED <<disk, spc, lpc, buf>>
    BY <1>4 DEF Tick, vars
  <2> QED  BY <2>1 DEF OnceInv
<1>5. CASE Next
  <2>1. Quiet => UNCHANGED vars
    BY DEF Quiet
  <2> QED  BY <1>1, <1>2, <1>3, <1>4, <1>5, <2>1 DEF Next, Internal
<1> QED  BY <1>4, <1>5

(* A step by which a request gets to see an alert as unprocessed is a read *)
(* of its file, and the file has no unprocessed entry for an answered one. *)
LEMMA ReadsNothingAnswered ==
    ASSUME WellFormed, PlaceInv, AnswerInv, NothingUnreadable, OnceInv, [Next]_vars,
           NEW l \in Loads, NEW e \in Unprocessed(scan'[l]) \ Unprocessed(scan[l])
    PROVE  ~Answered(e)
<1> USE DEF memory, storeVars, loadVars, world
<1>1. CASE UNCHANGED scan \/ scan'[l] = scan[l] \/ scan'[l] = <<>>
  <2>1. Unprocessed(<<>>) = {}
    BY DEF Unprocessed
  <2> QED  BY <1>1, <2>1
<1>2. ASSUME LoadScan(l) PROVE FALSE
  <2>1. /\ scan[l] \in Seq(Entry) /\ scan[l] # <<>> /\ scan'[l] = Tail(scan[l])
    BY <1>2 DEF LoadScan, WellFormed, TypeOK
  <2>2. /\ DOMAIN scan[l] = 1..Len(scan[l]) /\ Len(scan[l]) \in Nat
        /\ DOMAIN Tail(scan[l]) = 1..(Len(scan[l]) - 1)
        /\ \A j \in 1..(Len(scan[l]) - 1) : Tail(scan[l])[j] = scan[l][j + 1]
    BY <2>1, HeadTailProperties, EmptySeq, LenProperties
  <2>3. PICK j \in DOMAIN Tail(scan[l]) : ~Tail(scan[l])[j].processed /\ Tail(scan[l])[j].id = e
    BY <2>1 DEF Unprocessed
  <2>4. j + 1 \in DOMAIN scan[l] /\ ~scan[l][j + 1].processed /\ scan[l][j + 1].id = e
    BY <2>2, <2>3
  <2> QED  BY <2>4 DEF Unprocessed
<1>3. ASSUME NEW f \in Files, LoadRead(l, f), Answered(e) PROVE FALSE
  <2> DEFINE c == disk[f].evs
  <2>1. scan'[l] = c /\ c \in Seq(Entry) /\ disk[f] \in File
    BY <1>3 DEF LoadRead, WellFormed, TypeOK, File
  <2>2. PICK i \in DOMAIN c : ~c[i].processed /\ c[i].id = e
    BY <2>1 DEF Unprocessed
  <2>3. disk[f].ok
    <3>1. DOMAIN c # {}
      BY <2>2
    <3>2. c # <<>>
      BY <3>1
    <3> QED  BY <3>2 DEF NothingUnreadable
  <2>4. e \in Events /\ spc[e] = "stored" /\ home[e] = f
        /\ f \notin overlapped \union unmarked
    <3>1. e \in Events
      BY <2>1, <2>2, IdsAreEvents
    <3>2. Belongs(f, e)
      BY <2>2 DEF PlaceInv, Located, Ids
    <3> QED  BY <1>3, <3>1, <3>2 DEF Answered, Belongs
  <2>5. e \in Needed(f)
    BY <2>4 DEF Needed
  <2>6. Flagged(c, e)
    BY <1>3, <2>3, <2>4, <2>5 DEF Answered, AnswerInv, AnswerOK, Recorded
  <2>7. PICK j \in DOMAIN c : c[j].id = e /\ c[j].processed
    BY <2>6 DEF Flagged
  <2>8. i = j
    BY <2>2, <2>7 DEF OnceInv, Distinct
  <2> QED  BY <2>2, <2>7, <2>8
<1>4. ASSUME NEW d \in Events, StoreBegin(d) \/ StoreStep(d) PROVE UNCHANGED scan
  BY <1>4 DEF StoreBegin, StoreStep, StoreLock, StoreRead, StoreOpen, StoreWrite,
              StoreWriteFails, StoreIndex
<1>5. ASSUME NEW k \in Loads, LoadStep(k) \/ \E q \in Queries : LoadBegin(k, q),
             ~LoadScan(l), ~\E f \in Files : LoadRead(l, f)
      PROVE  UNCHANGED scan \/ scan'[l] = scan[l]
  <2>1. CASE \E q \in Queries : LoadBegin(k, q)
    BY <2>1 DEF LoadBegin
  <2>2. CASE \E f \in Files : LoadRead(k, f)
    BY <1>5, <2>2 DEF LoadRead, WellFormed, TypeOK
  <2>3. CASE LoadScan(k)
    BY <1>5, <2>3 DEF LoadScan, WellFormed, TypeOK
  <2>4. CASE ApplyLock(k) \/ LoadReturn(k) \/ ApplyRead(k) \/ ApplyOpen(k) \/ ApplyWrite(k)
             \/ ApplyWriteFails(k) \/ ApplyReindex(k) \/ ApplyPublish(k)
             \/ \E f \in Files : ApplyPick(k, f)
    BY <2>4 DEF ApplyLock, LoadReturn, ApplyRead, ApplyOpen, ApplyWrite,
                ApplyWriteFails, ApplyReindex, ApplyPublish, ApplyPick
  <2> QED  BY <1>5, <2>1, <2>2, <2>3, <2>4 DEF LoadStep
<1>6. Reboot => scan'[l] = <<>>
  BY DEF Reboot
<1>7. Tick \/ Quiet \/ UNCHANGED vars => UNCHANGED scan
  BY DEF Tick, Quiet, vars
<1> QED  BY <1>1, <1>2, <1>3, <1>4, <1>5, <1>6, <1>7 DEF Next, Internal

(* An alert is answered once: when an answer with it has been given, no    *)
(* request reads it as unprocessed again, whatever appliers, storers,      *)
(* failed writes and restarts do in between, unless two read-modify-writes *)
(* met on its file or the file could not be opened for its marks.          *)
THEOREM NeverAnsweredAgain == Spec => AnsweredOnce
<1>1. WellFormed /\ PlaceInv /\ AnswerInv /\ NothingUnreadable /\ OnceInv /\ [Next]_vars =>
          [\A l \in Loads : \A e \in Unprocessed(scan'[l]) \ Unprocessed(scan[l]) : ~Answered(e)]_vars
  BY ReadsNothingAnswered
<1> QED
  BY <1>1, InitWellFormed, StepWellFormed, InitLocking, StepLocking, InitKept, StepKept,
     UnreadableStep, InitPlace, StepPlace, InitAnswer, StepRange, StepAnswer, InitOnce, StepOnce, PTL
     DEF Spec, AnsweredOnce

-----------------------------------------------------------------------------
(* Answers are complete.                                                   *)

Shown(l, e) == e \in got[l] \/ (filter[l].unprocessed /\ e \in Seen)

(* l has e still before it: in a file it will read, or in the scan.        *)
ToCome(l, e) ==
    /\ lpc[l] = "load"
    /\ \/ home[e] \in todo[l]
       \/ \E i \in DOMAIN scan[l] : scan[l][i].id = e /\ Matches(scan[l][i], filter[l])

DueOK(l, e) ==
    /\ spc[e] = "stored"
    /\ /\ home[e] \notin overlapped /\ Covers(filter[l], e)
       /\ lpc[l] \in LoadRunning \union {"done"}
       => Shown(l, e) \/ ToCome(l, e)

DueInv == \A l \in Loads : \A e \in due[l] : DueOK(l, e)

(* An acknowledged alert is not looked at again by its storer.             *)
LEMMA StoredStays ==
    ASSUME WellFormed, [Next]_vars, NEW e \in Events, spc[e] = "stored"
    PROVE  spc'[e] = "stored" /\ home'[e] = home[e] /\ ts'[e] = ts[e]
<1> USE DEF memory, storeVars, loadVars, world
<1>1. ASSUME NEW d \in Events, StoreBegin(d) \/ StoreStep(d)
      PROVE  spc'[e] = "stored" /\ home'[e] = home[e] /\ ts'[e] = ts[e]
  <2>1. d # e /\ (ts' = ts \/ ts' = [ts EXCEPT ![d] = now])
    BY <1>1 DEF StoreBegin, StoreStep, StoreLock, StoreRead, StoreOpen, StoreWrite,
                StoreWriteFails, StoreIndex
  <2>2. spc'[e] = spc[e] /\ home'[e] = home[e]
    BY <1>1, <2>1, StorerView
  <2> QED  BY <2>1, <2>2 DEF WellFormed, TypeOK
<1>2. ASSUME NEW l \in Loads, LoadStep(l) \/ \E q \in Queries : LoadBegin(l, q)
      PROVE  UNCHANGED <<spc, home, ts>>
  <2>1. CASE \E q \in Queries : LoadBegin(l, q)
    BY <2>1 DEF LoadBegin
  <2>2. CASE LoadStep(l)
    BY <2>2 DEF LoadStep, LoadRead, ApplyPick, LoadScan, ApplyLock, LoadReturn, ApplyRead,
                ApplyOpen, ApplyWrite, ApplyWriteFails, ApplyReindex, ApplyPublish
  <2> QED  BY <1>2, <2>1, <2>2
<1>3. CASE Reboot
  BY <1>3 DEF Reboot, StoreRunning, WellFormed, TypeOK
<1>4. CASE Tick \/ UNCHANGED vars
  BY <1>4 DEF Tick, vars
<1>5. CASE Next
  <2>1. Quiet => UNCHANGED vars
    BY DEF Quiet
  <2> QED  BY <1>1, <1>2, <1>3, <1>4, <1>5, <2>1 DEF Next, Internal
<1> QED  BY <1>4, <1>5

(* A step that leaves a request where it is leaves it what it has to find. *)
LEMMA DueKept ==
    ASSUME WellFormed, [Next]_vars, NEW l \in Loads, NEW e \in Events, DueOK(l, e),
           UNCHANGED <<lpc[l], filter[l], todo[l], scan[l]>>, got[l] \subseteq got'[l],
           overlapped \subseteq overlapped'
    PROVE  DueOK(l, e)'
<1>1. spc[e] = "stored" /\ spc'[e] = "stored" /\ home'[e] = home[e] /\ ts'[e] = ts[e]
  BY StoredStays DEF DueOK
<1>2. Seen \subseteq Seen'
  BY SeenGrows
<1>3. Covers(filter[l], e)' <=> Covers(filter[l], e)
  BY <1>1 DEF Covers
<1>4. Shown(l, e) => Shown(l, e)'
  BY <1>2 DEF Shown
<1>5. ToCome(l, e) => ToCome(l, e)'
  <2>1. ASSUME NEW i \in DOMAIN scan[l], scan[l][i].id = e, Matches(scan[l][i], filter[l])
        PROVE  Matches(scan[l][i], filter[l])'
    BY <1>1, <2>1 DEF Matches
  <2> QED  BY <1>1, <2>1 DEF ToCome
<1> QED  BY <1>1, <1>3, <1>4, <1>5 DEF DueOK

(* An alert a new request has to find is in a file it is going to read,    *)
(* or somebody has had it.                                                 *)
LEMMA DueIsCandidate ==
    ASSUME WellFormed, KeptInv, FlagInv, IndexInv, NEW q \in Filter,
           NEW e \in Events, spc[e] = "stored", home[e] \notin overlapped, ~Ruined(home[e]),
           Covers(q, e)
    PROVE  Candidate(home[e], q) \/ (q.unprocessed /\ e \in Seen)
<1> DEFINE f == home[e]
           idx == fileIndexes[f]
<1>1. f \in Files /\ f <= currentFile /\ FileOK(f) /\ IndexOK(f) /\ e \in Needed(f)
  BY DEF KeptInv, HomesOK, IndexInv, Needed
<1>2. ASSUME NEW c \in Seq(Entry), e \in Ids(c), Admits(f, idx, c), FlagsSeen(c)
      PROVE  Candidate(f, q) \/ (q.unprocessed /\ e \in Seen)
  <2>1. PICK i \in DOMAIN c : c[i].id = e
    BY <1>2 DEF Ids
  <2>2. /\ idx # NoIndex /\ idx.min <= ts[e] /\ ts[e] <= idx.max
        /\ ~c[i].processed => ~idx.allProcessed
    BY <1>2, <2>1 DEF Admits
  <2>3. c[i].processed => e \in Seen
    BY <1>2, <2>1 DEF FlagsSeen
  <2>4. /\ ts[e] \in Nat /\ q.start \in Nat /\ q.end \in Nat
        /\ idx.min \in Nat /\ idx.max \in Nat
    BY <1>1, <2>2, ConstantsAssumption, QueriesAssumption DEF WellFormed, TypeOK, Filter, Index
  <2>5. idx.max >= q.start /\ idx.min <= q.end /\ Info >= q.minSeverity
    <3>1. q.minSeverity \in Nat /\ Info \in Nat
      BY DEF Filter, Severity, Info
    <3> QED  BY <2>2, <2>4, <3>1 DEF Covers
  <2> QED  BY <2>2, <2>3, <2>5 DEF Candidate
<1>3. CASE Writing(f) = {}
  <2>1. disk[f].ok
    BY <1>1, <1>3, Readable
  <2>2. /\ e \in Ids(disk[f].evs) /\ Admits(f, idx, disk[f].evs) /\ FlagsSeen(disk[f].evs)
        /\ disk[f].evs \in Seq(Entry)
    BY <1>1, <2>1 DEF FileOK, IndexOK, FlagInv, WellFormed, TypeOK, File
  <2> QED  BY <1>2, <2>2
<1>4. CASE Writing(f) # {}
  <2>1. PICK r \in Writing(f) : TRUE
    BY <1>4
  <2>2. r \in Requests /\ buf[r] \in Seq(Entry) /\ FlagsSeen(buf[r])
    BY <2>1 DEF Writing, Requests, FlagInv, WellFormed, TypeOK
  <2>3. CASE r \in Events /\ spc[r] = "write" /\ currentFile = f
    BY <1>1, <1>2, <2>2, <2>3 DEF FileOK, IndexOK
  <2>4. CASE r \in Loads /\ lpc[r] = "awrite" /\ at[r] = f
    BY <1>1, <1>2, <2>2, <2>4 DEF FileOK, IndexOK
  <2> QED  BY <2>1, <2>3, <2>4 DEF Writing
<1> QED  BY <1>3, <1>4

(* The steps of a request itself.                                          *)
LEMMA DueLoader ==
    ASSUME WellFormed, KeptInv, FlagInv, IndexInv, DueInv, [Next]_vars, NEW l \in Loads,
           LoadStep(l) \/ \E q \in Queries : LoadBegin(l, q),
           NEW e \in due'[l]
    PROVE  DueOK(l, e)'
<1> USE DEF memory, storeVars, loadVars, world
<1>1. UNCHANGED <<spc, home>> /\ overlapped \subseteq overlapped'
  BY LoaderView
<1>2. ASSUME NEW q \in Queries, LoadBegin(l, q) PROVE DueOK(l, e)'
  <2> DEFINE r == Resolved(q)
  <2>1. /\ lpc'[l] = "load" /\ filter'[l] = r /\ todo'[l] = {f \in Files : Candidate(f, r)}
        /\ UNCHANGED <<got, ts, overlapped>>
        /\ e \in Events /\ spc[e] = "stored" /\ ~Ruined(home[e])
    BY <1>2 DEF LoadBegin, WellFormed, TypeOK
  <2>2. r \in Filter
    <3>1. q \in Filter /\ now \in 0..MaxTime
      BY QueriesAssumption DEF WellFormed, TypeOK
    <3> QED  BY <3>1 DEF Resolved, Filter
  <2> HIDE DEF r
  <2>3. ASSUME home[e] \notin overlapped, Covers(r, e)
        PROVE  home[e] \in todo'[l] \/ (r.unprocessed /\ e \in Seen)
    <3>1. home[e] \in Files
      BY <2>1 DEF KeptInv, HomesOK
    <3> QED  BY <2>1, <2>2, <2>3, <3>1, DueIsCandidate
  <2>4. Seen' = Seen /\ (Covers(filter[l], e)' <=> Covers(r, e))
    <3>1. Seen' = Seen
      BY <2>1 DEF Seen
    <3>2. filter'[l] = r /\ ts' = ts
      BY <2>1
    <3> QED  BY <3>1, <3>2 DEF Covers
  <2> QED  BY <1>1, <2>1, <2>3, <2>4 DEF DueOK, Shown, ToCome
<1>3. ASSUME NEW f \in Files, LoadRead(l, f) PROVE DueOK(l, e)'
  <2>1. /\ lpc[l] = "load" /\ scan[l] = <<>> /\ scan'[l] = disk[f].evs
        /\ todo'[l] = todo[l] \ {f}
        /\ UNCHANGED <<lpc, filter, got, ts, overlapped>>
        /\ e \in due[l] /\ (disk[f].ok \/ home[e] # f)
    BY <1>3 DEF LoadRead, WellFormed, TypeOK
  <2>2. e \in Events /\ DueOK(l, e)
    BY <2>1 DEF DueInv, WellFormed, TypeOK
  <2>3. Seen' = Seen /\ (Covers(filter[l], e)' <=> Covers(filter[l], e))
    BY <2>1 DEF Seen, Covers
  <2>4. CASE Shown(l, e)
    BY <1>1, <2>1, <2>2, <2>3, <2>4 DEF DueOK, Shown
  <2>5. CASE home[e] \in todo[l] /\ home[e] # f
    BY <1>1, <2>1, <2>2, <2>5 DEF DueOK, ToCome
  <2>6. CASE home[e] = f
    <3> SUFFICES ASSUME home[e] \notin overlapped, Covers(filter[l], e)
                 PROVE  Shown(l, e)' \/ ToCome(l, e)'
      BY <1>1, <2>1, <2>2, <2>3 DEF DueOK
    <3>1. FileOK(f) /\ e \in Needed(f) /\ disk[f].ok
      BY <2>1, <2>2, <2>6 DEF KeptInv, DueOK, Needed
    <3>2. PICK i \in DOMAIN disk[f].evs : disk[f].evs[i].id = e
      BY <3>1 DEF FileOK, Ids
    <3>3. CASE Matches(disk[f].evs[i], filter[l])
      <4>1. scan'[l][i].id = e /\ Matches(scan[l][i], filter[l])'
        BY <2>1, <3>2, <3>3 DEF Matches
      <4> QED  BY <2>1, <3>2, <4>1 DEF ToCome
    <3>4. CASE ~Matches(disk[f].evs[i], filter[l])
      <4>1. filter[l].unprocessed /\ disk[f].evs[i].processed
        BY <3>2, <3>4 DEF Matches, Covers, WellFormed, TypeOK, Filter, Severity, Info
      <4>2. e \in Seen
        BY <3>2, <4>1 DEF FlagInv, FlagsSeen
      <4> QED  BY <2>1, <2>3, <4>1, <4>2 DEF Shown
    <3> QED  BY <3>3, <3>4
  <2>7. CASE ~Shown(l, e) /\ home[e] \notin todo[l] /\ home[e] # f
    <3>1. ~ToCome(l, e)
      <4>1. DOMAIN scan[l] = {}
        BY <2>1
      <4> QED  BY <2>7, <4>1 DEF ToCome
    <3> QED  BY <1>1, <2>1, <2>2, <2>3, <2>7, <3>1 DEF DueOK
  <2> QED  BY <2>4, <2>5, <2>6, <2>7
<1>4. ASSUME LoadScan(l) PROVE DueOK(l, e)'
  <2>1. /\ lpc[l] = "load" /\ scan[l] # <<>> /\ scan'[l] = Tail(scan[l])
        /\ UNCHANGED <<lpc, filter, todo, ts, due, overlapped>>
        /\ scan[l] \in Seq(Entry)
        /\ Matches(Head(scan[l]), filter[l]) => got'[l] = got[l] \union {Head(scan[l]).id}
    BY <1>4 DEF LoadScan, WellFormed, TypeOK
  <2>2. e \in Events /\ DueOK(l, e)
    BY <2>1 DEF DueInv, WellFormed, TypeOK
  <2>3. /\ Seen \subseteq Seen' /\ got[l] \subseteq got'[l]
        /\ Covers(filter[l], e)' <=> Covers(filter[l], e)
    <3>1. got' = got \/ got' = [got EXCEPT ![l] = @ \union {Head(scan[l]).id}]
      BY <1>4 DEF LoadScan
    <3>2. got[l] \subseteq got'[l]
      BY <3>1 DEF WellFormed, TypeOK
    <3>3. Covers(filter[l], e)' <=> Covers(filter[l], e)
      BY <2>1 DEF Covers
    <3> QED  BY <3>2, <3>3, SeenGrows
  <2>4. CASE Shown(l, e)
    BY <1>1, <2>1, <2>2, <2>3, <2>4 DEF DueOK, Shown
  <2>5. CASE home[e] \in todo[l]
    BY <1>1, <2>1, <2>2, <2>3, <2>5 DEF DueOK, ToCome
  <2>6. ASSUME NEW i \in DOMAIN scan[l], scan[l][i].id = e, Matches(scan[l][i], filter[l])
        PROVE  DueOK(l, e)'
    <3>1. /\ Head(scan[l]) = scan[l][1] /\ DOMAIN scan[l] = 1..Len(scan[l])
          /\ Len(scan[l]) \in Nat
          /\ DOMAIN Tail(scan[l]) = 1..(Len(scan[l]) - 1)
          /\ \A j \in 1..(Len(scan[l]) - 1) : Tail(scan[l])[j] = scan[l][j + 1]
      BY <2>1, HeadTailProperties, EmptySeq, LenProperties
    <3>2. CASE i = 1
      <4>1. e \in got'[l]
        BY <2>1, <2>6, <3>1, <3>2
      <4> QED  BY <1>1, <2>2, <4>1 DEF DueOK, Shown
    <3>3. CASE i # 1
      <4>1. i - 1 \in DOMAIN scan'[l] /\ scan'[l][i - 1] = scan[l][i]
        BY <2>1, <3>1, <3>3
      <4>2. \A x \in {scan[l][i]} : x.id = e /\ ts'[x.id] >= filter'[l].start
               /\ ts'[x.id] <= filter'[l].end /\ Info >= filter'[l].minSeverity
               /\ ~(filter'[l].unprocessed /\ x.processed)
        BY <2>1, <2>6 DEF Matches
      <4>3. \E j \in DOMAIN scan'[l] : scan'[l][j].id = e /\ ts'[scan'[l][j].id] >= filter'[l].start
               /\ ts'[scan'[l][j].id] <= filter'[l].end /\ Info >= filter'[l].minSeverity
               /\ ~(filter'[l].unprocessed /\ scan'[l][j].processed)
        BY <4>1, <4>2
      <4>4. ToCome(l, e)'
        BY <2>1, <4>3 DEF ToCome, Matches
      <4> QED  BY <1>1, <2>2, <4>4 DEF DueOK
    <3> QED  BY <3>2, <3>3
  <2>7. CASE ~Shown(l, e) /\ ~ToCome(l, e)
    BY <1>1, <2>1, <2>2, <2>3, <2>7 DEF DueOK
  <2> QED  BY <2>1, <2>4, <2>5, <2>6, <2>7 DEF ToCome
<1>5. ASSUME \/ ApplyLock(l) \/ LoadReturn(l) \/ ApplyRead(l) \/ ApplyOpen(l) \/ ApplyWrite(l)
             \/ ApplyWriteFails(l) \/ ApplyReindex(l) \/ ApplyPublish(l)
             \/ \E f \in Files : ApplyPick(l, f)
      PROVE  DueOK(l, e)'
  <2>1. /\ UNCHANGED <<filter, got, ts, due>>
        /\ lpc[l] \in LoadRunning
        /\ lpc[l] = "load" => scan[l] = <<>> /\ todo[l] = {}
    BY <1>5 DEF LoadRunning, ApplyLock, LoadReturn, ApplyRead, ApplyOpen, ApplyWrite,
                ApplyWriteFails, ApplyReindex, ApplyPublish, ApplyPick
  <2>2. e \in Events /\ DueOK(l, e)
    BY <2>1 DEF DueInv, WellFormed, TypeOK
  <2>3. Seen' = Seen /\ (Covers(filter[l], e)' <=> Covers(filter[l], e))
    BY <2>1 DEF Seen, Covers
  <2>4. ~ToCome(l, e)
    <3>1. lpc[l] = "load" => DOMAIN scan[l] = {}
      BY <2>1
    <3> QED  BY <2>1, <3>1 DEF ToCome
  <2> QED  BY <1>1, <2>1, <2>2, <2>3, <2>4 DEF DueOK, Shown
<1> QED  BY <1>2, <1>3, <1>4, <1>5 DEF LoadStep

(* Every step leaves every request what it has to find.                    *)
LEMMA StepDue ==
    WellFormed /\ KeptInv /\ FlagInv /\ IndexInv /\ DueInv /\ [Next]_vars => DueInv'
<1> SUFFICES ASSUME WellFormed, KeptInv, FlagInv, IndexInv, DueInv, [Next]_vars,
                    NEW k \in Loads, NEW e \in due'[k]
             PROVE  DueOK(k, e)'
  BY DEF DueInv
<1> USE DEF memory, storeVars, loadVars, world
<1>0. ASSUME UNCHANGED <<lpc[k], filter[k], todo[k], scan[k], due[k]>>, got[k] \subseteq got'[k],
             overlapped \subseteq overlapped'
      PROVE  DueOK(k, e)'
  <2>1. e \in Events /\ DueOK(k, e)
    BY <1>0 DEF DueInv, WellFormed, TypeOK
  <2> QED  BY <1>0, <2>1, DueKept
<1>1. ASSUME NEW d \in Events, StoreBegin(d) \/ StoreStep(d) PROVE DueOK(k, e)'
  <2>1. UNCHANGED <<lpc, filter, todo, scan, due, got>> /\ overlapped \subseteq overlapped'
    <3>1. UNCHANGED loadVars
      BY <1>1 DEF StoreBegin, StoreStep, StoreLock, StoreRead, StoreOpen, StoreWrite,
                  StoreWriteFails, StoreIndex
    <3> QED  BY <1>1, <3>1, StorerView
  <2> QED  BY <1>0, <2>1
<1>2. ASSUME NEW l \in Loads, LoadStep(l) \/ \E q \in Queries : LoadBegin(l, q)
      PROVE  DueOK(k, e)'
  <2>1. CASE k = l
    BY <1>2, <2>1, DueLoader
  <2>2. CASE k # l
    <3>1. /\ UNCHANGED <<lpc[k], filter[k], todo[k], scan[k], due[k]>>
          /\ got[k] \subseteq got'[k]
      <4>1. CASE \E q \in Queries : LoadBegin(l, q)
        BY <2>2, <4>1 DEF LoadBegin, WellFormed, TypeOK
      <4>2. CASE \E f \in Files : LoadRead(l, f)
        BY <2>2, <4>2 DEF LoadRead, WellFormed, TypeOK
      <4>3. CASE LoadScan(l)
        BY <2>2, <4>3 DEF LoadScan, WellFormed, TypeOK
      <4>4. CASE ApplyLock(l) \/ LoadReturn(l) \/ \E f \in Files : ApplyPick(l, f)
        BY <2>2, <4>4 DEF ApplyLock, LoadReturn, ApplyPick, WellFormed, TypeOK
      <4>5. CASE ApplyRead(l) \/ ApplyOpen(l) \/ ApplyWrite(l)
        BY <2>2, <4>5 DEF ApplyRead, ApplyOpen, ApplyWrite, ApplyNextFile, WellFormed, TypeOK
      <4>6. CASE ApplyWriteFails(l) \/ ApplyReindex(l) \/ ApplyPublish(l)
        BY <2>2, <4>6 DEF ApplyWriteFails, ApplyReindex, ApplyPublish, ApplyNextFile, WellFormed, TypeOK
      <4> QED  BY <1>2, <4>1, <4>2, <4>3, <4>4, <4>5, <4>6 DEF LoadStep
    <3> QED  BY <1>0, <1>2, <3>1, LoaderView
  <2> QED  BY <2>1, <2>2
<1>3. CASE Reboot
  <2>1. /\ UNCHANGED <<filter, got, due, ts, home, overlapped>>
        /\ lpc'[k] \notin LoadRunning /\ (lpc'[k] = "done" <=> lpc[k] = "done")
    BY <1>3 DEF Reboot, LoadRunning, WellFormed, TypeOK
  <2>2. e \in Events /\ DueOK(k, e)
    BY <2>1 DEF DueInv, WellFormed, TypeOK
  <2>3. spc'[e] = "stored"
    BY <2>2, StoredStays DEF DueOK
  <2>4. Seen' = Seen /\ (Covers(filter[k], e)' <=> Covers(filter[k], e))
    BY <2>1 DEF Seen, Covers
  <2>5. lpc[k] = "done" => ~ToCome(k, e)
    BY DEF ToCome
  <2> QED  BY <2>1, <2>2, <2>3, <2>4, <2>5 DEF DueOK, Shown
<1>4. CASE Tick \/ UNCHANGED vars
  <2>1. UNCHANGED <<lpc, filter, todo, scan, due, got, overlapped>>
    BY <1>4 DEF Tick, vars
  <2> QED  BY <1>0, <2>1
<1>5. CASE Next
  <2>1. Quiet => UNCHANGED vars
    BY DEF Quiet
  <2> QED  BY <1>1, <1>2, <1>3, <1>4, <1>5, <2>1 DEF Next, Internal
<1> QED  BY <1>4, <1>5

(* Answers are complete: whatever was acknowledged before a query came and *)
(* lies in its window is in its answer, or was in another's, for any       *)
(* number of requests, files, failed writes and restarts, unless the query *)
(* found the file unreadable or two read-modify-writes met on it.          *)
THEOREM AnswersComplete == Spec => []NothingMissed
<1>1. Init => DueInv
  BY DEF Init, DueInv
<1>2. DueInv => NothingMissed
  BY DEF DueInv, DueOK, Shown, ToCome, Seen, NothingMissed
<1> QED
  BY <1>1, <1>2, InitWellFormed, StepWellFormed, InitLocking, StepLocking, InitKept, StepKept,
     InitFlagInv, StepFlagInv, UnreadableStep, InitIndex, StepIndex, StepDue, PTL DEF Spec


-----------------------------------------------------------------------------
(* The refinement.                                                         *)

(* A written alert keeps the time it was stamped with.                     *)
LEMMA WrittenKeepsTime ==
    ASSUME WellFormed, [Next]_vars, NEW e \in Events, spc[e] \in Written
    PROVE  ts'[e] = ts[e]
<1> USE DEF memory, storeVars, loadVars, world, Written
<1>1. ASSUME NEW d \in Events, StoreBegin(d) PROVE ts'[e] = ts[e]
  <2>1. d # e
    BY <1>1 DEF StoreBegin
  <2> QED  BY <1>1, <2>1 DEF StoreBegin, WellFormed, TypeOK
<1>2. ASSUME NEW d \in Events, StoreStep(d) PROVE ts'[e] = ts[e]
  BY <1>2 DEF StoreStep, StoreLock, StoreRead, StoreOpen, StoreWrite, StoreWriteFails, StoreIndex
<1>3. ASSUME NEW l \in Loads, LoadStep(l) \/ \E q \in Queries : LoadBegin(l, q)
      PROVE  ts'[e] = ts[e]
  <2>1. CASE \E q \in Queries : LoadBegin(l, q)
    BY <2>1 DEF LoadBegin
  <2>2. CASE LoadStep(l)
    BY <2>2 DEF LoadStep, LoadRead, ApplyPick, LoadScan, ApplyLock, LoadReturn, ApplyRead,
                ApplyOpen, ApplyWrite, ApplyWriteFails, ApplyReindex, ApplyPublish
  <2> QED  BY <1>3, <2>1, <2>2
<1>4. Reboot \/ Tick \/ Quiet \/ UNCHANGED vars => ts'[e] = ts[e]
  BY DEF Reboot, Tick, Quiet, vars
<1> QED  BY <1>1, <1>2, <1>3, <1>4 DEF Next, Internal

(* An alert a request has to find, or has in its scan, is written.         *)
LEMMA TimesKept ==
    ASSUME WellFormed, PlaceInv, DueInv, [Next]_vars, NEW l \in Loads
    PROVE  /\ \A e \in due[l] : ts'[e] = ts[e]
           /\ \A i \in DOMAIN scan[l] : ts'[scan[l][i].id] = ts[scan[l][i].id]
<1>1. ASSUME NEW e \in due[l] PROVE ts'[e] = ts[e]
  <2>1. e \in Events /\ spc[e] = "stored"
    BY DEF DueInv, DueOK, WellFormed, TypeOK
  <2> QED  BY <2>1, WrittenKeepsTime DEF Written
<1>2. ASSUME NEW i \in DOMAIN scan[l] PROVE ts'[scan[l][i].id] = ts[scan[l][i].id]
  <2> DEFINE e == scan[l][i].id
  <2>2. e \in Ids(scan[l])
    BY DEF Ids
  <2>1. e \in Events
    BY <2>2, IdsAreEvents DEF WellFormed, TypeOK
  <2>3. Belongs(at[l], e)
    BY <2>2 DEF PlaceInv, Located
  <2> QED  BY <2>1, <2>3, WrittenKeepsTime DEF Belongs
<1> QED  BY <1>1, <1>2

(* A request that does not move is not seen to move.                       *)
LEMMA RequestKept ==
    ASSUME WellFormed, PlaceInv, DueInv, [Next]_vars, NEW l \in Loads,
           UNCHANGED <<filter[l], scan[l], got[l], due[l]>>
    PROVE  UNCHANGED <<Fresh[l], Owed[l], HasRead[l], Filtered(l)>>
<1>1. Fresh'[l] = Fresh[l]
  BY DEF Fresh
<1>2. Owed'[l] = Owed[l]
  BY TimesKept DEF Owed, Covers
<1>3. Filtered(l)' = Filtered(l)
  <2>1. \A i \in DOMAIN scan[l] : Matches(scan[l][i], filter[l])' <=> Matches(scan[l][i], filter[l])
    BY TimesKept DEF Matches
  <2> QED  BY <2>1 DEF Filtered
<1> QED  BY <1>1, <1>2, <1>3 DEF HasRead


(* Storers: an acknowledgement, or nothing a reader can tell.              *)
LEMMA StorerLogs ==
    ASSUME WellFormed, PlaceInv, DueInv, [Next]_vars,
           NEW d \in Events, StoreBegin(d) \/ StoreStep(d)
    PROVE  Log!Next
<1> USE DEF memory, storeVars, loadVars, world
<1>1. UNCHANGED <<lpc, filter, scan, got, due, unmarked>> /\ overlapped \subseteq overlapped'
  <2>1. UNCHANGED <<loadVars, unmarked>>
    BY DEF StoreBegin, StoreStep, StoreLock, StoreRead, StoreOpen, StoreWrite,
           StoreWriteFails, StoreIndex
  <2> QED  BY <2>1, StorerView
<1>2. UNCHANGED <<Place, Fresh, Owed, HasRead>>
  <2>1. \A l \in Loads : UNCHANGED <<Fresh[l], Owed[l], HasRead[l]>>
    BY <1>1, RequestKept
  <2>2. Fresh' = Fresh /\ Owed' = Owed /\ HasRead' = HasRead
    BY <2>1 DEF Fresh, Owed, HasRead
  <2> QED  BY <1>1, <2>2 DEF Place
<1>3. CASE StoreIndex(d)
  <2>1. /\ spc[d] = "index" /\ spc' = [spc EXCEPT ![d] = "stored"]
        /\ home' = [home EXCEPT ![d] = currentFile] /\ UNCHANGED <<unmarked, overlapped>>
    BY <1>3 DEF StoreIndex
  <2>2. d \notin Acknowledged /\ Acknowledged' = Acknowledged \union {d}
    BY <2>1 DEF Acknowledged, WellFormed, TypeOK
  <2>3. \A e \in Events : home'[e] = IF e = d THEN currentFile ELSE home[e]
    BY <2>1 DEF WellFormed, TypeOK
  <2>4. Spoilt' \in {Spoilt, Spoilt \union {d}}
    <3>1. CASE currentFile \in overlapped \union unmarked
      <4>1. Spoilt' = Spoilt \union {d}
        BY <2>1, <2>2, <2>3, <3>1 DEF Spoilt, Acknowledged
      <4> QED  BY <4>1
    <3>2. CASE currentFile \notin overlapped \union unmarked
      <4>1. Spoilt' = Spoilt
        BY <2>1, <2>2, <2>3, <3>2 DEF Spoilt, Acknowledged
      <4> QED  BY <4>1
    <3> QED  BY <3>1, <3>2
  <2>6. Log!Accept(d)
    BY <1>2, <2>2, <2>4 DEF Log!Accept
  <2> QED  BY <2>6 DEF Log!Next
<1>4. CASE ~StoreIndex(d)
  <2>1. UNCHANGED home /\ (\A e \in Events : spc'[e] = "stored" <=> spc[e] = "stored")
    BY <1>4 DEF StoreBegin, StoreStep, StoreLock, StoreRead, StoreFail, StoreOpen, StoreWrite,
                StoreWriteFails, WellFormed, TypeOK
  <2>2. Acknowledged' = Acknowledged
    BY <2>1 DEF Acknowledged
  <2>3. Spoilt \subseteq Spoilt' /\ Spoilt' \subseteq Acknowledged
    BY <1>1, <2>1, <2>2 DEF Spoilt
  <2>4. Log!Spoil
    BY <1>2, <2>2, <2>3 DEF Log!Spoil
  <2> QED  BY <2>4 DEF Log!Next
<1> QED  BY <1>3, <1>4


(* A request's step is its own.                                            *)
LEMMA LoaderAlone ==
    ASSUME WellFormed, NEW l \in Loads, LoadStep(l) \/ \E q \in Queries : LoadBegin(l, q),
           NEW k \in Loads \ {l}
    PROVE  UNCHANGED <<lpc[k], filter[k], scan[k], got[k], due[k]>>
<1> USE DEF memory, storeVars, loadVars, world, WellFormed, TypeOK
<1>1. CASE \E q \in Queries : LoadBegin(l, q)
  BY <1>1 DEF LoadBegin
<1>2. CASE \E f \in Files : LoadRead(l, f)
  BY <1>2 DEF LoadRead
<1>3. CASE LoadScan(l)
  BY <1>3 DEF LoadScan
<1>4. CASE ApplyLock(l) \/ LoadReturn(l) \/ \E f \in Files : ApplyPick(l, f)
  BY <1>4 DEF ApplyLock, LoadReturn, ApplyPick
<1>5. CASE ApplyRead(l) \/ ApplyOpen(l) \/ ApplyWrite(l)
  BY <1>5 DEF ApplyRead, ApplyOpen, ApplyWrite, ApplyNextFile
<1>6. CASE ApplyWriteFails(l) \/ ApplyReindex(l) \/ ApplyPublish(l)
  BY <1>6 DEF ApplyWriteFails, ApplyReindex, ApplyPublish, ApplyNextFile
<1> QED  BY <1>1, <1>2, <1>3, <1>4, <1>5, <1>6 DEF LoadStep

(* How the mapped state moves with the step of one request.                *)
LEMMA LoaderMaps ==
    ASSUME WellFormed, PlaceInv, DueInv, [Next]_vars,
           NEW l \in Loads, LoadStep(l) \/ \E q \in Queries : LoadBegin(l, q)
    PROVE  /\ Place' = [Place EXCEPT ![l] = Place'[l]]
           /\ Fresh' = [Fresh EXCEPT ![l] = Fresh'[l]]
           /\ Owed' = [Owed EXCEPT ![l] = Owed'[l]]
           /\ HasRead' = [HasRead EXCEPT ![l] = HasRead'[l]]
           /\ Acknowledged' = Acknowledged
           /\ Spoilt \subseteq Spoilt' /\ Spoilt' \subseteq Acknowledged
           /\ UNCHANGED <<unmarked, overlapped>> => Spoilt' = Spoilt
<1>1. UNCHANGED <<spc, home>> /\ overlapped \subseteq overlapped' /\ unmarked \subseteq unmarked'
  BY LoaderView, UnmarkedGrows
<1>2. \A k \in Loads \ {l} : UNCHANGED <<Place[k], Fresh[k], Owed[k], HasRead[k]>>
  <2> SUFFICES ASSUME NEW k \in Loads \ {l}
               PROVE  UNCHANGED <<Place[k], Fresh[k], Owed[k], HasRead[k]>>
    OBVIOUS
  <2>1. UNCHANGED <<lpc[k], filter[k], scan[k], got[k], due[k]>>
    BY LoaderAlone
  <2> QED  BY <2>1, RequestKept DEF Place
<1>3. Acknowledged' = Acknowledged
  BY <1>1 DEF Acknowledged
<1>4. /\ Spoilt \subseteq Spoilt' /\ Spoilt' \subseteq Acknowledged
      /\ UNCHANGED <<unmarked, overlapped>> => Spoilt' = Spoilt
  BY <1>1, <1>3 DEF Spoilt
<1>5. Place' = [Place EXCEPT ![l] = Place'[l]]
  BY <1>2 DEF Place
<1>6. Fresh' = [Fresh EXCEPT ![l] = Fresh'[l]]
  BY <1>2 DEF Fresh
<1>7. Owed' = [Owed EXCEPT ![l] = Owed'[l]]
  BY <1>2 DEF Owed
<1>8. HasRead' = [HasRead EXCEPT ![l] = HasRead'[l]]
  BY <1>2 DEF HasRead
<1> QED  BY <1>3, <1>4, <1>5, <1>6, <1>7, <1>8

(* What a request that is over has answered, and nobody else's scan.       *)
LEMMA GivenByDone ==
    ASSUME WellFormed, PlaceInv, NEW e \in Log!Given
    PROVE  \E k \in Loads : lpc[k] = "done" /\ e \in got[k]
<1>1. PICK k \in Loads : Place[k] = "done" /\ e \in HasRead[k]
  BY DEF Log!Given
<1>2. lpc[k] = "done"
  BY <1>1 DEF Place
<1>3. scan[k] = <<>>
  BY <1>2 DEF PlaceInv
<1>4. Filtered(k) = {}
  BY <1>3 DEF Filtered
<1> QED  BY <1>1, <1>2, <1>4 DEF HasRead

(* A request comes.                                                        *)
LEMMA BeginAsks ==
    ASSUME WellFormed, PlaceInv, DueInv, [Next]_vars,
           NEW l \in Loads, NEW q \in Queries, LoadBegin(l, q)
    PROVE  Log!Ask(l)
<1> USE DEF memory, storeVars, loadVars, world
<1>1. /\ lpc[l] = "new" /\ lpc'[l] = "load" /\ UNCHANGED <<unmarked, overlapped, scan, got, spc, home, ts>>
      /\ filter'[l] \in Filter
      /\ due'[l] \subseteq Acknowledged
  <2>1. Resolved(q) \in Filter
    <3>1. q \in Filter /\ now \in 0..MaxTime
      BY QueriesAssumption DEF WellFormed, TypeOK
    <3> QED  BY <3>1 DEF Resolved, Filter
  <2> QED  BY <2>1 DEF LoadBegin, Acknowledged, WellFormed, TypeOK
<1>2. Place[l] = "new" /\ Place'[l] = "open"
  BY <1>1 DEF Place, LoadRunning
<1>3. Fresh'[l] \in BOOLEAN
  BY <1>1 DEF Fresh, Filter
<1>4. Owed'[l] \in SUBSET Acknowledged
  BY <1>1 DEF Owed
<1>5. HasRead'[l] = HasRead[l]
  <2>1. scan[l] = <<>> /\ scan'[l] = <<>>
    BY <1>1 DEF PlaceInv
  <2>2. Filtered(l) = {} /\ Filtered(l)' = {}
    BY <2>1 DEF Filtered
  <2> QED  BY <1>1, <2>2 DEF HasRead
<1>6. HasRead' = HasRead
  BY <1>5, LoaderMaps DEF HasRead
<1> QED  BY <1>1, <1>2, <1>3, <1>4, <1>6, LoaderMaps DEF Log!Ask

(* A request reads a file, or misses what is in it.                        *)
LEMMA ReadReads ==
    ASSUME WellFormed, PlaceInv, AnswerInv, NothingUnreadable, OnceInv, DueInv, [Next]_vars,
           NEW l \in Loads, NEW f \in Files, LoadRead(l, f)
    PROVE  Log!Read(l) \/ Log!Miss(l)
<1> USE DEF memory, storeVars, loadVars, world
<1>1. /\ lpc[l] = "load" /\ scan[l] = <<>> /\ scan'[l] = disk[f].evs
      /\ UNCHANGED <<lpc, filter, got, spc, home, ts, unmarked, overlapped>>
      /\ due'[l] = IF disk[f].ok THEN due[l] ELSE {e \in due[l] : home[e] # f}
      /\ disk[f].evs \in Seq(Entry)
  BY DEF LoadRead, WellFormed, TypeOK, File
<1>2. LoadStep(l)
  BY DEF LoadStep
<1>3. Place[l] = "open" /\ UNCHANGED <<Place, Fresh, Spoilt, Acknowledged>>
  BY <1>1, <1>2, LoaderMaps DEF Place, LoadRunning, Fresh
<1>4. Filtered(l) = {} /\ HasRead[l] = got[l] /\ HasRead'[l] = HasRead[l] \union Filtered(l)'
  <2>1. Filtered(l) = {}
    BY <1>1 DEF Filtered
  <2> QED  BY <1>1, <2>1 DEF HasRead
<1>5. CASE disk[f].ok
  <2>1. Owed' = Owed
    <3>1. Owed'[l] = Owed[l]
      BY <1>1, <1>5 DEF Owed, Covers
    <3> QED  BY <1>2, <3>1, LoaderMaps DEF Owed
  <2>2. Filtered(l)' \in SUBSET Events
    BY <1>1, IdsAreEvents DEF Filtered
  <2>3. ASSUME Fresh[l], NEW e \in Filtered(l)', e \in Log!Given, e \in Acknowledged
        PROVE  e \in Spoilt
    <3>1. PICK i \in DOMAIN scan'[l] : scan'[l][i].id = e /\ Matches(scan[l][i], filter[l])'
      BY <2>3 DEF Filtered
    <3>2. e \in Unprocessed(scan'[l])
      BY <1>1, <2>3, <3>1 DEF Unprocessed, Matches, Fresh
    <3>3. Unprocessed(scan[l]) = {}
      BY <1>1 DEF Unprocessed
    <3>4. ~Answered(e)
      BY <3>2, <3>3, ReadsNothingAnswered
    <3>5. \E k \in Loads : lpc[k] = "done" /\ e \in got[k]
      BY <2>3, GivenByDone
    <3> QED  BY <2>3, <3>4, <3>5 DEF Answered, Spoilt, Acknowledged
  <2>4. HasRead' = [HasRead EXCEPT ![l] = @ \union Filtered(l)']
    BY <1>2, <1>4, LoaderMaps DEF HasRead
  <2>5. Log!Read(l)
    BY <1>3, <2>1, <2>2, <2>3, <2>4 DEF Log!Read
  <2> QED  BY <2>5
<1>6. CASE ~disk[f].ok
  <2>1. Filtered(l)' = {}
    BY <1>1, <1>6 DEF NothingUnreadable, Filtered
  <2>2. HasRead' = HasRead
    BY <1>2, <1>4, <2>1, LoaderMaps DEF HasRead
  <2> DEFINE missed == {e \in Events : home[e] = f}
  <2>3. Owed'[l] = Owed[l] \ missed
    BY <1>1, <1>6 DEF Owed, Covers, WellFormed, TypeOK
  <2>4. Owed' = [Owed EXCEPT ![l] = @ \ missed] /\ missed \in SUBSET Events
    BY <1>2, <2>3, LoaderMaps DEF Owed
  <2>5. Log!Miss(l)
    BY <1>3, <2>2, <2>4 DEF Log!Miss
  <2> QED  BY <2>5
<1> QED  BY <1>5, <1>6



(* A turn of the filter loop: an alert the request keeps moves from the    *)
(* scan to the answer, one it drops was in neither.                        *)
LEMMA ScanKeepsRead ==
    ASSUME WellFormed, PlaceInv, DueInv, [Next]_vars, NEW l \in Loads, LoadScan(l)
    PROVE  HasRead'[l] = HasRead[l]
<1> USE DEF memory, storeVars, loadVars, world
<1> DEFINE c == scan[l]
           Kept(i) == Matches(c[i], filter[l])
<1>1. /\ c \in Seq(Entry) /\ c # <<>> /\ scan'[l] = Tail(c) /\ UNCHANGED <<filter, ts>>
      /\ got'[l] = IF Kept(1) THEN got[l] \union {c[1].id} ELSE got[l]
  <2>1. /\ c \in Seq(Entry) /\ c # <<>> /\ scan'[l] = Tail(c) /\ UNCHANGED <<filter, ts>>
        /\ got'[l] = IF Matches(Head(c), filter[l]) THEN got[l] \union {Head(c).id} ELSE got[l]
    BY DEF LoadScan, WellFormed, TypeOK
  <2>2. Head(c) = c[1]
    BY <2>1, HeadTailProperties
  <2> QED  BY <2>1, <2>2
<1>2. /\ 1 \in DOMAIN c
      /\ DOMAIN c = 1..Len(c) /\ Len(c) \in Nat /\ DOMAIN Tail(c) = 1..(Len(c) - 1)
      /\ \A i \in 1..(Len(c) - 1) : Tail(c)[i] = c[i + 1]
  BY <1>1, HeadTailProperties, EmptySeq, LenProperties
<1>3. \A i : Matches(c[i], filter[l])' <=> Matches(c'[i], filter[l])
  BY <1>1 DEF Matches
<1>4. Filtered(l)' = {Tail(c)[i].id : i \in {j \in DOMAIN Tail(c) : Matches(Tail(c)[j], filter[l])}}
  BY <1>1 DEF Filtered, Matches
<1> HIDE DEF c
<1>5. ASSUME NEW e PROVE e \in Filtered(l)' <=> \E i \in DOMAIN c : i # 1 /\ Kept(i) /\ c[i].id = e
  <2>1. ASSUME NEW j \in DOMAIN Tail(c), Matches(Tail(c)[j], filter[l]), Tail(c)[j].id = e
        PROVE  \E i \in DOMAIN c : i # 1 /\ Kept(i) /\ c[i].id = e
    <3>1. j + 1 \in DOMAIN c /\ j + 1 # 1 /\ Tail(c)[j] = c[j + 1]
      BY <1>2
    <3> QED  BY <2>1, <3>1
  <2>2. ASSUME NEW i \in DOMAIN c, i # 1, Kept(i), c[i].id = e
        PROVE  \E j \in DOMAIN Tail(c) : Matches(Tail(c)[j], filter[l]) /\ Tail(c)[j].id = e
    <3>1. i - 1 \in DOMAIN Tail(c) /\ Tail(c)[i - 1] = c[i]
      BY <1>2, <2>2
    <3> QED  BY <2>2, <3>1
  <2> QED  BY <1>4, <2>1, <2>2
<1>6. ASSUME NEW e PROVE e \in Filtered(l) <=> \E i \in DOMAIN c : Kept(i) /\ c[i].id = e
  BY DEF Filtered, c
<1>7. ASSUME NEW e PROVE e \in HasRead'[l] <=> e \in HasRead[l]
  <2>1. e \in got'[l] <=> e \in got[l] \/ (Kept(1) /\ c[1].id = e)
    BY <1>1
  <2> QED  BY <1>2, <1>5, <1>6, <2>1 DEF HasRead
<1>8. HasRead'[l] = got'[l] \union Filtered(l)' /\ HasRead[l] = got[l] \union Filtered(l)
  BY DEF HasRead
<1> QED  BY <1>7, <1>8

(* Steps of a request that has come and does not go: nothing a reader of   *)
(* the log can tell, but that a file may be spoilt.                        *)
LEMMA LoaderSpoils ==
    ASSUME WellFormed, PlaceInv, DueInv, [Next]_vars, NEW l \in Loads, LoadStep(l),
           ~LoadReturn(l), ~ \E f \in Files : LoadRead(l, f)
    PROVE  Log!Spoil
<1> USE DEF memory, storeVars, loadVars, world
<1>1. lpc[l] \in LoadRunning /\ lpc'[l] \in LoadRunning /\ UNCHANGED <<filter, due>>
  <2>1. CASE LoadScan(l) \/ ApplyLock(l) \/ \E f \in Files : ApplyPick(l, f)
    BY <2>1 DEF LoadScan, ApplyLock, ApplyPick, LoadRunning, WellFormed, TypeOK
  <2>2. CASE ApplyRead(l) \/ ApplyOpen(l) \/ ApplyWrite(l)
    BY <2>2 DEF ApplyRead, ApplyOpen, ApplyWrite, ApplyNextFile, LoadRunning, WellFormed, TypeOK
  <2>3. CASE ApplyWriteFails(l) \/ ApplyReindex(l) \/ ApplyPublish(l)
    BY <2>3 DEF ApplyWriteFails, ApplyReindex, ApplyPublish, ApplyNextFile, LoadRunning, WellFormed, TypeOK
  <2> QED  BY <2>1, <2>2, <2>3 DEF LoadStep
<1>2. HasRead'[l] = HasRead[l]
  <2>1. CASE LoadScan(l)
    BY <2>1, ScanKeepsRead
  <2>2. CASE ~LoadScan(l)
    <3>1. UNCHANGED <<scan, got>>
      BY <2>2 DEF LoadStep, ApplyLock, ApplyPick, ApplyRead, ApplyOpen, ApplyWrite,
                  ApplyWriteFails, ApplyReindex, ApplyPublish
    <3> QED  BY <1>1, <3>1, RequestKept
  <2> QED  BY <2>1, <2>2
<1>3. Place'[l] = Place[l] /\ Fresh'[l] = Fresh[l] /\ Owed'[l] = Owed[l]
  <2>1. Owed'[l] = Owed[l]
    BY <1>1, TimesKept DEF Owed, Covers
  <2> QED  BY <1>1, <2>1 DEF Place, Fresh
<1>4. UNCHANGED <<Place, Fresh, Owed, HasRead>>
  <2>1. Place' = Place
    BY <1>3, LoaderMaps DEF Place
  <2>2. Fresh' = Fresh
    BY <1>3, LoaderMaps DEF Fresh
  <2>3. Owed' = Owed
    BY <1>3, LoaderMaps DEF Owed
  <2>4. HasRead' = HasRead
    BY <1>2, LoaderMaps DEF HasRead
  <2> QED  BY <2>1, <2>2, <2>3, <2>4
<1> QED  BY <1>4, LoaderMaps DEF Log!Spoil

(* A request returns: it has what it owes, or another one has it.          *)
LEMMA ReturnAnswers ==
    ASSUME WellFormed, PlaceInv, DueInv, NothingMissed', [Next]_vars,
           NEW l \in Loads, LoadReturn(l)
    PROVE  Log!Answer(l)
<1> USE DEF memory, storeVars, loadVars, world
<1>1. /\ lpc[l] = "apply" /\ lpc'[l] = "done"
      /\ UNCHANGED <<filter, scan, got, due, home, ts, unmarked, overlapped>>
  BY DEF LoadReturn, WellFormed, TypeOK
<1>2. LoadStep(l)
  BY DEF LoadStep
<1>3. Place[l] = "open" /\ Place'[l] = "done"
  BY <1>1 DEF Place, LoadRunning
<1>4. Fresh' = Fresh
  BY <1>1 DEF Fresh
<1>5. Owed' = Owed
  BY <1>1 DEF Owed, Covers
<1>6. HasRead' = HasRead
  <2>1. HasRead'[l] = HasRead[l]
    BY <1>1, RequestKept
  <2> QED  BY <1>2, <2>1, LoaderMaps DEF HasRead
<1>7. Owed[l] \subseteq HasRead[l] \union Log!Elsewhere(l) \union Spoilt
  <2> SUFFICES ASSUME NEW e \in Owed[l], e \notin Spoilt
               PROVE  e \in HasRead[l] \union Log!Elsewhere(l)
    OBVIOUS
  <2>1. e \in due[l] /\ Covers(filter[l], e)
    BY DEF Owed
  <2>2. e \in Events /\ spc[e] = "stored"
    BY <2>1 DEF DueInv, DueOK, WellFormed, TypeOK
  <2>3. home[e] \notin overlapped
    BY <2>2 DEF Spoilt, Acknowledged
  <2>4. e \in got[l] \/ (filter[l].unprocessed /\ \E k \in Loads : e \in got[k])
    BY <1>1, <2>1, <2>3 DEF NothingMissed, Covers
  <2>5. CASE e \in got[l]
    BY <2>5 DEF HasRead
  <2>6. CASE filter[l].unprocessed /\ \E k \in Loads : e \in got[k]
    <3>1. Fresh[l] /\ \E k \in Loads : e \in HasRead[k]
      BY <2>6 DEF Fresh, HasRead
    <3> QED  BY <3>1 DEF Log!Elsewhere
  <2> QED  BY <2>4, <2>5, <2>6
<1> QED  BY <1>1, <1>2, <1>3, <1>4, <1>5, <1>6, <1>7, LoaderMaps DEF Log!Answer

(* A restart: what was being scanned is not read any more.                 *)
LEMMA RebootCrashes ==
    ASSUME WellFormed, PlaceInv, DueInv, Reboot
    PROVE  Log!Crash
<1> USE DEF memory, storeVars, loadVars, world
<1>1. /\ UNCHANGED <<ts, home, filter, got, due, unmarked, overlapped>>
      /\ \A l \in Loads : scan'[l] = <<>>
      /\ lpc' = [l \in Loads |-> IF lpc[l] \in LoadRunning THEN "killed" ELSE lpc[l]]
      /\ \A e \in Events : spc'[e] = "stored" <=> spc[e] = "stored"
  BY DEF Reboot, StoreRunning, WellFormed, TypeOK
<1>2. Acknowledged' = Acknowledged
  BY <1>1 DEF Acknowledged
<1>3. Spoilt' = Spoilt /\ Fresh' = Fresh /\ Owed' = Owed
  BY <1>1, <1>2 DEF Spoilt, Fresh, Owed, Covers
<1>4. ASSUME NEW l \in Loads
      PROVE  /\ Place'[l] = IF Place[l] = "open" THEN "gone" ELSE Place[l]
             /\ HasRead'[l] \subseteq HasRead[l]
             /\ Place[l] # "open" => HasRead'[l] = HasRead[l]
  <2>1. Place'[l] = IF Place[l] = "open" THEN "gone" ELSE Place[l]
    <3>1. lpc'[l] = IF lpc[l] \in LoadRunning THEN "killed" ELSE lpc[l]
      BY <1>1
    <3>2. lpc[l] \in LoadRunning \union {"new", "done", "killed"}
      BY DEF WellFormed, TypeOK
    <3> QED  BY <3>1, <3>2 DEF Place, LoadRunning
  <2>2. Filtered(l)' = {}
    BY <1>1 DEF Filtered
  <2>3. HasRead'[l] = got[l] /\ HasRead[l] = got[l] \union Filtered(l)
    BY <1>1, <2>2 DEF HasRead
  <2>4. ASSUME Place[l] # "open" PROVE Filtered(l) = {}
    <3>1. scan[l] = <<>>
      BY <2>4 DEF PlaceInv, Place, LoadRunning
    <3> QED  BY <3>1 DEF Filtered
  <2> QED  BY <2>1, <2>3, <2>4
<1>5. Place' = [l \in Loads |-> IF Place[l] = "open" THEN "gone" ELSE Place[l]]
  BY <1>4 DEF Place
<1> QED  BY <1>2, <1>3, <1>4, <1>5 DEF Log!Crash

(* The clock, or nothing.                                                  *)
LEMMA IdleIsIdle ==
    ASSUME WellFormed, PlaceInv, DueInv, [Next]_vars, Tick \/ UNCHANGED vars
    PROVE  UNCHANGED Log!vars
<1> USE DEF memory, storeVars, loadVars, world
<1>1. UNCHANGED <<spc, home, lpc, filter, scan, got, due, ts, unmarked, overlapped>>
  BY DEF Tick, vars
<1>2. Acknowledged' = Acknowledged /\ Spoilt' = Spoilt /\ Place' = Place /\ Fresh' = Fresh
  BY <1>1 DEF Acknowledged, Spoilt, Place, Fresh
<1>3. Owed' = Owed
  BY <1>1 DEF Owed, Covers
<1>4. HasRead' = HasRead
  <2>1. \A l \in Loads : HasRead'[l] = HasRead[l]
    BY <1>1, RequestKept
  <2> QED  BY <2>1 DEF HasRead
<1> QED  BY <1>2, <1>3, <1>4 DEF Log!vars

(* A store that starts is a log that starts.                               *)
LEMMA InitLogs == Init => Log!Init
<1> SUFFICES ASSUME Init PROVE Log!Init
  OBVIOUS
<1>1. /\ \A e \in Events : spc[e] = "new"
      /\ \A l \in Loads : /\ lpc[l] = "new" /\ got[l] = {} /\ scan[l] = <<>> /\ due[l] = {}
                          /\ filter[l].unprocessed
  BY DEF Init
<1>2. Acknowledged = {}
  BY <1>1 DEF Acknowledged
<1>3. Spoilt = {}
  BY <1>2 DEF Spoilt
<1>4. Place = [l \in Loads |-> "new"]
  BY <1>1 DEF Place, LoadRunning
<1>5. Fresh \in [Loads -> BOOLEAN]
  BY <1>1 DEF Fresh
<1>6. Owed = [l \in Loads |-> {}]
  BY <1>1 DEF Owed
<1>7. \A l \in Loads : Filtered(l) = {}
  BY <1>1 DEF Filtered
<1>8. HasRead = [l \in Loads |-> {}]
  BY <1>1, <1>7 DEF HasRead
<1> QED  BY <1>2, <1>3, <1>4, <1>5, <1>6, <1>8 DEF Log!Init

(* Every step of the store is a step of the log or none.                   *)
LEMMA StepLogs ==
    ASSUME WellFormed, PlaceInv, AnswerInv, NothingUnreadable, OnceInv, DueInv,
           NothingMissed', [Next]_vars
    PROVE  [Log!Next]_(Log!vars)
<1>1. ASSUME NEW d \in Events, StoreBegin(d) \/ StoreStep(d) PROVE Log!Next
  BY <1>1, StorerLogs
<1>2. ASSUME NEW l \in Loads, LoadStep(l) PROVE Log!Next
  <2>1. CASE LoadReturn(l)
    <3>1. Log!Answer(l)
      BY <2>1, ReturnAnswers
    <3> QED  BY <3>1 DEF Log!Next
  <2>2. ASSUME NEW f \in Files, LoadRead(l, f) PROVE Log!Next
    <3>1. Log!Read(l) \/ Log!Miss(l)
      BY <2>2, ReadReads
    <3> QED  BY <3>1 DEF Log!Next
  <2>3. CASE ~LoadReturn(l) /\ ~ \E f \in Files : LoadRead(l, f)
    <3>1. Log!Spoil
      BY <1>2, <2>3, LoaderSpoils
    <3> QED  BY <3>1 DEF Log!Next
  <2> QED  BY <2>1, <2>2, <2>3
<1>3. ASSUME NEW l \in Loads, NEW q \in Queries, LoadBegin(l, q) PROVE Log!Next
  <2>1. Log!Ask(l)
    BY <1>3, BeginAsks
  <2> QED  BY <2>1 DEF Log!Next
<1>4. CASE Reboot
  <2>1. Log!Crash
    BY <1>4, RebootCrashes
  <2> QED  BY <2>1 DEF Log!Next
<1>5. CASE Tick \/ UNCHANGED vars
  BY <1>5, IdleIsIdle
<1>6. CASE Next
  <2>1. Quiet => UNCHANGED vars
    BY DEF Quiet
  <2> QED  BY <1>1, <1>2, <1>3, <1>4, <1>5, <1>6, <2>1 DEF Next, Internal
<1> QED  BY <1>5, <1>6

(* The event store is an AlertLog, for any number of webhooks, queries,    *)
(* files, failed writes and restarts: every step of it is one of the log   *)
(* or is not seen, so its callers may think of it as the log.              *)
THEOREM StoreImplementsAlertLog == Spec => ImplementsAlertLog
<1>1. Init => DueInv
  BY DEF Init, DueInv
<1>2. DueInv => NothingMissed
  BY DEF DueInv, DueOK, Shown, ToCome, Seen, NothingMissed
<1>3. WellFormed /\ PlaceInv /\ AnswerInv /\ NothingUnreadable /\ OnceInv /\ DueInv
        /\ NothingMissed' /\ [Next]_vars => [Log!Next]_(Log!vars)
  BY StepLogs
<1> QED
  BY <1>1, <1>2, <1>3, InitWellFormed, StepWellFormed, InitLocking, StepLocking, InitKept, StepKept,
     InitFlagInv, StepFlagInv, UnreadableStep, InitIndex, StepIndex, StepDue, InitPlace, StepPlace,
     InitAnswer, StepRange, StepAnswer, InitOnce, StepOnce, InitLogs, PTL DEF Spec, ImplementsAlertLog, Log!Spec
=============================================================================
