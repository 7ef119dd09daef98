---------------------------- MODULE EventStorage ----------------------------
(***************************************************************************)
(* The agent's event store (pkg/agent/util/storage).  Webhook requests     *)
(* append alerts to one JSON file; GetAlerts requests scan the files the   *)
(* in-memory index admits, mark what they return as pending, and rewrite   *)
(* the files with the processed flags.                                     *)
(*                                                                         *)
(* Every request is a goroutine of its own: the webhook request that       *)
(* carries event e is named by e, a GetAlerts request by l \in Loads.  A   *)
(* step is one file-system call or one critical section, so that whatever  *)
(* the mutexes do not exclude can interleave.                              *)
(***************************************************************************)
EXTENDS Naturals, Sequences, FiniteSetsExt

CONSTANTS
    Events,       \* webhook requests, each carrying one alert
    Loads,        \* GetAlerts requests
    NoOne,        \* owner of a free mutex
    NoIndex,      \* a path with no entry in fileIndexes
    BaseSize,     \* size of {"events":[]}
    EventSize,    \* what one unprocessed event adds to the file
    FlagSize,     \* what setting processed and processed_at adds to an event
    MaxFileSize,  \* EventStorage.maxFileSize
    MaxTime,      \* bound: last value of the clock
    MaxFaults,    \* bound: failing writes
    MaxFiles,     \* bound: event files created, one per start of the agent
    Queries       \* filters of the GetAlerts requests; end 0 stands for unset

ASSUME ConstantsAssumption ==
    /\ NoOne \notin Events \union Loads
    /\ Events \intersect Loads = {}
    /\ BaseSize \in Nat /\ EventSize \in Nat /\ FlagSize \in Nat
    /\ MaxFileSize \in Nat
    /\ MaxTime \in Nat /\ MaxFaults \in Nat /\ MaxFiles \in Nat \ {0}

Requests == Events \union Loads

(* Files are numbered in the order the agent creates them.                 *)
Files  == 1..MaxFiles
NoFile == 0

(* INFO, WARNING, ERROR, CRITICAL.  handleWebhook gives every alert 0, so  *)
(* that is also the MaxSeverity of every index.                            *)
Severity == 0..3
Info     == 0

Index  == [min : 0..MaxTime, max : 0..MaxTime, allProcessed : BOOLEAN]
Filter == [start : 0..MaxTime, end : 0..MaxTime, minSeverity : Severity, unprocessed : BOOLEAN]

ASSUME QueriesAssumption == Queries \subseteq Filter /\ NoIndex \notin Index

VARIABLES
    disk,          \* contents of every event file
    currentFile,   \* EventStorage.currentFile
    currentMutex,  \* owner of EventStorage.currentMutex
    fileIndexes,   \* EventStorage.fileIndexes
    pending,       \* PendingUpdateManager.updates: path -> events
    pendingMutex,  \* owner of PendingUpdateManager.mutex
    fileLock,      \* owners of the mutexes FileLockManager hands out
    spc,           \* where StoreEvent stands for each event
    ts,            \* EventEntry.Timestamp
    home,          \* the path StoreEvent returned
    lpc,           \* where LoadEvents stands for each request
    filter,        \* EventFilter of each request
    todo,          \* candidate files not loaded yet; then files with marks to apply
    at,            \* file a request is loading or updating
    scan,          \* events read from that file, still to be filtered
    got,           \* events collected in allEvents
    buf,           \* content a request read and is about to write back
    idxbuf,        \* index computed by indexFile, not published yet
    now,           \* the agent's clock
    faults,        \* writes that have failed so far
    unmarked,      \* history: files whose marks were forgotten, not written
    overlapped,    \* history: files with two read-modify-writes at once
    due            \* history: alerts a request has to find, stored when it asked

storeVars  == <<spc, ts, home>>
loadVars   == <<lpc, filter, todo, at, scan, got, idxbuf, due>>
memory     == <<currentFile, currentMutex, fileIndexes, pending, pendingMutex, fileLock>>
world      == <<now, faults, unmarked>>
vars == <<disk, memory, storeVars, loadVars, buf, world, overlapped>>

-----------------------------------------------------------------------------
(* Files.  A file holds a JSON document or something json.Unmarshal        *)
(* rejects: nothing yet, the empty file left by O_TRUNC, or one document   *)
(* written over the longer tail of another.                                *)

Entry == [id : Events, processed : BOOLEAN]

File == [ok : BOOLEAN, evs : Seq(Entry), size : Nat]

Size(c) == BaseSize + EventSize * Len(c)
             + FlagSize * Cardinality({i \in DOMAIN c : c[i].processed})

Json(c)  == [ok |-> TRUE, evs |-> c, size |-> Size(c)]
Absent   == [ok |-> FALSE, evs |-> <<>>, size |-> 0]
Emptied  == Absent

(* A write at offset 0: what the old content has beyond the new one stays. *)
Overwrite(old, c) ==
    IF old.size <= Size(c) THEN Json(c) ELSE [ok |-> FALSE, evs |-> <<>>, size |-> old.size]

Ids(c) == {c[i].id : i \in DOMAIN c}

-----------------------------------------------------------------------------
(* The index of a file and the filter of a query.  The type is left out:   *)
(* every stored event and every query has type "alert".                    *)

IndexOf(c) ==
    LET times == {ts[e] : e \in Ids(c)}
    IN  [min |-> Min(times), max |-> Max(times),
         allProcessed |-> \A i \in DOMAIN c : c[i].processed]

IndexAddKeepsFlag(idx, t) ==
    IF idx = NoIndex
      THEN [min |-> t, max |-> t, allProcessed |-> FALSE]
      ELSE [idx EXCEPT !.min = IF t < @ THEN t ELSE @, !.max = IF t > @ THEN t ELSE @]

IndexAdd(idx, t) ==
    IF idx = NoIndex
      THEN [min |-> t, max |-> t, allProcessed |-> FALSE]
      ELSE [min |-> IF t < idx.min THEN t ELSE idx.min,
            max |-> IF t > idx.max THEN t ELSE idx.max,
            allProcessed |-> FALSE]

Candidate(f, q) ==
    /\ fileIndexes[f] # NoIndex
    /\ fileIndexes[f].max >= q.start /\ fileIndexes[f].min <= q.end
    /\ Info >= q.minSeverity
    /\ ~(q.unprocessed /\ fileIndexes[f].allProcessed)

Matches(entry, q) ==
    /\ ts[entry.id] >= q.start /\ ts[entry.id] <= q.end
    /\ Info >= q.minSeverity
    /\ ~(q.unprocessed /\ entry.processed)

MarkedAll(c, S) == [i \in DOMAIN c |-> [c[i] EXCEPT !.processed = TRUE]]

Marked(c, S) ==
    [i \in DOMAIN c |-> [c[i] EXCEPT !.processed = @ \/ c[i].id \in S]]

AloneInFile(c, e) == <<[id |-> e, processed |-> FALSE]>>

WithAlert(c, e) == Append(c, [id |-> e, processed |-> FALSE])

(* indexFile over the directory, at start: unreadable and empty files get  *)
(* no entry.                                                               *)
RebuiltIndexes ==
    [f \in Files |-> IF disk[f].ok /\ disk[f].evs # <<>>
                       THEN IndexOf(disk[f].evs) ELSE NoIndex]

-----------------------------------------------------------------------------
(* A storer is in its read-modify-write from ReadFile to updateFileIndex,  *)
(* an applier from ReadFile to the publication of the new index.           *)

StorerInside(f)  == currentFile = f /\ \E e \in Events : spc[e] \in {"open", "write", "index"}
ApplierInside(f) == \E l \in Loads : at[l] = f /\ lpc[l] \in {"aopen", "awrite", "aindex", "apublish"}

(* Goroutines that have truncated f and not written it yet.                *)
Writing(f) == {e \in Events : spc[e] = "write" /\ currentFile = f}
                \union {l \in Loads : lpc[l] = "awrite" /\ at[l] = f}

(* An interrupted or failed write has left f unreadable.                   *)
Ruined(f) == Writing(f) = {} /\ ~disk[f].ok /\ (faults > 0 \/ currentFile > 1)

-----------------------------------------------------------------------------
(* NewEventStorage on an empty directory.                                  *)

Init ==
    /\ currentFile = 1
    /\ disk = [f \in Files |-> IF f = 1 THEN Json(<<>>) ELSE Absent]
    /\ currentMutex = NoOne /\ pendingMutex = NoOne
    /\ fileIndexes = [f \in Files |-> NoIndex]
    /\ pending = [f \in Files |-> {}]
    /\ fileLock = [f \in Files |-> NoOne]
    /\ spc = [e \in Events |-> "new"]
    /\ ts = [e \in Events |-> 0]
    /\ home = [e \in Events |-> NoFile]
    /\ lpc = [l \in Loads |-> "new"]
    /\ filter = [l \in Loads |-> [start |-> 0, end |-> 0, minSeverity |-> Info,
                                  unprocessed |-> TRUE]]
    /\ todo = [l \in Loads |-> {}]
    /\ at = [l \in Loads |-> NoFile]
    /\ scan = [l \in Loads |-> <<>>]
    /\ got = [l \in Loads |-> {}]
    /\ buf = [r \in Requests |-> <<>>]
    /\ idxbuf = [l \in Loads |-> NoIndex]
    /\ now = 0 /\ faults = 0
    /\ unmarked = {} /\ overlapped = {}
    /\ due = [l \in Loads |-> {}]

-----------------------------------------------------------------------------
(* StoreEvent(e).                                                          *)

(* handleWebhook decodes the request; the timestamp is taken before the    *)
(* mutex is.                                                               *)
StoreBegin(e) ==
    /\ spc[e] = "new"
    /\ spc' = [spc EXCEPT ![e] = "wait"]
    /\ ts' = [ts EXCEPT ![e] = now]
    /\ UNCHANGED <<disk, memory, home, loadVars, buf, world, overlapped>>

StoreLock(e) ==
    /\ spc[e] = "wait" /\ currentMutex = NoOne
    /\ currentMutex' = e
    /\ spc' = [spc EXCEPT ![e] = "read"]
    /\ UNCHANGED <<disk, currentFile, fileIndexes, pending, pendingMutex, fileLock,
                   ts, home, loadVars, buf, world, overlapped>>

(* An error return: the deferred Unlock, and status 500 to the webhook.    *)
StoreFail(e) ==
    /\ currentMutex' = NoOne
    /\ buf' = [buf EXCEPT ![e] = <<>>]
    /\ spc' = [spc EXCEPT ![e] = "failed"]

(* ReadFile and Unmarshal.  A full file sends the goroutine to             *)
(* rotateIfNeeded, whose first statement locks the mutex it already holds: *)
(* "full" has no way out but the end of the process.                       *)
StoreRead(e) ==
    LET cur == disk[currentFile] IN
    /\ spc[e] = "read"
    /\ \/ ~cur.ok /\ StoreFail(e) /\ UNCHANGED overlapped
       \/ /\ cur.ok /\ cur.size > MaxFileSize
          /\ spc' = [spc EXCEPT ![e] = "full"]
          /\ UNCHANGED <<currentMutex, buf, overlapped>>
       \/ /\ cur.ok /\ cur.size <= MaxFileSize
          /\ spc' = [spc EXCEPT ![e] = "open"]
          /\ buf' = [buf EXCEPT ![e] = WithAlert(cur.evs, e)]
          /\ overlapped' = IF ApplierInside(currentFile)
                             THEN overlapped \union {currentFile} ELSE overlapped
          /\ UNCHANGED currentMutex
    /\ UNCHANGED <<disk, currentFile, fileIndexes, pending, pendingMutex, fileLock,
                   ts, home, loadVars, world>>

(* os.WriteFile is an open with O_TRUNC followed by a write.               *)
StoreOpen(e) ==
    /\ spc[e] = "open"
    /\ disk' = [disk EXCEPT ![currentFile] = Emptied]
    /\ spc' = [spc EXCEPT ![e] = "write"]
    /\ UNCHANGED <<memory, ts, home, loadVars, buf, world, overlapped>>

StoreWrite(e) ==
    /\ spc[e] = "write"
    /\ disk' = [disk EXCEPT ![currentFile] = Overwrite(@, buf[e])]
    /\ spc' = [spc EXCEPT ![e] = "index"]
    /\ UNCHANGED <<memory, ts, home, loadVars, buf, world, overlapped>>

(* Either of the two may fail.                                             *)
StoreWriteFails(e) ==
    /\ spc[e] \in {"open", "write"} /\ faults < MaxFaults
    /\ faults' = faults + 1
    /\ StoreFail(e)
    /\ UNCHANGED <<disk, currentFile, fileIndexes, pending, pendingMutex, fileLock,
                   ts, home, loadVars, now, unmarked, overlapped>>

(* updateFileIndex, then return: the deferred Unlock and the 200 answer.   *)
StoreIndex(e) ==
    /\ spc[e] = "index"
    /\ fileIndexes' = [fileIndexes EXCEPT ![currentFile] = IndexAdd(@, ts[e])]
    /\ home' = [home EXCEPT ![e] = currentFile]
    /\ currentMutex' = NoOne
    /\ buf' = [buf EXCEPT ![e] = <<>>]
    /\ spc' = [spc EXCEPT ![e] = "stored"]
    /\ UNCHANGED <<disk, currentFile, pending, pendingMutex, fileLock,
                   ts, loadVars, world, overlapped>>

-----------------------------------------------------------------------------
(* LoadEvents(q) for request l.                                            *)

(* An unset end time means now.                                            *)
Resolved(q) == IF q.end = 0 THEN [q EXCEPT !.end = now] ELSE q

LoadBegin(l, q) ==
    /\ lpc[l] = "new"
    /\ lpc' = [lpc EXCEPT ![l] = "load"]
    /\ filter' = [filter EXCEPT ![l] = Resolved(q)]
    /\ todo' = [todo EXCEPT ![l] = {f \in Files : Candidate(f, Resolved(q))}]
    /\ due' = [due EXCEPT ![l] = {e \in Events : spc[e] = "stored" /\ ~Ruined(home[e])}]
    /\ UNCHANGED <<disk, memory, storeVars, at, scan, got, idxbuf, buf, world, overlapped>>

(* loadFile reads without any lock; an unreadable file is skipped, also    *)
(* when all that is wrong with it is that somebody is writing it.          *)
LoadRead(l, f) ==
    /\ lpc[l] = "load" /\ scan[l] = <<>> /\ f \in todo[l]
    /\ todo' = [todo EXCEPT ![l] = @ \ {f}]
    /\ at' = [at EXCEPT ![l] = f]
    /\ scan' = [scan EXCEPT ![l] = disk[f].evs]
    /\ due' = [due EXCEPT ![l] = IF disk[f].ok THEN @ ELSE {e \in @ : home[e] # f}]
    /\ UNCHANGED <<disk, memory, storeVars, lpc, filter, got, idxbuf, buf, world, overlapped>>

(* One turn of the loop: an event the filter rejects is skipped, another   *)
(* goes to the pending updates (MarkPendingProcessed, AddUpdate) and then  *)
(* to the result.                                                          *)
LoadScan(l) ==
    LET entry == Head(scan[l]) IN
    /\ lpc[l] = "load" /\ scan[l] # <<>>
    /\ \/ ~Matches(entry, filter[l]) /\ UNCHANGED <<pending, got>>
       \/ /\ Matches(entry, filter[l]) /\ pendingMutex = NoOne
          /\ pending' = [pending EXCEPT ![at[l]] = @ \union {entry.id}]
          /\ got' = [got EXCEPT ![l] = @ \union {entry.id}]
    /\ scan' = [scan EXCEPT ![l] = Tail(@)]
    /\ UNCHANGED <<disk, currentFile, currentMutex, fileIndexes, pendingMutex, fileLock,
                   storeVars, lpc, filter, todo, at, idxbuf, due, buf, world, overlapped>>

(* The files the loop over the pending updates goes through.               *)
MarkedFiles == {f \in Files : pending[f] # {}}

ApplyLockWrongMutex(l) ==
    /\ lpc[l] = "load" /\ scan[l] = <<>> /\ todo[l] = {} /\ currentMutex = NoOne
    /\ currentMutex' = l
    /\ todo' = [todo EXCEPT ![l] = MarkedFiles]
    /\ lpc' = [lpc EXCEPT ![l] = "apply"]
    /\ UNCHANGED <<disk, currentFile, fileIndexes, pending, pendingMutex, fileLock,
                   storeVars, filter, at, scan, got, idxbuf, due, buf, world, overlapped>>

(* ApplyPendingUpdates holds the pending mutex until its loop has been     *)
(* through the files of the map, in any order.                             *)
ApplyLock(l) ==
    /\ lpc[l] = "load" /\ scan[l] = <<>> /\ todo[l] = {} /\ pendingMutex = NoOne
    /\ pendingMutex' = l
    /\ todo' = [todo EXCEPT ![l] = MarkedFiles]
    /\ lpc' = [lpc EXCEPT ![l] = "apply"]
    /\ UNCHANGED <<disk, currentFile, currentMutex, fileIndexes, pending, fileLock,
                   storeVars, filter, at, scan, got, idxbuf, due, buf, world, overlapped>>

ApplyPick(l, f) ==
    /\ lpc[l] = "apply" /\ f \in todo[l] /\ fileLock[f] = NoOne
    /\ todo' = [todo EXCEPT ![l] = @ \ {f}]
    /\ fileLock' = [fileLock EXCEPT ![f] = l]
    /\ at' = [at EXCEPT ![l] = f]
    /\ lpc' = [lpc EXCEPT ![l] = "aread"]
    /\ UNCHANGED <<disk, currentFile, currentMutex, fileIndexes, pending, pendingMutex,
                   storeVars, filter, scan, got, idxbuf, due, buf, world, overlapped>>

ApplyNextFileLocked(l) ==
    /\ pending' = [pending EXCEPT ![at[l]] = {}]
    /\ at' = [at EXCEPT ![l] = NoFile]
    /\ buf' = [buf EXCEPT ![l] = <<>>]
    /\ idxbuf' = [idxbuf EXCEPT ![l] = NoIndex]
    /\ lpc' = [lpc EXCEPT ![l] = "apply"]
    /\ UNCHANGED fileLock

(* applySingleFileUpdates returns, with an error or without: the file lock *)
(* is released and the file's updates are forgotten.                       *)
ApplyNextFile(l) ==
    /\ fileLock' = [fileLock EXCEPT ![at[l]] = NoOne]
    /\ pending' = [pending EXCEPT ![at[l]] = {}]
    /\ at' = [at EXCEPT ![l] = NoFile]
    /\ buf' = [buf EXCEPT ![l] = <<>>]
    /\ idxbuf' = [idxbuf EXCEPT ![l] = NoIndex]
    /\ lpc' = [lpc EXCEPT ![l] = "apply"]

ApplyRead(l) ==
    LET f == at[l]
        hit == disk[f].ok /\ Ids(disk[f].evs) \intersect pending[f] # {}
    IN
    /\ lpc[l] = "aread"
    /\ \/ ~hit /\ ApplyNextFile(l)
       \/ /\ hit
          /\ buf' = [buf EXCEPT ![l] = Marked(disk[f].evs, pending[f])]
          /\ lpc' = [lpc EXCEPT ![l] = "aopen"]
          /\ UNCHANGED <<fileLock, pending, at, idxbuf>>
    /\ overlapped' = IF StorerInside(f) THEN overlapped \union {f} ELSE overlapped
    /\ UNCHANGED <<disk, currentFile, currentMutex, fileIndexes, pendingMutex,
                   storeVars, filter, todo, scan, got, due, world>>

ApplyOpen(l) ==
    /\ lpc[l] = "aopen"
    /\ disk' = [disk EXCEPT ![at[l]] = Emptied]
    /\ lpc' = [lpc EXCEPT ![l] = "awrite"]
    /\ UNCHANGED <<memory, storeVars, filter, todo, at, scan, got, idxbuf, due, buf, world, overlapped>>

ApplyWrite(l) ==
    /\ lpc[l] = "awrite"
    /\ disk' = [disk EXCEPT ![at[l]] = Overwrite(@, buf[l])]
    /\ lpc' = [lpc EXCEPT ![l] = "aindex"]
    /\ UNCHANGED <<memory, storeVars, filter, todo, at, scan, got, idxbuf, due, buf, world, overlapped>>

(* When the open fails the file is whole, but its marks are gone.          *)
ApplyWriteFails(l) ==
    /\ lpc[l] \in {"aopen", "awrite"} /\ faults < MaxFaults
    /\ faults' = faults + 1
    /\ unmarked' = IF lpc[l] = "aopen" THEN unmarked \union {at[l]} ELSE unmarked
    /\ ApplyNextFile(l)
    /\ UNCHANGED <<disk, currentFile, currentMutex, fileIndexes, pendingMutex,
                   storeVars, filter, todo, scan, got, due, now, overlapped>>

(* indexFile reads the file once more, and publishes nothing for a file    *)
(* that is unreadable or empty.                                            *)
ApplyReindex(l) ==
    LET f == at[l]
        indexable == disk[f].ok /\ disk[f].evs # <<>>
    IN
    /\ lpc[l] = "aindex"
    /\ \/ /\ indexable
          /\ idxbuf' = [idxbuf EXCEPT ![l] = IndexOf(disk[f].evs)]
          /\ lpc' = [lpc EXCEPT ![l] = "apublish"]
          /\ UNCHANGED <<fileLock, pending, at, buf>>
       \/ ~indexable /\ ApplyNextFile(l)
    /\ UNCHANGED <<disk, currentFile, currentMutex, fileIndexes, pendingMutex,
                   storeVars, filter, todo, scan, got, due, world, overlapped>>

ApplyPublish(l) ==
    /\ lpc[l] = "apublish"
    /\ fileIndexes' = [fileIndexes EXCEPT ![at[l]] = idxbuf[l]]
    /\ ApplyNextFile(l)
    /\ UNCHANGED <<disk, currentFile, currentMutex, pendingMutex,
                   storeVars, filter, todo, scan, got, due, world, overlapped>>

LoadReturnEarly(l) ==
    /\ lpc[l] = "apply"
    /\ pendingMutex' = NoOne
    /\ lpc' = [lpc EXCEPT ![l] = "done"]
    /\ UNCHANGED <<disk, currentFile, currentMutex, fileIndexes, pending, fileLock,
                   storeVars, filter, todo, at, scan, got, idxbuf, due, buf, world, overlapped>>

(* The loop is over: unlock and answer with the collected events.          *)
LoadReturn(l) ==
    /\ lpc[l] = "apply" /\ todo[l] = {}
    /\ pendingMutex' = NoOne
    /\ lpc' = [lpc EXCEPT ![l] = "done"]
    /\ UNCHANGED <<disk, currentFile, currentMutex, fileIndexes, pending, fileLock,
                   storeVars, filter, todo, at, scan, got, idxbuf, due, buf, world, overlapped>>

-----------------------------------------------------------------------------
(* The process ends (os.Exit, a kill) wherever its goroutines stand, and   *)
(* the process manager starts it again on the same directory: memory is    *)
(* gone, readable files are indexed, a fresh file becomes the current one. *)

StoreRunning == {"wait", "read", "full", "open", "write", "index"}
LoadRunning  == {"load", "apply", "aread", "aopen", "awrite", "aindex", "apublish"}

Reboot ==
    LET fresh == currentFile + 1 IN
    /\ fresh \in Files
    /\ currentFile' = fresh
    /\ disk' = [disk EXCEPT ![fresh] = Json(<<>>)]
    /\ fileIndexes' = RebuiltIndexes
    /\ currentMutex' = NoOne /\ pendingMutex' = NoOne
    /\ pending' = [f \in Files |-> {}]
    /\ fileLock' = [f \in Files |-> NoOne]
    /\ spc' = [e \in Events |-> IF spc[e] \in StoreRunning THEN "killed" ELSE spc[e]]
    /\ lpc' = [l \in Loads |-> IF lpc[l] \in LoadRunning THEN "killed" ELSE lpc[l]]
    /\ todo' = [l \in Loads |-> {}]
    /\ at' = [l \in Loads |-> NoFile]
    /\ scan' = [l \in Loads |-> <<>>]
    /\ buf' = [r \in Requests |-> <<>>]
    /\ idxbuf' = [l \in Loads |-> NoIndex]
    /\ UNCHANGED <<ts, home, filter, got, due, world, overlapped>>

Tick ==
    /\ now < MaxTime
    /\ now' = now + 1
    /\ UNCHANGED <<disk, memory, storeVars, loadVars, buf, faults, unmarked, overlapped>>

(* Every request has been answered or died with the process.               *)
Quiet ==
    /\ \A e \in Events : spc[e] \in {"stored", "failed", "killed"}
    /\ \A l \in Loads : lpc[l] \in {"done", "killed"}
    /\ UNCHANGED vars

-----------------------------------------------------------------------------
StoreStep(e) ==
    \/ StoreLock(e) \/ StoreRead(e) \/ StoreOpen(e)
    \/ StoreWrite(e) \/ StoreWriteFails(e) \/ StoreIndex(e)

LoadStep(l) ==
    \/ \E f \in Files : LoadRead(l, f) \/ ApplyPick(l, f)
    \/ LoadScan(l) \/ ApplyLock(l) \/ LoadReturn(l)
    \/ ApplyRead(l) \/ ApplyOpen(l) \/ ApplyWrite(l) \/ ApplyWriteFails(l)
    \/ ApplyReindex(l) \/ ApplyPublish(l)

Internal ==
    \/ \E e \in Events : StoreBegin(e) \/ StoreStep(e)
    \/ \E l \in Loads : LoadStep(l)
    \/ Reboot \/ Tick

Next ==
    \/ Internal
    \/ \E l \in Loads, q \in Queries : LoadBegin(l, q)
    \/ Quiet

Spec == Init /\ [][Next]_vars

(* The Go scheduler runs every goroutine that can run; requests need not   *)
(* arrive, and the process need not die.                                   *)
Fairness ==
    /\ \A e \in Events : WF_vars(StoreStep(e))
    /\ \A l \in Loads : WF_vars(LoadStep(l))

FairSpec == Spec /\ Fairness

-----------------------------------------------------------------------------
(* Properties.                                                             *)

(* Every variable of the store keeps its shape; in particular a goroutine  *)
(* between ReadFile and WriteFile always has a document to write.          *)
TypeOK ==
    /\ disk \in [Files -> File]
    /\ currentFile \in Files
    /\ currentMutex \in Events \union {NoOne}
    /\ fileIndexes \in [Files -> Index \union {NoIndex}]
    /\ pending \in [Files -> SUBSET Events]
    /\ pendingMutex \in Loads \union {NoOne}
    /\ fileLock \in [Files -> Loads \union {NoOne}]
    /\ spc \in [Events -> StoreRunning \union {"new", "stored", "failed", "killed"}]
    /\ ts \in [Events -> 0..MaxTime]
    /\ home \in [Events -> Files \union {NoFile}]
    /\ lpc \in [Loads -> LoadRunning \union {"new", "done", "killed"}]
    /\ filter \in [Loads -> Filter]
    /\ todo \in [Loads -> SUBSET Files]
    /\ at \in [Loads -> Files \union {NoFile}]
    /\ scan \in [Loads -> Seq(Entry)]
    /\ got \in [Loads -> SUBSET Events]
    /\ buf \in [Requests -> Seq(Entry)]
    /\ idxbuf \in [Loads -> Index \union {NoIndex}]
    /\ now \in 0..MaxTime
    /\ faults \in 0..MaxFaults
    /\ unmarked \subseteq Files /\ overlapped \subseteq Files
    /\ due \in [Loads -> SUBSET Events]

(* At most one applier is ever at work on the files, and a per-file mutex  *)
(* is held only by the owner of the pending mutex: the lock manager's      *)
(* mutexes are never contended, so all they could protect is already       *)
(* protected (and StoreEvent, which takes none of them, stays outside).    *)
OneApplier ==
    \A l \in Loads :
        /\ lpc[l] \in LoadRunning \ {"load"} <=> pendingMutex = l
        /\ \A f \in Files : fileLock[f] = l =>
              pendingMutex = l /\ at[l] = f /\ lpc[l] # "apply"

(* The mutex of the current file admits one StoreEvent at a time, from its *)
(* read to its index update, also when one of them is stuck in rotation.   *)
OneStorer ==
    \A e \in Events :
        currentMutex = e <=> spc[e] \in StoreRunning \ {"wait"}

(* Storers exclude each other and appliers exclude each other.  That is    *)
(* all the mutexes do: a storer and an applier, or a reader, may meet.     *)
MutexesHold == OneStorer /\ OneApplier

(* Only an alert that some GetAlerts request put in its answer is ever     *)
(* flagged processed on disk, across overlapping writers, failed writes    *)
(* and restarts: processing is never recorded for an alert nobody read.    *)
ProcessedWasRead ==
    \A f \in Files : \A i \in DOMAIN disk[f].evs :
        disk[f].evs[i].processed => \E l \in Loads : disk[f].evs[i].id \in got[l]

(* What is on disk once the writers that have truncated f have written.    *)
Settled(f) == IF Writing(f) = {} THEN {disk[f].evs} ELSE {buf[r] : r \in Writing(f)}

(* An alert whose webhook got its 200 answer stays in the file StoreEvent  *)
(* returned, unless the file was ruined or two read-modify-writes met.     *)
KeptUnlessOverlapped ==
    \A e \in Events : LET f == home[e] IN
        spc[e] = "stored" /\ f \notin overlapped /\ ~Ruined(f) =>
            \A c \in Settled(f) : e \in Ids(c)

(* The index never hides an acknowledged unprocessed alert from a query    *)
(* that asks for it, unless two read-modify-writes met on its file.        *)
Hidden(e) ==
    \E q \in Queries : LET f == home[e] IN
        /\ \E i \in DOMAIN disk[f].evs : disk[f].evs[i].id = e /\ Matches(disk[f].evs[i], q)
        /\ ~Candidate(f, q)

IndexHonestUnlessOverlapped ==
    \A e \in Events : spc[e] = "stored" /\ home[e] \notin overlapped => ~Hidden(e)

(* When GetAlerts answers, each alert of the answer is recorded as         *)
(* processed in its file (by this request or by another that found the     *)
(* mark first), with the same exceptions and one more: the file could not  *)
(* be opened for the marks.  The next query does not return it again.      *)
AnsweredIsProcessed ==
    \A l \in Loads, e \in Events : LET f == home[e] IN
        /\ lpc[l] = "done" /\ e \in got[l] /\ spc[e] = "stored"
        /\ f \notin overlapped \union unmarked /\ ~Ruined(f)
        => \A c \in Settled(f) : \E i \in DOMAIN c : c[i].id = e /\ c[i].processed

(* An alert is answered once: after an answer with it has been given, no   *)
(* request reads it as unprocessed again, unless two read-modify-writes    *)
(* met on its file or the file could not be opened for its marks.          *)
Unprocessed(c) == {c[i].id : i \in {j \in DOMAIN c : ~c[j].processed}}

Answered(e) ==
    /\ spc[e] = "stored" /\ home[e] \notin overlapped \union unmarked
    /\ \E l \in Loads : lpc[l] = "done" /\ e \in got[l]

AnsweredOnce ==
    [][\A l \in Loads : \A e \in Unprocessed(scan'[l]) \ Unprocessed(scan[l]) : ~Answered(e)]_vars

(* An answer is complete: an alert that was acknowledged before the        *)
(* request came, that its window covers and that is as severe as it asks,  *)
(* is in the answer, or the request asked for unprocessed alerts and       *)
(* another one has it (one for WARNING and above asks for none).  Excepted *)
(* are alerts on whose file two read-modify-writes met, and those the      *)
(* request could not see, because it read the file while it was unreadable *)
(* or ruined (due).                                                        *)
Covers(q, e) == q.start <= ts[e] /\ ts[e] <= q.end /\ q.minSeverity <= Info

NothingMissed ==
    \A l \in Loads : \A e \in due[l] :
        lpc[l] = "done" /\ home[e] \notin overlapped /\ Covers(filter[l], e) =>
            e \in got[l] \/ (filter[l].unprocessed /\ \E k \in Loads : e \in got[k])

(* Refinement: the log the files are to their readers.                     *)
Acknowledged == {e \in Events : spc[e] = "stored"}

Spoilt == {e \in Acknowledged : home[e] \in overlapped \union unmarked}

Place == [l \in Loads |-> IF lpc[l] \in LoadRunning THEN "open"
                          ELSE IF lpc[l] = "killed" THEN "gone" ELSE lpc[l]]

Fresh == [l \in Loads |-> filter[l].unprocessed]

Owed == [l \in Loads |-> {e \in due[l] : Covers(filter[l], e)}]

Filtered(l) == {scan[l][i].id : i \in {j \in DOMAIN scan[l] : Matches(scan[l][j], filter[l])}}

HasRead == [l \in Loads |-> got[l] \union Filtered(l)]

Log == INSTANCE AlertLog WITH Alerts <- Events, Queries <- Loads, log <- Acknowledged,
           spoilt <- Spoilt, place <- Place, fresh <- Fresh, owed <- Owed, answer <- HasRead

(* The store is an AlertLog: to webhooks and queries, whatever their       *)
(* interleaving, failed writes and restarts, it is one log answered out of *)
(* completely and once, but for the alerts of overlapped or unmarked files *)
(* and those in a file that was unreadable when a query read it.           *)
ImplementsAlertLog == Log!Spec

(* StoreEvent keeps what it acknowledges: an alert whose webhook got its   *)
(* 200 answer is in the file on disk, or in what a writer will put there.  *)
(* The source's own reading of the store (persistent directory for events) *)
(* with no exception; the code breaks it.                                  *)
AckedAlertKept ==
    \A e \in Events :
        spc[e] = "stored" => \A c \in Settled(home[e]) : e \in Ids(c)

(* Every GetAlerts request is answered, whatever the storers do, including *)
(* when one of them is stuck in rotation with the mutex of the file.       *)
LoadsReturn == \A l \in Loads : lpc[l] = "load" ~> lpc[l] \in {"done", "killed"}

(* Every webhook request that reaches the store is answered, with success  *)
(* or with an error, or dies with the process.                             *)
StoresReturn ==
    \A e \in Events : spc[e] = "wait" ~> spc[e] \in {"stored", "failed", "killed"}
=============================================================================
