------------------------------ MODULE LogTail ------------------------------
(***************************************************************************)
(* GetRecentLogs on the agent (pkg/agent/logtail): the last lines of each  *)
(* rank's log and how long the rank has been silent, read while the ranks  *)
(* go on writing.                                                          *)
(*                                                                         *)
(* A log line is one the parser reads a time from, a plain line, one with  *)
(* a time it cannot read, or one longer than the scanner's buffer.         *)
(***************************************************************************)
EXTENDS Integers, Sequences, FiniteSets

CONSTANTS
    MinRank, MaxRank, \* what the rank range script prints: lowest and highest rank
    LineCounts,       \* max_lines of the request
    Kinds,            \* kinds of line the job writes
    Writers,          \* ranks that log; the others have not come that far
    Zones,            \* how far the job's clock may be ahead of UTC
    MaxTime,          \* bound: last value of the clock
    MaxLines          \* bound: lines in a log

ASSUME LogTailAssumption ==
    /\ MinRank \in Nat /\ MaxRank \in Nat /\ MinRank <= MaxRank
    /\ LineCounts \subseteq Int
    /\ Kinds \subseteq {"stamped", "plain", "garbled", "long"}
    /\ Writers \subseteq MinRank..MaxRank
    /\ Zones \subseteq Int /\ MaxTime \in Nat /\ MaxLines \in Nat

Ranks == MinRank..MaxRank

Line == [kind : {"stamped", "plain", "garbled", "long"}, at : 0..MaxTime]

Unset  == [kind |-> "plain", at |-> 0]  \* a slot of the ring not written yet
NoTime == -1                            \* the zero time.Time

VARIABLES
    now,
    log,      \* lines of each rank's log
    half,     \* ranks whose last line has no newline yet
    exists,   \* ranks whose log file has been created
    mtime,    \* its modification time
    zone,     \* how far the times in the logs are ahead of UTC
    pc,       \* where the handler stands
    lines,    \* max_lines
    rank,     \* rank being read
    ring,     \* ringBuffer
    index,
    count,    \* lineCount
    eof,      \* the scanner has returned an unterminated last line
    scanned,  \* history: lines the scanner has returned
    tail,     \* logLines, then the lines handed to the parser
    fmod,     \* fileModTime
    reply     \* rankLogs

jobVars == <<log, half, exists, mtime, zone>>
readVars == <<lines, rank, ring, index, count, eof, scanned, tail, fmod>>
vars == <<now, jobVars, pc, readVars, reply>>

Init ==
    /\ now = 0
    /\ log = [r \in Ranks |-> <<>>]
    /\ half = {}
    /\ exists = {}
    /\ mtime = [r \in Ranks |-> 0]
    /\ zone \in Zones
    /\ pc = "begin"
    /\ lines \in LineCounts
    /\ rank = MinRank
    /\ ring = [i \in {} |-> Unset]
    /\ index = 0 /\ count = 0 /\ eof = FALSE /\ scanned = <<>> /\ tail = <<>>
    /\ fmod = NoTime
    /\ reply = <<>>

-----------------------------------------------------------------------------
(* The training job.                                                       *)

Create(r) ==
    /\ r \notin exists
    /\ exists' = exists \union {r}
    /\ mtime' = [mtime EXCEPT ![r] = now]
    /\ UNCHANGED <<now, log, half, zone, pc, readVars, reply>>

(* A rank writes a line, or as much of it as fits its own buffer: what the *)
(* parser would make of that much is the kind of the line for now.         *)
Write(r, kind) ==
    /\ r \in exists \ half /\ Len(log[r]) < MaxLines
    /\ log' = [log EXCEPT ![r] = Append(@, [kind |-> kind, at |-> now])]
    /\ half' \in {half, half \union {r}}
    /\ mtime' = [mtime EXCEPT ![r] = now]
    /\ UNCHANGED <<now, exists, zone, pc, readVars, reply>>

(* What a line may turn into when the rest of it is written.               *)
Completions(kind) == IF kind = "plain" THEN Kinds ELSE {kind, "long"} \intersect Kinds

Finish(r) ==
    /\ r \in half
    /\ \E kind \in Completions(log[r][Len(log[r])].kind) :
          log' = [log EXCEPT ![r][Len(log[r])].kind = kind]
    /\ half' = half \ {r}
    /\ mtime' = [mtime EXCEPT ![r] = now]
    /\ UNCHANGED <<now, exists, zone, pc, readVars, reply>>

Tick ==
    /\ now < MaxTime
    /\ now' = now + 1
    /\ UNCHANGED <<jobVars, pc, readVars, reply>>

-----------------------------------------------------------------------------
(* GetRecentLogs.                                                          *)

(* Both the directory and the rank range are known, or the request fails.  *)
Begin ==
    /\ pc = "begin"
    /\ pc' \in {"open", "error"}
    /\ UNCHANGED <<now, jobVars, readVars, reply>>

InRange == rank < MaxRank

(* One turn of the loop: open the file and make the ring, which panics on  *)
(* a negative count.                                                       *)
Open ==
    /\ pc = "open" /\ InRange /\ rank \in exists
    /\ IF lines < 0
         THEN pc' = "panicked" /\ UNCHANGED ring
         ELSE pc' = "scan" /\ ring' = [i \in 0..(lines - 1) |-> Unset]
    /\ index' = 0 /\ count' = 0 /\ eof' = FALSE /\ scanned' = <<>> /\ tail' = <<>>
    /\ fmod' = NoTime
    /\ UNCHANGED <<now, jobVars, lines, rank, reply>>

(* A file that cannot be read becomes one line that says so.               *)
Unreadable ==
    /\ tail' = <<[kind |-> "plain", at |-> now]>>
    /\ fmod' = NoTime
    /\ pc' = "parse"

OpenFailsSkips ==
    /\ pc = "open" /\ InRange
    /\ rank' = rank + 1
    /\ UNCHANGED <<now, jobVars, pc, lines, ring, index, count, eof, scanned, tail, fmod, reply>>

(* The log does not exist yet, or cannot be opened.                        *)
OpenFails ==
    /\ pc = "open" /\ InRange
    /\ Unreadable
    /\ UNCHANGED <<now, jobVars, lines, rank, ring, index, count, eof, scanned, reply>>

NextLine == log[rank][count + 1]

NextIndexNoWrap == index + 1

NextIndexSkipsLast == IF lines > 1 THEN (index + 1) % (lines - 1) ELSE 0

NextIndex == (index + 1) % lines

(* The scanner has reached the end of the file as it is now.               *)
AtEnd == eof \/ count = Len(log[rank])

(* scanner.Scan returns a line: at the end of the file also one whose      *)
(* newline is not there yet, after which it reads no further.              *)
ScanLine ==
    /\ pc = "scan" /\ ~AtEnd /\ NextLine.kind # "long"
    /\ IF lines = 0
         THEN pc' = "panicked" /\ UNCHANGED <<ring, index, count, eof, scanned>>
         ELSE /\ ring' = [ring EXCEPT ![index] = NextLine]
              /\ index' = NextIndex
              /\ count' = count + 1
              /\ eof' = (rank \in half /\ count + 1 = Len(log[rank]))
              /\ scanned' = Append(scanned, NextLine)
              /\ UNCHANGED pc
    /\ UNCHANGED <<now, jobVars, lines, rank, tail, fmod, reply>>

ScanFailsStays ==
    /\ pc = "scan" /\ ~AtEnd /\ NextLine.kind = "long"
    /\ UNCHANGED vars

(* A line that does not fit the buffer (bufio.ErrTooLong), or the read     *)
(* fails.                                                                  *)
ScanFails ==
    /\ pc = "scan" /\ ~eof
    /\ Unreadable
    /\ UNCHANGED <<now, jobVars, lines, rank, ring, index, count, eof, scanned, reply>>

Start == IF count > lines THEN index ELSE 0

(* The end of the file: read the ring out, oldest line first.              *)
ScanEnd ==
    /\ pc = "scan" /\ AtEnd
    /\ tail' = [i \in 1..(IF count < lines THEN count ELSE lines) |->
                  ring[(Start + i - 1) % lines]]
    /\ pc' = "stat"
    /\ UNCHANGED <<now, jobVars, lines, rank, ring, index, count, eof, scanned, fmod, reply>>

Stat ==
    /\ pc = "stat"
    /\ fmod' \in {mtime[rank], NoTime}
    /\ pc' = "parse"
    /\ UNCHANGED <<now, jobVars, lines, rank, ring, index, count, eof, scanned, tail, reply>>

-----------------------------------------------------------------------------
(* LogParser: a line with a time it cannot read is dropped; a plain line   *)
(* keeps no time.                                                          *)
Entries(ls) ==
    LET parsed[i \in 0..Len(ls)] ==
            IF i = 0 THEN <<>>
            ELSE IF ls[i].kind = "garbled" THEN parsed[i - 1] ELSE Append(parsed[i - 1], ls[i])
    IN  parsed[Len(ls)]

(* time.Parse reads the job's local time as UTC.                           *)
Times(ls) == {ls[i].at + zone : i \in {i \in DOMAIN ls : ls[i].kind = "stamped"}}

LatestOf(T) == CHOOSE t \in T : \A u \in T : u <= t

SuspendNoFileTime(ls) ==
    IF Entries(ls) = <<>> THEN 0
    ELSE IF Times(ls) # {} THEN now - LatestOf(Times(ls)) ELSE -10

(* The latest time of the entries, else the file's, else -10.              *)
SuspendSeconds(ls) ==
    IF Entries(ls) = <<>> THEN 0
    ELSE IF Times(ls) # {} THEN now - LatestOf(Times(ls))
    ELSE IF fmod = NoTime THEN -10
    ELSE now - fmod

(* The rank's entry in the reply, and the next turn of the loop.           *)
Parse ==
    /\ pc = "parse"
    /\ reply' = Append(reply, [rank |-> rank, entries |-> Entries(tail),
                               suspend |-> SuspendSeconds(tail), at |-> now,
                               file |-> fmod])
    /\ rank' = rank + 1
    /\ pc' = "open"
    /\ UNCHANGED <<now, jobVars, lines, ring, index, count, eof, scanned, tail, fmod>>

Done ==
    /\ pc = "open" /\ ~InRange
    /\ pc' = "done"
    /\ UNCHANGED <<now, jobVars, readVars, reply>>

Ended == pc \in {"done", "error", "panicked"} /\ UNCHANGED vars

Handler == Begin \/ Open \/ OpenFails \/ ScanLine \/ ScanFails \/ ScanEnd \/ Stat \/ Parse \/ Done

Next ==
    \/ \E r \in Writers : Create(r) \/ Finish(r) \/ \E kind \in Kinds : Write(r, kind)
    \/ Tick \/ Handler \/ Ended

Spec == Init /\ [][Next]_vars

(* The handler runs; the job need not write.                               *)
FairSpec == Spec /\ WF_vars(Handler)

-----------------------------------------------------------------------------
(* Properties.                                                             *)

RankLog == [rank : Ranks, entries : Seq(Line), suspend : Int, at : 0..MaxTime,
            file : 0..MaxTime \union {NoTime}]

(* Variables keep their shape, and the ring is never indexed outside.      *)
TypeOK ==
    /\ now \in 0..MaxTime
    /\ log \in [Ranks -> Seq(Line)]
    /\ half \subseteq exists
    /\ exists \subseteq Ranks
    /\ mtime \in [Ranks -> 0..MaxTime]
    /\ zone \in Int
    /\ pc \in {"begin", "open", "scan", "stat", "parse", "done", "error", "panicked"}
    /\ lines \in Int
    /\ rank \in Ranks
    /\ pc = "scan" => ring \in [0..(lines - 1) -> Line] /\ (lines > 0 => index \in DOMAIN ring)
    /\ index \in Nat /\ count \in Nat /\ eof \in BOOLEAN
    /\ scanned \in Seq(Line) /\ tail \in Seq(Line)
    /\ fmod \in 0..MaxTime \union {NoTime}
    /\ reply \in Seq(RankLog)

LastLines(s) == SubSeq(s, IF Len(s) > lines THEN Len(s) - lines + 1 ELSE 1, Len(s))

(* The ring read out from its start is the end of what was scanned, in     *)
(* order, however often it wrapped; and what was scanned is a prefix of    *)
(* the file, although the rank writes meanwhile.  Only the line the scan   *)
(* ended with may be the beginning of a line that was being written, and   *)
(* then nothing is scanned after it.                                       *)
TailIsLast ==
    /\ pc = "stat" => tail = LastLines(scanned)
    /\ pc \in {"scan", "stat"} =>
          /\ count = Len(scanned) /\ count <= Len(log[rank])
          /\ \A i \in 1..count : scanned[i] = log[rank][i] \/ (eof /\ i = count)

(* One rank's failing read changes nothing for the others: the reply has   *)
(* the ranks from the first on, each once, in order.                       *)
RanksInOrder ==
    /\ \A i \in DOMAIN reply : reply[i].rank = MinRank + i - 1
    /\ pc = "done" => Len(reply) = MaxRank - MinRank

(* No hang is missed by a job that logs UTC, or a time behind it: a rank   *)
(* whose file could be read and had a line the parser keeps is reported    *)
(* suspended for at least as long as its file had not been written when it *)
(* was looked at.  (East of UTC the reported time is too short.)           *)
HangNotMissed ==
    \A i \in DOMAIN reply :
        zone <= 0 /\ reply[i].file # NoTime /\ reply[i].entries # <<>> =>
            reply[i].suspend >= reply[i].at - reply[i].file

(* The handler answers or fails, also when a file cannot be opened or read,*)
(* provided that lines are asked for and that the ranks come to stop       *)
(* writing: nothing but the end of the file ends a scan, so a rank that    *)
(* writes as fast as it is read is read for ever.  (MaxLines makes them    *)
(* stop here.)                                                             *)
Answers ==
    lines > 0 /\ <>[][UNCHANGED log]_vars => <>(pc \in {"done", "error"})

(* "Get latest logs for all ranks": the reply to the client has one entry  *)
(* for each rank of the node.  The code breaks it.                         *)
AllRanksReported ==
    pc = "done" => {reply[i].rank : i \in DOMAIN reply} = Ranks
=============================================================================
