------------------------------- MODULE FanOut -------------------------------
(***************************************************************************)
(* The one-shot commands of the client: `logs`, `stacks`, `restart` and    *)
(* `version`.  Each resolves its worker source to a list of addresses,     *)
(* starts a goroutine per entry that calls the agent there, collects the   *)
(* results over a buffered channel and reports.  They differ in how the    *)
(* channel ends:                                                           *)
(*   logs, stacks   main receives one result per address, then closes;     *)
(*   restart        main waits for the goroutines, closes, then drains,    *)
(*                  and only errors go through the channel;                *)
(*   version        a goroutine waits and closes while main drains.        *)
(* logs and stacks then append a newline and a JSON document to a file     *)
(* that outlives the command, which may be killed at any point.            *)
(***************************************************************************)
EXTENDS Integers, Sequences, FiniteSets

CONSTANTS
    Sources,     \* worker sources: what the file or clusterx has to say
    RankFlags,   \* values of --rank
    TypeFlags,   \* values of --process-type
    TypeSettings,  \* values of process-type in the configuration file
    Holdings,    \* what the agents hold: ranks' logs, processes and versions
    MaxList,     \* bound: addresses in a list
    MaxRuns      \* bound: commands run one after the other

(* A holding is [cmd, host, name, type]: the log of a rank, a process with *)
(* its rank and type, or a version.  A flag is [form, name]: RANK0 is the  *)
(* "label" of rank 0, rank0 its "lower" form, 0 its "number".              *)
Commands == {"logs", "stacks", "restart", "version"}

Slots == 1..MaxList

(* The file's name carries the job, the command and the flag as given.     *)
Files == {"logs", "stacks"} \X RankFlags

VARIABLES
    cmd, flag, type,  \* the command line, with the process type asked for
    list,      \* addressList
    pc,        \* where main stands
    launched,  \* goroutines started, the first entries of the list
    call,      \* the goroutine of each entry
    request,   \* what the agent has of its request
    reply,     \* what the agent answered
    outcome,   \* how the goroutine's call ended
    results,   \* entries whose Result is in the channel
    closed,    \* the channel is closed
    heard,     \* what main, or the user, has from each entry
    final,     \* finalResponse, allProcesses, versions: <<entry, holding>>
    verdict,   \* the command's last word
    file,      \* what each file consists of
    runs

calls == <<launched, call, request, reply, outcome>>
collected == <<results, closed, heard, final>>
setup == <<cmd, flag, type, list>>
vars == <<setup, pc, calls, collected, verdict, file, runs>>

-----------------------------------------------------------------------------
(* The address list.                                                       *)

(* An entry is [kind, host]: blank, a host, or a name:host pair.           *)
NotBlank(entry) == entry.kind # "blank"

(* ExtractNodes: the names of name:host pairs are cut off, and a text      *)
(* without nodes=[...] is an error that GetWorkerList only prints.         *)
ExtractNodes(source) ==
    IF source.ok
      THEN LET kept == SelectSeq(source.entries, NotBlank)
           IN  [i \in 1..Len(kept) |-> [kind |-> "host", host |-> kept[i].host]]
      ELSE <<>>

(* ReadAddressListFromFile: lines stay as they are, name:host pairs too,   *)
(* and an unreadable or empty file is an error.                            *)
AddressesInFile(source) == IF source.ok THEN SelectSeq(source.entries, NotBlank) ELSE <<>>

GetWorkerList(source) ==
    IF source.from = "clusterx" THEN ExtractNodes(source) ELSE AddressesInFile(source)

(* The command ends: no worker source, or no list in the file.             *)
NoList(source) ==
    source.from = "none" \/ (source.from = "file" /\ AddressesInFile(source) = <<>>)

ASSUME FanOutAssumption ==
    /\ MaxList \in Nat /\ MaxRuns \in Nat
    /\ \A h \in Holdings : h.cmd # "restart"
    /\ \A source \in Sources : Len(GetWorkerList(source)) \in 0..MaxList

-----------------------------------------------------------------------------
(* The process type: the flag, which must be one of the known ones, then   *)
(* the configuration file, where anything else means all.                  *)
KnownTypes == {"trainer", "loader", "launcher"}

BadType(given) == given \notin KnownTypes \union {""}

ProcessType(given, setting) ==
    IF given \in KnownTypes THEN given
    ELSE IF setting \in KnownTypes THEN setting ELSE "any"

(* The client keeps the logs whose rank is the flag, to the letter; agents *)
(* call rank 0 RANK0.                                                      *)
LogMatches(log) ==
    flag.form = "unset" \/ (flag.form = "label" /\ flag.name = log.name)

(* The agent lists the processes of the type asked for, if any, whose rank *)
(* is the flag in upper or lower case.                                     *)
ProcessMatches(proc) ==
    /\ type = "any" \/ type = proc.type
    /\ flag.form = "unset" \/ (flag.form \in {"label", "lower"} /\ flag.name = proc.name)

(* What the agent at entry i answers with.                                 *)
Answered(i) ==
    {h \in Holdings : /\ h.cmd = cmd /\ h.host = list[i].host
                      /\ cmd = "stacks" => ProcessMatches(h)}

(* What main keeps of it.                                                  *)
Kept(i) == {<<i, h>> : h \in {h \in reply[i] : cmd = "logs" => LogMatches(h)}}

-----------------------------------------------------------------------------
InEachSlot(x) == [i \in Slots |-> x]

Init ==
    /\ cmd \in Commands /\ flag \in RankFlags /\ type = "any"
    /\ list = <<>> /\ pc = "start" /\ launched = 0
    /\ call = InEachSlot("none") /\ request = InEachSlot("none")
    /\ reply = InEachSlot({}) /\ outcome = InEachSlot("none")
    /\ results = {} /\ closed = FALSE
    /\ heard = InEachSlot("none") /\ final = {}
    /\ verdict = "none"
    /\ file = [f \in Files |-> <<>>]
    /\ runs = 1

(* The user runs the next command, in a new process.                       *)
RunAgain ==
    /\ pc \in {"done", "exited", "killed"} /\ runs < MaxRuns
    /\ runs' = runs + 1
    /\ cmd' \in Commands /\ flag' \in RankFlags /\ type' = "any"
    /\ list' = <<>> /\ pc' = "start" /\ launched' = 0
    /\ call' = InEachSlot("none") /\ request' = InEachSlot("none")
    /\ reply' = InEachSlot({}) /\ outcome' = InEachSlot("none")
    /\ results' = {} /\ closed' = FALSE
    /\ heard' = InEachSlot("none") /\ final' = {}
    /\ verdict' = "none"
    /\ UNCHANGED file

(* The command line, the list and the process type are read.               *)
Start(source, given, setting) ==
    /\ pc = "start"
    /\ IF NoList(source) \/ (cmd = "stacks" /\ BadType(given))
         THEN pc' = "exited" /\ UNCHANGED <<list, type>>
         ELSE /\ pc' = "launch"
              /\ list' = GetWorkerList(source)
              /\ type' = IF cmd = "stacks" THEN ProcessType(given, setting) ELSE "any"
    /\ UNCHANGED <<cmd, flag, calls, collected, verdict, file, runs>>

LaunchPastEnd ==
    /\ pc = "launch" /\ launched <= Len(list)
    /\ launched' = launched + 1
    /\ call' = [call EXCEPT ![launched'] = "dial"]
    /\ UNCHANGED <<setup, pc, request, reply, outcome, collected, verdict, file, runs>>

(* Main starts a goroutine.                                                *)
Launch ==
    /\ pc = "launch" /\ launched < Len(list)
    /\ launched' = launched + 1
    /\ call' = [call EXCEPT ![launched'] = "dial"]
    /\ UNCHANGED <<setup, pc, request, reply, outcome, collected, verdict, file, runs>>

(* Where main goes when all are started.                                   *)
Launched ==
    /\ pc = "launch" /\ launched = Len(list)
    /\ pc' = CASE cmd \in {"logs", "stacks"} -> "receive"
               [] cmd = "restart" -> "wait"
               [] cmd = "version" -> "drain"
    /\ UNCHANGED <<setup, calls, collected, verdict, file, runs>>

-----------------------------------------------------------------------------
(* The goroutine of entry i.                                               *)

Running == pc \notin {"start", "done", "exited", "killed"}

(* The agent is dialled and the request leaves, with ten seconds to go.    *)
Call(i) ==
    /\ Running /\ call[i] = "dial"
    /\ call' = [call EXCEPT ![i] = "asked"]
    /\ request' = [request EXCEPT ![i] = "sent"]
    /\ UNCHANGED <<setup, pc, launched, reply, outcome, collected, verdict, file, runs>>

(* The agent runs the request, be the caller still waiting or not.  No     *)
(* agent has a name:host pair for its address.                             *)
Handle(i) ==
    /\ request[i] = "sent" /\ list[i].kind = "host"
    /\ request' = [request EXCEPT ![i] = "run"]
    /\ reply' = [reply EXCEPT ![i] = Answered(i)]
    /\ UNCHANGED <<setup, pc, launched, call, outcome, collected, verdict, file, runs>>

CallEnds(i, how) ==
    /\ Running
    /\ call' = [call EXCEPT ![i] = "send"]
    /\ outcome' = [outcome EXCEPT ![i] = how]
    /\ UNCHANGED <<setup, pc, launched, request, reply, collected, verdict, file, runs>>

CallAnswered(i) == call[i] = "asked" /\ request[i] = "run" /\ CallEnds(i, "ok")

(* Nobody listens there, the call fails, or its deadline expires: before,  *)
(* while or after the agent ran it.                                        *)
CallFails(i) == call[i] \in {"dial", "asked"} /\ CallEnds(i, "error")

OneSlot == 1

(* make(chan Result, len(addressList)).                                    *)
Buffer == Len(list)

Send(i, next) ==
    /\ Running /\ call[i] = "send"
    /\ Cardinality(results) < Buffer
    /\ results' = results \union {i}
    /\ call' = [call EXCEPT ![i] = next]
    /\ UNCHANGED <<setup, pc, launched, request, reply, outcome, closed, heard, final,
                   verdict, file, runs>>

LogsSend(i) == cmd = "logs" /\ Send(i, "over")

StacksSend(i) == cmd = "stacks" /\ Send(i, "over")

VersionSend(i) == cmd = "version" /\ Send(i, "done")

(* The goroutine prints its success itself and sends nothing.              *)
RestartPrints(i) ==
    /\ Running /\ cmd = "restart" /\ call[i] = "send"
    /\ call' = [call EXCEPT ![i] = "done"]
    /\ heard' = [heard EXCEPT ![i] = "ok"]
    /\ UNCHANGED <<setup, pc, launched, request, reply, outcome, results, closed, final,
                   verdict, file, runs>>

RestartSendsRefusals(i) == RestartPrints(i)

RestartSend(i) ==
    IF outcome[i] = "error" THEN cmd = "restart" /\ Send(i, "done") ELSE RestartPrints(i)

(* defer wg.Done(), in restart and version.                                *)
WorkDone(i) ==
    /\ Running /\ call[i] = "done"
    /\ call' = [call EXCEPT ![i] = "over"]
    /\ UNCHANGED <<setup, pc, launched, request, reply, outcome, collected, verdict, file, runs>>

Goroutine(i) ==
    \/ Call(i) \/ CallAnswered(i) \/ CallFails(i)
    \/ LogsSend(i) \/ StacksSend(i) \/ VersionSend(i) \/ RestartSend(i) \/ WorkDone(i)

-----------------------------------------------------------------------------
(* Main collects.                                                          *)

Heard == {i \in Slots : heard[i] # "none"}

(* A result leaves the channel; what is kept of it becomes part of the     *)
(* report unless the call failed.                                          *)
Take(i) ==
    /\ i \in results
    /\ results' = results \ {i}
    /\ heard' = [heard EXCEPT ![i] = outcome[i]]
    /\ final' = IF outcome[i] = "ok" THEN final \union Kept(i) ELSE final
    /\ UNCHANGED <<setup, calls, closed, verdict, file, runs>>

LogsReceiveUntilError(i) ==
    /\ pc = "receive" /\ cmd = "logs" /\ Cardinality(Heard) < Len(list)
    /\ Take(i)
    /\ pc' = IF outcome[i] = "error" THEN "report" ELSE pc

LogsReceive(i) ==
    /\ pc = "receive" /\ cmd = "logs" /\ Cardinality(Heard) < Len(list)
    /\ Take(i)
    /\ UNCHANGED pc

StacksReceive(i) ==
    /\ pc = "receive" /\ cmd = "stacks" /\ Cardinality(Heard) < Len(list)
    /\ Take(i)
    /\ UNCHANGED pc

(* One result per address has come: close(results).                        *)
Received ==
    /\ pc = "receive" /\ Cardinality(Heard) = Len(list)
    /\ closed' = TRUE /\ pc' = "report"
    /\ UNCHANGED <<setup, calls, results, heard, final, verdict, file, runs>>

AllSent == \A i \in 1..launched : call[i] \in {"send", "done", "over"}

(* What wg.Wait() waits for.                                               *)
AllDone == \A i \in 1..launched : call[i] = "over"

(* restart: wg.Wait(), close(errorCh).                                     *)
RestartWait ==
    /\ pc = "wait" /\ AllDone
    /\ closed' = TRUE /\ pc' = "drain"
    /\ UNCHANGED <<setup, calls, results, heard, final, verdict, file, runs>>

(* version: the goroutine that does the same while main drains.            *)
VersionCloser ==
    /\ pc = "drain" /\ cmd = "version" /\ AllDone /\ ~closed
    /\ closed' = TRUE
    /\ UNCHANGED <<setup, pc, calls, results, heard, final, verdict, file, runs>>

RestartDrain(i) == pc = "drain" /\ cmd = "restart" /\ Take(i) /\ UNCHANGED pc

VersionDrain(i) == pc = "drain" /\ cmd = "version" /\ Take(i) /\ UNCHANGED pc

DrainedWhenEmpty ==
    /\ pc = "drain" /\ results = {}
    /\ pc' = "report"
    /\ UNCHANGED <<setup, calls, collected, verdict, file, runs>>

(* for range ends when the channel is closed and empty.                    *)
Drained ==
    /\ pc = "drain" /\ results = {} /\ closed
    /\ pc' = "report"
    /\ UNCHANGED <<setup, calls, collected, verdict, file, runs>>

-----------------------------------------------------------------------------
(* Main reports.                                                           *)

Failed == {i \in Heard : heard[i] = "error"}

Says(word, next) ==
    /\ verdict' = word /\ pc' = next
    /\ UNCHANGED <<setup, calls, collected, file, runs>>

(* Nothing is saved when no rank log, or process, is left.  What has come  *)
(* as a message can be marshalled again, so that this does not fail.       *)
LogsReport ==
    /\ pc = "report" /\ cmd = "logs"
    /\ IF final = {} THEN Says("nothing", "done") ELSE Says("document", "open")

StacksReport ==
    /\ pc = "report" /\ cmd = "stacks"
    /\ IF final = {} THEN Says("nothing", "done") ELSE Says("document", "open")

RestartReport ==
    /\ pc = "report" /\ cmd = "restart"
    /\ Says(IF Failed # {} THEN "errors" ELSE "sentToAll", "done")

Versions == {entry[2].name : entry \in final}

VersionReport ==
    /\ pc = "report" /\ cmd = "version"
    /\ Says(IF Versions = {} THEN "noVersion"
            ELSE IF \E v, w \in Versions : v # w THEN "different" ELSE "same", "done")

(* AppendWithTimestamp, on the file of this command and flag.              *)
Appends(piece, next) ==
    /\ file' = [file EXCEPT ![<<cmd, flag>>] = Append(@, piece)]
    /\ pc' = next
    /\ UNCHANGED <<setup, calls, collected, verdict, runs>>

SkipNewline ==
    /\ pc = "open" /\ pc' = "write"
    /\ UNCHANGED <<setup, calls, collected, verdict, file, runs>>

Newline == pc = "open" /\ Appends("newline", "write")

WriteDocument == pc = "write" /\ Appends("document", "done")

(* The directory, the file or the newline fails, or the document stops     *)
(* short: the error is printed, after the document itself.                 *)
SaveFails ==
    /\ pc \in {"open", "write"}
    /\ \/ /\ pc' = "done"
          /\ UNCHANGED <<setup, calls, collected, verdict, file, runs>>
       \/ pc = "write" /\ Appends("torn", "done")

Kill ==
    /\ Running
    /\ pc' = "killed"
    /\ UNCHANGED <<setup, calls, collected, verdict, file, runs>>

-----------------------------------------------------------------------------
Collect ==
    \/ \E i \in Slots : \/ LogsReceive(i) \/ StacksReceive(i)
                       \/ RestartDrain(i) \/ VersionDrain(i)
    \/ Received \/ RestartWait \/ VersionCloser \/ Drained

Report == LogsReport \/ StacksReport \/ RestartReport \/ VersionReport

Save == Newline \/ WriteDocument \/ SaveFails

Main == Launch \/ Launched \/ Collect \/ Report \/ Save

Starts == \E source \in Sources, given \in TypeFlags, setting \in TypeSettings :
             Start(source, given, setting)

(* The last command has ended.                                             *)
Over == pc \in {"done", "exited", "killed"} /\ runs = MaxRuns /\ UNCHANGED vars

Next ==
    \/ Starts \/ RunAgain
    \/ Main \/ Kill \/ Over
    \/ \E i \in Slots : Goroutine(i) \/ Handle(i)

Spec == Init /\ [][Next]_vars

(* Main and its goroutines run, and every call ends, by its answer or by   *)
(* its deadline.  Nothing is asked of the agents.                          *)
FairSpec == Spec /\ WF_vars(Main) /\ \A i \in Slots : WF_vars(Goroutine(i))

-----------------------------------------------------------------------------
(* Properties.                                                             *)

(* Variables keep their shape.                                             *)
TypeOK ==
    /\ cmd \in Commands /\ flag \in RankFlags
    /\ type \in KnownTypes \union {"any"}
    /\ pc \in {"start", "launch", "receive", "wait", "drain", "report", "open", "write",
              "done", "exited", "killed"}
    /\ Len(list) \in 0..MaxList /\ launched \in 0..Len(list)
    /\ call \in [Slots -> {"none", "dial", "asked", "send", "done", "over"}]
    /\ request \in [Slots -> {"none", "sent", "run"}]
    /\ reply \in [Slots -> SUBSET Holdings]
    /\ outcome \in [Slots -> {"none", "ok", "error"}]
    /\ results \subseteq Slots /\ closed \in BOOLEAN
    /\ heard \in [Slots -> {"none", "ok", "error"}]
    /\ final \subseteq Slots \X Holdings
    /\ verdict \in {"none", "nothing", "document", "errors", "sentToAll",
                   "noVersion", "same", "different"}
    /\ file \in [Files -> Seq({"newline", "document", "torn"})]
    /\ runs \in Nat

Reporting == pc \in {"report", "open", "write", "done"}

(* When a command reports, every address has been heard as its call ended, *)
(* an entry listed twice both times, and the report holds all that was     *)
(* kept of the answers and nothing of the calls that failed.               *)
ReportIsComplete ==
    Reporting =>
        /\ \A i \in 1..Len(list) : heard[i] # "none" /\ heard[i] = outcome[i]
        /\ final = UNION {Kept(i) : i \in {i \in Slots : outcome[i] = "ok"}}

(* No goroutine sends on the closed channel, which would panic.            *)
NoSendOnClosed == closed => \A i \in Slots : call[i] \in {"none", "done", "over"}

OkSlots == {i \in 1..Len(list) : outcome[i] = "ok"}

HeldBy(i) == {h.name : h \in {h \in Holdings : h.cmd = cmd /\ h.host = list[i].host}}

OkVersions == UNION {HeldBy(i) : i \in OkSlots}

(* The last word is true: all were sent only if every agent on the list    *)
(* has run the request, and versions differ, or agree, as the agents that  *)
(* answered do.                                                            *)
VerdictIsTrue ==
    /\ verdict = "sentToAll" => \A i \in 1..Len(list) : request[i] = "run"
    /\ verdict = "errors" => OkSlots # 1..Len(list)
    /\ verdict = "same" => \E v \in OkVersions : OkVersions = {v}
    /\ verdict = "different" => \E v, w \in OkVersions : v # w
    /\ verdict = "noVersion" => OkVersions = {}

(* Saves that failed and commands that were killed leave no document glued *)
(* to what was there: each starts on a line of its own.                    *)
DocumentsStartLines ==
    \A f \in Files : \A k \in 2..Len(file[f]) :
        file[f][k] # "newline" => file[f][k - 1] = "newline"

(* A command that has started its calls ends, whatever fails.              *)
CommandEnds == pc = "launch" ~> pc \in {"done", "killed"}

(* Refinement: the client is asking from its first goroutine to its        *)
(* report.                                                                 *)
Phase ==
    CASE pc \in {"start", "exited", "killed"} -> "idle"
      [] pc \in {"open", "write", "done"} -> "told"
      [] OTHER -> "asking"

HeardSoFar ==
    [i \in Slots |-> IF Phase = "idle" \/ i > Len(list) THEN "unasked"
                     ELSE IF heard[i] = "none" THEN "waiting" ELSE heard[i]]

G == INSTANCE Gather WITH Addresses <- Slots, phase <- Phase, heard <- HeardSoFar

(* The four commands do what Gather promises: one word from each address,  *)
(* and no report before the last of them.                                  *)
ImplementsGather == G!Spec

(* The example of the stacks command: --rank 0 shows the processes of rank *)
(* 0 that the agents answered with.  The code breaks it.                   *)
RankExampleSelects ==
    Reporting /\ cmd = "stacks" /\ type = "any" =>
        \A i \in OkSlots : \A h \in Holdings :
            h.cmd = cmd /\ h.host = list[i].host /\ flag.form # "unset" /\ flag.name = h.name
                => <<i, h>> \in final
=============================================================================
