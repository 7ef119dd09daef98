---------------------------- MODULE AlertPolling ----------------------------
(***************************************************************************)
(* `client alerts` (pkg/client/alerts) polling the agents of a job.        *)
(*                                                                         *)
(* Each round asks the agent of every entry of the address list, which may *)
(* name a host more than once, for the unprocessed alerts stamped in the   *)
(* window [end of the last round, now], prints what comes back, posts it   *)
(* to Feishu and moves the window on.  An agent reads its alerts and then  *)
(* marks them processed, whether or not the client is still waiting: the   *)
(* handler ignores its context, so the 10 second deadline of the client    *)
(* can expire before, between or after the two.                            *)
(*                                                                         *)
(* The agents' store is reduced to what the polls see of it: StoreEvent    *)
(* stamps an alert and makes it visible later, LoadEvents reads without a  *)
(* lock, finds nothing while the file is being rewritten, marks what it    *)
(* read and answers.  EventStorage models what happens inside; of what it  *)
(* shows to go wrong there, lost updates and failed writes are left out    *)
(* here: the rewrites of an agent's file follow one another.               *)
(***************************************************************************)
EXTENDS Integers, FiniteSets

CONSTANTS
    Nodes,         \* hosts with an agent
    Entries,       \* places on the address list
    Alerts,        \* alerts the training job reports
    NodeOf,        \* the agent each alert is reported to
    Lag,           \* how far an agent's clock is behind the client's
    CommandLines,  \* what the client may be started with
    Unset, Invalid,  \* a time that is not given, and one that does not parse
    FeishuURL,     \* whether FS-URL is configured
    MaxTime,       \* bound: last value of the clock
    MaxRounds,     \* bound: rounds started
    MaxRestarts    \* bound: times the client is killed and started again

(* INFO to CRITICAL.  Every stored alert has severity 0.                   *)
Severity == 0..3
Info     == 0

Rounds == 1..MaxRounds
Window == [start : 0..MaxTime, end : 0..MaxTime]

(* The host of each entry of the address list, --interval-alert (0 if it   *)
(* is not given) and interval-alert of the configuration file, --start-time*)
(* and --end-time, and --min-severity.                                     *)
GivenTime   == 0..MaxTime \union {Unset, Invalid}
CommandLine == [addressList : [Entries -> Nodes], flag : Nat, setting : Int,
                start : GivenTime, end : GivenTime, minSeverity : Severity]

ASSUME PollingAssumption ==
    /\ NodeOf \in [Alerts -> Nodes]
    /\ Lag \in [Nodes -> Nat]
    /\ CommandLines \subseteq CommandLine
    /\ FeishuURL \in BOOLEAN
    /\ MaxTime \in Nat /\ MaxRounds \in Nat /\ MaxRestarts \in Nat

(* lastEndTime = nil: the window starts in the year 2000.                  *)
Never == -1

VARIABLES
    now,       \* the client's clock
    stage,     \* new, stamped (StoreEvent has its timestamp), stored
    stamp,     \* EventEntry.Timestamp
    processed, \* alerts flagged processed on their agent
    handler,   \* the agent's side of the call for entry i in round r
    picked,    \* alerts that handler has read
    outcome,   \* what the call's goroutine put into resultCh
    closed,    \* resultCh is closed
    results,   \* entries GetAlerts has received the result of
    window,    \* StartTime and EndTime of each round
    pc,        \* where the client stands
    round,     \* number of the last round started
    lastEnd,   \* lastEndTime
    unposted,  \* entries whose message has not been posted to Feishu
    shown,     \* what was printed: an alert, for an entry, in a round
    armed,     \* the timer loop runs and SIGINT is caught
    interrupted,  \* SIGINT has come: the signal goroutine sends on done
    command,   \* the command line, with the interval after defaulting
    restarts,
    unseen     \* history: <<r, i, a>> where a was stored after the handler of i in
               \* round r had read, or read as empty, as long as the call has not
               \* failed and a is not processed

agentVars  == <<stage, stamp, processed, handler, picked, unseen>>
callVars   == <<outcome, closed, results>>
clientVars == <<callVars, window, pc, round, lastEnd, unposted, shown>>
control    == <<armed, interrupted, command>>
counters   == <<now, restarts>>
vars == <<agentVars, clientVars, control, counters>>

-----------------------------------------------------------------------------
(* Flag, then configuration file, then one minute.                         *)
Interval(line) ==
    IF line.flag # 0 THEN line.flag ELSE IF line.setting # 0 THEN line.setting ELSE 1

Parsed(line) ==
    [addressList |-> line.addressList, interval |-> Interval(line),
     start |-> line.start, end |-> line.end, minSeverity |-> line.minSeverity]

Init ==
    /\ now = 0
    /\ stage = [a \in Alerts |-> "new"]
    /\ stamp = [a \in Alerts |-> 0]
    /\ processed = {}
    /\ handler = [r \in Rounds |-> [i \in Entries |-> "none"]]
    /\ picked = [r \in Rounds |-> [i \in Entries |-> {}]]
    /\ outcome = [r \in Rounds |-> [i \in Entries |-> "none"]]
    /\ closed = FALSE /\ results = {}
    /\ window = [r \in Rounds |-> [start |-> 0, end |-> 0]]
    /\ pc = "ready" /\ round = 0 /\ lastEnd = Never
    /\ unposted = {} /\ shown = {}
    /\ armed = FALSE /\ interrupted = FALSE
    /\ command \in {Parsed(line) : line \in CommandLines}
    /\ restarts = 0
    /\ unseen = {}

-----------------------------------------------------------------------------
(* The agent.                                                              *)

AgentClock(n) == IF now >= Lag[n] THEN now - Lag[n] ELSE 0

(* StoreEvent takes the timestamp, then waits for the file.                *)
Stamp(a) ==
    /\ stage[a] = "new"
    /\ stage' = [stage EXCEPT ![a] = "stamped"]
    /\ stamp' = [stamp EXCEPT ![a] = AgentClock(NodeOf[a])]
    /\ UNCHANGED <<processed, handler, picked, unseen, clientVars, control, counters>>

Covers(r, a) == window[r].start <= stamp[a] /\ stamp[a] <= window[r].end

(* The entries that name n.                                                *)
At(n) == {i \in Entries : command.addressList[i] = n}

(* The call has not failed.                                                *)
Awaited(r, i) == outcome[r][i] \in {"waiting", "ok"}

Store(a) ==
    /\ stage[a] = "stamped"
    /\ stage' = [stage EXCEPT ![a] = "stored"]
    /\ unseen' = unseen \union {u \in Rounds \X At(NodeOf[a]) \X {a} :
                     /\ handler[u[1]][u[2]] \in {"read", "marked"}
                     /\ Awaited(u[1], u[2]) /\ Covers(u[1], a)}
    /\ UNCHANGED <<stamp, processed, handler, picked, clientVars, control, counters>>

(* GetAlerts on the agent: LoadEvents finds the unprocessed alerts of the  *)
(* window that are severe enough, ...                                      *)
SelectedAny(r, n) ==
    {a \in Alerts : NodeOf[a] = n /\ stage[a] = "stored" /\ Covers(r, a) /\ command.minSeverity <= Info}

Selected(r, n) ==
    {a \in Alerts : /\ NodeOf[a] = n /\ stage[a] = "stored" /\ a \notin processed
                    /\ Covers(r, a) /\ command.minSeverity <= Info}

(* ... except those in files that are being rewritten, for another alert   *)
(* or another handler's marks: os.WriteFile truncates a file first.        *)
AgentRead(r, i) ==
    LET found == Selected(r, command.addressList[i]) IN
    /\ handler[r][i] = "sent"
    /\ handler' = [handler EXCEPT ![r][i] = "read"]
    /\ \E empty \in SUBSET found :
          /\ picked' = [picked EXCEPT ![r][i] = found \ empty]
          /\ unseen' = unseen \union (IF Awaited(r, i) THEN {r} \X {i} \X empty ELSE {})
    /\ UNCHANGED <<stage, stamp, processed, clientVars, control, counters>>

(* ApplyPendingUpdates writes the marks that are pending, the handler's    *)
(* own and those other handlers have left, before the answer leaves.       *)
Pending(n) ==
    {a \in Alerts : \E r \in Rounds, i \in At(n) : handler[r][i] = "read" /\ a \in picked[r][i]}

AgentMarkEverything(r, i) ==
    /\ handler[r][i] = "read"
    /\ handler' = [handler EXCEPT ![r][i] = "marked"]
    /\ processed' = processed \union {a \in Alerts : NodeOf[a] = command.addressList[i] /\ stage[a] = "stored"}
    /\ UNCHANGED <<stage, stamp, picked, unseen, clientVars, control, counters>>

AgentMark(r, i) ==
    /\ handler[r][i] = "read"
    /\ handler' = [handler EXCEPT ![r][i] = "marked"]
    /\ processed' = processed \union Pending(command.addressList[i])
    /\ unseen' = {u \in unseen : u[3] \notin processed'}
    /\ UNCHANGED <<stage, stamp, picked, clientVars, control, counters>>

-----------------------------------------------------------------------------
(* The client.                                                             *)

WindowFromNow == [start |-> now, end |-> now]

WindowSwapped == [start |-> now, end |-> IF lastEnd = Never THEN 0 ELSE lastEnd]

(* With an interval, from the end of the last window to now; without, what *)
(* the command line says.                                                  *)
NextWindow ==
    IF command.interval > 0
      THEN [start |-> IF lastEnd = Never THEN 0 ELSE lastEnd, end |-> now]
      ELSE [start |-> IF command.start = Unset THEN 0 ELSE command.start,
            end |-> IF command.end = Unset THEN now ELSE command.end]

(* A time that does not parse, which is looked at without an interval only.*)
BadTimes == command.interval <= 0 /\ Invalid \in {command.start, command.end}

(* checkAlerts: fix the window and start one goroutine per entry.          *)
Begin ==
    /\ pc = "ready" /\ round < MaxRounds /\ ~BadTimes
    /\ pc' = "collect"
    /\ round' = round + 1
    /\ window' = [window EXCEPT ![round'] = NextWindow]
    /\ outcome' = [outcome EXCEPT ![round'] = [i \in Entries |-> "waiting"]]
    /\ handler' = [handler EXCEPT ![round'] = [i \in Entries |-> "sent"]]
    /\ UNCHANGED <<stage, stamp, processed, picked, unseen, closed, results,
                   lastEnd, unposted, shown, control, counters>>

(* checkAlerts returns early, and there is no timer.                       *)
Refuse ==
    /\ pc = "ready" /\ BadTimes
    /\ pc' = "stopped"
    /\ UNCHANGED <<agentVars, callVars, window, round, lastEnd, unposted, shown, control, counters>>

(* The answer arrives while the goroutine waits for it: its result goes    *)
(* into resultCh, which has room for one of each entry.                    *)
Answer(i) ==
    /\ pc = "collect" /\ outcome[round][i] = "waiting" /\ handler[round][i] = "marked"
    /\ outcome' = [outcome EXCEPT ![round][i] = "ok"]
    /\ UNCHANGED <<agentVars, closed, results, window, pc, round, lastEnd,
                   unposted, shown, control, counters>>

(* A call that has failed is cause enough.                                 *)
Forget == unseen' = {u \in unseen : Awaited(u[1], u[2])'}

CallFailsNoDeadline(i) ==
    /\ pc = "collect" /\ outcome[round][i] = "waiting" /\ handler[round][i] = "sent"
    /\ outcome' = [outcome EXCEPT ![round][i] = "error"]
    /\ Forget
    /\ UNCHANGED <<stage, stamp, processed, handler, picked, closed, results, window, pc, round, lastEnd,
                   unposted, shown, control, counters>>

(* The call fails, or the deadline of its context expires: the agent may   *)
(* have got the request or not, and may be anywhere in it.                 *)
CallFails(i) ==
    /\ pc = "collect" /\ outcome[round][i] = "waiting"
    /\ outcome' = [outcome EXCEPT ![round][i] = "error"]
    /\ Forget
    /\ UNCHANGED <<stage, stamp, processed, handler, picked, closed, results, window, pc, round, lastEnd,
                   unposted, shown, control, counters>>

CloseUnwaited ==
    /\ pc = "collect" /\ ~closed
    /\ closed' = TRUE
    /\ UNCHANGED <<agentVars, outcome, results, window, pc, round, lastEnd,
                   unposted, shown, control, counters>>

(* wg.Wait and close, in a goroutine of their own.                         *)
Close ==
    /\ pc = "collect" /\ ~closed /\ (\A i \in Entries : outcome[round][i] # "waiting")
    /\ closed' = TRUE
    /\ UNCHANGED <<agentVars, outcome, results, window, pc, round, lastEnd,
                   unposted, shown, control, counters>>

(* Results in the channel; GetAlerts takes them out one by one, ...        *)
Sent == {i \in Entries : outcome[round][i] # "waiting"} \ results

Receive(i) ==
    /\ pc = "collect" /\ i \in Sent
    /\ results' = results \union {i}
    /\ UNCHANGED <<agentVars, outcome, closed, window, pc, round, lastEnd,
                   unposted, shown, control, counters>>

(* ... until the channel is closed and empty.  Then they are printed, and  *)
(* a message is queued for each that is an error or has alerts.            *)
Reply(i) == IF outcome[round][i] = "ok" THEN picked[round][i] ELSE {}

Printed == [round : Rounds, entry : Entries, alert : Alerts]

PrintAll ==
    /\ pc = "collect" /\ closed /\ Sent = {}
    /\ pc' = "post"
    /\ shown' = shown \union {p \in Printed :
                    p.round = round /\ p.entry \in results /\ p.alert \in Reply(p.entry)}
    /\ unposted' = IF FeishuURL
                     THEN {i \in results : outcome[round][i] = "error" \/ Reply(i) # {}} ELSE {}
    /\ closed' = FALSE /\ results' = {}
    /\ UNCHANGED <<agentVars, outcome, window, round, lastEnd, control, counters>>

(* One HTTP post, sent, refused or failed: the loop goes on either way.    *)
Post(i) ==
    /\ pc = "post" /\ i \in unposted
    /\ unposted' = unposted \ {i}
    /\ UNCHANGED <<agentVars, callVars, window, pc, round, lastEnd, shown, control, counters>>

(* The window moves on whatever the calls returned.  The first round is    *)
(* followed by the timer loop, or by the end if there is no interval.      *)
EndRound ==
    /\ pc = "post" /\ unposted = {}
    /\ lastEnd' = window[round].end
    /\ pc' = IF command.interval > 0 THEN "ready" ELSE "stopped"
    /\ armed' = (command.interval > 0)
    /\ UNCHANGED <<agentVars, callVars, window, round, unposted, shown,
                   interrupted, command, counters>>

(* The client dies: whatever it collected and did not print is lost.       *)
Die ==
    /\ outcome' = IF pc = "collect" THEN [outcome EXCEPT ![round] = [i \in Entries |-> "lost"]]
                                    ELSE outcome
    /\ closed' = FALSE /\ results' = {}
    /\ Forget

(* SIGINT.  Until the loop catches it the process just dies; afterwards it *)
(* waits until the loop is back at its select.                             *)
Interrupt ==
    /\ pc # "stopped" /\ ~interrupted
    /\ \/ armed /\ interrupted' = TRUE /\ UNCHANGED <<pc, callVars, unseen>>
       \/ ~armed /\ pc' = "stopped" /\ Die /\ UNCHANGED interrupted
    /\ UNCHANGED <<stage, stamp, processed, handler, picked, window, round, lastEnd, unposted, shown,
                   armed, command, counters>>

StopOnlyLeavesSelect ==
    /\ pc = "ready" /\ armed /\ interrupted
    /\ UNCHANGED vars

(* The loop receives from done and returns.                                *)
Stop ==
    /\ pc = "ready" /\ armed /\ interrupted
    /\ pc' = "stopped"
    /\ UNCHANGED <<agentVars, callVars, window, round, lastEnd, unposted, shown, control, counters>>

(* The client is killed, or has stopped, and is started again: lastEndTime *)
(* and the calls under way are gone.                                       *)
Restart ==
    /\ restarts < MaxRestarts /\ round > 0
    /\ restarts' = restarts + 1
    /\ pc' = "ready" /\ lastEnd' = Never /\ unposted' = {}
    /\ armed' = FALSE /\ interrupted' = FALSE
    /\ Die
    /\ UNCHANGED <<stage, stamp, processed, handler, picked, window, round, shown, command, now>>

Tick ==
    /\ now < MaxTime
    /\ now' = now + 1
    /\ UNCHANGED <<agentVars, clientVars, control, restarts>>

AgentStep ==
    \/ \E a \in Alerts : Stamp(a) \/ Store(a)
    \/ \E r \in Rounds, i \in Entries :
          AgentRead(r, i) \/ AgentMark(r, i)

ClientStep ==
    \/ \E i \in Entries : CallFails(i) \/ Receive(i) \/ Post(i)
    \/ Begin \/ Close \/ PrintAll \/ EndRound

Next ==
    \/ AgentStep \/ ClientStep
    \/ \E i \in Entries : Answer(i)
    \/ Refuse \/ Interrupt \/ Stop \/ Restart \/ Tick

Spec == Init /\ [][Next]_vars

(* The client's goroutines run, deadlines expire, and Feishu answers or    *)
(* refuses.  Nothing is asked of the agents.  select picks at random among *)
(* its ready cases, so done is not passed over for ever.                   *)
Fairness == WF_vars(ClientStep) /\ SF_vars(Stop)

FairSpec == Spec /\ Fairness

-----------------------------------------------------------------------------
(* Properties.                                                             *)

(* Variables keep their shape, and no window of the timer's runs           *)
(* backwards.                                                              *)
TypeOK ==
    /\ now \in 0..MaxTime
    /\ stage \in [Alerts -> {"new", "stamped", "stored"}]
    /\ stamp \in [Alerts -> 0..MaxTime]
    /\ processed \subseteq Alerts /\ shown \subseteq Printed
    /\ unseen \subseteq Rounds \X Entries \X Alerts
    /\ handler \in [Rounds -> [Entries -> {"none", "sent", "read", "marked"}]]
    /\ picked \in [Rounds -> [Entries -> SUBSET Alerts]]
    /\ outcome \in [Rounds -> [Entries -> {"none", "waiting", "ok", "error", "lost"}]]
    /\ closed \in BOOLEAN /\ results \subseteq Entries
    /\ window \in [Rounds -> Window]
    /\ pc \in {"ready", "collect", "post", "stopped"}
    /\ round \in 0..MaxRounds
    /\ lastEnd \in 0..MaxTime \union {Never}
    /\ unposted \subseteq Entries
    /\ armed \in BOOLEAN /\ interrupted \in BOOLEAN
    /\ command \in [addressList : [Entries -> Nodes], interval : Int,
                    start : GivenTime, end : GivenTime, minSeverity : Severity]
    /\ restarts \in 0..MaxRestarts
    /\ command.interval > 0 => \A r \in Rounds : window[r].start <= window[r].end

(* Covered by the rounds of this client so far, or by the only one, and    *)
(* still unprocessed when none is under way.                               *)
Behind(a) ==
    /\ stage[a] = "stored" /\ a \notin processed
    /\ pc \in {"ready", "stopped"} /\ lastEnd # Never
    /\ (command.interval > 0 /\ stamp[a] <= lastEnd) \/ Covers(round, a)

(* Rounds r that are the last one so far whose window held the alert.      *)
LastCover(r, a) == Covers(r, a) /\ \A q \in (r + 1)..round : ~Covers(q, a)

(* An alert falls behind the window for four reasons only.  Either the     *)
(* command asks for more than INFO, which is all an alert is stored with.  *)
(* Or, in the last round that covered it, every call to its agent failed,  *)
(* or read the files before StoreEvent, which had its timestamp already,   *)
(* made it visible, or read its file while it was being rewritten, for     *)
(* another alert or another handler's marks.                               *)
BehindHasCause ==
    \A a \in Alerts : Behind(a) /\ command.minSeverity <= Info =>
        \E r \in 1..round :
            /\ LastCover(r, a)
            /\ \A i \in At(NodeOf[a]) : outcome[r][i] = "error" \/ <<r, i, a>> \in unseen

(* An alert marked processed has been printed, is in an answer under way,  *)
(* or was marked for a call that failed on the client's side, or for a     *)
(* client that died: nothing else eats it.                                 *)
ProcessedIsPrinted ==
    \A a \in processed :
        \/ \E p \in shown : p.alert = a
        \/ \E r \in 1..round : \E i \in At(NodeOf[a]) :
              /\ a \in picked[r][i]
              /\ outcome[r][i] \in {"error", "lost"} \/ (r = round /\ pc = "collect")

(* An alert is printed in one round only, although handlers of earlier     *)
(* rounds may still be reading and marking while a later round collects,   *)
(* and in that round once, unless the address list names its agent more    *)
(* than once: then each of the calls may have read it before any of them   *)
(* marked it.                                                              *)
Repeated(n) == \E i, j \in At(n) : i # j

PrintedOnce ==
    \A p, q \in shown : p.alert = q.alert =>
        p.round = q.round /\ (p = q \/ Repeated(NodeOf[p.alert]))

(* A round ends even when agents are dead or wedged.                       *)
RoundsEnd == []<>(pc \in {"ready", "stopped"})

(* Ctrl-C is honoured, also when it comes during a round, when the signal  *)
(* goroutine blocks on done until the round is over: the client stops,     *)
(* unless it is killed and started again, and has not been interrupted.    *)
InterruptStops == []<>(interrupted => pc = "stopped")

(* Refinement: what the client has received for each entry in its last     *)
(* round.                                                                  *)
Lost == round = 0 \/ \E i \in Entries : outcome[round][i] = "lost"

Phase == IF pc = "collect" THEN "asking" ELSE IF Lost THEN "idle" ELSE "told"

HeardSoFar ==
    [i \in Entries |-> IF pc = "collect" /\ i \notin results THEN "waiting"
                       ELSE IF Lost THEN "unasked" ELSE outcome[round][i]]

G == INSTANCE Gather WITH Addresses <- Entries, phase <- Phase, heard <- HeardSoFar

(* Every round does what Gather promises, also when it overlaps with       *)
(* handlers of the round before, is interrupted or dies: it prints when it *)
(* has received the result of every call, which the goroutines, the wait   *)
(* group and the closing of the channel bring about together.              *)
ImplementsGather == G!Spec
=============================================================================
