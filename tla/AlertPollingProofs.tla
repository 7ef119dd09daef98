------------------------- MODULE AlertPollingProofs -------------------------
(* Theorems about AlertPolling, for any number of agents, entries of the   *)
(* address list, alerts, rounds and restarts of the client, any command    *)
(* lines, and agents' clocks that lag by any amount.                       *)
EXTENDS AlertPolling, TLAPS

-----------------------------------------------------------------------------
(* The inductive invariant.                                                *)

(* Nothing lies in the client's future, if the timer sets the windows.     *)
RoundsOK ==
    /\ pc \in {"collect", "post"} => round \in Rounds
    /\ command.interval > 0 =>
          /\ \A r \in Rounds : window[r].end <= now
          /\ lastEnd # Never => lastEnd <= now

(* How far a call has come on its two sides: a round that has started has  *)
(* all its calls under way or over, and a handler has read what it marks.  *)
CallOK(r, i) ==
    /\ handler[r][i] = "none" <=> r > round
    /\ outcome[r][i] = "none" <=> r > round
    /\ outcome[r][i] = "waiting" => r = round /\ pc = "collect"
    /\ outcome[r][i] = "ok" => handler[r][i] = "marked"
    /\ outcome[r][i] = "lost" /\ r = round => pc \notin {"collect", "post"}
    /\ handler[r][i] \in {"none", "sent"} => picked[r][i] = {}
    /\ handler[r][i] = "marked" => picked[r][i] \subseteq processed
    /\ \A a \in picked[r][i] : NodeOf[a] = command.addressList[i]

(* Results are received after they have been sent, and the channel is      *)
(* closed after all of them have been.                                     *)
ChannelOK ==
    /\ closed => pc = "collect" /\ \A i \in Entries : outcome[round][i] # "waiting"
    /\ \A i \in results : pc = "collect" /\ outcome[round][i] # "waiting"

CallsOK ==
    /\ \A r \in Rounds, i \in Entries : CallOK(r, i)
    /\ ChannelOK

(* What has been printed was marked first, and comes from a round that is  *)
(* over; the calls of a round that collects carry none of it.              *)
Shown == {p.alert : p \in shown}

ShownOK ==
    /\ Shown \subseteq processed
    /\ \A p \in shown : p.entry \in At(NodeOf[p.alert])
    /\ PrintedOnce
    /\ pc = "collect" => \A i \in Entries : picked[round][i] \intersect Shown = {}

(* A handler that has read its files, for a call that has not failed,      *)
(* knows every stored alert of its window that was not processed before,   *)
(* but for the unseen ones.                                                *)
SeenOK ==
    command.minSeverity <= Info =>
    \A a \in Alerts, r \in Rounds : \A i \in At(NodeOf[a]) :
        /\ handler[r][i] \in {"read", "marked"} /\ Awaited(r, i)
        /\ stage[a] = "stored" /\ Covers(r, a)
        => a \in processed \/ a \in picked[r][i] \/ <<r, i, a>> \in unseen

(* The rounds of a client that polls leave no gap: each instant up to      *)
(* lastEnd has a last round that covers it, and the calls of that round    *)
(* are over unless it is the current one.                                  *)
In(r, s) == window[r].start <= s /\ s <= window[r].end

OverRound(r) == \A i \in Entries : outcome[r][i] \in {"ok", "error"}

LastIn(r, s) ==
    /\ In(r, s) /\ \A q \in (r + 1)..round : ~In(q, s)
    /\ OverRound(r) \/ (r = round /\ pc \in {"collect", "post"})

WindowsOK ==
    /\ command.interval > 0 /\ pc \in {"collect", "post"} =>
          window[round].start = IF lastEnd = Never THEN 0 ELSE lastEnd
    /\ ~armed /\ pc # "stopped" => lastEnd = Never
    /\ command.interval > 0 /\ lastEnd # Never =>
          \A s \in 0..lastEnd : \E r \in 1..round : LastIn(r, s)
    /\ pc \in {"ready", "stopped"} /\ lastEnd # Never => round >= 1 /\ OverRound(round)

-----------------------------------------------------------------------------
(* The steps of the client and of the agents, grouped by what they leave   *)
(* alone.                                                                  *)
Calls(i) == Answer(i) \/ CallFails(i)

Quiet == (\E i \in Entries : Post(i)) \/ Refuse \/ Stop \/ Tick \/ UNCHANGED vars

(* The disjuncts of Next, one action each.                                 *)
LEMMA Steps ==
    ASSUME [Next]_vars
    PROVE  \/ \E a \in Alerts : Stamp(a) \/ Store(a)
           \/ \E r \in Rounds, i \in Entries : AgentRead(r, i) \/ AgentMark(r, i)
           \/ \E i \in Entries : Calls(i) \/ Receive(i)
           \/ Begin \/ Close \/ PrintAll \/ EndRound
           \/ Interrupt \/ Restart \/ Quiet
BY DEF Next, AgentStep, ClientStep, Calls, Quiet

(* The command line stays.                                                 *)
LEMMA SameCommand == ASSUME [Next]_vars PROVE command' = command
<1> USE DEF agentVars, clientVars, callVars, control, counters, vars
<1>1. CASE AgentStep
  BY <1>1 DEF AgentStep, Stamp, Store, AgentRead, AgentMark
<1>2. CASE ClientStep
  BY <1>2 DEF ClientStep, CallFails, Receive, Post, Begin, Close, PrintAll, EndRound
<1>3. CASE Refuse \/ Interrupt \/ Stop \/ Restart \/ Tick \/ \E i \in Entries : Answer(i)
  BY <1>3 DEF Refuse, Interrupt, Stop, Restart, Tick, Answer
<1>4. CASE UNCHANGED vars
  BY <1>4
<1> QED  BY <1>1, <1>2, <1>3, <1>4 DEF Next

(* So do the entries of each agent.                                        *)
LEMMA SameEntries == ASSUME [Next]_vars PROVE \A n : At(n)' = At(n)
BY SameCommand DEF At

(* What the quiet steps change: where the client stands when it stops.     *)
LEMMA QuietView ==
    ASSUME Quiet
    PROVE  /\ UNCHANGED <<agentVars, callVars, window, round, lastEnd, shown, armed, command>>
           /\ pc' = pc \/ (pc = "ready" /\ pc' = "stopped")
<1> USE DEF agentVars, clientVars, callVars, control, counters, vars
<1>1. ASSUME NEW i \in Entries, Post(i) PROVE UNCHANGED <<agentVars, callVars, window, round,
             lastEnd, shown, armed, command, pc>>
  BY <1>1 DEF Post
<1>2. CASE Refuse \/ Stop
  BY <1>2 DEF Refuse, Stop
<1>3. CASE Tick \/ UNCHANGED vars
  BY <1>3 DEF Tick
<1> QED  BY <1>1, <1>2, <1>3 DEF Quiet

(* Types and the order of the clock's values.                              *)
TypeInv == TypeOK /\ RoundsOK

(* Shape, and the counters of the rounds, at the start.                    *)
LEMMA TypeInit == Init => TypeInv
<1> SUFFICES ASSUME Init PROVE TypeInv
  OBVIOUS
<1>1. command \in [addressList : [Entries -> Nodes], interval : Int,
                   start : GivenTime, end : GivenTime, minSeverity : Severity]
  <2>1. PICK line \in CommandLine : command = Parsed(line)
    BY PollingAssumption DEF Init
  <2>2. Interval(line) \in Int
    BY DEF Interval, CommandLine
  <2> QED  BY <2>1, <2>2 DEF Parsed, CommandLine
<1>2. window \in [Rounds -> Window] /\ \A r \in Rounds : window[r].start = 0 /\ window[r].end = 0
  BY PollingAssumption DEF Init, Window
<1>3. /\ handler \in [Rounds -> [Entries -> {"none", "sent", "read", "marked"}]]
      /\ picked \in [Rounds -> [Entries -> SUBSET Alerts]]
      /\ outcome \in [Rounds -> [Entries -> {"none", "waiting", "ok", "error", "lost"}]]
  BY DEF Init
<1>4. /\ stage \in [Alerts -> {"new", "stamped", "stored"}] /\ stamp \in [Alerts -> 0..MaxTime]
      /\ now \in 0..MaxTime /\ round \in 0..MaxRounds /\ restarts \in 0..MaxRestarts
  BY PollingAssumption DEF Init
<1>5. /\ processed = {} /\ pc = "ready" /\ lastEnd = Never /\ unposted = {} /\ shown = {}
      /\ armed = FALSE /\ interrupted = FALSE /\ unseen = {} /\ now = 0
      /\ closed = FALSE /\ results = {}
  BY DEF Init
<1>6. \A r \in Rounds : window[r].start <= window[r].end /\ window[r].end <= now
  BY <1>2, <1>5
<1>7. TypeOK
  BY <1>1, <1>2, <1>3, <1>4, <1>5, <1>6 DEF TypeOK
<1>8. RoundsOK
  BY <1>5, <1>6 DEF RoundsOK
<1> QED  BY <1>7, <1>8 DEF TypeInv

(* A triple of a round, an entry and an alert.                             *)
LEMMA Triples ==
    ASSUME NEW r \in Rounds, NEW S \in SUBSET Entries, NEW T \in SUBSET Alerts
    PROVE  {r} \X S \X T \subseteq Rounds \X Entries \X Alerts
OBVIOUS

(* A client that is interrupted waits for its select, or dies; one that is *)
(* started again has died.                                                 *)
Waits == armed /\ UNCHANGED <<pc, callVars, unseen, lastEnd, armed>>

Dies ==
    /\ pc' \in {"ready", "stopped"} /\ Die
    /\ lastEnd' = Never \/ (~armed /\ pc # "stopped" /\ UNCHANGED <<lastEnd, armed>>)

(* It changes nothing of the agents, the windows and what was printed.     *)
LEMMA LeaveView ==
    ASSUME Interrupt \/ Restart
    PROVE  /\ UNCHANGED <<stage, stamp, processed, handler, picked, window, round, shown, command>>
           /\ Waits \/ Dies
<1>1. CASE Interrupt /\ armed
  BY <1>1 DEF Interrupt, Waits, callVars
<1>2. CASE Interrupt /\ ~armed
  BY <1>2 DEF Interrupt, Dies, callVars
<1>3. CASE Restart
  BY <1>3 DEF Restart, Dies
<1> QED  BY <1>1, <1>2, <1>3

(* What dying does to the calls, call by call.                             *)
LEMMA DieView ==
    ASSUME TypeInv, Die
    PROVE  /\ ~closed' /\ results' = {} /\ Forget
           /\ pc # "collect" => UNCHANGED outcome
           /\ outcome' \in [Rounds -> [Entries -> {"none", "waiting", "ok", "error", "lost"}]]
           /\ \A q \in Rounds, j \in Entries :
                 outcome'[q][j] = IF q = round /\ pc = "collect" THEN "lost" ELSE outcome[q][j]
BY DEF Die, TypeInv, TypeOK, RoundsOK

(* Every step keeps the shape.                                             *)
LEMMA TypeStep == TypeInv /\ [Next]_vars => TypeInv'
<1> SUFFICES ASSUME TypeInv, [Next]_vars PROVE TypeInv'
  OBVIOUS
<1> USE PollingAssumption DEF agentVars, callVars, clientVars, control, counters
<1>1. ASSUME NEW a \in Alerts, Stamp(a) PROVE TypeInv'
  <2>1. AgentClock(NodeOf[a]) \in 0..MaxTime
    BY DEF AgentClock, TypeInv, TypeOK
  <2> QED  BY <1>1, <2>1 DEF Stamp, TypeInv, TypeOK, RoundsOK
<1>2. ASSUME NEW a \in Alerts, Store(a) PROVE TypeInv'
  <2>1. unseen' \subseteq unseen \union (Rounds \X At(NodeOf[a]) \X {a})
    BY <1>2 DEF Store
  <2>2. unseen' \subseteq Rounds \X Entries \X Alerts
    BY <2>1 DEF At, TypeInv, TypeOK
  <2>3. stage' \in [Alerts -> {"new", "stamped", "stored"}]
    BY <1>2 DEF Store, TypeInv, TypeOK
  <2>4. UNCHANGED <<stamp, processed, handler, picked, clientVars, control, counters>>
    BY <1>2 DEF Store
  <2> QED  BY <2>2, <2>3, <2>4 DEF TypeInv, TypeOK, RoundsOK
<1>3. ASSUME NEW r \in Rounds, NEW i \in Entries, AgentRead(r, i) PROVE TypeInv'
  <2>1. PICK empty \in SUBSET Selected(r, command.addressList[i]) :
           /\ picked' = [picked EXCEPT ![r][i] = Selected(r, command.addressList[i]) \ empty]
           /\ unseen' = unseen \union (IF Awaited(r, i) THEN {r} \X {i} \X empty ELSE {})
    BY <1>3 DEF AgentRead
  <2>2. empty \subseteq Alerts /\ Selected(r, command.addressList[i]) \subseteq Alerts
    BY <2>1 DEF Selected
  <2> DEFINE rest == Selected(r, command.addressList[i]) \ empty
  <2>3. rest \in SUBSET Alerts
    BY <2>2
  <2>4. picked \in [Rounds -> [Entries -> SUBSET Alerts]] /\ unseen \subseteq Rounds \X Entries \X Alerts
    BY DEF TypeInv, TypeOK
  <2>5. picked' = [picked EXCEPT ![r][i] = rest]
    BY <2>1
  <2> HIDE DEF rest
  <2>6. picked' \in [Rounds -> [Entries -> SUBSET Alerts]]
    BY <2>3, <2>4, <2>5
  <2>7. {r} \X {i} \X empty \subseteq Rounds \X Entries \X Alerts
    BY <2>2, Triples
  <2>8. unseen' \subseteq Rounds \X Entries \X Alerts
    BY <2>1, <2>4, <2>7
  <2>9. /\ UNCHANGED <<stage, stamp, processed, clientVars, control, counters>>
        /\ handler' = [handler EXCEPT ![r][i] = "read"]
    BY <1>3 DEF AgentRead
  <2> QED  BY <2>6, <2>8, <2>9 DEF TypeInv, TypeOK, RoundsOK
<1>4. ASSUME NEW r \in Rounds, NEW i \in Entries, AgentMark(r, i) PROVE TypeInv'
  <2>1. processed' \subseteq Alerts /\ unseen' \subseteq Rounds \X Entries \X Alerts
    BY <1>4 DEF AgentMark, Pending, TypeInv, TypeOK
  <2>2. /\ UNCHANGED <<stage, stamp, picked, clientVars, control, counters>>
        /\ handler' \in [Rounds -> [Entries -> {"none", "sent", "read", "marked"}]]
    BY <1>4 DEF AgentMark, TypeInv, TypeOK
  <2> QED  BY <2>1, <2>2 DEF TypeInv, TypeOK, RoundsOK
<1>5. ASSUME NEW i \in Entries, Calls(i) PROVE TypeInv'
  <2>1. round \in Rounds
    BY <1>5 DEF Calls, Answer, CallFails, TypeInv, RoundsOK
  <2>2. outcome' \in [Rounds -> [Entries -> {"none", "waiting", "ok", "error", "lost"}]]
    BY <1>5, <2>1 DEF Calls, Answer, CallFails, TypeInv, TypeOK
  <2>3. unseen' \subseteq unseen
    BY <1>5 DEF Calls, Answer, CallFails, Forget
  <2>4. UNCHANGED <<stage, stamp, processed, handler, picked, closed, results, window, pc, round,
                    lastEnd, unposted, shown, control, counters>>
    BY <1>5 DEF Calls, Answer, CallFails
  <2> QED  BY <2>2, <2>3, <2>4 DEF TypeInv, TypeOK, RoundsOK
<1>6. ASSUME NEW i \in Entries, Receive(i) PROVE TypeInv'
  BY <1>6 DEF Receive, TypeInv, TypeOK, RoundsOK
<1>7. CASE Begin
  <2>1. round' = round + 1 /\ round' \in Rounds /\ pc' = "collect"
    BY <1>7 DEF Begin, Rounds, TypeInv, TypeOK
  <2>2. /\ NextWindow \in Window
        /\ command.interval > 0 => NextWindow.start <= NextWindow.end /\ NextWindow.end = now
    <3>1. CASE command.interval > 0
      BY <3>1 DEF NextWindow, Never, Window, TypeInv, TypeOK, RoundsOK
    <3>2. CASE ~(command.interval > 0)
      <4>1. command.interval <= 0
        BY <3>2 DEF TypeInv, TypeOK
      <4>2. command.start # Invalid /\ command.end # Invalid
        BY <1>7, <4>1 DEF Begin, BadTimes
      <4>3. command.start \in GivenTime /\ command.end \in GivenTime /\ now \in 0..MaxTime
        BY DEF TypeInv, TypeOK
      <4> QED  BY <3>2, <4>2, <4>3 DEF NextWindow, Window, GivenTime
    <3> QED  BY <3>1, <3>2
  <2>3. window' \in [Rounds -> Window]
        /\ \A r \in Rounds : window'[r] = IF r = round' THEN NextWindow ELSE window[r]
    BY <1>7, <2>1, <2>2 DEF Begin, TypeInv, TypeOK
  <2>4. ASSUME command.interval > 0, NEW r \in Rounds
        PROVE  window'[r].start <= window'[r].end /\ window'[r].end <= now
    <3>1. window[r].start <= window[r].end /\ window[r].end <= now /\ now \in Int
      BY <2>4 DEF TypeInv, TypeOK, RoundsOK
    <3>2. CASE r = round'
      BY <2>2, <2>3, <2>4, <3>1, <3>2
    <3>3. CASE r # round'
      BY <2>3, <3>1, <3>3
    <3> QED  BY <3>2, <3>3
  <2>5. outcome' \in [Rounds -> [Entries -> {"none", "waiting", "ok", "error", "lost"}]]
        /\ handler' \in [Rounds -> [Entries -> {"none", "sent", "read", "marked"}]]
    BY <1>7, <2>1 DEF Begin, TypeInv, TypeOK
  <2>6. UNCHANGED <<now, stage, stamp, processed, picked, unseen, closed, results, lastEnd, unposted,
                    shown, armed, interrupted, command, restarts>>
    BY <1>7 DEF Begin
  <2>7. round' \in 0..MaxRounds
    BY <1>7 DEF Begin, TypeInv, TypeOK
  <2> QED  BY <2>1, <2>3, <2>4, <2>5, <2>6, <2>7 DEF TypeInv, TypeOK, RoundsOK
<1>8. CASE Close
  BY <1>8 DEF Close, TypeInv, TypeOK, RoundsOK
<1>9. CASE PrintAll
  <2>1. shown' \subseteq Printed /\ unposted' \subseteq Entries
    BY <1>9 DEF PrintAll, TypeInv, TypeOK
  <2> QED  BY <1>9, <2>1 DEF PrintAll, TypeInv, TypeOK, RoundsOK
<1>10. CASE EndRound
  <2>1. round \in Rounds /\ window[round] \in Window
        /\ (command.interval > 0 => window[round].end <= now)
    BY <1>10 DEF EndRound, TypeInv, TypeOK, RoundsOK
  <2>2. lastEnd' \in 0..MaxTime /\ (command.interval > 0 => lastEnd' <= now)
    BY <1>10, <2>1 DEF EndRound, Window
  <2>3. pc' \in {"ready", "stopped"} /\ armed' \in BOOLEAN
    BY <1>10 DEF EndRound
  <2> QED  BY <1>10, <2>1, <2>2, <2>3 DEF EndRound, TypeInv, TypeOK, RoundsOK
<1>11. CASE Interrupt
  <2>1. CASE armed
    BY <1>11, <2>1 DEF Interrupt, TypeInv, TypeOK, RoundsOK
  <2>2. CASE ~armed
    <3>1. outcome' \in [Rounds -> [Entries -> {"none", "waiting", "ok", "error", "lost"}]]
          /\ closed' = FALSE /\ results' = {} /\ unseen' \subseteq unseen
      BY <1>11, <2>2, DieView DEF Interrupt, Forget, TypeInv, TypeOK
    <3>2. pc' = "stopped" /\ UNCHANGED <<stage, stamp, processed, handler, picked, window, round,
             lastEnd, unposted, shown, armed, interrupted, command, counters>>
      BY <1>11, <2>2 DEF Interrupt
    <3> QED  BY <3>1, <3>2 DEF TypeInv, TypeOK, RoundsOK
  <2> QED  BY <2>1, <2>2
<1>12. CASE Restart
  <2>1. outcome' \in [Rounds -> [Entries -> {"none", "waiting", "ok", "error", "lost"}]]
        /\ closed' = FALSE /\ results' = {} /\ unseen' \subseteq unseen
    BY <1>12, DieView DEF Restart, Forget, TypeInv, TypeOK
  <2>2. /\ pc' = "ready" /\ lastEnd' = Never /\ unposted' = {} /\ armed' = FALSE
        /\ interrupted' = FALSE /\ restarts' \in 0..MaxRestarts
        /\ UNCHANGED <<stage, stamp, processed, handler, picked, window, round, shown, command, now>>
    BY <1>12 DEF Restart, TypeInv, TypeOK
  <2> QED  BY <2>1, <2>2 DEF TypeInv, TypeOK, RoundsOK
<1>13. CASE Quiet
  <2>1. /\ UNCHANGED <<agentVars, callVars, window, round, lastEnd, shown, armed, command>>
        /\ pc' = pc \/ (pc = "ready" /\ pc' = "stopped")
    BY <1>13, QuietView
  <2>2. /\ now' \in 0..MaxTime /\ now <= now' /\ unposted' \subseteq Entries
        /\ interrupted' \in BOOLEAN /\ restarts' \in 0..MaxRestarts
    BY <1>13 DEF Quiet, Post, Refuse, Stop, Tick, vars, TypeInv, TypeOK
  <2>3. command.interval > 0 =>
           /\ \A r \in Rounds : window[r].end <= now'
           /\ lastEnd # Never => lastEnd <= now'
    BY <2>2 DEF Window, Never, TypeInv, TypeOK, RoundsOK
  <2> QED  BY <2>1, <2>2, <2>3 DEF TypeInv, TypeOK, RoundsOK
<1> QED
  BY <1>1, <1>2, <1>3, <1>4, <1>5, <1>6, <1>7, <1>8, <1>9, <1>10, <1>11, <1>12, <1>13, Steps

(* Variables keep their shape, for every instance, and no window of the    *)
(* timer's runs backwards although agents' clocks may.                     *)
THEOREM TypeCorrect == Spec => []TypeOK
<1>1. TypeInv => TypeOK
  BY DEF TypeInv
<1> QED  BY <1>1, TypeInit, TypeStep, PTL DEF Spec

-----------------------------------------------------------------------------
(* Calls.                                                                  *)

(* What a handler that reads changes, call by call.                        *)
LEMMA AgentReadView ==
    ASSUME TypeInv, NEW r \in Rounds, NEW i \in Entries, AgentRead(r, i)
    PROVE  /\ \A q \in Rounds, j \in Entries : ~(q = r /\ j = i) =>
                 handler'[q][j] = handler[q][j] /\ picked'[q][j] = picked[q][j]
           /\ handler'[r][i] = "read" /\ unseen \subseteq unseen'
           /\ \E empty \in SUBSET Selected(r, command.addressList[i]) :
                 /\ picked'[r][i] = Selected(r, command.addressList[i]) \ empty
                 /\ Awaited(r, i) => \A a \in empty : <<r, i, a>> \in unseen'
<1> DEFINE found == Selected(r, command.addressList[i])
<1>1. PICK empty \in SUBSET found :
        /\ picked' = [picked EXCEPT ![r][i] = found \ empty]
        /\ unseen' = unseen \union (IF Awaited(r, i) THEN {r} \X {i} \X empty ELSE {})
  BY DEF AgentRead
<1>2. handler' = [handler EXCEPT ![r][i] = "read"]
  BY DEF AgentRead
<1>3. handler \in [Rounds -> [Entries -> {"none", "sent", "read", "marked"}]]
      /\ picked \in [Rounds -> [Entries -> SUBSET Alerts]]
  BY DEF TypeInv, TypeOK
<1> DEFINE rest == found \ empty
<1>4. picked' = [picked EXCEPT ![r][i] = rest]
  BY <1>1
<1> HIDE DEF rest
<1>5. \A q \in Rounds, j \in Entries :
         /\ handler'[q][j] = IF q = r /\ j = i THEN "read" ELSE handler[q][j]
         /\ picked'[q][j] = IF q = r /\ j = i THEN rest ELSE picked[q][j]
  BY <1>2, <1>3, <1>4
<1>6. /\ unseen \subseteq unseen'
      /\ Awaited(r, i) => \A a \in empty : <<r, i, a>> \in unseen'
  BY <1>1
<1> QED  BY <1>5, <1>6 DEF rest

(* What marking an agent's alerts changes, call by call.                   *)
LEMMA AgentMarkView ==
    ASSUME TypeInv, CallsOK, NEW r \in Rounds, NEW i \in Entries, AgentMark(r, i)
    PROVE  /\ \A q \in Rounds, j \in Entries :
                 /\ handler'[q][j] = IF q = r /\ j = i THEN "marked" ELSE handler[q][j]
                 /\ q = r /\ j = i => picked'[q][j] \subseteq processed'
           /\ handler[r][i] = "read" /\ processed \subseteq processed'
           /\ processed' = processed \union Pending(command.addressList[i])
           /\ unseen' = {u \in unseen : u[3] \notin processed'}
           /\ UNCHANGED <<stage, stamp, picked, clientVars, control, counters>>
<1>1. handler[r][i] = "read" /\ i \in At(command.addressList[i])
  BY DEF AgentMark, At
<1>2. picked[r][i] \subseteq Pending(command.addressList[i])
  BY <1>1 DEF Pending, TypeInv, TypeOK
<1>3. \A q \in Rounds, j \in Entries :
         handler'[q][j] = IF q = r /\ j = i THEN "marked" ELSE handler[q][j]
  BY DEF AgentMark, TypeInv, TypeOK
<1> QED  BY <1>1, <1>2, <1>3 DEF AgentMark

(* A round that begins asks for every entry.                               *)
LEMMA BeginView ==
    ASSUME TypeInv, Begin
    PROVE  /\ pc = "ready" /\ pc' = "collect" /\ round' = round + 1 /\ round' \in Rounds
           /\ \A q \in Rounds, j \in Entries :
                 /\ handler'[q][j] = IF q = round' THEN "sent" ELSE handler[q][j]
                 /\ outcome'[q][j] = IF q = round' THEN "waiting" ELSE outcome[q][j]
           /\ \A q \in Rounds : window'[q] = IF q = round' THEN NextWindow ELSE window[q]
           /\ UNCHANGED <<stage, stamp, processed, picked, unseen, closed, results, lastEnd, shown,
                          armed, command, now>>
<1>1. round' = round + 1 /\ round' \in Rounds
  BY PollingAssumption DEF Begin, Rounds, TypeInv, TypeOK
<1> QED  BY <1>1 DEF Begin, TypeInv, TypeOK, control, counters

(* A call that ends, by its answer or without one.                         *)
LEMMA CallsView ==
    ASSUME TypeInv, NEW i \in Entries, Calls(i)
    PROVE  /\ pc = "collect" /\ round \in Rounds /\ outcome[round][i] = "waiting"
           /\ \E word \in {"ok", "error"} :
                 /\ word = "ok" => handler[round][i] = "marked"
                 /\ \A q \in Rounds, j \in Entries :
                       outcome'[q][j] = IF q = round /\ j = i THEN word ELSE outcome[q][j]
           /\ UNCHANGED unseen \/ Forget
           /\ UNCHANGED <<stage, stamp, processed, handler, picked, closed, results, window, pc,
                          round, lastEnd, shown, armed, command>>
<1>1. pc = "collect" /\ round \in Rounds /\ outcome[round][i] = "waiting"
  BY DEF Calls, Answer, CallFails, TypeInv, RoundsOK
<1>2. CASE Answer(i)
  BY <1>1, <1>2 DEF Answer, TypeInv, TypeOK, agentVars, control
<1>3. CASE CallFails(i)
  BY <1>1, <1>3 DEF CallFails, TypeInv, TypeOK, control
<1> QED  BY <1>1, <1>2, <1>3 DEF Calls

(* Receiving, closing, printing and ending a round leave the calls alone.  *)
Later == (\E i \in Entries : Receive(i)) \/ Close \/ PrintAll \/ EndRound

LEMMA LaterView ==
    ASSUME Later
    PROVE  /\ UNCHANGED <<agentVars, outcome, window, round, command>>
           /\ pc \in {"collect", "post"}
           /\ pc' = pc \/ PrintAll \/ (EndRound /\ pc = "post" /\ pc' \in {"ready", "stopped"})
           /\ PrintAll => pc = "collect" /\ pc' = "post"
           /\ PrintAll \/ UNCHANGED shown
           /\ EndRound \/ UNCHANGED <<lastEnd, armed>>
<1> USE DEF agentVars, callVars, control, counters
<1>0. PrintAll => pc = "collect" /\ pc' = "post"
  BY DEF PrintAll
<1>1. ASSUME NEW i \in Entries, Receive(i)
      PROVE  pc = "collect" /\ UNCHANGED <<agentVars, outcome, window, round, command, pc, shown,
                                          lastEnd, armed>>
  BY <1>1 DEF Receive
<1>2. CASE Close
  BY <1>0, <1>2 DEF Close
<1>3. CASE PrintAll
  BY <1>0, <1>3 DEF PrintAll
<1>4. CASE EndRound
  <2>1. UNCHANGED <<agentVars, outcome, window, round, command, shown>> /\ pc = "post"
        /\ pc' \in {"ready", "stopped"}
    BY <1>4 DEF EndRound
  <2> QED  BY <1>0, <1>4, <2>1
<1> QED  BY <1>0, <1>1, <1>2, <1>3, <1>4 DEF Later

(* No call is open at the start.                                           *)
LEMMA CallsInit == Init => CallsOK
<1> SUFFICES ASSUME Init PROVE CallsOK
  OBVIOUS
<1>1. ASSUME NEW r \in Rounds, NEW i \in Entries PROVE CallOK(r, i)
  <2>1. handler[r][i] = "none" /\ outcome[r][i] = "none" /\ picked[r][i] = {} /\ round = 0
    BY DEF Init
  <2>2. r > 0
    BY PollingAssumption DEF Rounds
  <2> QED  BY <2>1, <2>2 DEF CallOK
<1>2. ChannelOK
  BY DEF Init, ChannelOK
<1> QED  BY <1>1, <1>2 DEF CallsOK

(* Every step keeps each call consistent.                                  *)
LEMMA CallStep ==
    ASSUME TypeInv, CallsOK, [Next]_vars, NEW q \in Rounds, NEW j \in Entries
    PROVE  CallOK(q, j)'
<1> USE PollingAssumption
<1>0. CallOK(q, j) /\ q \in Nat /\ round \in Nat /\ command' = command
  BY SameCommand DEF CallsOK, Rounds, TypeInv, TypeOK
<1>1. ASSUME NEW a \in Alerts, Stamp(a) \/ Store(a) PROVE CallOK(q, j)'
  BY <1>0, <1>1 DEF Stamp, Store, CallOK, clientVars, callVars, control
<1>2. ASSUME NEW r \in Rounds, NEW i \in Entries, AgentRead(r, i) PROVE CallOK(q, j)'
  <2>1. \A a \in Selected(r, command.addressList[i]) : NodeOf[a] = command.addressList[i]
    BY DEF Selected
  <2>2. UNCHANGED <<processed, outcome, round, pc>> /\ handler[r][i] = "sent"
    BY <1>2 DEF AgentRead, clientVars, callVars
  <2>3. CASE q = r /\ j = i
    <3>1. handler'[q][j] = "read" /\ picked'[q][j] \subseteq Selected(r, command.addressList[i])
      BY <1>2, <2>3, AgentReadView
    <3> QED  BY <1>0, <2>1, <2>2, <2>3, <3>1 DEF CallOK
  <2>4. CASE ~(q = r /\ j = i)
    <3>1. handler'[q][j] = handler[q][j] /\ picked'[q][j] = picked[q][j]
      BY <1>2, <2>4, AgentReadView
    <3> QED  BY <1>0, <2>2, <3>1 DEF CallOK
  <2> QED  BY <2>3, <2>4
<1>3. ASSUME NEW r \in Rounds, NEW i \in Entries, AgentMark(r, i) PROVE CallOK(q, j)'
  BY <1>0, <1>3, AgentMarkView DEF CallOK, clientVars, callVars
<1>4. ASSUME NEW i \in Entries, Calls(i) PROVE CallOK(q, j)'
  BY <1>0, <1>4, CallsView DEF CallOK
<1>5. CASE Begin
  <2>1. UNCHANGED <<processed, picked>>
    BY <1>5, BeginView
  <2>2. CASE q = round'
    <3>1. picked[q][j] = {}
      BY <1>0, <1>5, <2>2, BeginView DEF CallOK
    <3> QED  BY <1>0, <1>5, <2>1, <2>2, <3>1, BeginView DEF CallOK
  <2>3. CASE q # round'
    BY <1>0, <1>5, <2>1, <2>3, BeginView DEF CallOK
  <2> QED  BY <2>2, <2>3
<1>6. CASE Later
  <2>1. UNCHANGED <<handler, picked, processed, outcome, round>>
    BY <1>6, LaterView DEF agentVars
  <2>2. CASE PrintAll
    <3>1. outcome[round][j] # "waiting"
      BY <2>2 DEF CallsOK, ChannelOK, PrintAll
    <3> QED  BY <1>0, <2>1, <2>2, <3>1, LaterView, <1>6 DEF CallOK
  <2>3. CASE ~PrintAll
    <3>1. pc' = pc \/ (pc = "post" /\ pc' \in {"ready", "stopped"})
      BY <1>6, <2>3, LaterView
    <3> QED  BY <1>0, <2>1, <3>1 DEF CallOK
  <2> QED  BY <2>2, <2>3
<1>7. CASE Interrupt \/ Restart
  <2>1. UNCHANGED <<handler, picked, processed, round>>
    BY <1>7, LeaveView
  <2>2. CASE Waits
    BY <1>0, <2>1, <2>2 DEF Waits, callVars, CallOK
  <2>3. CASE Dies
    <3>1. /\ outcome'[q][j] = IF q = round /\ pc = "collect" THEN "lost" ELSE outcome[q][j]
          /\ pc' \in {"ready", "stopped"}
      BY <2>3, DieView DEF Dies
    <3> QED  BY <1>0, <2>1, <3>1 DEF CallOK
  <2> QED  BY <1>7, <2>2, <2>3, LeaveView
<1>8. CASE Quiet
  BY <1>0, <1>8, QuietView DEF agentVars, callVars, CallOK
<1> QED
  BY <1>1, <1>2, <1>3, <1>4, <1>5, <1>6, <1>7, <1>8, Steps DEF Later

(* Every step keeps the channel's results and its closing in order.        *)
LEMMA ChannelStep == ASSUME TypeInv, CallsOK, [Next]_vars PROVE ChannelOK'
<1>0. ChannelOK /\ (pc = "collect" => round \in Rounds)
  BY DEF CallsOK, TypeInv, RoundsOK
<1>1. CASE UNCHANGED <<closed, results, pc, round, outcome>>
  BY <1>0, <1>1 DEF ChannelOK
<1>2. CASE \/ \E a \in Alerts : Stamp(a) \/ Store(a)
           \/ \E r \in Rounds, i \in Entries : AgentRead(r, i) \/ AgentMark(r, i)
  BY <1>1, <1>2 DEF Stamp, Store, AgentRead, AgentMark, clientVars, callVars
<1>3. ASSUME NEW i \in Entries, Calls(i) PROVE ChannelOK'
  <2>1. \A k \in Entries : outcome[round][k] # "waiting" => outcome'[round][k] # "waiting"
    BY <1>3, CallsView
  <2>2. UNCHANGED <<closed, results, pc, round>>
    BY <1>3, CallsView
  <2>3. results \subseteq Entries
    BY DEF TypeInv, TypeOK
  <2> QED  BY <1>0, <2>1, <2>2, <2>3 DEF ChannelOK
<1>4. ASSUME NEW i \in Entries, Receive(i) PROVE ChannelOK'
  BY <1>0, <1>4 DEF Receive, Sent, ChannelOK
<1>5. CASE Begin
  BY <1>0, <1>5, BeginView DEF ChannelOK
<1>6. CASE Close
  BY <1>0, <1>6 DEF Close, ChannelOK
<1>7. CASE PrintAll
  BY <1>7 DEF PrintAll, ChannelOK
<1>8. CASE EndRound
  BY <1>0, <1>8 DEF EndRound, callVars, ChannelOK
<1>9. CASE Interrupt \/ Restart
  <2>1. CASE Waits
    BY <1>1, <1>9, <2>1, LeaveView DEF Waits, callVars
  <2>2. CASE Dies
    BY <2>2, DieView DEF Dies, ChannelOK
  <2> QED  BY <1>9, <2>1, <2>2, LeaveView
<1>10. CASE Quiet
  <2>1. UNCHANGED <<closed, results, round, outcome>> /\ (pc' = "collect" <=> pc = "collect")
    BY <1>10, QuietView DEF callVars
  <2> QED  BY <1>0, <2>1 DEF ChannelOK
<1> QED
  BY <1>2, <1>3, <1>4, <1>5, <1>6, <1>7, <1>8, <1>9, <1>10, Steps

(* Every step keeps the calls consistent.                                  *)
LEMMA CallsStep == TypeInv /\ CallsOK /\ [Next]_vars => CallsOK'
BY CallStep, ChannelStep DEF CallsOK

-----------------------------------------------------------------------------
(* Where marked alerts go.                                                 *)
OnItsWay(q, i, a) ==
    /\ a \in picked[q][i]
    /\ outcome[q][i] \in {"error", "lost"} \/ (q = round /\ pc = "collect")

Accounted(a) ==
    \/ \E p \in shown : p.alert = a
    \/ \E q \in 1..round : \E i \in At(NodeOf[a]) : OnItsWay(q, i, a)

(* An alert stays accounted for as long as what was printed stays printed  *)
(* and no call that had it changes for another reason.                     *)
LEMMA StaysAccounted ==
    ASSUME TypeInv, [Next]_vars, NEW a, Accounted(a), round <= round', round' \in Nat,
           shown \subseteq shown',
           \A q \in Rounds, i \in At(NodeOf[a]) :
              q <= round /\ OnItsWay(q, i, a) => OnItsWay(q, i, a)' \/ \E p \in shown' : p.alert = a
    PROVE  Accounted(a)'
<1>1. At(NodeOf[a])' = At(NodeOf[a])
  BY SameEntries DEF At
<1>2. \A q \in 1..round : q \in Rounds /\ q \in 1..round'
  BY PollingAssumption DEF Rounds, TypeInv, TypeOK
<1>3. CASE \E p \in shown : p.alert = a
  BY <1>3 DEF Accounted
<1>4. ASSUME NEW q \in 1..round, NEW i \in At(NodeOf[a]), OnItsWay(q, i, a) PROVE Accounted(a)'
  <2>1. q \in Rounds /\ q <= round /\ q \in 1..round'
    BY <1>2 DEF TypeInv, TypeOK
  <2>2. OnItsWay(q, i, a)' \/ \E p \in shown' : p.alert = a
    BY <1>4, <2>1
  <2>3. i \in At(NodeOf[a])'
    BY <1>1
  <2>4. CASE OnItsWay(q, i, a)'
    BY <2>1, <2>3, <2>4 DEF Accounted
  <2>5. CASE \E p \in shown' : p.alert = a
    BY <2>5 DEF Accounted
  <2> QED  BY <2>2, <2>4, <2>5
<1> QED  BY <1>3, <1>4 DEF Accounted

(* Every step keeps marked alerts accounted for.                           *)
LEMMA AccountedStep ==
    TypeInv /\ CallsOK /\ ProcessedIsPrinted /\ [Next]_vars => ProcessedIsPrinted'
<1> SUFFICES ASSUME TypeInv, CallsOK, ProcessedIsPrinted, [Next]_vars,
                    NEW a \in processed'
             PROVE  Accounted(a)'
  BY DEF ProcessedIsPrinted, Accounted, OnItsWay
<1>0. /\ a \in processed => Accounted(a)
      /\ processed \subseteq Alerts
      /\ round \in Nat
      /\ \A i \in At(NodeOf[a]) : i \in Entries
  BY PollingAssumption DEF ProcessedIsPrinted, Accounted, OnItsWay, At, TypeInv, TypeOK
<1>1. CASE UNCHANGED <<processed, picked, outcome, round, pc, shown>>
  <2>1. \A q, i : OnItsWay(q, i, a) => OnItsWay(q, i, a)'
    BY <1>1 DEF OnItsWay
  <2> QED  BY <1>0, <1>1, <2>1, StaysAccounted
<1>2. ASSUME NEW b \in Alerts, Stamp(b) \/ Store(b) PROVE Accounted(a)'
  BY <1>1, <1>2 DEF Stamp, Store, clientVars, callVars
<1>3. ASSUME NEW r \in Rounds, NEW k \in Entries, AgentRead(r, k) PROVE Accounted(a)'
  <2>1. UNCHANGED <<processed, shown, round, pc, outcome>> /\ handler[r][k] = "sent"
    BY <1>3 DEF AgentRead, clientVars, callVars
  <2>2. picked[r][k] = {}
    BY <2>1 DEF CallsOK, CallOK
  <2>3. \A q \in Rounds, i \in At(NodeOf[a]) : OnItsWay(q, i, a) => OnItsWay(q, i, a)'
    BY <1>0, <1>3, <2>1, <2>2, AgentReadView DEF OnItsWay
  <2> QED  BY <1>0, <2>1, <2>3, StaysAccounted
<1>4. ASSUME NEW r \in Rounds, NEW k \in Entries, AgentMark(r, k) PROVE Accounted(a)'
  <2>1. /\ UNCHANGED <<shown, round, pc, outcome, picked>>
        /\ processed' = processed \union Pending(command.addressList[k])
    BY <1>4, AgentMarkView DEF clientVars, callVars
  <2>2. CASE a \in processed
    <3>1. \A q, i : OnItsWay(q, i, a) => OnItsWay(q, i, a)'
      BY <2>1 DEF OnItsWay
    <3> QED  BY <1>0, <2>1, <2>2, <3>1, StaysAccounted
  <2>3. CASE a \in Pending(command.addressList[k])
    <3>1. PICK q \in Rounds, i \in At(command.addressList[k]) :
             handler[q][i] = "read" /\ a \in picked[q][i]
      BY <2>3 DEF Pending
    <3>2. i \in Entries /\ command.addressList[i] = command.addressList[k]
      BY <3>1 DEF At
    <3>3. CallOK(q, i) /\ NodeOf[a] = command.addressList[i] /\ i \in At(NodeOf[a])
      BY <3>1, <3>2 DEF CallsOK, CallOK, At
    <3>4. q \in 1..round
      BY <1>0, <3>1, <3>3 DEF CallOK, Rounds
    <3>5. outcome[q][i] \in {"waiting", "error", "lost"}
      BY <1>0, <3>1, <3>2, <3>3, <3>4 DEF CallOK, TypeInv, TypeOK
    <3>6. OnItsWay(q, i, a)
      BY <3>1, <3>3, <3>5 DEF CallOK, OnItsWay
    <3>7. OnItsWay(q, i, a)'
      BY <2>1, <3>6 DEF OnItsWay
    <3>8. i \in At(NodeOf[a])'
      BY <3>3, SameEntries DEF At
    <3> QED  BY <2>1, <3>4, <3>7, <3>8 DEF Accounted
  <2> QED  BY <2>1, <2>2, <2>3
<1>5. ASSUME NEW k \in Entries, Calls(k) PROVE Accounted(a)'
  <2>1. UNCHANGED <<processed, shown, round, pc, picked>> /\ pc = "collect"
    BY <1>5, CallsView
  <2>2. ASSUME NEW q \in Rounds, NEW i \in At(NodeOf[a]), OnItsWay(q, i, a)
        PROVE  OnItsWay(q, i, a)'
    <3>1. outcome[q][i] \in {"error", "lost"} => outcome'[q][i] \in {"error", "lost"}
      BY <1>0, <1>5, <2>2, CallsView
    <3> QED  BY <2>1, <2>2, <3>1 DEF OnItsWay
  <2> QED  BY <1>0, <2>1, <2>2, StaysAccounted
<1>6. CASE Begin
  <2>1. UNCHANGED <<processed, shown, picked>> /\ pc # "collect" /\ round' = round + 1
    BY <1>6, BeginView
  <2>2. ASSUME NEW q \in Rounds, NEW i \in At(NodeOf[a]), q <= round, OnItsWay(q, i, a)
        PROVE  OnItsWay(q, i, a)'
    <3>1. outcome'[q][i] = outcome[q][i]
      BY <1>0, <1>6, <2>1, <2>2, BeginView DEF Rounds
    <3> QED  BY <2>1, <2>2, <3>1 DEF OnItsWay
  <2> QED  BY <1>0, <2>1, <2>2, StaysAccounted
<1>7. CASE PrintAll
  <2>1. /\ UNCHANGED <<processed, picked, outcome, round>> /\ round \in Rounds
        /\ shown' = shown \union {p \in Printed :
                       p.round = round /\ p.entry \in results /\ p.alert \in Reply(p.entry)}
        /\ closed /\ Sent = {}
    BY <1>7 DEF PrintAll, agentVars, TypeInv, RoundsOK
  <2>2. ASSUME NEW q \in Rounds, NEW i \in At(NodeOf[a]), OnItsWay(q, i, a)
        PROVE  OnItsWay(q, i, a)' \/ \E p \in shown' : p.alert = a
    <3>1. CASE outcome[q][i] \in {"error", "lost"}
      BY <2>1, <2>2, <3>1 DEF OnItsWay
    <3>2. CASE outcome[q][i] \notin {"error", "lost"}
      <4>1. q = round /\ outcome[q][i] # "waiting" /\ i \in Entries /\ a \in picked[round][i]
        BY <1>0, <2>1, <2>2, <3>2 DEF OnItsWay, CallsOK, ChannelOK
      <4>2. outcome[round][i] = "ok" /\ i \in results
        BY <2>1, <3>2, <4>1 DEF CallsOK, CallOK, Sent, TypeInv, TypeOK
      <4>3. a \in Reply(i) /\ a \in Alerts
        BY <1>0, <2>1, <4>1, <4>2 DEF Reply
      <4> DEFINE p0 == [round |-> round, entry |-> i, alert |-> a]
      <4>4. p0 \in Printed /\ p0.round = round /\ p0.entry = i /\ p0.alert = a
        BY <2>1, <4>1, <4>3 DEF Printed
      <4>5. p0 \in shown'
        BY <2>1, <4>2, <4>3, <4>4
      <4> QED  BY <4>4, <4>5
    <3> QED  BY <3>1, <3>2
  <2> QED  BY <1>0, <2>1, <2>2, StaysAccounted
<1>8. CASE Later /\ ~PrintAll
  <2>1. UNCHANGED <<processed, picked, outcome, round, shown>>
        /\ (pc' = pc \/ (pc = "post" /\ pc' \in {"ready", "stopped"}))
    BY <1>8, LaterView DEF agentVars
  <2>2. \A q, i : OnItsWay(q, i, a) => OnItsWay(q, i, a)'
    BY <2>1 DEF OnItsWay
  <2> QED  BY <1>0, <2>1, <2>2, StaysAccounted
<1>9. CASE Interrupt \/ Restart
  <2>1. UNCHANGED <<processed, shown, round, picked>>
    BY <1>9, LeaveView
  <2>2. CASE Waits
    BY <1>1, <2>1, <2>2 DEF Waits, callVars
  <2>3. CASE Dies
    <3>1. \A q \in Rounds, i \in At(NodeOf[a]) : OnItsWay(q, i, a) => OnItsWay(q, i, a)'
      BY <1>0, <2>1, <2>3, DieView DEF Dies, OnItsWay
    <3> QED  BY <1>0, <2>1, <3>1, StaysAccounted
  <2> QED  BY <1>9, <2>2, <2>3, LeaveView
<1>10. CASE Quiet
  <2>1. UNCHANGED <<processed, picked, outcome, round, shown>>
        /\ (pc' = pc \/ (pc = "ready" /\ pc' = "stopped"))
    BY <1>10, QuietView DEF agentVars, callVars
  <2>2. \A q, i : OnItsWay(q, i, a) => OnItsWay(q, i, a)'
    BY <2>1 DEF OnItsWay
  <2> QED  BY <1>0, <2>1, <2>2, StaysAccounted
<1> QED
  BY <1>2, <1>3, <1>4, <1>5, <1>6, <1>7, <1>8, <1>9, <1>10, Steps DEF Later

(* An alert marked processed is printed, on its way, or was marked for a   *)
(* call that failed or a client that died.                                 *)
THEOREM MarkedIsPrinted == Spec => []ProcessedIsPrinted
<1>1. Init => ProcessedIsPrinted
  BY DEF Init, ProcessedIsPrinted
<1> QED
  BY <1>1, TypeInit, TypeStep, CallsInit, CallsStep, AccountedStep, PTL DEF Spec

-----------------------------------------------------------------------------
(* Alerts are printed once.                                                *)

(* What a round prints: alerts its own calls have read, marked by then.    *)
LEMMA PrintAllView ==
    ASSUME TypeInv, CallsOK, PrintAll
    PROVE  /\ shown \subseteq shown' /\ UNCHANGED <<processed, picked, outcome, round, window>>
           /\ pc = "collect" /\ pc' = "post" /\ round \in Rounds
           /\ \A p \in shown' \ shown :
                 /\ p \in Printed /\ p.round = round /\ p.entry \in At(NodeOf[p.alert])
                 /\ p.alert \in picked[round][p.entry] /\ p.alert \in processed
<1>1. /\ shown' = shown \union {p \in Printed :
                       p.round = round /\ p.entry \in results /\ p.alert \in Reply(p.entry)}
      /\ UNCHANGED <<processed, picked, outcome, round, window>>
      /\ pc = "collect" /\ pc' = "post" /\ round \in Rounds
  BY DEF PrintAll, agentVars, TypeInv, RoundsOK
<1>2. ASSUME NEW p \in Printed, p.entry \in results, p.alert \in Reply(p.entry)
      PROVE  /\ p.entry \in At(NodeOf[p.alert])
             /\ p.alert \in picked[round][p.entry] /\ p.alert \in processed
  <2>1. p.entry \in Entries
    BY DEF Printed
  <2>2. outcome[round][p.entry] = "ok" /\ p.alert \in picked[round][p.entry]
    BY <1>2 DEF Reply
  <2>3. CallOK(round, p.entry)
    BY <1>1, <2>1 DEF CallsOK
  <2> QED  BY <2>1, <2>2, <2>3 DEF CallOK, At
<1> QED  BY <1>1, <1>2

(* Every step keeps what has been shown consistent.                        *)
LEMMA ShownStep == TypeInv /\ CallsOK /\ ShownOK /\ [Next]_vars => ShownOK'
<1> SUFFICES ASSUME TypeInv, CallsOK, ShownOK, [Next]_vars PROVE ShownOK'
  OBVIOUS
<1>0. /\ Shown \subseteq processed
      /\ pc = "collect" => round \in Rounds
      /\ \A n : At(n)' = At(n)
      /\ \A n : Repeated(n)' = Repeated(n)
  BY SameEntries DEF ShownOK, Repeated, TypeInv, RoundsOK
<1>1. ASSUME UNCHANGED shown, processed \subseteq processed',
             pc' = "collect" => \A i \in Entries : picked'[round'][i] \intersect Shown = {}
      PROVE  ShownOK'
  <2>1. UNCHANGED Shown
    BY <1>1 DEF Shown
  <2>2. PrintedOnce'
    BY <1>0, <1>1 DEF ShownOK, PrintedOnce
  <2>3. \A p \in shown' : p.entry \in At(NodeOf[p.alert])'
    BY <1>0, <1>1 DEF ShownOK
  <2>4. Shown' \subseteq processed'
    BY <1>0, <1>1, <2>1
  <2> QED  BY <1>1, <2>1, <2>2, <2>3, <2>4 DEF ShownOK
<1>2. ASSUME UNCHANGED <<shown, picked, round>>, processed \subseteq processed', pc' = "collect" => pc = "collect"
      PROVE  ShownOK'
  BY <1>1, <1>2 DEF ShownOK
<1>3. ASSUME NEW a \in Alerts, Stamp(a) \/ Store(a) PROVE ShownOK'
  BY <1>2, <1>3 DEF Stamp, Store, clientVars, callVars
<1>4. ASSUME NEW r \in Rounds, NEW i \in Entries, AgentRead(r, i) PROVE ShownOK'
  <2>1. UNCHANGED <<processed, shown, round, pc, outcome>>
    BY <1>4 DEF AgentRead, clientVars, callVars
  <2>2. Selected(r, command.addressList[i]) \intersect Shown = {}
    BY <1>0 DEF Selected
  <2>3. ASSUME pc = "collect", NEW j \in Entries PROVE picked'[round][j] \intersect Shown = {}
    <3>1. CASE round = r /\ j = i
      BY <1>4, <2>2, <3>1, AgentReadView
    <3>2. CASE ~(round = r /\ j = i)
      BY <1>0, <1>4, <2>3, <3>2, AgentReadView DEF ShownOK
    <3> QED  BY <3>1, <3>2
  <2> QED  BY <1>1, <2>1, <2>3
<1>5. ASSUME NEW r \in Rounds, NEW i \in Entries, AgentMark(r, i) PROVE ShownOK'
  BY <1>2, <1>5, AgentMarkView DEF clientVars
<1>6. ASSUME NEW i \in Entries, Calls(i) PROVE ShownOK'
  BY <1>2, <1>6, CallsView
<1>7. CASE Begin
  <2>1. UNCHANGED <<processed, shown, picked>> /\ round' \in Rounds /\ round' = round + 1
    BY <1>7, BeginView
  <2>2. round' > round
    BY <2>1 DEF TypeInv, TypeOK
  <2>3. \A i \in Entries : picked[round'][i] = {}
    BY <2>1, <2>2 DEF CallsOK, CallOK
  <2> QED  BY <1>1, <2>1, <2>3
<1>8. CASE PrintAll
  <2>1. /\ shown \subseteq shown' /\ UNCHANGED <<processed, picked, outcome, round, window>>
        /\ pc = "collect" /\ pc' = "post" /\ round \in Rounds
        /\ \A p \in shown' \ shown :
              /\ p \in Printed /\ p.round = round /\ p.entry \in At(NodeOf[p.alert])
              /\ p.alert \in picked[round][p.entry] /\ p.alert \in processed
    BY <1>8, PrintAllView
  <2>2. Shown' \subseteq processed'
    BY <1>0, <2>1 DEF Shown
  <2>3. \A p \in shown' : p.entry \in At(NodeOf[p.alert])'
    BY <1>0, <2>1 DEF ShownOK
  <2>4. ASSUME NEW p \in shown' \ shown, NEW q \in shown PROVE p.alert # q.alert
    <3>1. p.entry \in Entries /\ p.alert \in picked[round][p.entry]
      BY <2>1 DEF At
    <3>2. q.alert \in Shown
      BY DEF Shown
    <3> QED  BY <2>1, <3>1, <3>2 DEF ShownOK
  <2>5. ASSUME NEW p \in shown' \ shown, NEW q \in shown' \ shown, p.alert = q.alert
        PROVE  p.round = q.round /\ (p = q \/ Repeated(NodeOf[p.alert]))
    <3>1. p \in Printed /\ q \in Printed /\ p.round = q.round
      BY <2>1
    <3>2. p.entry \in At(NodeOf[p.alert]) /\ q.entry \in At(NodeOf[p.alert])
      BY <2>1, <2>5
    <3>3. CASE p.entry = q.entry
      BY <2>5, <3>1, <3>3 DEF Printed
    <3>4. CASE p.entry # q.entry
      BY <3>1, <3>2, <3>4 DEF Repeated
    <3> QED  BY <3>3, <3>4
  <2>6. PrintedOnce'
    <3> SUFFICES ASSUME NEW p \in shown', NEW q \in shown', p.alert = q.alert
                 PROVE  p.round = q.round /\ (p = q \/ Repeated(NodeOf[p.alert]))
      BY <1>0 DEF PrintedOnce
    <3>1. CASE p \in shown /\ q \in shown
      BY <3>1 DEF ShownOK, PrintedOnce
    <3>2. CASE p \notin shown /\ q \notin shown
      BY <2>5, <3>2
    <3> QED  BY <2>4, <3>1, <3>2
  <2> QED  BY <2>1, <2>2, <2>3, <2>6 DEF ShownOK
<1>9. CASE Later /\ ~PrintAll
  BY <1>2, <1>9, LaterView DEF agentVars
<1>10. CASE Interrupt \/ Restart
  <2>1. UNCHANGED <<processed, shown, round, picked>>
    BY <1>10, LeaveView
  <2>2. pc' = "collect" => pc = "collect"
    BY <1>10, LeaveView DEF Waits, Dies
  <2> QED  BY <1>2, <2>1, <2>2
<1>11. CASE Quiet
  BY <1>2, <1>11, QuietView DEF agentVars
<1> QED
  BY <1>3, <1>4, <1>5, <1>6, <1>7, <1>8, <1>9, <1>10, <1>11, Steps DEF Later

(* No alert is printed in two rounds, by any number of clients one after   *)
(* another, nor twice in one unless the list names its host twice.         *)
THEOREM NeverPrintedTwice == Spec => []PrintedOnce
<1>1. Init => ShownOK
  BY DEF Init, ShownOK, Shown, PrintedOnce
<1>2. ShownOK => PrintedOnce
  BY DEF ShownOK
<1> QED
  BY <1>1, <1>2, TypeInit, TypeStep, CallsInit, CallsStep, ShownStep, PTL DEF Spec

-----------------------------------------------------------------------------
(* Alerts that fall behind the window.                                     *)

(* What the handler of an entry knows of an alert of its agent.            *)
Knows(r, i, a) ==
    /\ handler[r][i] \in {"read", "marked"} /\ Awaited(r, i)
    /\ stage[a] = "stored" /\ Covers(r, a)
    => a \in processed \/ a \in picked[r][i] \/ <<r, i, a>> \in unseen

(* A call that a step leaves awaited was awaited, and what it has not seen *)
(* is not forgotten.                                                       *)
LEMMA StillAwaited ==
    ASSUME TypeInv, (\E i \in Entries : Calls(i)) \/ Dies,
           NEW q \in Rounds, NEW j \in Entries, Awaited(q, j)'
    PROVE  Awaited(q, j) /\ \A a : <<q, j, a>> \in unseen => <<q, j, a>> \in unseen'
<1>1. UNCHANGED unseen \/ Forget
  BY CallsView, DieView DEF Dies
<1>2. \A a : <<q, j, a>> \in unseen => <<q, j, a>> \in unseen'
  BY <1>1 DEF Forget
<1>3. Awaited(q, j)
  <2>1. ASSUME NEW i \in Entries, Calls(i) PROVE Awaited(q, j)
    BY <2>1, CallsView DEF Awaited
  <2>2. CASE Dies
    BY <2>2, DieView DEF Dies, Awaited
  <2> QED  BY <2>1, <2>2
<1> QED  BY <1>2, <1>3

(* Every step keeps what a handler knows, if the command asks for INFO.    *)
LEMMA KnowsStep ==
    ASSUME TypeInv, CallsOK, [Next]_vars, command.minSeverity <= Info,
           NEW q \in Rounds, NEW b \in Alerts, NEW j \in At(NodeOf[b]), Knows(q, j, b)
    PROVE  Knows(q, j, b)'
<1>0. j \in Entries /\ command.addressList[j] = NodeOf[b]
  BY DEF At
<1>1. ASSUME UNCHANGED <<stage, stamp, processed, handler, picked, window>>,
             Awaited(q, j)' => Awaited(q, j) /\ (<<q, j, b>> \in unseen => <<q, j, b>> \in unseen')
      PROVE  Knows(q, j, b)'
  BY <1>1 DEF Knows, Covers
<1>2. ASSUME UNCHANGED <<agentVars, outcome, window>> PROVE Knows(q, j, b)'
  BY <1>1, <1>2 DEF agentVars, Awaited
<1>3. ASSUME NEW a \in Alerts, Stamp(a) PROVE Knows(q, j, b)'
  <2>1. UNCHANGED <<processed, handler, picked, unseen, window, outcome>>
    BY <1>3 DEF Stamp, clientVars, callVars
  <2>2. CASE b = a
    BY <1>3, <2>2 DEF Stamp, Knows, TypeInv, TypeOK
  <2>3. CASE b # a
    <3>1. stage'[b] = stage[b] /\ stamp'[b] = stamp[b]
      BY <1>3, <2>3 DEF Stamp, TypeInv, TypeOK
    <3> QED  BY <2>1, <3>1 DEF Knows, Covers, Awaited
  <2> QED  BY <2>2, <2>3
<1>4. ASSUME NEW a \in Alerts, Store(a) PROVE Knows(q, j, b)'
  <2>1. UNCHANGED <<stamp, processed, handler, picked, window, outcome>> /\ unseen \subseteq unseen'
    BY <1>4 DEF Store, clientVars, callVars
  <2>2. CASE b = a
    <3>1. handler[q][j] \in {"read", "marked"} /\ Awaited(q, j) /\ Covers(q, b) => <<q, j, b>> \in unseen'
      BY <1>4, <2>2 DEF Store
    <3> QED  BY <2>1, <3>1 DEF Knows, Covers, Awaited
  <2>3. CASE b # a
    <3>1. stage'[b] = stage[b]
      BY <1>4, <2>3 DEF Store, TypeInv, TypeOK
    <3> QED  BY <2>1, <3>1 DEF Knows, Covers, Awaited
  <2> QED  BY <2>2, <2>3
<1>5. ASSUME NEW r \in Rounds, NEW i \in Entries, AgentRead(r, i) PROVE Knows(q, j, b)'
  <2>1. UNCHANGED <<stage, stamp, processed, window, outcome>>
    BY <1>5 DEF AgentRead, clientVars, callVars
  <2>2. CASE q = r /\ j = i
    <3>1. PICK empty \in SUBSET Selected(q, NodeOf[b]) :
             /\ picked'[q][j] = Selected(q, NodeOf[b]) \ empty
             /\ Awaited(q, j) => \A a \in empty : <<q, j, a>> \in unseen'
      BY <1>0, <1>5, <2>2, AgentReadView
    <3>2. stage[b] = "stored" /\ Covers(q, b) => b \in processed \/ b \in Selected(q, NodeOf[b])
      BY DEF Selected
    <3> QED  BY <2>1, <3>1, <3>2 DEF Knows, Covers, Awaited
  <2>3. CASE ~(q = r /\ j = i)
    <3>1. handler'[q][j] = handler[q][j] /\ picked'[q][j] = picked[q][j] /\ unseen \subseteq unseen'
      BY <1>0, <1>5, <2>3, AgentReadView
    <3> QED  BY <2>1, <3>1 DEF Knows, Covers, Awaited
  <2> QED  BY <2>2, <2>3
<1>6. ASSUME NEW r \in Rounds, NEW i \in Entries, AgentMark(r, i) PROVE Knows(q, j, b)'
  <2>1. /\ UNCHANGED <<stage, stamp, picked, window, outcome>> /\ processed \subseteq processed'
        /\ handler'[q][j] \in {"read", "marked"} => handler[q][j] \in {"read", "marked"}
    BY <1>0, <1>6, AgentMarkView DEF clientVars, callVars
  <2>2. <<q, j, b>> \in unseen => b \in processed' \/ <<q, j, b>> \in unseen'
    BY <1>6, AgentMarkView
  <2> QED  BY <2>1, <2>2 DEF Knows, Covers, Awaited
<1>7. ASSUME NEW i \in Entries, Calls(i) PROVE Knows(q, j, b)'
  <2>1. UNCHANGED <<stage, stamp, processed, handler, picked, window>>
    BY <1>7, CallsView
  <2> QED  BY <1>0, <1>1, <1>7, <2>1, StillAwaited
<1>8. CASE Begin
  <2>1. UNCHANGED <<stage, stamp, processed, picked, unseen>>
    BY <1>8, BeginView
  <2>2. CASE q = round'
    <3>1. handler'[q][j] = "sent"
      BY <1>0, <1>8, <2>2, BeginView
    <3> QED  BY <3>1 DEF Knows
  <2>3. CASE q # round'
    <3>1. handler'[q][j] = handler[q][j] /\ outcome'[q][j] = outcome[q][j] /\ window'[q] = window[q]
      BY <1>0, <1>8, <2>3, BeginView
    <3> QED  BY <2>1, <3>1 DEF Knows, Covers, Awaited
  <2> QED  BY <2>2, <2>3
<1>9. CASE Later
  BY <1>2, <1>9, LaterView
<1>10. CASE Interrupt \/ Restart
  <2>1. UNCHANGED <<stage, stamp, processed, handler, picked, window>>
    BY <1>10, LeaveView
  <2>2. CASE Waits
    BY <1>1, <2>1, <2>2 DEF Waits, callVars, Awaited
  <2>3. CASE Dies
    BY <1>0, <1>1, <2>1, <2>3, StillAwaited
  <2> QED  BY <1>10, <2>2, <2>3, LeaveView
<1>11. CASE Quiet
  BY <1>2, <1>11, QuietView DEF callVars
<1> QED
  BY <1>3, <1>4, <1>5, <1>6, <1>7, <1>8, <1>9, <1>10, <1>11, Steps DEF Later

(* Every step keeps what the handlers know of their windows.               *)
LEMMA SeenStep == TypeInv /\ CallsOK /\ SeenOK /\ [Next]_vars => SeenOK'
<1> SUFFICES ASSUME TypeInv, CallsOK, SeenOK, [Next]_vars, (command.minSeverity <= Info)',
                    NEW a \in Alerts, NEW r \in Rounds, NEW i \in At(NodeOf[a])'
             PROVE  Knows(r, i, a)'
  BY DEF SeenOK, Knows
<1>1. command.minSeverity <= Info /\ i \in At(NodeOf[a])
  BY SameCommand, SameEntries DEF Info, At
<1>2. Knows(r, i, a)
  BY <1>1 DEF SeenOK, Knows
<1> QED  BY <1>1, <1>2, KnowsStep

(* The rounds' windows, in steps that leave the windows alone and end no   *)
(* round.                                                                  *)
LEMMA WindowsKept ==
    ASSUME TypeInv, WindowsOK, UNCHANGED <<window, round, lastEnd, armed, command>>,
           pc' = pc \/ (pc = "ready" /\ pc' = "stopped"),
           \A r \in Rounds : OverRound(r) => OverRound(r)'
    PROVE  WindowsOK'
<1>0. \A r \in 1..round : r \in Rounds
  BY PollingAssumption DEF Rounds, TypeInv, TypeOK
<1>1. ASSUME NEW s, NEW r \in 1..round, LastIn(r, s) PROVE LastIn(r, s)'
  BY <1>0, <1>1 DEF LastIn, In
<1>2. \A s \in 0..lastEnd : (\E r \in 1..round : LastIn(r, s)) => \E r \in 1..round : LastIn(r, s)'
  BY <1>1
<1>3. round >= 1 => round \in Rounds
  BY PollingAssumption DEF Rounds, TypeInv, TypeOK
<1> QED  BY <1>2, <1>3 DEF WindowsOK

(* A round that begins closes the gap between lastEnd and now.             *)
LEMMA BeginCovers ==
    ASSUME TypeInv, WindowsOK, Begin, command.interval > 0, lastEnd # Never, NEW s \in 0..lastEnd
    PROVE  \E r \in 1..round' : LastIn(r, s)'
<1>0. /\ round \in 0..MaxRounds /\ MaxRounds \in Nat /\ MaxTime \in Nat
      /\ lastEnd \in 0..MaxTime /\ now \in 0..MaxTime /\ lastEnd <= now
  BY PollingAssumption DEF TypeInv, TypeOK, RoundsOK
<1>1. /\ round' \in 1..round' /\ round' = round + 1 /\ pc' = "collect" /\ pc = "ready"
      /\ window'[round'].start = lastEnd /\ window'[round'].end = now
  BY <1>0, BeginView DEF NextWindow
<1> PICK new \in 1..round' : new = round'
  BY <1>1
<1>2. CASE s = lastEnd
  <2>1. In(new, s)'
    BY <1>0, <1>1, <1>2 DEF In
  <2>2. (new + 1)..round' = {}
    BY <1>0, <1>1
  <2> QED  BY <1>1, <2>1, <2>2 DEF LastIn
<1>3. CASE s # lastEnd
  <2>1. PICK r \in 1..round : LastIn(r, s)
    BY <1>1 DEF WindowsOK
  <2>2. OverRound(r) /\ In(r, s) /\ \A q \in (r + 1)..round : ~In(q, s)
    BY <1>1, <2>1 DEF LastIn
  <2>3. \A q \in 1..round : q \in Rounds /\ q # round' /\ window'[q] = window[q]
    BY <1>0, <1>1, BeginView DEF Rounds
  <2>4. OverRound(r)'
    BY <2>2, <2>3, BeginView DEF OverRound
  <2>5. ~In(new, s)'
    BY <1>0, <1>1, <1>3 DEF In
  <2>6. \A q \in (r + 1)..round' : q \in (r + 1)..round \/ q = new
    BY <1>0, <1>1
  <2>7. \A q \in (r + 1)..round : ~In(q, s)'
    BY <1>0, <2>2, <2>3 DEF In
  <2>8. In(r, s)' /\ r \in 1..round'
    BY <1>0, <1>1, <2>2, <2>3 DEF In
  <2> QED  BY <2>4, <2>5, <2>6, <2>7, <2>8 DEF LastIn
<1> QED  BY <1>2, <1>3

(* So does one that ends and moves lastEnd on.                             *)
LEMMA EndRoundCovers ==
    ASSUME TypeInv, CallsOK, WindowsOK, EndRound
    PROVE  /\ round >= 1 /\ OverRound(round)'
           /\ command.interval > 0 => \A s \in 0..lastEnd' : \E r \in 1..round' : LastIn(r, s)'
<1>1. /\ UNCHANGED <<window, round, outcome>> /\ pc = "post" /\ round \in Rounds
      /\ lastEnd' = window[round].end /\ window[round] \in Window
      /\ pc' \in {"ready", "stopped"}
  BY DEF EndRound, agentVars, callVars, TypeInv, TypeOK, RoundsOK
<1>2. round >= 1 /\ round \in 1..round /\ MaxTime \in Nat /\ lastEnd \in 0..MaxTime \union {-1}
  BY <1>1, PollingAssumption DEF Rounds, Never, TypeInv, TypeOK
<1>3. OverRound(round)'
  <2> SUFFICES ASSUME NEW i \in Entries PROVE outcome[round][i] \in {"ok", "error"}
    BY <1>1 DEF OverRound
  <2>1. CallOK(round, i) /\ outcome[round][i] \in {"none", "waiting", "ok", "error", "lost"}
    BY <1>1 DEF CallsOK, TypeInv, TypeOK
  <2> QED  BY <1>1, <1>2, <2>1 DEF CallOK
<1>4. ASSUME command.interval > 0, NEW s \in 0..lastEnd'
      PROVE  \E r \in 1..round' : LastIn(r, s)'
  <2>1. CASE In(round, s)
    <3>1. (round + 1)..round = {}
      BY <1>2
    <3> QED  BY <1>1, <1>2, <1>3, <2>1, <3>1 DEF LastIn, In
  <2>2. CASE ~In(round, s)
    <3>1. window[round].start = (IF lastEnd = Never THEN 0 ELSE lastEnd) /\ s <= window[round].end
      BY <1>1, <1>4 DEF WindowsOK, Window
    <3>2. lastEnd # Never /\ s \in 0..lastEnd
      BY <1>1, <1>2, <1>4, <2>2, <3>1 DEF In, Never, Window
    <3>3. PICK r \in 1..round : LastIn(r, s)
      BY <1>4, <3>2 DEF WindowsOK
    <3>4. OverRound(r) /\ In(r, s) /\ \A q \in (r + 1)..round : ~In(q, s)
      BY <2>2, <3>3 DEF LastIn
    <3> QED  BY <1>1, <3>4 DEF LastIn, In, OverRound
  <2> QED  BY <2>1, <2>2
<1> QED  BY <1>2, <1>3, <1>4

(* Every step keeps the windows in order.                                  *)
LEMMA WindowsStep == TypeInv /\ CallsOK /\ WindowsOK /\ [Next]_vars => WindowsOK'
<1> SUFFICES ASSUME TypeInv, CallsOK, WindowsOK, [Next]_vars PROVE WindowsOK'
  OBVIOUS
<1>0. command' = command
  BY SameCommand
<1>1. CASE UNCHANGED <<window, round, lastEnd, armed, pc, outcome>>
  BY <1>0, <1>1, WindowsKept DEF OverRound
<1>2. CASE \/ \E a \in Alerts : Stamp(a) \/ Store(a)
           \/ \E r \in Rounds, i \in Entries : AgentRead(r, i) \/ AgentMark(r, i)
  BY <1>1, <1>2 DEF Stamp, Store, AgentRead, AgentMark, clientVars, callVars, control
<1>3. ASSUME NEW i \in Entries, Calls(i) PROVE WindowsOK'
  <2>1. UNCHANGED <<window, round, lastEnd, armed, pc, command>>
    BY <1>3, CallsView
  <2>2. ASSUME NEW r \in Rounds, OverRound(r), NEW k \in Entries PROVE outcome'[r][k] \in {"ok", "error"}
    BY <1>3, <2>2, CallsView DEF OverRound
  <2> QED  BY <2>1, <2>2, WindowsKept DEF OverRound
<1>4. CASE Begin
  <2>1. UNCHANGED <<lastEnd, armed>> /\ pc = "ready" /\ pc' = "collect"
    BY <1>4, BeginView
  <2>2. command.interval > 0 => window'[round'].start = IF lastEnd = Never THEN 0 ELSE lastEnd
    BY <1>4, BeginView DEF NextWindow
  <2>3. ~armed => lastEnd = Never
    BY <2>1 DEF WindowsOK
  <2>4. command.interval > 0 /\ lastEnd # Never =>
           \A s \in 0..lastEnd : \E r \in 1..round' : LastIn(r, s)'
    BY <1>4, BeginCovers
  <2> QED  BY <1>0, <2>1, <2>2, <2>3, <2>4 DEF WindowsOK
<1>5. CASE PrintAll
  <2>1. UNCHANGED <<window, round, lastEnd, armed, outcome>> /\ pc = "collect" /\ pc' = "post"
    BY <1>5 DEF PrintAll, control
  <2>2. ASSUME NEW s, NEW r \in 1..round, LastIn(r, s) PROVE LastIn(r, s)'
    BY <2>1, <2>2 DEF LastIn, In, OverRound
  <2>3. \A s \in 0..lastEnd : (\E r \in 1..round : LastIn(r, s)) => \E r \in 1..round : LastIn(r, s)'
    BY <2>2
  <2> QED  BY <1>0, <2>1, <2>3 DEF WindowsOK
<1>6. CASE EndRound
  <2>1. /\ round' = round /\ round \in Rounds
        /\ (armed' /\ pc' = "ready") \/ (~armed' /\ pc' = "stopped")
    BY <1>6 DEF EndRound, TypeInv, RoundsOK
  <2> QED  BY <1>0, <1>6, <2>1, EndRoundCovers DEF WindowsOK
<1>7. CASE (\E i \in Entries : Receive(i)) \/ Close
  BY <1>1, <1>7 DEF Receive, Close, control
<1>8. CASE Interrupt \/ Restart
  <2>1. UNCHANGED <<window, round>>
    BY <1>8, LeaveView
  <2>2. CASE Waits
    BY <1>1, <2>1, <2>2 DEF Waits, callVars
  <2>3. CASE Dies
    <3>1. CASE lastEnd' = Never
      BY <2>3, <3>1 DEF WindowsOK, Dies
    <3>2. CASE ~armed /\ pc # "stopped" /\ UNCHANGED <<lastEnd, armed>>
      <4>1. lastEnd = Never
        BY <3>2 DEF WindowsOK
      <4> QED  BY <3>1, <3>2, <4>1
    <3> QED  BY <2>3, <3>1, <3>2 DEF Dies
  <2> QED  BY <1>8, <2>2, <2>3, LeaveView
<1>9. CASE Quiet
  <2>1. /\ UNCHANGED <<window, round, lastEnd, armed, command, outcome>>
        /\ pc' = pc \/ (pc = "ready" /\ pc' = "stopped")
    BY <1>9, QuietView DEF callVars
  <2> QED  BY <2>1, WindowsKept DEF OverRound
<1> QED
  BY <1>2, <1>3, <1>4, <1>5, <1>6, <1>7, <1>8, <1>9, Steps

(* An alert falls behind the window only if the command does not ask for   *)
(* it, or if every call of the last round that could have brought it       *)
(* failed, or read before it was visible or while its file was rewritten.  *)
THEOREM BehindForAReason == Spec => []BehindHasCause
<1>1. Init => SeenOK /\ WindowsOK
  BY DEF Init, SeenOK, WindowsOK
<1>2. TypeInv /\ CallsOK /\ SeenOK /\ WindowsOK => BehindHasCause
  <2> SUFFICES ASSUME TypeInv, CallsOK, SeenOK, WindowsOK, NEW a \in Alerts, Behind(a),
                      command.minSeverity <= Info
               PROVE  \E r \in 1..round :
                        /\ LastCover(r, a)
                        /\ \A i \in At(NodeOf[a]) : outcome[r][i] = "error" \/ <<r, i, a>> \in unseen
    BY DEF BehindHasCause
  <2>1. /\ lastEnd # Never /\ pc \in {"ready", "stopped"} /\ round \in Nat
        /\ stamp[a] \in 0..MaxTime /\ lastEnd \in Int /\ MaxTime \in Nat
    BY PollingAssumption DEF Behind, Never, TypeInv, TypeOK
  <2>2. round >= 1 /\ OverRound(round)
    BY <2>1 DEF WindowsOK
  <2>3. PICK r \in 1..round : LastCover(r, a) /\ OverRound(r)
    <3>1. CASE Covers(round, a)
      <4>1. (round + 1)..round = {} /\ round \in 1..round
        BY <2>1, <2>2
      <4> QED  BY <2>2, <3>1, <4>1 DEF LastCover
    <3>2. CASE command.interval > 0 /\ stamp[a] <= lastEnd
      <4>1. stamp[a] \in 0..lastEnd
        BY <2>1, <3>2
      <4>2. PICK r \in 1..round : LastIn(r, stamp[a])
        BY <2>1, <3>2, <4>1 DEF WindowsOK
      <4> QED  BY <2>1, <4>2 DEF LastIn, In, LastCover, Covers
    <3> QED  BY <3>1, <3>2 DEF Behind
  <2>4. r \in Rounds
    BY PollingAssumption DEF Rounds, TypeInv, TypeOK
  <2>5. ASSUME NEW i \in At(NodeOf[a]), outcome[r][i] # "error" PROVE <<r, i, a>> \in unseen
    <3>1. i \in Entries /\ outcome[r][i] = "ok"
      BY <2>3, <2>5 DEF At, OverRound
    <3>2. handler[r][i] = "marked" /\ picked[r][i] \subseteq processed /\ Awaited(r, i)
      BY <2>4, <3>1 DEF CallsOK, CallOK, Awaited
    <3> QED  BY <2>3, <2>4, <3>2 DEF SeenOK, LastCover, Behind
  <2> QED  BY <2>3, <2>5
<1> QED
  BY <1>1, <1>2, TypeInit, TypeStep, CallsInit, CallsStep, SeenStep, WindowsStep, PTL DEF Spec

-----------------------------------------------------------------------------
(* The refinement.                                                         *)

(* A collecting client's round is on, and has lost nothing.                *)
LEMMA Collecting ==
    ASSUME TypeInv, CallsOK
    PROVE  /\ pc = "collect" => round \in Rounds /\ round # 0 /\ ~Lost
           /\ pc # "collect" => results = {}
           /\ Phase = "asking" <=> pc = "collect"
<1>1. pc = "collect" => round \in Rounds /\ round # 0
  BY PollingAssumption DEF Rounds, TypeInv, RoundsOK
<1>2. pc = "collect" => \A i \in Entries : outcome[round][i] # "lost"
  BY <1>1 DEF CallsOK, CallOK
<1>3. pc # "collect" => results = {}
  BY DEF CallsOK, ChannelOK, TypeInv, TypeOK
<1>4. Phase = "asking" <=> pc = "collect"
  BY DEF Phase
<1> QED  BY <1>1, <1>2, <1>3, <1>4 DEF Lost

(* A client that has received every result tells what it has, ...          *)
LEMMA PrintAllTells == ASSUME TypeInv, CallsOK, PrintAll PROVE G!Tell
<1>1. /\ pc = "collect" /\ pc' = "post" /\ UNCHANGED <<round, outcome>> /\ results' = {}
      /\ closed /\ Sent = {}
  BY DEF PrintAll
<1>2. ~Lost /\ ~Lost'
  BY <1>1, Collecting DEF Lost
<1>3. \A i \in Entries : i \in results /\ outcome[round][i] # "waiting"
  BY <1>1 DEF CallsOK, ChannelOK, Sent
<1>4. HeardSoFar' = HeardSoFar
  BY <1>1, <1>2, <1>3 DEF HeardSoFar
<1>5. Phase = "asking" /\ Phase' = "told"
  BY <1>1, <1>2 DEF Phase
<1>6. \A i \in Entries : HeardSoFar[i] # "waiting"
  BY <1>1, <1>2, <1>3 DEF HeardSoFar
<1> QED  BY <1>4, <1>5, <1>6 DEF G!Tell

(* ... hears of a call when it receives the call's result, and not when    *)
(* the call ends.                                                          *)
LEMMA ReceiveHears == ASSUME TypeInv, CallsOK, NEW i \in Entries, Receive(i) PROVE G!Hear(i)
<1>1. /\ pc = "collect" /\ UNCHANGED <<pc, round, outcome>>
      /\ i \notin results /\ results' = results \union {i} /\ outcome[round][i] # "waiting"
  BY DEF Receive, Sent
<1>2. ~Lost /\ ~Lost' /\ round \in Rounds
  BY <1>1, Collecting DEF Lost
<1>3. outcome[round][i] \in {"ok", "error"}
  BY <1>1, <1>2 DEF CallsOK, CallOK, TypeInv, TypeOK, Rounds
<1>4. HeardSoFar[i] = "waiting" /\ HeardSoFar' = [HeardSoFar EXCEPT ![i] = outcome[round][i]]
  BY <1>1, <1>2 DEF HeardSoFar
<1>5. Phase = "asking" /\ Phase' = "asking"
  BY <1>1 DEF Phase
<1> QED  BY <1>3, <1>4, <1>5 DEF G!Hear

(* The end of a call is not heard of yet.                                  *)
LEMMA CallsUnheard == ASSUME TypeInv, CallsOK, NEW i \in Entries, Calls(i) PROVE UNCHANGED G!vars
<1>1. /\ pc = "collect" /\ UNCHANGED <<pc, round, results>> /\ outcome[round][i] = "waiting"
      /\ round \in Rounds
  BY CallsView
<1>2. PICK word \in {"ok", "error"} :
         \A j \in Entries : outcome'[round][j] = IF j = i THEN word ELSE outcome[round][j]
  BY <1>1, CallsView
<1>3. ~Lost /\ ~Lost'
  BY <1>1, <1>2, Collecting DEF Lost
<1>4. i \notin results
  BY <1>1 DEF CallsOK, ChannelOK
<1>5. HeardSoFar' = HeardSoFar
  BY <1>1, <1>2, <1>3, <1>4 DEF HeardSoFar
<1>6. Phase' = Phase
  BY <1>1 DEF Phase
<1> QED  BY <1>5, <1>6 DEF G!vars

(* A client that dies while it collects has nothing left of its round.     *)
LEMMA DiesLeaves ==
    ASSUME TypeInv, CallsOK, pc = "collect", Dies, UNCHANGED round
    PROVE  G!Leave \/ G!Tell
<1>1. /\ pc' # "collect" /\ round \in Rounds
      /\ \A i \in Entries : outcome'[round][i] = "lost"
  BY Collecting, DieView DEF Dies
<1>2. CASE Entries = {}
  <2>1. ~Lost'
    BY <1>1, <1>2, Collecting DEF Lost
  <2>2. Phase = "asking" /\ Phase' = "told"
    BY <1>1, <2>1 DEF Phase
  <2>3. UNCHANGED HeardSoFar
    BY <1>2 DEF HeardSoFar
  <2> QED  BY <1>2, <2>2, <2>3 DEF G!Tell
<1>3. CASE Entries # {}
  <2>1. Lost'
    BY <1>1, <1>3 DEF Lost
  <2>2. Phase = "asking" /\ Phase' = "idle"
    BY <1>1, <2>1 DEF Phase
  <2>3. HeardSoFar' = G!Nobody
    BY <1>1, <2>1 DEF HeardSoFar, G!Nobody
  <2> QED  BY <2>2, <2>3 DEF G!Leave
<1> QED  BY <1>2, <1>3

(* A round that begins asks everybody on the list.                         *)
LEMMA BeginAsks == ASSUME TypeInv, CallsOK, Begin PROVE G!Ask(Entries)
<1>1. pc = "ready" /\ pc' = "collect" /\ results' = {} /\ round' \in Rounds /\ round' # 0
      /\ \A i \in Entries : outcome'[round'][i] = "waiting"
  BY BeginView, Collecting, PollingAssumption DEF Rounds
<1>2. HeardSoFar' = G!Asked(Entries)
  BY <1>1 DEF HeardSoFar, G!Asked
<1>3. Phase # "asking" /\ Phase' = "asking"
  BY <1>1, Collecting DEF Phase
<1> QED  BY <1>2, <1>3 DEF G!Ask

(* Every step of the polling client is one of Gather, or none.             *)
LEMMA PollingGathers ==
    ASSUME TypeInv, CallsOK, [Next]_vars PROVE [G!Next]_(G!vars)
<1>1. CASE UNCHANGED <<round, outcome, results>> /\ (pc' = "collect" <=> pc = "collect")
  <2>1. UNCHANGED <<Lost, HeardSoFar>>
    BY <1>1 DEF Lost, HeardSoFar
  <2>2. UNCHANGED Phase
    BY <1>1, <2>1 DEF Phase
  <2> QED  BY <2>1, <2>2 DEF G!vars
<1>2. CASE \/ \E a \in Alerts : Stamp(a) \/ Store(a)
           \/ \E r \in Rounds, i \in Entries : AgentRead(r, i) \/ AgentMark(r, i)
  BY <1>1, <1>2 DEF Stamp, Store, AgentRead, AgentMark, clientVars, callVars
<1>3. CASE Begin
  BY <1>3, BeginAsks DEF G!Next
<1>4. ASSUME NEW i \in Entries, Calls(i) \/ Receive(i) PROVE [G!Next]_(G!vars)
  BY <1>4, CallsUnheard, ReceiveHears DEF G!Next
<1>5. CASE PrintAll
  BY <1>5, PrintAllTells DEF G!Next
<1>6. CASE Close \/ EndRound
  BY <1>1, <1>6 DEF Close, EndRound, callVars
<1>7. CASE Interrupt \/ Restart
  <2>1. UNCHANGED round
    BY <1>7, LeaveView
  <2>2. CASE Waits
    BY <1>1, <2>1, <2>2 DEF Waits, callVars
  <2>3. CASE Dies /\ pc = "collect"
    BY <2>1, <2>3, DiesLeaves DEF G!Next
  <2>4. CASE Dies /\ pc # "collect"
    <3>1. UNCHANGED outcome /\ UNCHANGED results /\ pc' # "collect"
      BY <2>4, DieView, Collecting DEF Dies
    <3> QED  BY <1>1, <2>1, <2>4, <3>1
  <2> QED  BY <1>7, <2>2, <2>3, <2>4, LeaveView
<1>8. CASE Quiet
  <2>1. UNCHANGED <<round, outcome, results>> /\ (pc' = "collect" <=> pc = "collect")
    BY <1>8, QuietView DEF callVars
  <2> QED  BY <1>1, <2>1
<1> QED
  BY <1>2, <1>3, <1>4, <1>5, <1>6, <1>7, <1>8, Steps

(* The polling client gathers, in every round, whatever handlers of the    *)
(* rounds before still do and whenever the client dies.                    *)
THEOREM PollingImplementsGather == Spec => ImplementsGather
<1>1. Init => G!Init
  BY DEF Init, G!Init, G!Nobody, Phase, HeardSoFar, Lost
<1> QED
  BY <1>1, PollingGathers, TypeInit, TypeStep, CallsInit, CallsStep, PTL
     DEF Spec, ImplementsGather, G!Spec

=============================================================================
