---------------------------- MODULE FanOutProofs ----------------------------
(* Theorems about FanOut, for address lists of any length, whatever the    *)
(* agents hold, and for any number of commands run one after the other.    *)
EXTENDS FanOut, TLAPS, FiniteSetTheorems, SequenceTheorems

-----------------------------------------------------------------------------
(* The inductive invariant.                                                *)

Finished == {"done", "over"}

(* A goroutine that has started has an outcome once its call has ended;    *)
(* once it is past its send the result is in the channel or has been       *)
(* heard, never both.                                                      *)
SlotOK(i) ==
    /\ call[i] = "none" <=> i > launched
    /\ outcome[i] = "none" <=> call[i] \in {"none", "dial", "asked"}
    /\ outcome[i] = "ok" => request[i] = "run"
    /\ heard[i] # "none" => heard[i] = outcome[i] /\ call[i] \in Finished
    /\ i \in results => heard[i] = "none" /\ call[i] \in Finished
    /\ call[i] \in Finished => i \in results \/ heard[i] # "none"

(* The report is made of the answers heard so far; a restart is answered   *)
(* with nothing.                                                           *)
HeardOk == {i \in Slots : heard[i] = "ok"}

FinalOK ==
    /\ final = UNION {Kept(i) : i \in HeardOk}
    /\ cmd = "restart" => \A i \in Slots : reply[i] = {}

(* The channel is closed when nobody is left to send.                      *)
MainOK ==
    /\ pc = "start" => launched = 0
    /\ pc \notin {"start", "launch", "exited", "killed"} => launched = Len(list)
    /\ closed => launched = Len(list) /\ \A i \in 1..launched : call[i] \in Finished
    /\ pc = "start" => ~closed
    /\ Reporting => \A i \in 1..Len(list) : heard[i] # "none"

Inv == TypeOK /\ (\A i \in Slots : SlotOK(i)) /\ FinalOK /\ MainOK

-----------------------------------------------------------------------------
(* The slots of the list are slots.                                        *)
LEMMA InSlots == ASSUME TypeOK, NEW i \in 1..Len(list) PROVE i \in Slots
<1> MaxList \in Nat
  BY FanOutAssumption
<1> QED  BY DEF TypeOK, Slots

(* Only entries of the list are heard, and when as many are heard as it    *)
(* has entries, every entry is.                                            *)
LEMMA AllHeard ==
    ASSUME Inv, Cardinality(Heard) = Len(list)
    PROVE  \A i \in 1..Len(list) : heard[i] # "none"
<1>1. Len(list) \in Nat /\ launched \in 0..Len(list) /\ MaxList \in Nat
  BY FanOutAssumption DEF Inv, TypeOK
<1>2. Heard \subseteq 1..Len(list)
  <2> SUFFICES ASSUME NEW i \in Slots, heard[i] # "none" PROVE i \in 1..Len(list)
    BY DEF Heard
  <2>1. call[i] # "none"
    BY DEF Inv, SlotOK, Finished
  <2>2. i <= launched
    BY <2>1, <1>1 DEF Inv, SlotOK, Slots
  <2> QED  BY <2>2, <1>1 DEF Slots
<1>3. IsFiniteSet(1..Len(list)) /\ Cardinality(1..Len(list)) = Len(list)
  <2> DEFINE n == Len(list)
  <2>1. n \in Nat
    BY <1>1
  <2> HIDE DEF n
  <2>2. IsFiniteSet(1..n) /\ Cardinality(1..n) = IF 1 > n THEN 0 ELSE n - 1 + 1
    BY <2>1, FS_Interval
  <2>3. IsFiniteSet(1..n) /\ Cardinality(1..n) = n
    BY <2>1, <2>2
  <2> QED  BY <2>3 DEF n
<1>4. Heard = 1..Len(list)
  BY <1>2, <1>3, FS_Subset
<1> QED  BY <1>4 DEF Heard

(* Init establishes the invariant.                                         *)
LEMMA InitInv == Init => Inv
<1> SUFFICES ASSUME Init PROVE Inv
  OBVIOUS
<1> USE DEF Init, InEachSlot
<1>1. TypeOK
  <2>1. Len(list) = 0 /\ MaxList \in Nat
    BY FanOutAssumption
  <2>2. file \in [Files -> Seq({"newline", "document", "torn"})]
    OBVIOUS
  <2>3. Len(list) \in 0..MaxList /\ launched \in 0..Len(list)
    BY <2>1
  <2>4. /\ call \in [Slots -> {"none", "dial", "asked", "send", "done", "over"}]
        /\ request \in [Slots -> {"none", "sent", "run"}]
        /\ reply \in [Slots -> SUBSET Holdings]
        /\ outcome \in [Slots -> {"none", "ok", "error"}]
        /\ heard \in [Slots -> {"none", "ok", "error"}]
    OBVIOUS
  <2> HIDE DEF Init
  <2>5. /\ cmd \in Commands /\ flag \in RankFlags /\ type = "any" /\ pc = "start"
        /\ results = {} /\ closed = FALSE /\ final = {} /\ verdict = "none" /\ runs = 1
    BY DEF Init
  <2> QED  BY <2>2, <2>3, <2>4, <2>5 DEF TypeOK
<1>2. \A i \in Slots : SlotOK(i)
  BY DEF SlotOK, Slots, Finished
<1>3. FinalOK
  BY DEF FinalOK, HeardOk
<1>4. MainOK
  BY DEF MainOK, Reporting
<1> QED  BY <1>1, <1>2, <1>3, <1>4 DEF Inv

(* What is kept of an answer depends on the answer and the command line.   *)
LEMMA KeptSame ==
    ASSUME NEW i, reply'[i] = reply[i], cmd' = cmd, flag' = flag
    PROVE  Kept(i)' = Kept(i)
BY DEF Kept, LogMatches

(* Nothing is kept of the answer to a restart.                             *)
LEMMA KeptOfRestart ==
    ASSUME cmd = "restart", NEW i
    PROVE  Answered(i) = {}
BY FanOutAssumption DEF Answered

(* Where every slot and the report stay as they are, the step only has to  *)
(* be right about main.                                                    *)
LEMMA SlotsKept ==
    ASSUME Inv, UNCHANGED <<launched, call, request, outcome, results, heard>>
    PROVE  \A i \in Slots : SlotOK(i)'
BY DEF Inv, SlotOK, Finished

(* Steps that leave a call alone leave its last word alone.                *)
LEMMA FinalKept ==
    ASSUME Inv, UNCHANGED <<cmd, flag, reply, heard, final>>
    PROVE  FinalOK'
<1>1. \A i : Kept(i)' = Kept(i)
  BY DEF Kept, LogMatches
<1>2. HeardOk' = HeardOk
  BY DEF HeardOk
<1> QED  BY <1>1, <1>2 DEF Inv, FinalOK

(* Start.                                                                  *)
LEMMA StartInv ==
    ASSUME Inv, NEW source \in Sources, NEW given, NEW setting, Start(source, given, setting)
    PROVE  Inv'
<1> USE DEF Start, calls, collected
<1>1. TypeOK'
  <2>1. pc = "start" /\ launched = 0
    BY DEF Inv, MainOK
  <2>2. Len(list') \in 0..MaxList /\ launched' \in 0..Len(list')
    BY <2>1, FanOutAssumption DEF Inv, TypeOK
  <2>3. type' \in KnownTypes \union {"any"}
    BY DEF Inv, TypeOK, ProcessType
  <2>4. pc' \in {"launch", "exited"}
    OBVIOUS
  <2> QED  BY <2>2, <2>3, <2>4 DEF Inv, TypeOK
<1>2. (\A i \in Slots : SlotOK(i)') /\ FinalOK'
  BY SlotsKept, FinalKept
<1>3. MainOK'
  BY DEF Inv, MainOK, Reporting
<1> QED  BY <1>1, <1>2, <1>3 DEF Inv

(* A new command.                                                          *)
LEMMA RunAgainInv == Inv /\ RunAgain => Inv'
<1> SUFFICES ASSUME Inv, RunAgain PROVE Inv'
  OBVIOUS
<1> USE DEF RunAgain, InEachSlot
<1>1. TypeOK'
  <2>1. Len(list') = 0 /\ launched' = 0 /\ MaxList \in Nat
    BY FanOutAssumption
  <2>2. Len(list') \in 0..MaxList /\ launched' \in 0..Len(list')
    BY <2>1
  <2>3. /\ call' \in [Slots -> {"none", "dial", "asked", "send", "done", "over"}]
        /\ request' \in [Slots -> {"none", "sent", "run"}]
        /\ reply' \in [Slots -> SUBSET Holdings]
        /\ outcome' \in [Slots -> {"none", "ok", "error"}]
        /\ heard' \in [Slots -> {"none", "ok", "error"}]
    OBVIOUS
  <2>4. /\ cmd' \in Commands /\ flag' \in RankFlags /\ type' = "any" /\ pc' = "start"
        /\ results' = {} /\ closed' = FALSE /\ final' = {} /\ verdict' = "none"
        /\ runs' = runs + 1 /\ file' = file
    OBVIOUS
  <2> HIDE DEF RunAgain, InEachSlot
  <2>5. runs' \in Nat /\ file' \in [Files -> Seq({"newline", "document", "torn"})]
    BY <2>4 DEF Inv, TypeOK
  <2>6. /\ cmd' \in Commands /\ flag' \in RankFlags /\ type' \in KnownTypes \union {"any"}
        /\ pc' \in {"start", "launch", "receive", "wait", "drain", "report", "open", "write",
                   "done", "exited", "killed"}
        /\ results' \subseteq Slots /\ closed' \in BOOLEAN /\ final' \subseteq Slots \X Holdings
        /\ verdict' \in {"none", "nothing", "document", "errors", "sentToAll",
                        "noVersion", "same", "different"}
    BY <2>4
  <2> QED  BY <2>2, <2>3, <2>5, <2>6 DEF TypeOK
<1>2. \A i \in Slots : SlotOK(i)'
  BY DEF SlotOK, Slots, Finished
<1>3. FinalOK'
  BY DEF FinalOK, HeardOk
<1>4. MainOK'
  BY DEF MainOK, Reporting
<1> QED  BY <1>1, <1>2, <1>3, <1>4 DEF Inv

(* Launch.                                                                 *)
LEMMA LaunchInv == Inv /\ Launch => Inv'
<1> SUFFICES ASSUME Inv, Launch PROVE Inv'
  OBVIOUS
<1> USE DEF Launch, setup, collected
<1>0. launched + 1 \in 1..Len(list) /\ launched + 1 \in Slots /\ launched \in Nat
  <2>1. launched \in 0..Len(list) /\ Len(list) \in 0..MaxList /\ MaxList \in Nat
    BY FanOutAssumption DEF Inv, TypeOK
  <2> QED  BY <2>1 DEF Slots
<1>1. TypeOK'
  BY <1>0 DEF Inv, TypeOK
<1>2. \A i \in Slots : SlotOK(i)'
  <2> SUFFICES ASSUME NEW i \in Slots PROVE SlotOK(i)'
    OBVIOUS
  <2>1. SlotOK(i) /\ SlotOK(launched + 1) /\ i \in Nat
    BY <1>0 DEF Inv, Slots
  <2>2. call[launched + 1] = "none"
    BY <2>1, <1>0 DEF SlotOK
  <2>3. call \in [Slots -> {"none", "dial", "asked", "send", "done", "over"}]
    BY DEF Inv, TypeOK
  <2>4. CASE i = launched + 1
    BY <2>1, <2>2, <2>3, <2>4, <1>0 DEF SlotOK, Finished
  <2>5. CASE i # launched + 1
    <3>1. call'[i] = call[i] /\ (i > launched' <=> i > launched)
      BY <2>1, <2>3, <2>5, <1>0
    <3> QED  BY <3>1, <2>1 DEF SlotOK
  <2> QED  BY <2>4, <2>5
<1>3. FinalOK'
  BY FinalKept
<1>4. MainOK'
  BY <1>0 DEF Inv, MainOK, Reporting
<1> QED  BY <1>1, <1>2, <1>3, <1>4 DEF Inv

(* Main keeps its invariant while it stands still and the goroutines go    *)
(* forward.                                                                *)
LEMMA MainKept ==
    ASSUME Inv, UNCHANGED <<pc, launched, list, closed>>,
           \A i \in Slots : call[i] \in Finished => call'[i] \in Finished,
           \A i \in Slots : heard[i] # "none" => heard'[i] # "none"
    PROVE  MainOK'
<1>1. launched \in 0..Len(list) /\ Len(list) \in 0..MaxList /\ MaxList \in Nat
  BY FanOutAssumption DEF Inv, TypeOK
<1>2. \A i \in 1..launched : i \in Slots
  BY <1>1 DEF Slots
<1>3. \A i \in 1..Len(list) : i \in Slots
  BY <1>1 DEF Slots
<1> QED  BY <1>2, <1>3 DEF Inv, MainOK, Reporting

(* A goroutine that is under way holds back the close of the channel.      *)
LEMMA OpenWhileRunning ==
    ASSUME Inv, NEW i \in Slots, call[i] \notin {"none", "done", "over"}
    PROVE  ~closed /\ i \in 1..launched /\ i \in 1..Len(list)
<1>1. launched \in 0..Len(list) /\ Len(list) \in 0..MaxList /\ MaxList \in Nat
  BY FanOutAssumption DEF Inv, TypeOK
<1>2. ~(i > launched)
  BY DEF Inv, SlotOK
<1>3. i \in 1..launched /\ i \in 1..Len(list)
  BY <1>1, <1>2 DEF Slots
<1> QED  BY <1>3 DEF Inv, MainOK, Finished

(* The steps of a call before its result is sent.                          *)
LEMMA CallInv ==
    ASSUME Inv, NEW i \in Slots, Call(i) \/ CallAnswered(i) \/ CallFails(i)
    PROVE  Inv'
<1> USE DEF Call, CallAnswered, CallFails, CallEnds, setup, collected
<1>1. TypeOK'
  BY DEF Inv, TypeOK
<1>2. ASSUME NEW j \in Slots PROVE SlotOK(j)'
  <2>1. SlotOK(j) /\ SlotOK(i)
    BY DEF Inv
  <2>2. /\ call \in [Slots -> {"none", "dial", "asked", "send", "done", "over"}]
        /\ request \in [Slots -> {"none", "sent", "run"}]
        /\ outcome \in [Slots -> {"none", "ok", "error"}]
    BY DEF Inv, TypeOK
  <2>3. CASE j # i
    BY <2>1, <2>2, <2>3 DEF SlotOK
  <2>4. CASE j = i
    BY <2>1, <2>2, <2>4 DEF SlotOK, Finished
  <2> QED  BY <2>3, <2>4
<1>3. FinalOK'
  BY FinalKept
<1>4. MainOK'
  <2>1. call \in [Slots -> {"none", "dial", "asked", "send", "done", "over"}]
    BY DEF Inv, TypeOK
  <2> QED  BY <2>1, MainKept DEF Finished
<1> QED  BY <1>1, <1>2, <1>3, <1>4 DEF Inv

(* A send on the channel.                                                  *)
LEMMA SendInv ==
    ASSUME Inv, NEW i \in Slots, NEW next \in Finished, Send(i, next)
    PROVE  Inv'
<1> USE DEF Send, setup, Finished
<1>1. TypeOK'
  BY DEF Inv, TypeOK
<1>2. ASSUME NEW j \in Slots PROVE SlotOK(j)'
  <2>1. SlotOK(j) /\ SlotOK(i)
    BY DEF Inv
  <2>2. call \in [Slots -> {"none", "dial", "asked", "send", "done", "over"}]
    BY DEF Inv, TypeOK
  <2> QED  BY <2>1, <2>2 DEF SlotOK
<1>3. FinalOK'
  BY FinalKept
<1>4. MainOK'
  <2>1. call \in [Slots -> {"none", "dial", "asked", "send", "done", "over"}]
    BY DEF Inv, TypeOK
  <2> QED  BY <2>1, MainKept
<1> QED  BY <1>1, <1>2, <1>3, <1>4 DEF Inv

(* The goroutine of a restart that succeeded.                              *)
LEMMA RestartPrintsInv ==
    ASSUME Inv, NEW i \in Slots, outcome[i] # "error", RestartPrints(i)
    PROVE  Inv'
<1> USE DEF RestartPrints, setup, Finished
<1>0. /\ call \in [Slots -> {"none", "dial", "asked", "send", "done", "over"}]
      /\ heard \in [Slots -> {"none", "ok", "error"}]
      /\ outcome \in [Slots -> {"none", "ok", "error"}]
  BY DEF Inv, TypeOK
<1>1. TypeOK'
  BY DEF Inv, TypeOK
<1>2. ASSUME NEW j \in Slots PROVE SlotOK(j)'
  <2>1. SlotOK(j) /\ SlotOK(i)
    BY DEF Inv
  <2>2. outcome[i] = "ok"
    BY <2>1, <1>0 DEF SlotOK
  <2> QED  BY <2>1, <2>2, <1>0 DEF SlotOK
<1>3. FinalOK'
  <2>1. cmd = "restart" /\ (\A j \in Slots : reply[j] = {}) /\ final = UNION {Kept(j) : j \in HeardOk}
    BY DEF Inv, FinalOK
  <2>2. \A j \in Slots : Kept(j) = {} /\ Kept(j)' = {}
    BY <2>1 DEF Kept
  <2>3. final = {} /\ final' = {}
    BY <2>1, <2>2 DEF HeardOk
  <2>4. UNION {Kept(j)' : j \in HeardOk'} = {}
    BY <2>2 DEF HeardOk
  <2> QED  BY <2>1, <2>3, <2>4 DEF FinalOK
<1>4. MainOK'
  BY <1>0, MainKept
<1> QED  BY <1>1, <1>2, <1>3, <1>4 DEF Inv

(* wg.Done.                                                                *)
LEMMA WorkDoneInv ==
    ASSUME Inv, NEW i \in Slots, WorkDone(i)
    PROVE  Inv'
<1> USE DEF WorkDone, setup, collected, Finished
<1>0. call \in [Slots -> {"none", "dial", "asked", "send", "done", "over"}]
  BY DEF Inv, TypeOK
<1>1. TypeOK'
  BY DEF Inv, TypeOK
<1>2. ASSUME NEW j \in Slots PROVE SlotOK(j)'
  <2>1. SlotOK(j) /\ SlotOK(i)
    BY DEF Inv
  <2> QED  BY <2>1, <1>0 DEF SlotOK
<1>3. FinalOK'
  BY FinalKept
<1>4. MainOK'
  BY <1>0, MainKept
<1> QED  BY <1>1, <1>2, <1>3, <1>4 DEF Inv

(* The agent's answer changes only what has not been answered yet.         *)
LEMMA HandleInv ==
    ASSUME Inv, NEW i \in Slots, Handle(i)
    PROVE  Inv'
<1> USE DEF Handle, setup, collected
<1>0. /\ request \in [Slots -> {"none", "sent", "run"}]
      /\ reply \in [Slots -> SUBSET Holdings]
      /\ outcome \in [Slots -> {"none", "ok", "error"}]
      /\ heard \in [Slots -> {"none", "ok", "error"}]
  BY DEF Inv, TypeOK
<1>1. TypeOK'
  <2>1. Answered(i) \in SUBSET Holdings
    BY DEF Answered
  <2> QED  BY <2>1 DEF Inv, TypeOK
<1>2. ASSUME NEW j \in Slots PROVE SlotOK(j)'
  <2>1. SlotOK(j) /\ SlotOK(i)
    BY DEF Inv
  <2> QED  BY <2>1, <1>0 DEF SlotOK
<1>3. FinalOK'
  <2>1. SlotOK(i) /\ FinalOK
    BY DEF Inv
  <2>2. heard[i] # "ok"
    BY <2>1 DEF SlotOK
  <2>3. \A j \in Slots : j # i => reply'[j] = reply[j]
    BY <1>0
  <2>4. HeardOk' = HeardOk /\ i \notin HeardOk
    BY <2>2 DEF HeardOk
  <2>5. \A j \in HeardOk : Kept(j)' = Kept(j)
    BY <2>3, <2>4, KeptSame DEF HeardOk
  <2>6. final' = UNION {Kept(j)' : j \in HeardOk'}
    BY <2>1, <2>4, <2>5 DEF FinalOK
  <2>7. ASSUME cmd' = "restart" PROVE \A j \in Slots : reply'[j] = {}
    BY <2>7, <2>1, <1>0, KeptOfRestart DEF FinalOK
  <2> QED  BY <2>6, <2>7 DEF FinalOK
<1>4. MainOK'
  BY MainKept
<1> QED  BY <1>1, <1>2, <1>3, <1>4 DEF Inv

(* A result leaves the channel.                                            *)
LEMMA TakeInv ==
    ASSUME Inv, NEW i \in Slots, Take(i), UNCHANGED pc
    PROVE  Inv'
<1> USE DEF Take, setup, calls
<1>0. /\ call \in [Slots -> {"none", "dial", "asked", "send", "done", "over"}]
      /\ heard \in [Slots -> {"none", "ok", "error"}]
      /\ outcome \in [Slots -> {"none", "ok", "error"}]
      /\ reply \in [Slots -> SUBSET Holdings]
      /\ SlotOK(i) /\ FinalOK
  BY DEF Inv, TypeOK
<1>1. TypeOK'
  <2>1. Kept(i) \subseteq Slots \X Holdings
    BY <1>0 DEF Kept
  <2>2. final' \subseteq Slots \X Holdings
    BY <2>1 DEF Inv, TypeOK
  <2> QED  BY <2>2, <1>0 DEF Inv, TypeOK
<1>2. ASSUME NEW j \in Slots PROVE SlotOK(j)'
  <2>1. SlotOK(j)
    BY DEF Inv
  <2>2. heard[i] = "none" /\ call[i] \in Finished /\ outcome[i] # "none"
    BY <1>0 DEF SlotOK, Finished
  <2>3. CASE j # i
    BY <2>1, <2>3, <1>0 DEF SlotOK
  <2>4. CASE j = i
    BY <2>1, <2>2, <2>4, <1>0 DEF SlotOK
  <2> QED  BY <2>3, <2>4
<1>3. FinalOK'
  <2>1. \A j \in Slots : Kept(j)' = Kept(j)
    BY KeptSame
  <2>2. heard[i] = "none"
    BY <1>0 DEF SlotOK
  <2>3. CASE outcome[i] = "ok"
    <3>1. HeardOk' = HeardOk \union {i}
      BY <2>3, <1>0 DEF HeardOk
    <3>2. UNION {Kept(j)' : j \in HeardOk'} = (UNION {Kept(j) : j \in HeardOk}) \union Kept(i)
      BY <3>1, <2>1 DEF HeardOk
    <3> QED  BY <3>2, <2>3, <1>0 DEF FinalOK
  <2>4. CASE outcome[i] # "ok"
    <3>1. HeardOk' = HeardOk
      BY <2>4, <2>2, <1>0 DEF HeardOk
    <3>2. UNION {Kept(j)' : j \in HeardOk'} = UNION {Kept(j) : j \in HeardOk}
      BY <3>1, <2>1 DEF HeardOk
    <3> QED  BY <3>2, <2>4, <1>0 DEF FinalOK
  <2> QED  BY <2>3, <2>4
<1>4. MainOK'
  <2>1. ASSUME NEW j \in Slots, heard[j] # "none" PROVE heard'[j] # "none"
    BY <2>1, <1>0 DEF SlotOK
  <2> QED  BY <2>1, MainKept
<1> QED  BY <1>1, <1>2, <1>3, <1>4 DEF Inv

(* Main receives until it has one result per address.                      *)
LEMMA ReceivedInv == Inv /\ Received => Inv'
<1> SUFFICES ASSUME Inv, Received PROVE Inv'
  OBVIOUS
<1> USE DEF Received, setup, calls
<1>1. TypeOK'
  BY DEF Inv, TypeOK
<1>2. (\A i \in Slots : SlotOK(i)') /\ FinalOK'
  BY SlotsKept, FinalKept
<1>3. MainOK'
  <2>1. launched = Len(list)
    BY DEF Inv, MainOK
  <2>2. \A i \in 1..Len(list) : heard[i] # "none"
    BY AllHeard
  <2>3. \A i \in 1..Len(list) : i \in Slots
    BY InSlots DEF Inv
  <2>4. \A i \in 1..launched : call[i] \in Finished
    BY <2>1, <2>2, <2>3 DEF Inv, SlotOK
  <2> QED  BY <2>1, <2>2, <2>4 DEF MainOK, Reporting
<1> QED  BY <1>1, <1>2, <1>3 DEF Inv

(* The wait for the goroutines.                                            *)
LEMMA WaitInv == Inv /\ (RestartWait \/ VersionCloser) => Inv'
<1> SUFFICES ASSUME Inv, RestartWait \/ VersionCloser PROVE Inv'
  OBVIOUS
<1> USE DEF RestartWait, VersionCloser, AllDone, setup, calls
<1>1. TypeOK'
  BY DEF Inv, TypeOK
<1>2. (\A i \in Slots : SlotOK(i)') /\ FinalOK'
  BY SlotsKept, FinalKept
<1>3. MainOK'
  BY DEF Inv, MainOK, Reporting, Finished
<1> QED  BY <1>1, <1>2, <1>3 DEF Inv

(* The drained channel has been closed behind the last goroutine, so that  *)
(* every entry has been heard.                                             *)
LEMMA DrainedInv == Inv /\ Drained => Inv'
<1> SUFFICES ASSUME Inv, Drained PROVE Inv'
  OBVIOUS
<1> USE DEF Drained, setup, calls, collected
<1>1. TypeOK'
  BY DEF Inv, TypeOK
<1>2. (\A i \in Slots : SlotOK(i)') /\ FinalOK'
  BY SlotsKept, FinalKept
<1>3. MainOK'
  <2>1. launched = Len(list) /\ \A i \in 1..Len(list) : call[i] \in Finished
    BY DEF Inv, MainOK
  <2>2. \A i \in 1..Len(list) : heard[i] # "none"
    BY <2>1, InSlots DEF Inv, SlotOK
  <2> QED  BY <2>1, <2>2 DEF Inv, MainOK, Reporting
<1> QED  BY <1>1, <1>2, <1>3 DEF Inv

(* A write adds a piece to one file.                                       *)
LEMMA AppendsFile ==
    ASSUME Inv, NEW piece \in {"newline", "document", "torn"}, NEW next, Appends(piece, next)
    PROVE  file' \in [Files -> Seq({"newline", "document", "torn"})]
<1> DEFINE P == {"newline", "document", "torn"}
<1>1. file \in [Files -> Seq(P)]
  BY DEF Inv, TypeOK
<1>2. file' = [file EXCEPT ![<<cmd, flag>>] = Append(file[<<cmd, flag>>], piece)]
  BY DEF Appends
<1> HIDE DEF P
<1>3. ASSUME NEW f \in Files PROVE Append(file[f], piece) \in Seq(P)
  BY <1>1, AppendProperties DEF P
<1>4. file' \in [Files -> Seq(P)]
  BY <1>1, <1>2, <1>3
<1> QED  BY <1>4 DEF P

(* Steps of main that move on and say or save something.                   *)
Moves ==
    \/ Launched \/ Report \/ Save \/ Kill

(* Every move keeps the invariant.                                         *)
LEMMA MovesInv == Inv /\ Moves => Inv'
<1> SUFFICES ASSUME Inv, Moves PROVE Inv'
  OBVIOUS
<1> USE DEF Moves, Launched, Report, LogsReport, StacksReport, RestartReport, VersionReport, Says,
            Save, Newline, WriteDocument, SaveFails, Appends, Kill, setup, calls, collected
<1>0. UNCHANGED <<setup, calls, collected, runs>>
  OBVIOUS
<1>1. TypeOK'
  <2>1. verdict' \in {"none", "nothing", "document", "errors", "sentToAll",
                    "noVersion", "same", "different"}
    BY DEF Inv, TypeOK
  <2>2. file' \in [Files -> Seq({"newline", "document", "torn"})]
    <3>1. CASE UNCHANGED file
      BY <3>1 DEF Inv, TypeOK
    <3>2. ASSUME NEW piece \in {"newline", "document", "torn"}, NEW next, Appends(piece, next)
          PROVE  file' \in [Files -> Seq({"newline", "document", "torn"})]
      BY <3>2, AppendsFile
    <3> HIDE DEF Appends
    <3> QED  BY <3>1, <3>2
  <2>3. pc' \in {"start", "launch", "receive", "wait", "drain", "report", "open", "write",
               "done", "exited", "killed"}
    BY DEF Inv, TypeOK, Commands
  <2> QED  BY <1>0, <2>1, <2>2, <2>3 DEF Inv, TypeOK
<1>2. (\A i \in Slots : SlotOK(i)') /\ FinalOK'
  BY SlotsKept, FinalKept, <1>0
<1>3. \/ pc' = "killed"
      \/ pc = "launch" /\ pc' \in {"receive", "wait", "drain"} /\ launched = Len(list)
      \/ Reporting /\ pc' \in {"open", "write", "done"}
  <2>1. CASE Launched
    BY <2>1 DEF Inv, TypeOK, Commands
  <2>2. CASE Report
    BY <2>2 DEF Reporting
  <2>3. CASE Save
    BY <2>3 DEF Reporting
  <2>4. CASE Kill
    BY <2>4
  <2> QED  BY <2>1, <2>2, <2>3, <2>4
<1>4. MainOK'
  BY <1>0, <1>3 DEF Inv, MainOK, Reporting
<1> QED  BY <1>1, <1>2, <1>4 DEF Inv

(* Every step keeps the invariant.                                         *)
LEMMA NextInv == Inv /\ [Next]_vars => Inv'
<1> SUFFICES ASSUME Inv, [Next]_vars PROVE Inv'
  OBVIOUS
<1>1. CASE Starts
  BY <1>1, StartInv DEF Starts
<1>2. CASE RunAgain
  BY <1>2, RunAgainInv
<1>3. CASE Launch
  BY <1>3, LaunchInv
<1>4. CASE Moves
  BY <1>4, MovesInv
<1>5. ASSUME NEW i \in Slots, LogsReceive(i) \/ StacksReceive(i) \/ RestartDrain(i) \/ VersionDrain(i)
      PROVE  Inv'
  BY <1>5, TakeInv DEF LogsReceive, StacksReceive, RestartDrain, VersionDrain
<1>6. CASE Received \/ RestartWait \/ VersionCloser \/ Drained
  BY <1>6, ReceivedInv, WaitInv, DrainedInv
<1>7. ASSUME NEW i \in Slots, Goroutine(i) PROVE Inv'
  <2>1. CASE Call(i) \/ CallAnswered(i) \/ CallFails(i)
    BY <2>1, CallInv
  <2>2. CASE LogsSend(i) \/ StacksSend(i) \/ VersionSend(i)
    BY <2>2, SendInv DEF LogsSend, StacksSend, VersionSend, Finished
  <2>3. CASE RestartSend(i)
    BY <2>3, SendInv, RestartPrintsInv DEF RestartSend, Finished
  <2>4. CASE WorkDone(i)
    BY <2>4, WorkDoneInv
  <2> QED  BY <1>7, <2>1, <2>2, <2>3, <2>4 DEF Goroutine
<1>8. ASSUME NEW i \in Slots, Handle(i) PROVE Inv'
  BY <1>8, HandleInv
<1>9. CASE UNCHANGED vars
  <2> USE <1>9 DEF vars, setup, calls, collected
  <2>1. TypeOK'
    BY DEF Inv, TypeOK
  <2>2. (\A i \in Slots : SlotOK(i)') /\ FinalOK'
    BY SlotsKept, FinalKept
  <2>3. MainOK'
    BY DEF Inv, MainOK, Reporting
  <2> QED  BY <2>1, <2>2, <2>3 DEF Inv
<1> QED
  BY <1>1, <1>2, <1>3, <1>4, <1>5, <1>6, <1>7, <1>8, <1>9 DEF Next, Main, Collect, Moves, Over

-----------------------------------------------------------------------------
(* Theorems.                                                               *)

(* The invariant holds throughout.                                         *)
LEMMA Invariance == Spec => []Inv
<1>1. Init => Inv
  BY InitInv
<1>2. Inv /\ [Next]_vars => Inv'
  BY NextInv
<1> QED  BY <1>1, <1>2, PTL DEF Spec

(* Type correctness of the four commands.                                  *)
THEOREM TypeCorrect == Spec => []TypeOK
<1>1. Inv => TypeOK
  BY DEF Inv
<1> QED  BY <1>1, Invariance, PTL

(* The count of results, the wait for the goroutines and the closer each   *)
(* make sure that the report has heard every address, as its call ended,   *)
(* and holds what was kept of the answers.                                 *)
THEOREM ReportsAreComplete == Spec => []ReportIsComplete
<1>1. Inv => ReportIsComplete
  <2> SUFFICES ASSUME Inv, Reporting PROVE ReportIsComplete
    BY DEF ReportIsComplete
  <2>1. launched = Len(list) /\ \A i \in 1..Len(list) : heard[i] # "none"
    BY DEF Inv, MainOK, Reporting
  <2>2. \A i \in 1..Len(list) : heard[i] = outcome[i]
    BY <2>1, InSlots DEF Inv, SlotOK
  <2>3. HeardOk = {i \in Slots : outcome[i] = "ok"}
    <3>1. ASSUME NEW i \in Slots PROVE heard[i] = "ok" <=> outcome[i] = "ok"
      <4>1. SlotOK(i) /\ launched \in 0..Len(list) /\ Len(list) \in Nat
        BY FanOutAssumption DEF Inv, TypeOK
      <4>2. CASE i \in 1..Len(list)
        BY <4>2, <2>2
      <4>3. CASE i \notin 1..Len(list)
        <5>1. call[i] = "none"
          BY <4>1, <4>3, <2>1 DEF SlotOK, Slots
        <5> QED  BY <5>1, <4>1 DEF SlotOK, Finished
      <4> QED  BY <4>2, <4>3
    <3> QED  BY <3>1 DEF HeardOk
  <2> QED  BY <2>1, <2>2, <2>3 DEF Inv, FinalOK, ReportIsComplete
<1> QED  BY <1>1, Invariance, PTL

(* The channel is only ever closed behind the last send.                   *)
THEOREM ClosedBehindLastSend == Spec => []NoSendOnClosed
<1>1. Inv => NoSendOnClosed
  <2> SUFFICES ASSUME Inv, closed, NEW i \in Slots PROVE call[i] \in {"none", "done", "over"}
    BY DEF NoSendOnClosed
  <2>1. launched \in Nat /\ SlotOK(i) /\ \A j \in 1..launched : call[j] \in Finished
    BY FanOutAssumption DEF Inv, MainOK, TypeOK
  <2>2. CASE i \in 1..launched
    BY <2>1, <2>2 DEF Finished
  <2>3. CASE i \notin 1..launched
    BY <2>1, <2>3 DEF SlotOK, Slots
  <2> QED  BY <2>2, <2>3
<1> QED  BY <1>1, Invariance, PTL

-----------------------------------------------------------------------------
(* Refinement.                                                             *)

(* An idle client has heard nobody.                                        *)
LEMMA IdleIsNobody == Phase = "idle" => HeardSoFar = G!Nobody
BY DEF HeardSoFar, G!Nobody

(* Steps that keep the phase, the list and what was heard are stutters.    *)
LEMMA Stutters ==
    ASSUME Phase' = Phase, UNCHANGED <<list, heard>>
    PROVE  UNCHANGED G!vars
BY DEF G!vars, HeardSoFar

(* Where an entry is heard for the first time while the client is asking.  *)
LEMMA HearStep ==
    ASSUME Inv, NEW i \in 1..Len(list), heard[i] = "none", Phase = "asking",
           UNCHANGED <<pc, list>>,
           NEW word \in {"ok", "error"}, heard' = [heard EXCEPT ![i] = word]
    PROVE  G!Next
<1>1. i \in Slots
  BY InSlots DEF Inv
<1>2. Phase' = Phase
  BY DEF Phase
<1>3. HeardSoFar[i] = "waiting" /\ Len(list) \in Nat /\ heard \in [Slots -> {"none", "ok", "error"}]
  BY <1>1, FanOutAssumption DEF HeardSoFar, Inv, TypeOK
<1>4. HeardSoFar' = [HeardSoFar EXCEPT ![i] = word]
  <2>1. ASSUME NEW j \in Slots PROVE HeardSoFar'[j] = [HeardSoFar EXCEPT ![i] = word][j]
    BY <1>1, <1>2, <1>3, <2>1 DEF HeardSoFar
  <2> QED  BY <2>1 DEF HeardSoFar
<1>5. G!Hear(i)
  BY <1>2, <1>3, <1>4 DEF G!Hear
<1> QED  BY <1>1, <1>5 DEF G!Next

(* A step after which the client is idle.                                  *)
LEMMA IdleStep ==
    ASSUME Phase' = "idle"
    PROVE  [G!Next]_(G!vars)
<1>1. HeardSoFar' = G!Nobody
  BY DEF HeardSoFar, G!Nobody
<1>2. CASE Phase = "idle"
  BY <1>1, <1>2, IdleIsNobody DEF G!vars
<1>3. CASE Phase # "idle"
  BY <1>1, <1>3 DEF G!Next, G!Leave
<1> QED  BY <1>2, <1>3

(* The first goroutine is about to start: everybody on the list is asked.  *)
LEMMA StartStep ==
    ASSUME Inv, Inv', NEW source, NEW given, NEW setting, Start(source, given, setting)
    PROVE  [G!Next]_(G!vars)
<1>1. CASE pc' = "exited"
  BY <1>1, IdleStep DEF Phase
<1>2. CASE pc' = "launch"
  <2>1. Phase = "idle" /\ Phase' = "asking"
    BY <1>2 DEF Phase, Start
  <2>2. ASSUME NEW i \in Slots PROVE heard'[i] = "none"
    <3>1. launched = 0 /\ SlotOK(i)
      BY DEF Inv, MainOK, Start
    <3>2. heard[i] = "none"
      BY <3>1 DEF SlotOK, Slots, Finished
    <3> QED  BY <3>2 DEF Start, collected
  <2>3. Len(list') \in Nat
    BY FanOutAssumption DEF Inv, TypeOK
  <2> DEFINE S == {i \in Slots : i <= Len(list')}
  <2>4. HeardSoFar' = G!Asked(S)
    <3>1. ASSUME NEW i \in Slots PROVE HeardSoFar'[i] = G!Asked(S)[i]
      BY <2>1, <2>2, <2>3 DEF HeardSoFar, G!Asked, Slots
    <3> QED  BY <3>1 DEF HeardSoFar, G!Asked
  <2>5. G!Ask(S)
    BY <2>1, <2>4 DEF G!Ask
  <2> HIDE DEF S
  <2>6. S \in SUBSET Slots
    BY DEF S
  <2> QED  BY <2>5, <2>6 DEF G!Next
<1> QED  BY <1>1, <1>2 DEF Start

(* The report: nobody is still awaited.                                    *)
LEMMA ReportStep ==
    ASSUME Inv, Report
    PROVE  G!Next
<1> USE DEF Report, LogsReport, StacksReport, RestartReport, VersionReport, Says, setup, collected
<1>1. Phase = "asking" /\ Phase' = "told" /\ Reporting
  BY DEF Phase, Reporting
<1>2. UNCHANGED <<list, heard>>
  OBVIOUS
<1>3. HeardSoFar' = HeardSoFar
  BY <1>1, <1>2 DEF HeardSoFar
<1>4. ASSUME NEW i \in Slots PROVE HeardSoFar[i] # "waiting"
  <2>1. Len(list) \in Nat /\ heard[i] \in {"none", "ok", "error"}
    BY FanOutAssumption DEF Inv, TypeOK
  <2>2. i \in 1..Len(list) => heard[i] # "none"
    BY <1>1 DEF Inv, MainOK
  <2> QED  BY <2>1, <2>2 DEF HeardSoFar, Slots
<1> QED  BY <1>1, <1>3, <1>4 DEF G!Next, G!Tell

(* A result is heard when main takes it.                                   *)
LEMMA TakeStep ==
    ASSUME Inv, NEW i \in Slots, Take(i), UNCHANGED pc, pc \in {"receive", "drain"}
    PROVE  G!Next
<1>1. SlotOK(i) /\ launched \in 0..Len(list) /\ Len(list) \in Nat /\ outcome[i] \in {"none", "ok", "error"}
  BY FanOutAssumption DEF Inv, TypeOK
<1>2. heard[i] = "none" /\ outcome[i] \in {"ok", "error"} /\ i \in 1..Len(list)
  BY <1>1 DEF Take, SlotOK, Finished, Slots
<1>3. Phase = "asking"
  BY DEF Phase
<1>4. heard' = [heard EXCEPT ![i] = outcome[i]] /\ UNCHANGED list
  BY DEF Take, setup
<1> QED  BY <1>2, <1>3, <1>4, HearStep

(* A restart is heard when its goroutine prints.                           *)
LEMMA PrintsStep ==
    ASSUME Inv, NEW i \in Slots, RestartPrints(i)
    PROVE  G!Next
<1>1. SlotOK(i) /\ call[i] = "send" /\ i \in 1..Len(list)
  BY OpenWhileRunning DEF Inv, RestartPrints
<1>2. heard[i] = "none"
  BY <1>1 DEF SlotOK, Finished
<1>3. Running /\ pc \notin {"open", "write"}
  <2>1. CASE pc \in {"open", "write"}
    <3>1. heard[i] # "none"
      BY <1>1, <2>1 DEF Inv, MainOK, Reporting
    <3> QED  BY <3>1, <1>2
  <2> QED  BY <2>1 DEF RestartPrints
<1>4. Phase = "asking"
  BY <1>3 DEF Phase, Running
<1>5. heard' = [heard EXCEPT ![i] = "ok"] /\ UNCHANGED <<pc, list>>
  BY DEF RestartPrints, setup
<1> QED  BY <1>1, <1>2, <1>4, <1>5, HearStep

(* Every step of the commands is a step of Gather or a stutter.            *)
LEMMA GatherStep ==
    ASSUME Inv, Inv', [Next]_vars
    PROVE  [G!Next]_(G!vars)
<1>1. CASE Starts
  BY <1>1, StartStep DEF Starts
<1>2. CASE RunAgain \/ Kill
  BY <1>2, IdleStep DEF RunAgain, Kill, Phase
<1>3. CASE Launch \/ Launched \/ Received \/ RestartWait \/ VersionCloser \/ Drained \/ Save
  <2> USE <1>3 DEF Launch, Launched, Received, RestartWait, VersionCloser, Drained, Save, Newline,
            WriteDocument, SaveFails, Appends, setup, calls, collected
  <2>1. UNCHANGED <<list, heard>>
    OBVIOUS
  <2>2. Phase' = Phase
    BY DEF Phase, Inv, TypeOK, Commands
  <2> QED  BY <2>1, <2>2, Stutters
<1>4. CASE Report
  BY <1>4, ReportStep
<1>5. ASSUME NEW i \in Slots, LogsReceive(i) \/ StacksReceive(i) \/ RestartDrain(i) \/ VersionDrain(i)
      PROVE  G!Next
  BY <1>5, TakeStep DEF LogsReceive, StacksReceive, RestartDrain, VersionDrain
<1>6. ASSUME NEW i \in Slots, Goroutine(i) \/ Handle(i) PROVE [G!Next]_(G!vars)
  <2>1. CASE RestartPrints(i)
    BY <2>1, PrintsStep
  <2>2. CASE ~RestartPrints(i)
    <3> USE DEF Goroutine, Call, CallAnswered, CallFails, CallEnds, LogsSend, StacksSend,
              VersionSend, RestartSend, Send, WorkDone, Handle, setup, collected
    <3>1. UNCHANGED <<pc, list, heard>>
      BY <1>6, <2>2
    <3>2. Phase' = Phase
      BY <3>1 DEF Phase
    <3> QED  BY <3>1, <3>2, Stutters
  <2> QED  BY <2>1, <2>2
<1>7. CASE UNCHANGED vars
  <2>1. UNCHANGED <<pc, list, heard>>
    BY <1>7 DEF vars, setup, collected
  <2>2. Phase' = Phase
    BY <2>1 DEF Phase
  <2> QED  BY <2>1, <2>2, Stutters
<1> QED
  BY <1>1, <1>2, <1>3, <1>4, <1>5, <1>6, <1>7 DEF Next, Main, Collect, Over

(* logs, stacks, restart and version implement Gather: each address is     *)
(* heard once, and nothing is reported before all of them are.             *)
THEOREM CommandsGather == Spec => ImplementsGather
<1>1. Init => G!Init
  BY DEF Init, G!Init, Phase, HeardSoFar, G!Nobody
<1>2. Inv /\ Inv' /\ [Next]_vars => [G!Next]_(G!vars)
  BY GatherStep
<1> QED  BY <1>1, <1>2, Invariance, PTL DEF Spec, ImplementsGather, G!Spec

-----------------------------------------------------------------------------
(* The saved files.                                                        *)

(* A document is written behind the newline of its own command.            *)
EndsWithNewline(content) == Len(content) > 0 /\ content[Len(content)] = "newline"

FilesOK ==
    /\ DocumentsStartLines
    /\ pc \in {"open", "write"} => <<cmd, flag>> \in Files
    /\ pc = "write" => EndsWithNewline(file[<<cmd, flag>>])

(* Appending leaves what was there in place and adds one piece behind it.  *)
LEMMA AppendGrows ==
    ASSUME NEW S, NEW s \in Seq(S), NEW x \in S, NEW t, t = Append(s, x)
    PROVE  /\ s \in Seq(S) /\ Len(s) \in Nat
           /\ Len(t) = Len(s) + 1
           /\ \A k \in 1..Len(s) : t[k] = s[k]
           /\ t[Len(s) + 1] = x
  BY AppendProperties

(* A piece that is a newline, or comes behind one, leaves the file in      *)
(* order.                                                                  *)
LEMMA AppendsInOrder ==
    ASSUME TypeOK, DocumentsStartLines, <<cmd, flag>> \in Files,
           NEW piece \in {"newline", "document", "torn"}, NEW next, Appends(piece, next),
           piece = "newline" \/ EndsWithNewline(file[<<cmd, flag>>])
    PROVE  /\ DocumentsStartLines'
           /\ piece = "newline" => EndsWithNewline(file'[<<cmd, flag>>])
<1> DEFINE f0 == <<cmd, flag>>
           P == {"newline", "document", "torn"}
<1>1. file \in [Files -> Seq(P)] /\ f0 \in Files
  BY DEF TypeOK
<1>2. file' = [file EXCEPT ![f0] = Append(file[f0], piece)]
  BY DEF Appends
<1>3. /\ file[f0] \in Seq(P) /\ Len(file[f0]) \in Nat
      /\ Len(file'[f0]) = Len(file[f0]) + 1
      /\ \A k \in 1..Len(file[f0]) : file'[f0][k] = file[f0][k]
      /\ file'[f0][Len(file[f0]) + 1] = piece
  <2>1. file[f0] \in Seq(P) /\ file'[f0] = Append(file[f0], piece)
    BY <1>1, <1>2
  <2>2. piece \in P
    OBVIOUS
  <2> HIDE DEF P, f0
  <2> QED  BY <2>1, <2>2, AppendGrows
<1>4. DocumentsStartLines'
  <2> SUFFICES ASSUME NEW f \in Files, NEW k \in 2..Len(file'[f]), file'[f][k] # "newline"
               PROVE  file'[f][k - 1] = "newline"
    BY DEF DocumentsStartLines
  <2>1. CASE f # f0
    BY <2>1, <1>1, <1>2 DEF DocumentsStartLines
  <2>2. CASE f = f0 /\ k <= Len(file[f0])
    <3>1. k \in 2..Len(file[f0]) /\ k - 1 \in 1..Len(file[f0]) /\ k \in 1..Len(file[f0])
      BY <2>2, <1>3
    <3>2. file[f0][k] # "newline"
      BY <3>1, <2>2, <1>3
    <3>3. file[f0][k - 1] = "newline"
      BY <3>1, <3>2, <1>1 DEF DocumentsStartLines
    <3> QED  BY <3>1, <3>3, <2>2, <1>3
  <2>3. CASE f = f0 /\ k = Len(file[f0]) + 1
    <3>1. piece # "newline"
      BY <2>3, <1>3
    <3>2. Len(file[f0]) \in 1..Len(file[f0]) /\ file[f0][Len(file[f0])] = "newline"
      BY <3>1, <1>3 DEF EndsWithNewline
    <3>3. file'[f0][Len(file[f0])] = "newline"
      BY <3>2, <1>3
    <3>4. k - 1 = Len(file[f0])
      BY <2>3, <1>3
    <3> QED  BY <3>3, <3>4, <2>3
  <2> QED  BY <2>1, <2>2, <2>3, <1>3
<1>5. ASSUME piece = "newline" PROVE EndsWithNewline(file'[f0])
  BY <1>3, <1>5 DEF EndsWithNewline
<1> QED  BY <1>4, <1>5

(* Every step keeps the documents in the files on lines of their own.      *)
LEMMA FilesStep == TypeOK /\ FilesOK /\ [Next]_vars => FilesOK'
<1> SUFFICES ASSUME TypeOK, FilesOK, [Next]_vars PROVE FilesOK'
  OBVIOUS
<1>1. CASE Newline
  <2>1. Appends("newline", "write") /\ <<cmd, flag>> \in Files /\ UNCHANGED <<cmd, flag>>
    BY <1>1 DEF Newline, FilesOK, Appends, setup
  <2>2. DocumentsStartLines' /\ EndsWithNewline(file'[<<cmd, flag>>])
    BY <2>1, AppendsInOrder DEF FilesOK
  <2> QED  BY <2>1, <2>2 DEF FilesOK
<1>2. ASSUME NEW piece \in {"document", "torn"}, pc = "write", Appends(piece, "done")
      PROVE  FilesOK'
  <2>1. <<cmd, flag>> \in Files /\ EndsWithNewline(file[<<cmd, flag>>]) /\ DocumentsStartLines
    BY <1>2 DEF FilesOK
  <2>2. DocumentsStartLines'
    BY <1>2, <2>1, AppendsInOrder
  <2>3. pc' = "done"
    BY <1>2 DEF Appends
  <2> QED  BY <2>2, <2>3 DEF FilesOK
<1>3. CASE Report
  <2> USE <1>3 DEF Report, LogsReport, StacksReport, RestartReport, VersionReport, Says, setup
  <2>1. UNCHANGED <<file, cmd, flag>> /\ pc' \in {"done", "open"}
    OBVIOUS
  <2>2. pc' = "open" => cmd \in {"logs", "stacks"}
    OBVIOUS
  <2>3. pc' = "open" => <<cmd, flag>> \in Files
    BY <2>2 DEF Files, TypeOK
  <2> QED  BY <2>1, <2>3 DEF FilesOK, DocumentsStartLines
<1>4. ASSUME UNCHANGED file, pc' \notin {"open", "write"} PROVE FilesOK'
  BY <1>4 DEF FilesOK, DocumentsStartLines
<1>5. ASSUME UNCHANGED <<file, cmd, flag, pc>> PROVE FilesOK'
  BY <1>5 DEF FilesOK, DocumentsStartLines
<1>6. CASE Starts \/ RunAgain \/ Launch \/ Launched \/ Kill
  <2>1. UNCHANGED file /\ pc' \notin {"open", "write"}
    BY <1>6 DEF Starts, Start, RunAgain, Launch, Launched, Kill, TypeOK, Commands
  <2> QED  BY <2>1, <1>4
<1>7. CASE SaveFails
  <2>1. CASE UNCHANGED file /\ pc' = "done"
    BY <2>1, <1>4
  <2>2. CASE pc = "write" /\ Appends("torn", "done")
    BY <2>2, <1>2
  <2> QED  BY <1>7, <2>1, <2>2 DEF SaveFails
<1>8. CASE WriteDocument
  BY <1>8, <1>2 DEF WriteDocument
<1>9. CASE Collect
  <2>1. UNCHANGED <<file, cmd, flag>> /\ pc' \in {pc, "drain", "report"}
    <3> USE DEF LogsReceive, StacksReceive, RestartDrain, VersionDrain, Take, Received,
              RestartWait, VersionCloser, Drained, setup
    <3>1. ASSUME NEW i \in Slots,
                 LogsReceive(i) \/ StacksReceive(i) \/ RestartDrain(i) \/ VersionDrain(i)
          PROVE  UNCHANGED <<file, cmd, flag>> /\ pc' \in {pc, "drain", "report"}
      BY <3>1
    <3>2. ASSUME Received \/ RestartWait \/ VersionCloser \/ Drained
          PROVE  UNCHANGED <<file, cmd, flag>> /\ pc' \in {pc, "drain", "report"}
      BY <3>2
    <3> QED  BY <1>9, <3>1, <3>2 DEF Collect
  <2>2. UNCHANGED <<file, cmd, flag>> /\ (pc' = pc \/ pc' \in {"drain", "report"})
    BY <2>1
  <2> QED  BY <2>2, <1>4, <1>5
<1>10. ASSUME NEW i \in Slots, Goroutine(i) \/ Handle(i) PROVE FilesOK'
  <2>1. UNCHANGED <<file, cmd, flag, pc>>
    BY <1>10 DEF Goroutine, Call, CallAnswered, CallFails, CallEnds, LogsSend, StacksSend,
              VersionSend, RestartSend, RestartPrints, Send, WorkDone, Handle, setup
  <2> QED  BY <2>1, <1>5
<1>11. CASE UNCHANGED vars
  BY <1>11, <1>5 DEF vars, setup
<1> QED
  BY <1>1, <1>3, <1>6, <1>7, <1>8, <1>9, <1>10, <1>11 DEF Next, Main, Save, Over

(* Whatever saves failed half-way and whatever commands were killed, every *)
(* document starts on a line of its own.                                   *)
THEOREM DocumentsOnLines == Spec => []DocumentsStartLines
<1>1. Init => FilesOK
  BY DEF Init, FilesOK, DocumentsStartLines
<1>2. FilesOK => DocumentsStartLines
  BY DEF FilesOK
<1> QED  BY <1>1, <1>2, FilesStep, TypeCorrect, PTL DEF Spec

-----------------------------------------------------------------------------
(* The last word.                                                          *)

(* The agents' answers are what they hold, and once the last word is out   *)
(* no call is left to end.                                                 *)
VerdictOK ==
    /\ VerdictIsTrue
    /\ \A i \in Slots : call[i] \in {"none", "dial"} => request[i] = "none"
    /\ \A i \in Slots : request[i] = "run" => reply[i] = Answered(i)
    /\ verdict # "none" =>
          /\ pc \in {"open", "write", "done", "killed"}
          /\ \A i \in Slots : call[i] \in {"none", "done", "over"}

(* The last word stays true while the outcomes are what they were and the  *)
(* agents run what they had not run.                                       *)
LEMMA VerdictKept ==
    ASSUME Inv, VerdictIsTrue, UNCHANGED <<verdict, outcome, list, cmd>>,
           \A i \in Slots : request[i] = "run" => request'[i] = "run"
    PROVE  VerdictIsTrue'
<1>1. OkSlots' = OkSlots /\ \A i : HeldBy(i)' = HeldBy(i)
  BY DEF OkSlots, HeldBy
<1>2. OkVersions' = OkVersions
  BY <1>1 DEF OkVersions
<1>3. \A i \in 1..Len(list) : i \in Slots
  BY InSlots DEF Inv
<1> QED  BY <1>1, <1>2, <1>3 DEF VerdictIsTrue

(* When the report is made the versions in it are those of the agents that *)
(* answered.                                                               *)
LEMMA VersionsReported ==
    ASSUME Inv, VerdictOK, Reporting, cmd = "version"
    PROVE  Versions = OkVersions
<1>1. final = UNION {Kept(i) : i \in HeardOk}
  BY DEF Inv, FinalOK
<1>2. \A i \in Slots : i \in HeardOk <=> i \in OkSlots
  <2> SUFFICES ASSUME NEW i \in Slots PROVE heard[i] = "ok" <=> i \in 1..Len(list) /\ outcome[i] = "ok"
    BY DEF HeardOk, OkSlots
  <2>1. SlotOK(i) /\ launched = Len(list) /\ launched \in Nat /\ \A j \in 1..Len(list) : heard[j] # "none"
    BY FanOutAssumption DEF Inv, MainOK, Reporting, TypeOK
  <2>2. CASE i \in 1..Len(list)
    BY <2>1, <2>2 DEF SlotOK
  <2>3. CASE i \notin 1..Len(list)
    BY <2>1, <2>3 DEF SlotOK, Slots, Finished
  <2> QED  BY <2>2, <2>3
<1>3. HeardOk = OkSlots
  BY <1>2, InSlots DEF HeardOk, OkSlots, Inv
<1>4. ASSUME NEW i \in OkSlots
      PROVE  Kept(i) = {<<i, h>> : h \in {h \in Holdings : h.cmd = cmd /\ h.host = list[i].host}}
  <2>1. i \in Slots /\ SlotOK(i) /\ outcome[i] = "ok"
    BY <1>4, InSlots DEF OkSlots, Inv
  <2>2. reply[i] = Answered(i)
    BY <2>1 DEF SlotOK, VerdictOK
  <2> QED  BY <2>2 DEF Kept, Answered
<1>5. Versions = {entry[2].name : entry \in UNION {Kept(i) : i \in OkSlots}}
  BY <1>1, <1>3 DEF Versions
<1>6. ASSUME NEW v \in Versions PROVE v \in OkVersions
  <2>1. PICK i \in OkSlots : \E entry \in Kept(i) : v = entry[2].name
    BY <1>5, <1>6
  <2>2. PICK h \in Holdings : h.cmd = cmd /\ h.host = list[i].host /\ v = <<i, h>>[2].name
    BY <2>1, <1>4
  <2>3. v \in HeldBy(i)
    BY <2>1, <2>2 DEF HeldBy
  <2> QED  BY <2>3 DEF OkVersions
<1>7. ASSUME NEW v \in OkVersions PROVE v \in Versions
  <2>1. PICK i \in OkSlots : v \in HeldBy(i)
    BY <1>7 DEF OkVersions
  <2>2. PICK h \in Holdings : h.cmd = cmd /\ h.host = list[i].host /\ v = h.name
    BY <2>1 DEF HeldBy
  <2>3. <<i, h>> \in Kept(i)
    BY <2>2, <1>4
  <2>4. <<i, h>> \in UNION {Kept(j) : j \in OkSlots}
    BY <2>3
  <2>5. <<i, h>>[2].name = v
    BY <2>2
  <2> QED  BY <2>4, <2>5, <1>5
<1> QED  BY <1>6, <1>7

(* Reporting one result keeps the verdict true.                            *)
LEMMA VerdictReport ==
    ASSUME Inv, VerdictOK, Report
    PROVE  VerdictIsTrue'
<1> USE DEF Report, LogsReport, StacksReport, RestartReport, VersionReport, Says
<1>1. UNCHANGED <<setup, calls, collected>> /\ Reporting
  BY DEF Reporting
<1>2. OkSlots' = OkSlots /\ OkVersions' = OkVersions /\ UNCHANGED <<request, list>>
  BY <1>1 DEF OkSlots, OkVersions, HeldBy, setup, calls
<1>3. \A i \in 1..Len(list) : /\ i \in Slots /\ SlotOK(i)
                               /\ heard[i] # "none" /\ heard[i] = outcome[i]
  BY <1>1, InSlots DEF Inv, MainOK, SlotOK
<1>4. CASE LogsReport \/ StacksReport
  BY <1>4 DEF VerdictIsTrue
<1>5. CASE RestartReport
  <2>1. CASE Failed = {}
    <3>1. ASSUME NEW i \in 1..Len(list) PROVE request[i] = "run"
      <4>1. heard[i] \in {"ok", "error"} /\ heard[i] # "error"
        BY <1>3, <2>1 DEF Failed, Heard, Inv, TypeOK
      <4> QED  BY <4>1, <1>3 DEF SlotOK
    <3> QED  BY <1>5, <2>1, <1>2, <3>1 DEF VerdictIsTrue
  <2>2. CASE Failed # {}
    <3>1. PICK i \in Slots : heard[i] = "error"
      BY <2>2 DEF Failed, Heard
    <3>2. SlotOK(i) /\ launched = Len(list) /\ launched \in Nat
      BY <1>1, FanOutAssumption DEF Inv, MainOK, Reporting, TypeOK
    <3>3. i \in 1..Len(list)
      BY <3>1, <3>2 DEF SlotOK, Finished, Slots
    <3>4. outcome[i] = "error"
      BY <3>1, <3>3, <1>3
    <3>5. OkSlots # 1..Len(list)
      BY <3>3, <3>4 DEF OkSlots
    <3> QED  BY <1>5, <2>2, <1>2, <3>5 DEF VerdictIsTrue
  <2> QED  BY <2>1, <2>2
<1>6. CASE VersionReport
  <2>1. Versions = OkVersions
    BY <1>1, <1>6, VersionsReported
  <2>2. CASE Versions = {}
    BY <1>2, <1>6, <2>1, <2>2 DEF VerdictIsTrue
  <2>3. CASE Versions # {} /\ \E v, w \in Versions : v # w
    BY <1>2, <1>6, <2>1, <2>3 DEF VerdictIsTrue
  <2>4. CASE Versions # {} /\ ~\E v, w \in Versions : v # w
    <3>1. PICK v \in Versions : TRUE
      BY <2>4
    <3>2. Versions = {v}
      BY <2>4, <3>1
    <3> QED  BY <1>2, <1>6, <2>1, <2>4, <3>2 DEF VerdictIsTrue
  <2> QED  BY <2>2, <2>3, <2>4
<1> QED  BY <1>4, <1>5, <1>6

(* A step that leaves the setup and the calls alone.                       *)
LEMMA VerdictMoves ==
    ASSUME Inv, VerdictOK, UNCHANGED <<setup, calls, verdict>>, pc' # "start",
           verdict # "none" => pc' \in {"open", "write", "done", "killed"}
    PROVE  VerdictOK'
<1> USE DEF setup, calls
<1>1. \A i : Answered(i)' = Answered(i)
  BY DEF Answered, ProcessMatches
<1>2. VerdictIsTrue'
  BY VerdictKept DEF VerdictOK
<1> QED  BY <1>1, <1>2 DEF VerdictOK

(* A step of a goroutine or of an agent.                                   *)
LEMMA VerdictCalls ==
    ASSUME Inv, VerdictOK, NEW i \in Slots, Goroutine(i) \/ Handle(i)
    PROVE  VerdictOK'
<1> USE DEF Goroutine, Call, CallAnswered, CallFails, CallEnds, LogsSend, StacksSend,
          VersionSend, RestartSend, RestartPrints, Send, WorkDone, Handle, setup, collected
<1>0. /\ call \in [Slots -> {"none", "dial", "asked", "send", "done", "over"}]
      /\ request \in [Slots -> {"none", "sent", "run"}]
      /\ reply \in [Slots -> SUBSET Holdings]
  BY DEF Inv, TypeOK
<1>1. UNCHANGED <<cmd, flag, type, list, pc, verdict>>
  OBVIOUS
<1>2. \A j : Answered(j)' = Answered(j)
  BY <1>1 DEF Answered, ProcessMatches
<1>4. \A j \in Slots : request[j] = "run" => request'[j] = "run"
  <2>1. CASE Call(i)
    <3>1. request[i] = "none"
      BY <2>1 DEF VerdictOK
    <3> QED  BY <2>1, <3>1, <1>0
  <2>2. CASE ~Call(i)
    BY <2>2, <1>0
  <2> QED  BY <2>1, <2>2
<1>5. CASE verdict = "none"
  <2>1. verdict' = "none"
    BY <1>1, <1>5
  <2>2. VerdictIsTrue'
    BY <2>1 DEF VerdictIsTrue
  <2>3. ASSUME NEW j \in Slots, call'[j] \in {"none", "dial"} PROVE request'[j] = "none"
    <3>1. (call[j] \in {"none", "dial"} => request[j] = "none") /\ SlotOK(i)
      BY DEF VerdictOK, Inv
    <3>2. CASE j # i
      BY <3>1, <3>2, <2>3, <1>0
    <3>3. CASE j = i
      <4>1. Handle(i)
        BY <2>3, <3>3, <1>0
      <4> QED  BY <4>1, <3>1, <3>3, <2>3
    <3> QED  BY <3>2, <3>3
  <2>4. ASSUME NEW j \in Slots, request'[j] = "run" PROVE reply'[j] = Answered(j)'
    <3>1. request[j] = "run" => reply[j] = Answered(j)
      BY DEF VerdictOK
    <3>2. CASE j # i
      BY <3>1, <3>2, <2>4, <1>0, <1>2
    <3>3. CASE j = i
      BY <3>1, <3>3, <2>4, <1>0, <1>2
    <3> QED  BY <3>2, <3>3
  <2> QED  BY <2>1, <2>2, <2>3, <2>4 DEF VerdictOK
<1>6. CASE verdict # "none"
  <2>1. call[i] \in {"none", "done", "over"} /\ pc \in {"open", "write", "done", "killed"}
    BY <1>6 DEF VerdictOK
  <2>2. WorkDone(i) \/ Handle(i)
    BY <2>1
  <2>3. UNCHANGED outcome
    BY <2>2
  <2>4. VerdictIsTrue'
    BY <1>1, <1>4, <2>3, VerdictKept DEF VerdictOK
  <2>5. ASSUME NEW j \in Slots
        PROVE  /\ call'[j] \in {"none", "done", "over"}
               /\ call'[j] \in {"none", "dial"} => request'[j] = "none"
    <3>1. /\ call[j] \in {"none", "dial"} => request[j] = "none"
          /\ call[j] \in {"none", "done", "over"}
      BY <1>6 DEF VerdictOK
    <3>2. CASE WorkDone(i)
      BY <3>1, <3>2, <1>0
    <3>3. CASE Handle(i)
      BY <3>1, <3>3, <1>0
    <3> QED  BY <2>2, <3>2, <3>3
  <2>6. ASSUME NEW j \in Slots, request'[j] = "run" PROVE reply'[j] = Answered(j)'
    <3>1. request[j] = "run" => reply[j] = Answered(j)
      BY DEF VerdictOK
    <3> QED  BY <2>2, <2>6, <3>1, <1>0, <1>2
  <2> QED  BY <1>1, <2>1, <2>4, <2>5, <2>6 DEF VerdictOK
<1> QED  BY <1>5, <1>6

(* Every step keeps the verdict true.                                      *)
LEMMA VerdictStep == Inv /\ VerdictOK /\ [Next]_vars => VerdictOK'
<1> SUFFICES ASSUME Inv, VerdictOK, [Next]_vars PROVE VerdictOK'
  OBVIOUS
<1>1. ASSUME NEW source, NEW given, NEW setting, Start(source, given, setting) PROVE VerdictOK'
  <2> USE <1>1 DEF Start, calls, collected
  <2>1. \A i \in Slots : request[i] = "none"
    <3> SUFFICES ASSUME NEW i \in Slots PROVE request[i] = "none"
      OBVIOUS
    <3>1. SlotOK(i) /\ launched = 0
      BY DEF Inv, MainOK
    <3>2. call[i] = "none"
      BY <3>1 DEF SlotOK, Slots
    <3> QED  BY <3>2 DEF VerdictOK
  <2>2. verdict' = "none"
    BY DEF VerdictOK
  <2>3. VerdictIsTrue'
    BY <2>2 DEF VerdictIsTrue
  <2> QED  BY <2>1, <2>2, <2>3 DEF VerdictOK
<1>2. CASE RunAgain
  <2>1. VerdictIsTrue'
    BY <1>2 DEF RunAgain, VerdictIsTrue
  <2> QED  BY <1>2, <2>1 DEF RunAgain, InEachSlot, VerdictOK
<1>3. CASE Launch
  <2>1. verdict' = "none" /\ UNCHANGED <<cmd, flag, type, list, request, reply>>
    BY <1>3 DEF Launch, setup, VerdictOK
  <2>2. \A i : Answered(i)' = Answered(i)
    BY <2>1 DEF Answered, ProcessMatches
  <2>3. VerdictIsTrue'
    BY <2>1 DEF VerdictIsTrue
  <2>4. ASSUME NEW i \in Slots, call'[i] \in {"none", "dial"} PROVE request'[i] = "none"
    <3>1. call \in [Slots -> {"none", "dial", "asked", "send", "done", "over"}] /\ SlotOK(i)
          /\ launched \in Nat
      BY FanOutAssumption DEF Inv, TypeOK
    <3>2. call[i] \in {"none", "dial"}
      BY <1>3, <2>4, <3>1 DEF Launch, SlotOK
    <3> QED  BY <2>1, <3>2 DEF VerdictOK
  <2> QED  BY <2>1, <2>2, <2>3, <2>4 DEF VerdictOK
<1>4. CASE Launched \/ Save \/ Kill
  <2>1. UNCHANGED <<setup, calls, verdict>>
    BY <1>4 DEF Launched, Save, Newline, WriteDocument, SaveFails, Appends, Kill
  <2>2. pc' # "start" /\ (verdict # "none" => pc' \in {"open", "write", "done", "killed"})
    BY <1>4 DEF Launched, Save, Newline, WriteDocument, SaveFails, Appends, Kill, VerdictOK, Inv,
                TypeOK, Commands
  <2> QED  BY <2>1, <2>2, VerdictMoves
<1>5. CASE Report
  <2>1. VerdictIsTrue'
    BY <1>5, VerdictReport
  <2>2. UNCHANGED <<cmd, flag, type, list, call, request, reply>> /\ pc' \in {"done", "open"} /\ Reporting
    BY <1>5 DEF Report, LogsReport, StacksReport, RestartReport, VersionReport, Says, setup, calls,
                Reporting
  <2>3. \A i : Answered(i)' = Answered(i)
    BY <2>2 DEF Answered, ProcessMatches
  <2>4. ASSUME NEW i \in Slots PROVE call'[i] \in {"none", "done", "over"}
    <3>1. SlotOK(i) /\ launched = Len(list) /\ launched \in Nat /\ \A j \in 1..Len(list) : heard[j] # "none"
      BY <2>2, FanOutAssumption DEF Inv, MainOK, Reporting, TypeOK
    <3>2. CASE i \in 1..Len(list)
      BY <2>2, <3>1, <3>2 DEF SlotOK, Finished
    <3>3. CASE i \notin 1..Len(list)
      BY <2>2, <3>1, <3>3 DEF SlotOK, Slots
    <3> QED  BY <3>2, <3>3
  <2> QED  BY <2>1, <2>2, <2>3, <2>4 DEF VerdictOK
<1>6. CASE Collect
  <2>1. UNCHANGED <<setup, calls, verdict>> /\ pc \in {"receive", "wait", "drain"}
        /\ pc' \in {"receive", "wait", "drain", "report"}
    <3> USE DEF LogsReceive, StacksReceive, RestartDrain, VersionDrain, Take, Received,
              RestartWait, VersionCloser, Drained
    <3>1. ASSUME NEW i \in Slots,
                 LogsReceive(i) \/ StacksReceive(i) \/ RestartDrain(i) \/ VersionDrain(i)
          PROVE  UNCHANGED <<setup, calls, verdict>> /\ pc \in {"receive", "wait", "drain"} /\ pc' = pc
      BY <3>1
    <3>2. ASSUME Received \/ RestartWait \/ VersionCloser \/ Drained
          PROVE  UNCHANGED <<setup, calls, verdict>> /\ pc \in {"receive", "wait", "drain"}
                 /\ pc' \in {"receive", "wait", "drain", "report"}
      BY <3>2
    <3> QED  BY <1>6, <3>1, <3>2 DEF Collect
  <2>2. verdict = "none" /\ pc' # "start"
    BY <2>1 DEF VerdictOK
  <2> QED  BY <2>1, <2>2, VerdictMoves
<1>7. ASSUME NEW i \in Slots, Goroutine(i) \/ Handle(i) PROVE VerdictOK'
  BY <1>7, VerdictCalls
<1>8. CASE UNCHANGED vars
  <2>1. UNCHANGED <<setup, calls, verdict, pc>>
    BY <1>8 DEF vars
  <2>2. \A i : Answered(i)' = Answered(i)
    BY <2>1 DEF Answered, ProcessMatches, setup
  <2>3. VerdictIsTrue'
    BY <2>1, VerdictKept DEF VerdictOK, setup, calls
  <2> QED  BY <2>1, <2>2, <2>3 DEF VerdictOK, setup, calls
<1> QED
  BY <1>1, <1>2, <1>3, <1>4, <1>5, <1>6, <1>7, <1>8 DEF Next, Starts, Main, Over

(* What a command says last is so: "sent to all" when every agent on the   *)
(* list ran the request, the versions as those of the agents that answered.*)
THEOREM LastWordIsTrue == Spec => []VerdictIsTrue
<1>1. Init => VerdictOK
  BY DEF Init, InEachSlot, VerdictOK, VerdictIsTrue
<1>2. VerdictOK => VerdictIsTrue
  BY DEF VerdictOK
<1> QED  BY <1>1, <1>2, VerdictStep, Invariance, PTL DEF Spec
=============================================================================
