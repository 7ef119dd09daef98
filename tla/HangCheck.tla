----------------------------- MODULE HangCheck -----------------------------
(***************************************************************************)
(* `client check-hang` (pkg/client/checkhang).  Each round asks every node *)
(* for its latest logs, one goroutine per node; the goroutine of a node    *)
(* with a suspended rank goes on to sample the stacks of all training      *)
(* processes of the node several times, comparing each sample with the     *)
(* one before and saving it under a name that says how they compared.      *)
(***************************************************************************)
EXTENDS Integers, StackDiff, SequencesExt

CONSTANTS
    Nodes,         \* the address list
    Processes,     \* processes a node may list, with their stacks
    Samples,       \* samples per suspicious node (5 in the code)
    IntervalFlags,     \* values of --interval-hang
    IntervalSettings,  \* values of interval-hang in the configuration file
    MaxRounds,     \* bound: rounds started
    MaxChanges,    \* bound: changes of what a node's processes do
    MaxFailures    \* bound: failing or expiring calls

(* runCheckHang exits when the list is empty.                              *)
ASSUME HangAssumption ==
    /\ IsFiniteSet(Nodes) /\ Nodes # {} /\ IsFiniteSet(Processes)
    /\ Processes \subseteq ProcessInfo
    /\ \A p \in Processes : \A i, j \in DOMAIN p.threads :
          p.threads[i].tid = p.threads[j].tid => i = j
    /\ Samples \in Nat \ {0}
    /\ IntervalFlags \subseteq Nat /\ IntervalSettings \subseteq Int
    /\ MaxRounds \in Nat /\ MaxChanges \in Nat /\ MaxFailures \in Nat

(* A node's processes have distinct pids.                                  *)
Listings == {S \in SUBSET Processes : \A p, q \in S : p.pid = q.pid => p = q}

VARIABLES
    procs,      \* training processes of each node
    g,          \* goroutine of each node in this round
    results,    \* nodes whose Result is in the channel
    answer,     \* Result.err = nil, as sent
    stalled,    \* whether the node's answer had a rank above the threshold
    suspicious, \* suspiciousNodes
    taken,      \* currentProcesses of each node
    failed,     \* history: samples of the node that failed
    saved,      \* verdict in the name of the file saved for each sample
    received,   \* nodes whose Result has been received
    pc, round, ticker, tick,
    asked,      \* the polling interval asked for, 0 if none
    changes, failures

nodeVars == <<g, answer, stalled, suspicious, taken, failed, saved>>
mainVars == <<received, pc, round, ticker, tick, asked>>
vars == <<procs, nodeVars, results, mainVars, changes, failures>>

-----------------------------------------------------------------------------
(* The flag, or what the configuration file says.                          *)
Asked(flag, setting) == IF flag # 0 THEN flag ELSE setting

(* One minute, if both are 0 or missing.                                   *)
Interval == IF asked # 0 THEN asked ELSE 1

Init ==
    /\ procs \in [Nodes -> Listings]
    /\ g = [n \in Nodes |-> "none"]
    /\ results = {} /\ received = {} /\ suspicious = {}
    /\ answer = [n \in Nodes |-> "none"]
    /\ stalled = [n \in Nodes |-> FALSE]
    /\ taken = [n \in Nodes |-> <<>>]
    /\ failed = [n \in Nodes |-> {}]
    /\ saved = [n \in Nodes |-> <<>>]
    /\ pc = "ready" /\ round = 0 /\ ticker = FALSE /\ tick = FALSE
    /\ \E flag \in IntervalFlags, setting \in IntervalSettings : asked = Asked(flag, setting)
    /\ changes = 0 /\ failures = 0

(* The job goes on: stacks change, processes die and others start, between *)
(* two samples or two rounds.  A change at another time of the round shows *)
(* no earlier than one of these, or is another state to start from.        *)
Change(n, S) ==
    /\ changes < MaxChanges /\ S # procs[n]
    /\ g[n] = "sample" \/ (pc = "ready" /\ round \in 1..MaxRounds - 1)
    /\ changes' = changes + 1
    /\ procs' = [procs EXCEPT ![n] = S]
    /\ UNCHANGED <<nodeVars, results, mainVars, failures>>

-----------------------------------------------------------------------------
(* CheckLogs.                                                              *)

RoundBegin ==
    /\ pc = "ready" /\ round < MaxRounds
    /\ pc' = "run" /\ round' = round + 1
    /\ g' = [n \in Nodes |-> "ask"]
    /\ suspicious' = {} /\ received' = {} /\ results' = {}
    /\ answer' = [n \in Nodes |-> "none"]
    /\ stalled' = [n \in Nodes |-> FALSE]
    /\ taken' = [n \in Nodes |-> <<>>]
    /\ failed' = [n \in Nodes |-> {}]
    /\ saved' = [n \in Nodes |-> <<>>]
    /\ UNCHANGED <<procs, ticker, tick, asked, changes, failures>>

NoBuffer == 1

(* make(chan Result, len(addressList)): nobody receives before wg.Wait.    *)
Buffer == Cardinality(Nodes)

Send(n, err) ==
    /\ Cardinality(results) < Buffer
    /\ results' = results \union {n}
    /\ answer' = [answer EXCEPT ![n] = err]

(* The logs arrive and are sent on; ...                                    *)
AskAnswered(n, hang) ==
    /\ g[n] = "ask"
    /\ Send(n, "ok")
    /\ g' = [g EXCEPT ![n] = "look"]
    /\ stalled' = [stalled EXCEPT ![n] = hang]
    /\ UNCHANGED <<procs, suspicious, taken, failed, saved, mainVars, changes, failures>>

(* ... the first rank above the threshold makes the node suspicious, under *)
(* the mutex, and ends the search.                                         *)
Look(n) ==
    /\ g[n] = "look"
    /\ g' = [g EXCEPT ![n] = IF stalled[n] THEN "sample" ELSE "done"]
    /\ suspicious' = IF stalled[n] THEN suspicious \union {n} ELSE suspicious
    /\ UNCHANGED <<procs, answer, stalled, results, taken, failed, saved, mainVars, changes, failures>>

(* Dial or call fails, or the call's 10 seconds are over.                  *)
AskFails(n) ==
    /\ g[n] = "ask" /\ failures < MaxFailures
    /\ failures' = failures + 1
    /\ Send(n, "error")
    /\ g' = [g EXCEPT ![n] = "done"]
    /\ UNCHANGED <<procs, stalled, suspicious, taken, failed, saved, mainVars, changes>>

-----------------------------------------------------------------------------
(* CheckHangStacks(n): sample number Len(taken[n]) + 1.                    *)

Sampling(n) == g[n] = "sample" /\ Len(taken[n]) < Samples

AfterSample(n) ==
    g' = [g EXCEPT ![n] = IF Len(taken[n]) + 1 = Samples THEN "done" ELSE "sample"]

VerdictAgainstFirst(n, ps) ==
    IF taken[n] = <<>> THEN "first"
    ELSE IF PstreeEqual(ps, Head(taken[n])).equal THEN "noDiff" ELSE "haveDiff"

(* The first sample is only saved; the others are compared with the one    *)
(* before, which is an empty list if its call failed.                      *)
Verdict(n, ps) ==
    IF taken[n] = <<>> THEN "first"
    ELSE IF PstreeEqual(ps, Last(taken[n])).equal THEN "noDiff" ELSE "haveDiff"

Sample(n, ps) ==
    /\ Sampling(n)
    /\ taken' = [taken EXCEPT ![n] = Append(@, ps)]
    /\ saved' = [saved EXCEPT ![n] = Append(@, Verdict(n, ps))]
    /\ AfterSample(n)
    /\ UNCHANGED <<procs, answer, stalled, suspicious, failed, results, mainVars, changes, failures>>

SampleFailsUnsaved(n) ==
    /\ Sampling(n) /\ failures < MaxFailures
    /\ failures' = failures + 1
    /\ taken' = [taken EXCEPT ![n] = Append(@, <<>>)]
    /\ failed' = [failed EXCEPT ![n] = @ \union {Len(taken'[n])}]
    /\ AfterSample(n)
    /\ UNCHANGED <<procs, answer, stalled, suspicious, saved, results, mainVars, changes>>

(* The call fails: this sample stays empty and nothing is saved for it.    *)
SampleFails(n) ==
    /\ Sampling(n) /\ failures < MaxFailures
    /\ failures' = failures + 1
    /\ taken' = [taken EXCEPT ![n] = Append(@, <<>>)]
    /\ failed' = [failed EXCEPT ![n] = @ \union {Len(taken'[n])}]
    /\ saved' = [saved EXCEPT ![n] = Append(@, "nothing")]
    /\ AfterSample(n)
    /\ UNCHANGED <<procs, answer, stalled, suspicious, results, mainVars, changes>>

-----------------------------------------------------------------------------
(* The end of the round.                                                   *)

JoinAnswers ==
    /\ pc = "run" /\ \A n \in Nodes : n \in results
    /\ pc' = "collect"
    /\ UNCHANGED <<procs, nodeVars, results, received, round, ticker, tick, asked,
                   changes, failures>>

(* wg.Wait.                                                                *)
Join ==
    /\ pc = "run" /\ \A n \in Nodes : g[n] = "done"
    /\ pc' = "collect"
    /\ UNCHANGED <<procs, nodeVars, results, received, round, ticker, tick, asked,
                   changes, failures>>

ReceiveOneLess(n) ==
    /\ pc = "collect" /\ n \in results
    /\ results' = results \ {n}
    /\ received' = received \union {n}
    /\ pc' = IF Cardinality(received') >= Cardinality(Nodes) - 1 THEN "report" ELSE "collect"
    /\ UNCHANGED <<procs, nodeVars, round, ticker, tick, asked, changes, failures>>

(* One Result for each address.                                            *)
Receive(n) ==
    /\ pc = "collect" /\ n \in results
    /\ results' = results \ {n}
    /\ received' = received \union {n}
    /\ pc' = IF Cardinality(received') = Cardinality(Nodes) THEN "report" ELSE "collect"
    /\ UNCHANGED <<procs, nodeVars, round, ticker, tick, asked, changes, failures>>

(* The answered logs are saved, the suspicious nodes printed; the ticker   *)
(* starts after the first round, and panics on a negative interval.  A     *)
(* client with interval 0 would return, but Interval leaves no such one.   *)
Report ==
    /\ pc = "report"
    /\ pc' = IF Interval < 0 THEN "panicked" ELSE IF Interval = 0 THEN "returned" ELSE "wait"
    /\ ticker' = (Interval > 0)
    /\ UNCHANGED <<procs, nodeVars, results, received, round, tick, asked,
                   changes, failures>>

(* The ticker's channel holds one tick; more of them are dropped.          *)
TickerFires ==
    /\ ticker /\ pc # "panicked" /\ ~tick
    /\ tick' = TRUE
    /\ UNCHANGED <<procs, nodeVars, results, received, pc, round, ticker, asked,
                   changes, failures>>

NextRound ==
    /\ pc = "wait" /\ tick
    /\ tick' = FALSE /\ pc' = "ready"
    /\ UNCHANGED <<procs, nodeVars, results, received, round, ticker, asked,
                   changes, failures>>

-----------------------------------------------------------------------------
AskStep(n) == \/ \E hang \in BOOLEAN : AskAnswered(n, hang)
              \/ AskFails(n) \/ Look(n)

SampleStep(n) == \/ SampleFails(n)
                 \/ \E ps \in SetToSeqs(procs[n]) : Sample(n, ps)

Main == RoundBegin \/ Join \/ (\E n \in Nodes : Receive(n)) \/ Report \/ NextRound

Next ==
    \/ \E n \in Nodes : AskStep(n) \/ SampleStep(n) \/ \E S \in Listings : Change(n, S)
    \/ Main \/ TickerFires

Spec == Init /\ [][Next]_vars

(* The client's goroutines run, and every call ends: by its answer or by   *)
(* its deadline.                                                           *)
FairSpec == /\ Spec
            /\ WF_vars(Main) /\ WF_vars(TickerFires)
            /\ \A n \in Nodes : WF_vars(AskStep(n) \/ SampleStep(n))

-----------------------------------------------------------------------------
(* Properties.                                                             *)

(* Variables keep their shape; a node has as many verdicts as samples.     *)
TypeOK ==
    /\ procs \in [Nodes -> Listings]
    /\ g \in [Nodes -> {"none", "ask", "look", "sample", "done"}]
    /\ results \subseteq Nodes /\ received \subseteq Nodes /\ suspicious \subseteq Nodes
    /\ answer \in [Nodes -> {"none", "ok", "error"}]
    /\ stalled \in [Nodes -> BOOLEAN]
    /\ failed \in [Nodes -> SUBSET (1..Samples)]
    /\ taken \in [Nodes -> Seq(Seq(Processes))]
    /\ saved \in [Nodes -> Seq({"first", "nothing", "noDiff", "haveDiff"})]
    /\ \A n \in Nodes : Len(taken[n]) <= Samples /\ Len(saved[n]) = Len(taken[n])
    /\ pc \in {"ready", "run", "collect", "report", "wait", "panicked", "returned"}
    /\ round \in 0..MaxRounds
    /\ ticker \in BOOLEAN /\ tick \in BOOLEAN
    /\ asked \in Int
    /\ changes \in 0..MaxChanges /\ failures \in 0..MaxFailures

Compared(n) == 2..Len(taken[n])

(* A file named noDiff stands for two consecutive samples that show the    *)
(* same processes with the same stacks, in whatever order they were listed.*)
NoDiffMeansSame ==
    \A n \in Nodes : \A k \in Compared(n) :
        saved[n][k] = "noDiff" => Snapshot(taken[n][k]) = Snapshot(taken[n][k - 1])

(* A file named haveDiff has one of two causes: the samples differ, or the *)
(* call for the one before failed.                                         *)
HaveDiffHasCause ==
    \A n \in Nodes : \A k \in Compared(n) :
        saved[n][k] = "haveDiff" =>
            Snapshot(taken[n][k]) # Snapshot(taken[n][k - 1]) \/ (k - 1) \in failed[n]

(* When a round is over every address has its result in the report, and    *)
(* each node with a suspended rank, no other, is named suspicious and has  *)
(* been sampled to the end.                                                *)
RoundIsComplete ==
    pc \in {"wait", "panicked"} =>
        /\ received = Nodes
        /\ suspicious = {n \in Nodes : stalled[n]}
        /\ \A n \in suspicious : Len(taken[n]) = Samples

(* A round ends whatever fails, no goroutine stuck sending its result.     *)
(* The client goes on to the next one if it was asked for an interval, and *)
(* ends in a panic if that is negative.  With 0, which the command's help  *)
(* calls once only, nothing is said of what comes after the round.         *)
RoundsGoOn ==
    []<>(CASE asked > 0 -> pc = "ready"
           [] asked < 0 -> pc = "panicked"
           [] asked = 0 -> pc \in {"ready", "returned"})

(* Refinement: an answer counts when main has received it.                 *)
Phase ==
    IF pc \in {"run", "collect", "report"} THEN "asking"
    ELSE IF round = 0 THEN "idle" ELSE "told"

HeardSoFar ==
    [n \in Nodes |-> IF Phase = "idle" THEN "unasked"
                     ELSE IF n \in received THEN answer[n] ELSE "waiting"]

G == INSTANCE Gather WITH Addresses <- Nodes, phase <- Phase, heard <- HeardSoFar

(* Every round does what Gather promises, although a node's Result is in   *)
(* the channel long before its samples are taken.                          *)
ImplementsGather == G!Spec
=============================================================================
