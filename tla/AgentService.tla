---------------------------- MODULE AgentService ----------------------------
(***************************************************************************)
(* The agent process: its gRPC service, GetProcessStacks with one pystack  *)
(* per training process, RestartServer, and the ways the process ends      *)
(* (cmd/agent, pkg/agent/grpcserver, pkg/agent/stacktrace).                *)
(*                                                                         *)
(* A request is a goroutine; GetProcessStacks starts one more for each     *)
(* selected process and waits for all of them.  gRPC's GracefulStop closes *)
(* the listener and returns when no handler is left, so a pystack that     *)
(* does not return keeps the process from stopping.                        *)
(***************************************************************************)
EXTENDS Naturals, FiniteSets

CONSTANTS
    Calls,         \* GetProcessStacks requests
    Restarts,      \* RestartServer requests
    Pids,          \* training processes of the node
    MaxConcurrent, \* capacity of PythonStack.sem
    MaxBoots,      \* bound: starts of the process
    MaxFaults      \* bound: scripts and pystacks that fail

ASSUME ServiceAssumption ==
    /\ MaxConcurrent \in Nat \ {0} /\ MaxBoots \in Nat \ {0} /\ MaxFaults \in Nat
    /\ IsFiniteSet(Pids)

VARIABLES
    up,        \* the process runs
    boot,      \* number of its current or last start
    open,      \* the listener is open
    token,     \* restartChan (capacity 1) holds a value
    restarter, \* goroutine that receives from restartChan
    signaler,  \* goroutine that waits for SIGINT and SIGTERM
    rpc,       \* handler of each RestartServer request
    by,        \* start of the process that answered it
    call,      \* handler of each GetProcessStacks request
    selected,  \* processes it inspects
    fetch,     \* its goroutine for each process
    sem,       \* values in PythonStack.sem
    read,      \* the list a goroutine under mu is about to append to
    infos,     \* processesInfo
    errs,      \* processes that put an error in errs
    faults

process  == <<up, boot, open, token, restarter, signaler>>
requests == <<rpc, by>>
stacks   == <<call, selected, fetch, sem, read, infos, errs>>
vars == <<process, requests, stacks, faults>>

Init ==
    /\ up = TRUE /\ boot = 1 /\ open = TRUE
    /\ token = FALSE /\ restarter = "starting" /\ signaler = "starting"
    /\ rpc = [r \in Restarts |-> "new"]
    /\ by = [r \in Restarts |-> 0]
    /\ call = [c \in Calls |-> "new"]
    /\ selected = [c \in Calls |-> {}]
    /\ fetch = [c \in Calls |-> [p \in Pids |-> "none"]]
    /\ sem = [c \in Calls |-> 0]
    /\ read = [c \in Calls |-> [p \in Pids |-> {}]]
    /\ infos = [c \in Calls |-> {}]
    /\ errs = [c \in Calls |-> {}]
    /\ faults = 0

-----------------------------------------------------------------------------
(* GetProcessStacks.                                                       *)

CallBegin(c) ==
    /\ up /\ open /\ call[c] = "new"
    /\ call' = [call EXCEPT ![c] = "script"]
    /\ UNCHANGED <<process, requests, selected, fetch, sem, read, infos, errs, faults>>

(* The script lists the training processes; the request's type and rank    *)
(* select some of them, and each gets its goroutine.                       *)
Listed(c, S) ==
    /\ call[c] = "script"
    /\ call' = [call EXCEPT ![c] = "fetching"]
    /\ selected' = [selected EXCEPT ![c] = S]
    /\ fetch' = [fetch EXCEPT ![c] = [p \in Pids |-> IF p \in S THEN "queued" ELSE "none"]]
    /\ UNCHANGED <<process, requests, sem, read, infos, errs, faults>>

ScriptFails(c) ==
    /\ call[c] = "script" /\ faults < MaxFaults
    /\ faults' = faults + 1
    /\ call' = [call EXCEPT ![c] = "error"]
    /\ UNCHANGED <<process, requests, selected, fetch, sem, read, infos, errs>>

AcquireUnchecked(c, p) ==
    /\ fetch[c][p] = "queued"
    /\ sem' = [sem EXCEPT ![c] = @ + 1]
    /\ fetch' = [fetch EXCEPT ![c][p] = "tracing"]
    /\ UNCHANGED <<process, requests, call, selected, read, infos, errs, faults>>

(* Fetch: a slot of the request's semaphore, then pystack.                 *)
Acquire(c, p) ==
    /\ fetch[c][p] = "queued" /\ sem[c] < MaxConcurrent
    /\ sem' = [sem EXCEPT ![c] = @ + 1]
    /\ fetch' = [fetch EXCEPT ![c][p] = "tracing"]
    /\ UNCHANGED <<process, requests, call, selected, read, infos, errs, faults>>

(* pystack ends; the deferred receive gives the slot back either way.      *)
Traced(c, p) ==
    /\ fetch[c][p] = "tracing"
    /\ fetch' = [fetch EXCEPT ![c][p] = "traced"]
    /\ sem' = [sem EXCEPT ![c] = @ - 1]
    /\ UNCHANGED <<process, requests, call, selected, read, infos, errs, faults>>

TraceFailsKeepsSlot(c, p) ==
    /\ fetch[c][p] = "tracing" /\ faults < MaxFaults
    /\ faults' = faults + 1
    /\ fetch' = [fetch EXCEPT ![c][p] = "broken"]
    /\ UNCHANGED <<process, requests, call, selected, sem, read, infos, errs>>

TraceFails(c, p) ==
    /\ fetch[c][p] = "tracing" /\ faults < MaxFaults
    /\ faults' = faults + 1
    /\ fetch' = [fetch EXCEPT ![c][p] = "broken"]
    /\ sem' = [sem EXCEPT ![c] = @ - 1]
    /\ UNCHANGED <<process, requests, call, selected, read, infos, errs>>

(* The goroutines of a request between mu.Lock and mu.Unlock.              *)
InSection(c) == {p \in Pids : fetch[c][p] \in {"listing", "failing"}}

LockUnchecked(c, p) ==
    /\ fetch[c][p] \in {"traced", "broken"}
    /\ fetch' = [fetch EXCEPT ![c][p] = IF @ = "traced" THEN "listing" ELSE "failing"]
    /\ read' = [read EXCEPT ![c][p] = IF fetch[c][p] = "traced" THEN infos[c] ELSE errs[c]]
    /\ UNCHANGED <<process, requests, call, selected, sem, infos, errs, faults>>

(* mu.Lock.  Under it the goroutine appends to one of the two lists: it    *)
(* reads the list here ...                                                 *)
Lock(c, p) ==
    /\ fetch[c][p] \in {"traced", "broken"} /\ InSection(c) = {}
    /\ fetch' = [fetch EXCEPT ![c][p] = IF @ = "traced" THEN "listing" ELSE "failing"]
    /\ read' = [read EXCEPT ![c][p] = IF fetch[c][p] = "traced" THEN infos[c] ELSE errs[c]]
    /\ UNCHANGED <<process, requests, call, selected, sem, infos, errs, faults>>

(* ... and stores it with its process here; then mu.Unlock and wg.Done.    *)
(* Output no parser accepts leaves the process with no threads; it is      *)
(* listed all the same.                                                    *)
Collect(c, p) ==
    /\ p \in InSection(c)
    /\ fetch' = [fetch EXCEPT ![c][p] = "done"]
    /\ read' = [read EXCEPT ![c][p] = {}]
    /\ \/ fetch[c][p] = "listing"
          /\ infos' = [infos EXCEPT ![c] = read[c][p] \union {p}] /\ UNCHANGED errs
       \/ fetch[c][p] = "failing"
          /\ errs' = [errs EXCEPT ![c] = read[c][p] \union {p}] /\ UNCHANGED infos
    /\ UNCHANGED <<process, requests, call, selected, sem, faults>>

(* wg.Wait, then the joined errors: one of them and the answer is an error *)
(* with no process in it.                                                  *)
CallReturn(c) ==
    /\ call[c] = "fetching" /\ \A p \in selected[c] : fetch[c][p] = "done"
    /\ call' = [call EXCEPT ![c] = IF errs[c] = {} THEN "ok" ELSE "error"]
    /\ UNCHANGED <<process, requests, selected, fetch, sem, read, infos, errs, faults>>

-----------------------------------------------------------------------------
(* RestartServer.                                                          *)

RestartBegin(r) ==
    /\ up /\ open /\ rpc[r] = "new"
    /\ rpc' = [rpc EXCEPT ![r] = "running"]
    /\ UNCHANGED <<process, by, stacks, faults>>

TriggerUnbuffered(r) ==
    /\ rpc[r] = "running"
    /\ rpc' = [rpc EXCEPT ![r] = "answered"]
    /\ by' = [by EXCEPT ![r] = boot]
    /\ token' = (token \/ restarter = "waiting")
    /\ UNCHANGED <<up, boot, open, restarter, signaler, stacks, faults>>

(* A send that does not block: a full channel already has a restart in it. *)
Trigger(r) ==
    /\ rpc[r] = "running"
    /\ rpc' = [rpc EXCEPT ![r] = "answered"]
    /\ by' = [by EXCEPT ![r] = boot]
    /\ token' = TRUE
    /\ UNCHANGED <<up, boot, open, restarter, signaler, stacks, faults>>

-----------------------------------------------------------------------------
(* The process.                                                            *)

(* The two goroutines reach their receive; RPCs may be served before.      *)
RestarterReady ==
    /\ up /\ restarter = "starting"
    /\ restarter' = "waiting"
    /\ UNCHANGED <<up, boot, open, token, signaler, requests, stacks, faults>>

SignalerReady ==
    /\ up /\ signaler = "starting"
    /\ signaler' = "waiting"
    /\ UNCHANGED <<up, boot, open, token, restarter, requests, stacks, faults>>

(* Both call GracefulStop, on a restart request and on a signal.           *)
RestartReceived ==
    /\ restarter = "waiting" /\ token
    /\ token' = FALSE /\ restarter' = "stopping" /\ open' = FALSE
    /\ UNCHANGED <<up, boot, signaler, requests, stacks, faults>>

Signalled ==
    /\ signaler = "waiting"
    /\ signaler' = "stopping" /\ open' = FALSE
    /\ UNCHANGED <<up, boot, token, restarter, requests, stacks, faults>>

InFlight == \/ \E r \in Restarts : rpc[r] = "running"
            \/ \E c \in Calls : call[c] \in {"script", "fetching"}

(* Handlers and their goroutines end with the process.                     *)
Ended ==
    /\ up' = FALSE /\ open' = FALSE /\ token' = FALSE
    /\ restarter' = "starting" /\ signaler' = "starting"
    /\ rpc' = [r \in Restarts |-> IF rpc[r] = "running" THEN "cut" ELSE rpc[r]]
    /\ call' = [c \in Calls |-> IF call[c] \in {"script", "fetching"} THEN "cut" ELSE call[c]]
    /\ fetch' = [c \in Calls |-> [p \in Pids |-> "none"]]
    /\ sem' = [c \in Calls |-> 0]
    /\ read' = [c \in Calls |-> [p \in Pids |-> {}]]
    /\ UNCHANGED <<boot, by, selected, infos, errs, faults>>

(* GracefulStop has returned: os.Exit(0), or main's own return after       *)
(* Serve.                                                                  *)
Exit ==
    /\ "stopping" \in {restarter, signaler} /\ ~InFlight
    /\ Ended

(* SIGKILL, a panic, or a signal before signal.Notify.                     *)
Killed == up /\ Ended

(* The process manager starts it again.                                    *)
Boot ==
    /\ ~up /\ boot < MaxBoots
    /\ up' = TRUE /\ open' = TRUE /\ boot' = boot + 1
    /\ UNCHANGED <<token, restarter, signaler, requests, stacks, faults>>

(* Serving nobody, or down for good.                                       *)
Idle ==
    /\ ~InFlight /\ "stopping" \notin {restarter, signaler}
    /\ UNCHANGED vars

-----------------------------------------------------------------------------
(* What the scheduler runs, and what waits for pystack.                    *)
HandlerStep(c) ==
    \/ \E S \in SUBSET Pids : Listed(c, S)
    \/ ScriptFails(c) \/ CallReturn(c)

FetchStep(c, p) == Acquire(c, p) \/ Lock(c, p) \/ Collect(c, p)

TracerStep(c, p) == Traced(c, p) \/ TraceFails(c, p)

Lifecycle == RestarterReady \/ SignalerReady \/ RestartReceived \/ Exit

Next ==
    \/ \E c \in Calls : CallBegin(c) \/ HandlerStep(c)
    \/ \E c \in Calls, p \in Pids : FetchStep(c, p) \/ TracerStep(c, p)
    \/ \E r \in Restarts : RestartBegin(r) \/ Trigger(r)
    \/ Lifecycle \/ Signalled \/ Killed \/ Boot \/ Idle

Spec == Init /\ [][Next]_vars

(* The Go scheduler runs what can run and the script returns ...           *)
Scheduling ==
    /\ \A c \in Calls : WF_vars(HandlerStep(c))
    /\ \A c \in Calls, p \in Pids : WF_vars(FetchStep(c, p))
    /\ \A r \in Restarts : WF_vars(Trigger(r))
    /\ WF_vars(RestarterReady) /\ WF_vars(RestartReceived) /\ WF_vars(Exit)

SchedulerSpec == Spec /\ Scheduling

(* ... and so does every pystack, which the code does not see to.          *)
FairSpec == SchedulerSpec /\ \A c \in Calls, p \in Pids : WF_vars(TracerStep(c, p))

-----------------------------------------------------------------------------
(* Properties.                                                             *)

Handler == {"new", "script", "fetching", "ok", "error", "cut"}
Fetch   == {"none", "queued", "tracing", "traced", "broken", "listing", "failing", "done"}

(* Variables keep their shape; a semaphore never holds more than its       *)
(* capacity.                                                               *)
TypeOK ==
    /\ up \in BOOLEAN /\ open \in BOOLEAN /\ token \in BOOLEAN
    /\ boot \in 1..MaxBoots
    /\ restarter \in {"starting", "waiting", "stopping"}
    /\ signaler \in {"starting", "waiting", "stopping"}
    /\ rpc \in [Restarts -> {"new", "running", "answered", "cut"}]
    /\ by \in [Restarts -> 0..MaxBoots]
    /\ call \in [Calls -> Handler]
    /\ selected \in [Calls -> SUBSET Pids]
    /\ fetch \in [Calls -> [Pids -> Fetch]]
    /\ sem \in [Calls -> 0..MaxConcurrent]
    /\ read \in [Calls -> [Pids -> SUBSET Pids]]
    /\ infos \in [Calls -> SUBSET Pids]
    /\ errs \in [Calls -> SUBSET Pids]
    /\ faults \in 0..MaxFaults

(* One request never has more pystacks attached than its semaphore admits, *)
(* in whatever order they end, fail and are collected.                     *)
Tracing(c) == {p \in Pids : fetch[c][p] = "tracing"}

TracersBounded == \A c \in Calls : Cardinality(Tracing(c)) <= MaxConcurrent

(* A GetProcessStacks answer without error lists every selected process:   *)
(* what is missing from it is never a process whose goroutine was slow,    *)
(* whose pystack failed, or whose entry another goroutine has overwritten. *)
AnswerIsComplete ==
    \A c \in Calls : call[c] = "ok" => infos[c] = selected[c] /\ errs[c] = {}

(* Every GetProcessStacks request ends, also when pystacks fail and the    *)
(* semaphore is smaller than the number of processes.                      *)
CallsEnd ==
    \A c \in Calls : call[c] = "script" ~> call[c] \in {"ok", "error", "cut"}

(* A restart request that was answered "Restart initiated" ends the        *)
(* process that answered it, whenever it comes: before the goroutine that  *)
(* waits for it runs, twice, during a signal's shutdown.                   *)
RestartTakesEffect ==
    \A r \in Restarts :
        rpc[r] = "answered" /\ by[r] = boot ~> ~up \/ boot > by[r]
=============================================================================
