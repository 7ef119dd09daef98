------------------------- MODULE AgentServiceProofs -------------------------
(* Theorems about AgentService, for any numbers of requests, processes,    *)
(* semaphore slots, failures and starts.                                   *)
EXTENDS AgentService, TLAPS, FiniteSetTheorems

-----------------------------------------------------------------------------
(* The inductive invariant.                                                *)

(* The types of the process, and of the requests' variables.               *)
Types ==
    /\ up \in BOOLEAN /\ open \in BOOLEAN /\ token \in BOOLEAN
    /\ boot \in 1..MaxBoots
    /\ restarter \in {"starting", "waiting", "stopping"}
    /\ signaler \in {"starting", "waiting", "stopping"}
    /\ rpc \in [Restarts -> {"new", "running", "answered", "cut"}]
    /\ by \in [Restarts -> 0..MaxBoots]
    /\ faults \in 0..MaxFaults

CallTypes ==
    /\ call \in [Calls -> Handler]
    /\ selected \in [Calls -> SUBSET Pids]
    /\ fetch \in [Calls -> [Pids -> Fetch]]
    /\ sem \in [Calls -> 0..MaxConcurrent]
    /\ read \in [Calls -> [Pids -> SUBSET Pids]]
    /\ infos \in [Calls -> SUBSET Pids]
    /\ errs \in [Calls -> SUBSET Pids]

(* The semaphore counts the goroutines between Acquire and the end of      *)
(* their pystack.                                                          *)
SemCounts == \A c \in Calls : sem[c] = Cardinality(Tracing(c))

(* A goroutine that is not done belongs to a request that waits for it,    *)
(* and to a selected process.                                              *)
Awaited ==
    \A c \in Calls, p \in Pids :
        fetch[c][p] \notin {"none", "done"} => call[c] = "fetching" /\ p \in selected[c]

(* Each goroutine that is done has left its process in one of the lists;   *)
(* the lists hold selected processes only, and nothing before the listing. *)
Recorded ==
    \A c \in Calls :
        /\ call[c] \in {"new", "script"} => infos[c] = {} /\ errs[c] = {}
        /\ call[c] = "fetching" =>
              /\ infos[c] \subseteq selected[c]
              /\ \A p \in selected[c] : fetch[c][p] = "done" => p \in infos[c] \union errs[c]
        /\ call[c] = "ok" => infos[c] = selected[c] /\ errs[c] = {}

(* One goroutine of a request at most holds mu, and what it has read is    *)
(* still the list it is about to store.                                    *)
Alone(c) == \A p, q \in InSection(c) : p = q

Fresh(c) ==
    \A p \in Pids : /\ fetch[c][p] = "listing" => read[c][p] = infos[c]
                    /\ fetch[c][p] = "failing" => read[c][p] = errs[c]

Guarded == \A c \in Calls : Alone(c) /\ Fresh(c)

Inv == Types /\ CallTypes /\ SemCounts /\ Awaited /\ Recorded /\ Guarded

-----------------------------------------------------------------------------
(* Any set of goroutines of a request is finite.                           *)
LEMMA TracingFinite ==
    ASSUME NEW c \in Calls
    PROVE  IsFiniteSet(Tracing(c)) /\ Cardinality(Tracing(c)) \in Nat
<1>1. IsFiniteSet(Pids) /\ Tracing(c) \subseteq Pids
  BY ServiceAssumption DEF Tracing
<1> QED  BY <1>1, FS_Subset, FS_CardinalityType

(* Init establishes the invariant.                                         *)
LEMMA InitInv == Init => Inv
<1> SUFFICES ASSUME Init PROVE Inv
  OBVIOUS
<1>1. Types /\ CallTypes
  <2>1. MaxConcurrent \in Nat /\ MaxBoots \in Nat /\ MaxBoots >= 1 /\ MaxFaults \in Nat
    BY ServiceAssumption
  <2>2. Types
    <3>1. up \in BOOLEAN /\ open \in BOOLEAN /\ token \in BOOLEAN
      BY Zenon DEF Init
    <3>2. boot \in 1..MaxBoots /\ by \in [Restarts -> 0..MaxBoots] /\ faults \in 0..MaxFaults
      BY <2>1 DEF Init
    <3>3. rpc \in [Restarts -> {"new", "running", "answered", "cut"}]
      BY DEF Init
    <3>4. restarter = "starting" /\ signaler = "starting"
      BY DEF Init
    <3> QED  BY <3>1, <3>2, <3>3, <3>4 DEF Types
  <2>3. CallTypes
    BY <2>1 DEF Init, CallTypes, Handler, Fetch
  <2> QED  BY <2>2, <2>3
<1>2. SemCounts
  <2> SUFFICES ASSUME NEW c \in Calls PROVE sem[c] = Cardinality(Tracing(c))
    BY DEF SemCounts
  <2>1. Tracing(c) = {}
    BY DEF Init, Tracing
  <2> QED  BY <2>1, FS_EmptySet DEF Init
<1>3. Awaited /\ Recorded
  BY DEF Init, Awaited, Recorded
<1>4. Guarded
  BY DEF Init, Guarded, Alone, Fresh, InSection
<1> QED  BY <1>1, <1>2, <1>3, <1>4 DEF Inv

(* A step that changes no goroutine and no semaphore keeps the count.      *)
LEMMA SameCount ==
    ASSUME SemCounts, UNCHANGED <<fetch, sem>>
    PROVE  SemCounts'
BY DEF SemCounts, Tracing

(* Nor does one that changes neither goroutine nor list disturb mu.        *)
LEMMA SameSection ==
    ASSUME Guarded, UNCHANGED <<fetch, read, infos, errs>>
    PROVE  Guarded'
BY DEF Guarded, Alone, Fresh, InSection

(* A goroutine that moves outside mu does not disturb it either.           *)
LEMMA MoveOutside ==
    ASSUME Guarded, CallTypes, NEW c \in Calls, NEW p \in Pids, p \notin InSection(c),
           NEW to \in {"tracing", "traced", "broken"},
           fetch' = [fetch EXCEPT ![c][p] = to], UNCHANGED <<read, infos, errs>>
    PROVE  Guarded'
<1>1. ASSUME NEW d \in Calls
      PROVE  /\ InSection(d)' = InSection(d)
             /\ \A q \in Pids : fetch'[d][q] \in {"listing", "failing"} => fetch'[d][q] = fetch[d][q]
  <2>1. fetch \in [Calls -> [Pids -> Fetch]]
    BY DEF CallTypes
  <2>2. \A q \in Pids : fetch'[d][q] = IF d = c /\ q = p THEN to ELSE fetch[d][q]
    BY <2>1
  <2> QED  BY <2>2 DEF InSection
<1>2. \A d \in Calls : Alone(d)'
  BY <1>1 DEF Guarded, Alone
<1>3. \A d \in Calls : Fresh(d)'
  BY <1>1 DEF Guarded, Fresh
<1> QED  BY <1>2, <1>3 DEF Guarded

(* A goroutine gets a slot.                                                *)
LEMMA AcquireInv ==
    ASSUME Inv, NEW c \in Calls, NEW p \in Pids, Acquire(c, p)
    PROVE  Inv'
<1>1. /\ fetch[c][p] = "queued" /\ sem[c] < MaxConcurrent
      /\ sem' = [sem EXCEPT ![c] = @ + 1]
      /\ fetch' = [fetch EXCEPT ![c][p] = "tracing"]
      /\ UNCHANGED <<up, boot, open, token, restarter, signaler, rpc, by,
                     call, selected, read, infos, errs, faults>>
  BY DEF Acquire, process, requests
<1>2. /\ fetch \in [Calls -> [Pids -> Fetch]] /\ sem \in [Calls -> 0..MaxConcurrent]
      /\ MaxConcurrent \in Nat
  BY ServiceAssumption DEF Inv, CallTypes
<1>3. Types'
  BY <1>1 DEF Inv, Types
<1>4. CallTypes'
  <2>1. fetch' \in [Calls -> [Pids -> Fetch]]
    BY <1>1, <1>2 DEF Fetch
  <2>2. sem' \in [Calls -> 0..MaxConcurrent]
    BY <1>1, <1>2
  <2> QED  BY <1>1, <2>1, <2>2 DEF Inv, CallTypes
<1>5. SemCounts'
  <2> SUFFICES ASSUME NEW d \in Calls PROVE sem'[d] = Cardinality(Tracing(d)')
    BY DEF SemCounts
  <2>1. CASE d = c
    <3>1. Tracing(c)' = Tracing(c) \union {p} /\ p \notin Tracing(c)
      BY <1>1, <1>2 DEF Tracing
    <3>2. Cardinality(Tracing(c)') = Cardinality(Tracing(c)) + 1
      BY <3>1, TracingFinite, FS_AddElement
    <3> QED  BY <2>1, <3>2, <1>1, <1>2 DEF Inv, SemCounts
  <2>2. CASE d # c
    <3>1. Tracing(d)' = Tracing(d) /\ sem'[d] = sem[d]
      BY <2>2, <1>1, <1>2 DEF Tracing
    <3> QED  BY <3>1 DEF Inv, SemCounts
  <2> QED  BY <2>1, <2>2
<1>6. Awaited'
  BY <1>1, <1>2 DEF Inv, Awaited
<1>7. Recorded'
  BY <1>1, <1>2 DEF Inv, Recorded
<1>8. Guarded'
  BY <1>1, MoveOutside DEF Inv, InSection
<1> QED  BY <1>3, <1>4, <1>5, <1>6, <1>7, <1>8 DEF Inv

(* pystack ends, and its goroutine gives the slot back.                    *)
LEMMA TracerInv ==
    ASSUME Inv, NEW c \in Calls, NEW p \in Pids, TracerStep(c, p)
    PROVE  Inv'
<1>1. PICK end \in {"traced", "broken"} :
         /\ fetch[c][p] = "tracing"
         /\ fetch' = [fetch EXCEPT ![c][p] = end]
         /\ sem' = [sem EXCEPT ![c] = @ - 1]
  BY DEF TracerStep, Traced, TraceFails
<1>2. UNCHANGED <<up, boot, open, token, restarter, signaler, rpc, by,
                  call, selected, read, infos, errs>>
  BY DEF TracerStep, Traced, TraceFails, process, requests
<1>3. /\ fetch \in [Calls -> [Pids -> Fetch]] /\ sem \in [Calls -> 0..MaxConcurrent]
      /\ MaxConcurrent \in Nat
  BY ServiceAssumption DEF Inv, CallTypes
<1>4. Types'
  <2>1. faults' \in 0..MaxFaults
    BY ServiceAssumption DEF TracerStep, Traced, TraceFails, Inv, Types
  <2> QED  BY <1>2, <2>1 DEF Inv, Types
<1>5. SemCounts' /\ sem' \in [Calls -> 0..MaxConcurrent]
  <2>1. /\ Tracing(c)' = Tracing(c) \ {p} /\ p \in Tracing(c)
    BY <1>1, <1>3 DEF Tracing
  <2>2. /\ Cardinality(Tracing(c)') = Cardinality(Tracing(c)) - 1
        /\ Cardinality(Tracing(c)') \in Nat
    <3>1. IsFiniteSet(Tracing(c)) /\ Cardinality(Tracing(c)) \in Nat
      BY TracingFinite
    <3>2. IsFiniteSet(Tracing(c)') /\ Cardinality(Tracing(c)') \in Nat
      BY <2>1, <3>1, FS_RemoveElement, FS_CardinalityType
    <3> QED  BY <2>1, <3>1, <3>2, FS_RemoveElement
  <2>3. sem'[c] = Cardinality(Tracing(c)') /\ sem'[c] \in 0..MaxConcurrent
    <3>1. sem[c] = Cardinality(Tracing(c)) /\ sem'[c] = sem[c] - 1 /\ sem[c] \in 0..MaxConcurrent
      BY <1>1, <1>3 DEF Inv, SemCounts
    <3> QED  BY <3>1, <2>2, <1>3
  <2>4. \A d \in Calls : d # c => Tracing(d)' = Tracing(d) /\ sem'[d] = sem[d]
    BY <1>1, <1>3 DEF Tracing
  <2>5. SemCounts'
    <3> SUFFICES ASSUME NEW d \in Calls PROVE sem'[d] = Cardinality(Tracing(d)')
      BY DEF SemCounts
    <3>1. CASE d = c
      BY <3>1, <2>3
    <3>2. CASE d # c
      BY <3>2, <2>4 DEF Inv, SemCounts
    <3> QED  BY <3>1, <3>2
  <2>6. sem' \in [Calls -> 0..MaxConcurrent]
    <3>1. \A d \in Calls : sem'[d] \in 0..MaxConcurrent
      BY <2>3, <2>4, <1>3
    <3>2. sem' = [d \in Calls |-> sem'[d]]
      BY <1>1, <1>3
    <3> QED  BY <3>1, <3>2
  <2> QED  BY <2>5, <2>6
<1>6. CallTypes'
  <2>1. fetch' \in [Calls -> [Pids -> Fetch]]
    BY <1>1, <1>3 DEF Fetch
  <2> QED  BY <1>2, <1>5, <2>1 DEF Inv, CallTypes
<1>7. Awaited'
  BY <1>1, <1>2, <1>3 DEF Inv, Awaited
<1>8. Recorded'
  BY <1>1, <1>2, <1>3 DEF Inv, Recorded
<1>9. Guarded'
  BY <1>1, <1>2, MoveOutside DEF Inv, InSection
<1> QED  BY <1>4, <1>5, <1>6, <1>7, <1>8, <1>9 DEF Inv

(* A goroutine takes mu and reads the list its entry goes to.              *)
LEMMA LockInv ==
    ASSUME Inv, NEW c \in Calls, NEW p \in Pids, Lock(c, p)
    PROVE  Inv'
<1> DEFINE section == IF fetch[c][p] = "traced" THEN "listing" ELSE "failing"
           list == IF fetch[c][p] = "traced" THEN infos[c] ELSE errs[c]
<1>1. /\ fetch[c][p] \in {"traced", "broken"} /\ InSection(c) = {}
      /\ fetch' = [fetch EXCEPT ![c][p] = section]
      /\ read' = [read EXCEPT ![c][p] = list]
      /\ UNCHANGED <<up, boot, open, token, restarter, signaler, rpc, by,
                     call, selected, sem, infos, errs, faults>>
  BY DEF Lock, process, requests
<1>2. /\ fetch \in [Calls -> [Pids -> Fetch]] /\ read \in [Calls -> [Pids -> SUBSET Pids]]
      /\ list \in SUBSET Pids /\ section \in {"listing", "failing"}
  BY DEF Inv, CallTypes
<1>3. Types'
  BY <1>1 DEF Inv, Types
<1>4. /\ fetch[c][p] = "traced" => section = "listing" /\ list = infos[c]
      /\ fetch[c][p] = "broken" => section = "failing" /\ list = errs[c]
  OBVIOUS
<1> HIDE DEF section, list
<1>5. CallTypes'
  <2>1. fetch' \in [Calls -> [Pids -> Fetch]]
    BY <1>1, <1>2 DEF Fetch
  <2>2. read' \in [Calls -> [Pids -> SUBSET Pids]]
    BY <1>1, <1>2
  <2> QED  BY <1>1, <2>1, <2>2 DEF Inv, CallTypes
<1>6. \A d \in Calls, q \in Pids :
         /\ fetch'[d][q] = IF d = c /\ q = p THEN section ELSE fetch[d][q]
         /\ read'[d][q] = IF d = c /\ q = p THEN list ELSE read[d][q]
  BY <1>1, <1>2
<1>7. SemCounts'
  <2>1. \A d \in Calls : Tracing(d)' = Tracing(d)
    BY <1>1, <1>2, <1>6 DEF Tracing
  <2> QED  BY <2>1, <1>1 DEF Inv, SemCounts
<1>8. Awaited'
  BY <1>1, <1>2, <1>6 DEF Inv, Awaited
<1>9. Recorded'
  <2>1. \A d \in Calls, q \in Pids : fetch'[d][q] = "done" => fetch[d][q] = "done"
    BY <1>1, <1>2, <1>6
  <2>2. \A d \in Calls : selected[d] \subseteq Pids
    BY DEF Inv, CallTypes
  <2> QED  BY <1>1, <2>1, <2>2 DEF Inv, Recorded
<1>10. Guarded'
  <2>1. ASSUME NEW d \in Calls PROVE Alone(d)'
    <3>1. CASE d = c
      <4>1. InSection(c)' \subseteq {p}
        BY <1>1, <1>6 DEF InSection
      <4> QED  BY <3>1, <4>1 DEF Alone
    <3>2. CASE d # c
      <4>1. InSection(d)' = InSection(d)
        BY <3>2, <1>6 DEF InSection
      <4> QED  BY <4>1 DEF Inv, Guarded, Alone
    <3> QED  BY <3>1, <3>2
  <2>2. ASSUME NEW d \in Calls PROVE Fresh(d)'
    <3>1. CASE d = c
      <4>1. \A q \in Pids : q # p => fetch'[c][q] \notin {"listing", "failing"}
        BY <1>1, <1>6 DEF InSection
      <4>2. fetch'[c][p] = section /\ read'[c][p] = list
        BY <1>6
      <4> QED  BY <3>1, <4>1, <4>2, <1>1, <1>4 DEF Fresh
    <3>2. CASE d # c
      <4>1. \A q \in Pids : fetch'[d][q] = fetch[d][q] /\ read'[d][q] = read[d][q]
        BY <3>2, <1>6
      <4> QED  BY <4>1, <1>1 DEF Inv, Guarded, Fresh
    <3> QED  BY <3>1, <3>2
  <2> QED  BY <2>1, <2>2 DEF Guarded
<1> QED  BY <1>3, <1>5, <1>7, <1>8, <1>9, <1>10 DEF Inv

(* A goroutine records its process and is done.                            *)
LEMMA CollectInv ==
    ASSUME Inv, NEW c \in Calls, NEW p \in Pids, Collect(c, p)
    PROVE  Inv'
<1>1. /\ fetch[c][p] \in {"listing", "failing"} /\ p \in InSection(c)
      /\ fetch' = [fetch EXCEPT ![c][p] = "done"]
      /\ read' = [read EXCEPT ![c][p] = {}]
      /\ UNCHANGED <<up, boot, open, token, restarter, signaler, rpc, by,
                     call, selected, sem, faults>>
  BY DEF Collect, InSection, process, requests
<1>2. \/ infos' = [infos EXCEPT ![c] = @ \union {p}] /\ UNCHANGED errs
      \/ errs' = [errs EXCEPT ![c] = @ \union {p}] /\ UNCHANGED infos
  <2>1. /\ fetch[c][p] = "listing" => read[c][p] = infos[c]
        /\ fetch[c][p] = "failing" => read[c][p] = errs[c]
    BY DEF Inv, Guarded, Fresh
  <2>2. CASE fetch[c][p] = "listing"
    BY <2>1, <2>2 DEF Collect
  <2>3. CASE fetch[c][p] = "failing"
    BY <2>1, <2>3 DEF Collect
  <2> QED  BY <1>1, <2>2, <2>3
<1>3. /\ fetch \in [Calls -> [Pids -> Fetch]]
      /\ infos \in [Calls -> SUBSET Pids] /\ errs \in [Calls -> SUBSET Pids]
      /\ read \in [Calls -> [Pids -> SUBSET Pids]]
  BY DEF Inv, CallTypes
<1>4. Types'
  BY <1>1 DEF Inv, Types
<1>5. CallTypes'
  <2>1. fetch' \in [Calls -> [Pids -> Fetch]]
    BY <1>1, <1>3 DEF Fetch
  <2>2. infos' \in [Calls -> SUBSET Pids] /\ errs' \in [Calls -> SUBSET Pids]
    <3>1. /\ infos \in [Calls -> SUBSET Pids] /\ errs \in [Calls -> SUBSET Pids]
          /\ infos[c] \union {p} \in SUBSET Pids /\ errs[c] \union {p} \in SUBSET Pids
      BY <1>3
    <3> QED  BY <1>2, <3>1
  <2>3. read' \in [Calls -> [Pids -> SUBSET Pids]]
    BY <1>1, <1>3
  <2> QED  BY <1>1, <2>1, <2>2, <2>3 DEF Inv, CallTypes
<1>6. SemCounts'
  <2>1. \A d \in Calls : Tracing(d)' = Tracing(d)
    BY <1>1, <1>3 DEF Tracing
  <2> QED  BY <2>1, <1>1 DEF Inv, SemCounts
<1>7. Awaited'
  BY <1>1, <1>3 DEF Inv, Awaited
<1>8. call[c] = "fetching" /\ p \in selected[c]
  BY <1>1 DEF Inv, Awaited
<1>9. Recorded'
  <2> SUFFICES ASSUME NEW d \in Calls
               PROVE  /\ call[d] \in {"new", "script"} => infos'[d] = {} /\ errs'[d] = {}
                      /\ call[d] = "fetching" =>
                            /\ infos'[d] \subseteq selected[d]
                            /\ \A q \in selected[d] : fetch'[d][q] = "done" => q \in infos'[d] \union errs'[d]
                      /\ call[d] = "ok" => infos'[d] = selected[d] /\ errs'[d] = {}
    BY <1>1 DEF Recorded
  <2>1. CASE d # c
    <3>1. infos'[d] = infos[d] /\ errs'[d] = errs[d] /\ fetch'[d] = fetch[d]
      BY <2>1, <1>1, <1>2, <1>3
    <3> QED  BY <3>1 DEF Inv, Recorded
  <2>2. CASE d = c
    <3>1. /\ infos[c] \subseteq selected[c]
          /\ \A q \in selected[c] : fetch[c][q] = "done" => q \in infos[c] \union errs[c]
      BY <1>8 DEF Inv, Recorded
    <3>2. /\ infos[c] \union errs[c] \union {p} = infos'[c] \union errs'[c]
          /\ infos'[c] \subseteq infos[c] \union {p}
      BY <1>2, <1>3
    <3>3. \A q \in Pids : q # p => fetch'[c][q] = fetch[c][q]
      BY <1>1, <1>3
    <3>4. selected[c] \subseteq Pids
      BY DEF Inv, CallTypes
    <3>5. infos'[c] \subseteq selected[c]
      BY <3>1, <3>2, <1>8
    <3>6. \A q \in selected[c] : fetch'[c][q] = "done" => q \in infos'[c] \union errs'[c]
      BY <3>1, <3>2, <3>3, <3>4
    <3> QED  BY <2>2, <3>5, <3>6, <1>8
  <2> QED  BY <2>1, <2>2
<1>10. Guarded'
  <2>1. ASSUME NEW d \in Calls
        PROVE  /\ InSection(d)' = InSection(d) \ (IF d = c THEN {p} ELSE {})
               /\ \A q \in Pids : d # c \/ q # p =>
                     fetch'[d][q] = fetch[d][q] /\ read'[d][q] = read[d][q]
    <3>1. \A q \in Pids : /\ fetch'[d][q] = IF d = c /\ q = p THEN "done" ELSE fetch[d][q]
                          /\ read'[d][q] = IF d = c /\ q = p THEN {} ELSE read[d][q]
      BY <1>1, <1>3
    <3> QED  BY <3>1 DEF InSection
  <2>2. InSection(c)' = {}
    BY <2>1, <1>1 DEF Inv, Guarded, Alone
  <2>3. ASSUME NEW d \in Calls PROVE Alone(d)'
    <3>1. InSection(d)' \subseteq InSection(d)
      BY <2>1
    <3> QED  BY <3>1 DEF Inv, Guarded, Alone
  <2>4. ASSUME NEW d \in Calls PROVE Fresh(d)'
    <3>1. CASE d = c
      BY <3>1, <2>2 DEF Fresh, InSection
    <3>2. CASE d # c
      <4>1. infos'[d] = infos[d] /\ errs'[d] = errs[d]
        BY <3>2, <1>2, <1>3
      <4> QED  BY <3>2, <4>1, <2>1 DEF Inv, Guarded, Fresh
    <3> QED  BY <3>1, <3>2
  <2> QED  BY <2>3, <2>4 DEF Guarded
<1> QED  BY <1>4, <1>5, <1>6, <1>7, <1>9, <1>10 DEF Inv

(* The script has listed the processes.                                    *)
LEMMA ListedInv ==
    ASSUME Inv, NEW c \in Calls, NEW S \in SUBSET Pids, Listed(c, S)
    PROVE  Inv'
<1>1. /\ call[c] = "script"
      /\ call' = [call EXCEPT ![c] = "fetching"]
      /\ selected' = [selected EXCEPT ![c] = S]
      /\ fetch' = [fetch EXCEPT ![c] = [p \in Pids |-> IF p \in S THEN "queued" ELSE "none"]]
      /\ UNCHANGED <<up, boot, open, token, restarter, signaler, rpc, by, sem, read, infos, errs, faults>>
  BY DEF Listed, process, requests
<1>2. /\ call \in [Calls -> Handler] /\ selected \in [Calls -> SUBSET Pids]
      /\ fetch \in [Calls -> [Pids -> Fetch]]
  BY DEF Inv, CallTypes
<1>3. Types'
  BY <1>1 DEF Inv, Types
<1>4. CallTypes'
  <2>1. call' \in [Calls -> Handler] /\ selected' \in [Calls -> SUBSET Pids]
    BY <1>1, <1>2 DEF Handler
  <2>2. fetch' \in [Calls -> [Pids -> Fetch]]
    BY <1>1, <1>2 DEF Fetch
  <2> QED  BY <1>1, <2>1, <2>2 DEF Inv, CallTypes
<1>5. SemCounts'
  <2> SUFFICES ASSUME NEW d \in Calls PROVE Tracing(d)' = Tracing(d)
    BY <1>1 DEF Inv, SemCounts
  <2>1. CASE d = c
    <3>1. Tracing(c) = {}
      BY <1>1, <1>2 DEF Inv, Awaited, Tracing
    <3>2. Tracing(c)' = {}
      BY <1>1, <1>2 DEF Tracing
    <3> QED  BY <2>1, <3>1, <3>2
  <2>2. CASE d # c
    BY <2>2, <1>1, <1>2 DEF Tracing
  <2> QED  BY <2>1, <2>2
<1>6. Awaited'
  BY <1>1, <1>2 DEF Inv, Awaited
<1>7. Recorded'
  BY <1>1, <1>2 DEF Inv, Recorded
<1>8. Guarded'
  <2>1. ASSUME NEW d \in Calls PROVE Alone(d)' /\ Fresh(d)'
    <3>1. CASE d = c
      <4>1. \A q \in Pids : fetch'[c][q] \in {"queued", "none"}
        BY <1>1, <1>2
      <4> QED  BY <3>1, <4>1 DEF Alone, Fresh, InSection
    <3>2. CASE d # c
      <4>1. fetch'[d] = fetch[d]
        BY <3>2, <1>1, <1>2
      <4> QED  BY <4>1, <1>1 DEF Inv, Guarded, Alone, Fresh, InSection
    <3> QED  BY <3>1, <3>2
  <2> QED  BY <2>1 DEF Guarded
<1> QED  BY <1>3, <1>4, <1>5, <1>6, <1>7, <1>8 DEF Inv

(* A request begins, fails in its script, or returns.                      *)
LEMMA CallInv ==
    ASSUME Inv, NEW c \in Calls, CallBegin(c) \/ ScriptFails(c) \/ CallReturn(c)
    PROVE  Inv'
<1>1. /\ UNCHANGED <<up, boot, open, token, restarter, signaler, rpc, by,
                     selected, fetch, sem, read, infos, errs>>
      /\ \/ call[c] = "new" /\ call' = [call EXCEPT ![c] = "script"]
         \/ call[c] = "script" /\ call' = [call EXCEPT ![c] = "error"]
         \/ /\ call[c] = "fetching" /\ \A p \in selected[c] : fetch[c][p] = "done"
            /\ call' = [call EXCEPT ![c] = IF errs[c] = {} THEN "ok" ELSE "error"]
  BY DEF CallBegin, ScriptFails, CallReturn, process, requests
<1>2. call \in [Calls -> Handler]
  BY DEF Inv, CallTypes
<1>3. Types'
  <2>1. faults' \in 0..MaxFaults
    BY ServiceAssumption DEF CallBegin, ScriptFails, CallReturn, Inv, Types
  <2> QED  BY <1>1, <2>1 DEF Inv, Types
<1>4. CallTypes'
  <2>1. call' \in [Calls -> Handler]
    BY <1>1, <1>2 DEF Handler
  <2> QED  BY <1>1, <2>1 DEF Inv, CallTypes
<1>5. SemCounts'
  BY <1>1, SameCount DEF Inv
<1>6. Awaited'
  <2> SUFFICES ASSUME NEW d \in Calls, NEW p \in Pids, fetch[d][p] \notin {"none", "done"}
               PROVE  call'[d] = "fetching" /\ p \in selected[d]
    BY <1>1 DEF Awaited
  <2>1. call[d] = "fetching" /\ p \in selected[d]
    BY DEF Inv, Awaited
  <2>2. d # c
    BY <1>1, <2>1
  <2> QED  BY <1>1, <1>2, <2>1, <2>2
<1>7. Recorded'
  <2> SUFFICES ASSUME NEW d \in Calls
               PROVE  /\ call'[d] \in {"new", "script"} => infos[d] = {} /\ errs[d] = {}
                      /\ call'[d] = "fetching" =>
                            /\ infos[d] \subseteq selected[d]
                            /\ \A q \in selected[d] : fetch[d][q] = "done" => q \in infos[d] \union errs[d]
                      /\ call'[d] = "ok" => infos[d] = selected[d] /\ errs[d] = {}
    BY <1>1 DEF Recorded
  <2>1. CASE d # c
    <3>1. call'[d] = call[d]
      BY <2>1, <1>1, <1>2
    <3> QED  BY <3>1 DEF Inv, Recorded
  <2>2. CASE d = c
    BY <2>2, <1>1, <1>2 DEF Inv, Recorded
  <2> QED  BY <2>1, <2>2
<1>8. Guarded'
  BY <1>1, SameSection DEF Inv
<1> QED  BY <1>3, <1>4, <1>5, <1>6, <1>7, <1>8 DEF Inv

(* The process ends, whatever its goroutines were doing.                   *)
LEMMA EndedInv ==
    ASSUME Inv, Ended
    PROVE  Inv'
<1>1. /\ fetch' = [c \in Calls |-> [p \in Pids |-> "none"]]
      /\ sem' = [c \in Calls |-> 0]
      /\ read' = [c \in Calls |-> [p \in Pids |-> {}]]
      /\ call' = [c \in Calls |-> IF call[c] \in {"script", "fetching"} THEN "cut" ELSE call[c]]
      /\ UNCHANGED <<selected, infos, errs>>
  BY DEF Ended
<1>2. Types'
  BY DEF Inv, Types, Ended
<1>3. CallTypes'
  BY <1>1, ServiceAssumption DEF Inv, CallTypes, Handler, Fetch
<1>4. SemCounts'
  <2> SUFFICES ASSUME NEW c \in Calls PROVE sem'[c] = Cardinality(Tracing(c)')
    BY DEF SemCounts
  <2>1. Tracing(c)' = {}
    BY <1>1 DEF Tracing
  <2> QED  BY <2>1, <1>1, FS_EmptySet
<1>5. Awaited' /\ Recorded' /\ Guarded'
  BY <1>1 DEF Inv, Awaited, Recorded, Guarded, Alone, Fresh, InSection
<1> QED  BY <1>2, <1>3, <1>4, <1>5 DEF Inv

(* Restart requests and the life of the process leave the stacks alone.    *)
LEMMA LifeInv ==
    ASSUME Inv, UNCHANGED <<stacks, faults>>, Types'
    PROVE  Inv'
BY DEF Inv, CallTypes, SemCounts, Tracing, Awaited, Recorded, Guarded, Alone, Fresh, InSection, stacks

(* Every step preserves the invariant.                                     *)
LEMMA StepInv == Inv /\ [Next]_vars => Inv'
<1> SUFFICES ASSUME Inv, [Next]_vars PROVE Inv'
  OBVIOUS
<1>1. CASE UNCHANGED vars
  <2>1. Types'
    BY <1>1 DEF vars, process, requests, Inv, Types
  <2> QED  BY <1>1, <2>1, LifeInv DEF vars
<1>2. ASSUME NEW c \in Calls, CallBegin(c) \/ HandlerStep(c) PROVE Inv'
  BY <1>2, ListedInv, CallInv DEF HandlerStep
<1>3. ASSUME NEW c \in Calls, NEW p \in Pids, FetchStep(c, p) \/ TracerStep(c, p) PROVE Inv'
  BY <1>3, AcquireInv, LockInv, CollectInv, TracerInv DEF FetchStep
<1>4. ASSUME NEW r \in Restarts, RestartBegin(r) \/ Trigger(r) PROVE Inv'
  <2>1. Types'
    <3>1. Types /\ boot \in 0..MaxBoots
      BY ServiceAssumption DEF Inv, Types
    <3>2. CASE RestartBegin(r)
      BY <3>1, <3>2 DEF RestartBegin, process, Types
    <3>3. CASE Trigger(r)
      <4>1. /\ rpc' = [rpc EXCEPT ![r] = "answered"] /\ by' = [by EXCEPT ![r] = boot]
            /\ token' = TRUE
            /\ UNCHANGED <<up, boot, open, restarter, signaler, faults>>
        BY <3>3 DEF Trigger
      <4>2. by' \in [Restarts -> 0..MaxBoots]
        BY <3>1, <4>1 DEF Types
      <4>3. rpc' \in [Restarts -> {"new", "running", "answered", "cut"}]
        BY <3>1, <4>1 DEF Types
      <4>4. token' \in BOOLEAN
        BY <4>1, Zenon
      <4> QED  BY <3>1, <4>1, <4>2, <4>3, <4>4 DEF Types
    <3> QED  BY <1>4, <3>2, <3>3
  <2> QED  BY <1>4, <2>1, LifeInv DEF RestartBegin, Trigger
<1>5. CASE RestarterReady \/ SignalerReady \/ RestartReceived \/ Signalled
  <2>1. Types
    BY DEF Inv
  <2>2. Types'
    <3>1. CASE RestarterReady
      BY <3>1, <2>1 DEF RestarterReady, requests, Types
    <3>2. CASE SignalerReady
      BY <3>2, <2>1 DEF SignalerReady, requests, Types
    <3>3. CASE RestartReceived
      BY <3>3, <2>1 DEF RestartReceived, requests, Types
    <3>4. CASE Signalled
      BY <3>4, <2>1 DEF Signalled, requests, Types
    <3> QED  BY <1>5, <3>1, <3>2, <3>3, <3>4
  <2> QED  BY <1>5, <2>2, LifeInv DEF RestarterReady, SignalerReady, RestartReceived, Signalled
<1>6. CASE Exit \/ Killed
  BY <1>6, EndedInv DEF Exit, Killed
<1>7. CASE Boot
  <2>1. Types'
    BY <1>7, ServiceAssumption DEF Boot, requests, Inv, Types
  <2> QED  BY <1>7, <2>1, LifeInv DEF Boot
<1>8. CASE Idle
  BY <1>8, <1>1 DEF Idle
<1> QED  BY <1>1, <1>2, <1>3, <1>4, <1>5, <1>6, <1>7, <1>8 DEF Next, Lifecycle

-----------------------------------------------------------------------------
(* The invariant holds in every reachable state.                           *)
LEMMA Invariance == Spec => []Inv
BY InitInv, StepInv, PTL DEF Spec

(* Every variable of the agent keeps its shape; in particular no semaphore *)
(* holds more than its capacity or gives back a slot nobody took.          *)
THEOREM TypeCorrect == Spec => []TypeOK
<1>1. Inv => TypeOK
  BY DEF Inv, Types, CallTypes, TypeOK
<1> QED  BY <1>1, Invariance, PTL

(* The semaphore of a GetProcessStacks request bounds the pystacks that    *)
(* run for it, however many processes, failures and restarts there are.    *)
THEOREM SemaphoreBounds == Spec => []TracersBounded
<1>1. Inv => TracersBounded
  <2> SUFFICES ASSUME Inv, NEW c \in Calls PROVE Cardinality(Tracing(c)) <= MaxConcurrent
    BY DEF TracersBounded
  <2>1. sem[c] \in 0..MaxConcurrent /\ sem[c] = Cardinality(Tracing(c))
    BY DEF Inv, CallTypes, SemCounts
  <2> QED  BY <2>1, ServiceAssumption
<1> QED  BY <1>1, Invariance, PTL

(* mu, wg.Wait and the joined errors of GetProcessStacks: no goroutine's   *)
(* entry is overwritten, and an answer without error lists each selected   *)
(* process.                                                                *)
THEOREM AnswersComplete == Spec => []AnswerIsComplete
<1>1. Inv => AnswerIsComplete
  BY DEF Inv, Recorded, AnswerIsComplete
<1> QED  BY <1>1, Invariance, PTL
=============================================================================
