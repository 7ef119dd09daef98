------------------------------ MODULE AlertLog ------------------------------
(***************************************************************************)
(* What the event store promises its callers, with no files, index, marks  *)
(* or mutexes: a log of the alerts it has acknowledged, out of which       *)
(* queries are answered.                                                   *)
(*                                                                         *)
(* A query is answered completely: what it asks for and was in the log     *)
(* when it came is in the answer, or, when it asks for unprocessed alerts, *)
(* with another query.  An alert of an answer that has been given is not   *)
(* given to a later query for unprocessed alerts.  The promise does not    *)
(* cover alerts that are spoilt, nor those a query missed; a store that    *)
(* keeps it says which they are.                                           *)
(***************************************************************************)

CONSTANTS
    Alerts,
    Queries  \* requests for alerts, each made once

VARIABLES
    log,     \* alerts acknowledged
    spoilt,  \* alerts that are not promised any more
    place,   \* where each query stands
    fresh,   \* whether it asks for unprocessed alerts only
    owed,    \* alerts it has to account for
    answer   \* alerts it has

vars == <<log, spoilt, place, fresh, owed, answer>>

Init ==
    /\ log = {} /\ spoilt = {}
    /\ place = [q \in Queries |-> "new"]
    /\ fresh \in [Queries -> BOOLEAN]
    /\ owed = [q \in Queries |-> {}]
    /\ answer = [q \in Queries |-> {}]

(* The alerts of the answers given so far.                                 *)
Given == UNION {answer[q] : q \in {q \in Queries : place[q] = "done"}}

(* An alert may be spoilt when it is acknowledged, or at any time after.   *)
Accept(a) ==
    /\ a \notin log
    /\ log' = log \union {a}
    /\ spoilt' \in {spoilt, spoilt \union {a}}
    /\ UNCHANGED <<place, fresh, owed, answer>>

Spoil ==
    /\ spoilt \subseteq spoilt' /\ spoilt' \subseteq log
    /\ UNCHANGED <<log, place, fresh, owed, answer>>

(* The query says which alerts of the log it asks for.                     *)
Ask(q) ==
    /\ place[q] = "new"
    /\ place' = [place EXCEPT ![q] = "open"]
    /\ \E kind \in BOOLEAN : fresh' = [fresh EXCEPT ![q] = kind]
    /\ \E S \in SUBSET log : owed' = [owed EXCEPT ![q] = S]
    /\ UNCHANGED <<log, spoilt, answer>>

Read(q) ==
    /\ place[q] = "open"
    /\ \E S \in SUBSET Alerts :
          /\ fresh[q] => S \intersect Given \intersect log \subseteq spoilt
          /\ answer' = [answer EXCEPT ![q] = @ \union S]
    /\ UNCHANGED <<log, spoilt, place, fresh, owed>>

Miss(q) ==
    /\ place[q] = "open"
    /\ \E S \in SUBSET Alerts : owed' = [owed EXCEPT ![q] = @ \ S]
    /\ UNCHANGED <<log, spoilt, place, fresh, answer>>

Elsewhere(q) == IF fresh[q] THEN UNION {answer[p] : p \in Queries} ELSE {}

Answer(q) ==
    /\ place[q] = "open"
    /\ owed[q] \subseteq answer[q] \union Elsewhere(q) \union spoilt
    /\ place' = [place EXCEPT ![q] = "done"]
    /\ UNCHANGED <<log, spoilt, fresh, owed, answer>>

(* Open queries die; some of what they had may go to others after all.     *)
Crash ==
    /\ place' = [q \in Queries |-> IF place[q] = "open" THEN "gone" ELSE place[q]]
    /\ \A q \in Queries :
          IF place[q] = "open" THEN answer'[q] \subseteq answer[q] ELSE answer'[q] = answer[q]
    /\ UNCHANGED <<log, spoilt, fresh, owed>>

Next ==
    \/ Spoil
    \/ \E a \in Alerts : Accept(a)
    \/ \E q \in Queries : Ask(q) \/ Read(q) \/ Miss(q) \/ Answer(q)
    \/ Crash

Spec == Init /\ [][Next]_vars
=============================================================================
