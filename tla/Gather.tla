------------------------------- MODULE Gather -------------------------------
(***************************************************************************)
(* What every command of the client promises its user: it asks some        *)
(* addresses, hears from each of them once, an answer or an error, and     *)
(* only then tells what it heard.  A client that dies tells nothing.       *)
(*                                                                         *)
(* FanOut, HangCheck and AlertPolling are shown to implement it.  That the *)
(* client does come to tell is a liveness property of each of them, under  *)
(* its own fairness.                                                       *)
(***************************************************************************)

CONSTANT Addresses  \* whom the client may ask

VARIABLES
    phase,  \* idle, asking, told
    heard   \* what it has from each address: unasked, waiting, ok, error

vars == <<phase, heard>>

Nobody == [a \in Addresses |-> "unasked"]

Init == phase = "idle" /\ heard = Nobody

Asked(S) == [a \in Addresses |-> IF a \in S THEN "waiting" ELSE "unasked"]

(* A new round, or a new command.                                          *)
Ask(S) ==
    /\ phase # "asking"
    /\ phase' = "asking" /\ heard' = Asked(S)

(* One address at a time, in any order.                                    *)
Hear(a) ==
    /\ phase = "asking" /\ heard[a] = "waiting"
    /\ \E word \in {"ok", "error"} : heard' = [heard EXCEPT ![a] = word]
    /\ UNCHANGED phase

Tell ==
    /\ phase = "asking" /\ \A a \in Addresses : heard[a] # "waiting"
    /\ phase' = "told"
    /\ UNCHANGED heard

(* The client is killed, or a new one is started.                          *)
Leave ==
    /\ phase # "idle"
    /\ phase' = "idle" /\ heard' = Nobody

Next == \/ \E S \in SUBSET Addresses : Ask(S)
        \/ \E a \in Addresses : Hear(a)
        \/ Tell \/ Leave

Spec == Init /\ [][Next]_vars
=============================================================================
