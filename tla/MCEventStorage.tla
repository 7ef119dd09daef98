--------------------------- MODULE MCEventStorage ---------------------------
(* Small instances of EventStorage for TLC.                                *)
EXTENDS EventStorage, TLC

(* Up to now, at the time the query comes.                                 *)
Unread == [start |-> 0, end |-> 0, minSeverity |-> Info, unprocessed |-> TRUE]
Recent == [Unread EXCEPT !.start = MaxTime]
Severe == [Unread EXCEPT !.minSeverity = 1]

UnreadOnly == {Unread}
AllKinds   == {Unread, Recent, Severe}

Symmetry == Permutations(Events) \union Permutations(Loads)
=============================================================================
