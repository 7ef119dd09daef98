--------------------------- MODULE MCAlertPolling ---------------------------
(* Small instances of AlertPolling for TLC.                                *)
EXTENDS AlertPolling

CONSTANT n1

OnFirst   == [a \in Alerts |-> n1]
OneBehind == [n \in Nodes |-> IF n = n1 THEN 1 ELSE 0]

(* The list names the host once for each entry.                            *)
Line(flag, setting, start, minSeverity) ==
    [addressList |-> [i \in Entries |-> n1], flag |-> flag, setting |-> setting,
     start |-> start, end |-> Unset, minSeverity |-> minSeverity]

(* The defaults; and three that a negative setting makes run once: asking  *)
(* for WARNING and above, from time 1, and with a time that does not parse.*)
Lines == {Line(0, 0, Unset, 0), Line(0, -1, Unset, 1), Line(0, -1, 1, 0), Line(0, -1, Invalid, 0)}
=============================================================================
