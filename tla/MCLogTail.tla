----------------------------- MODULE MCLogTail -----------------------------
(* Small instances of LogTail for TLC.                                     *)
EXTENDS LogTail

AllKinds == {"stamped", "plain", "garbled", "long"}
Stamped  == {"stamped"}

(* West of UTC, UTC, east of UTC.  *)
ThreeZones == {-1, 0, 1}

(* A client may ask for any number of lines.  *)
AnyCount == {-1, 0, 1, 2}
=============================================================================
