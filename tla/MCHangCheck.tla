---------------------------- MODULE MCHangCheck ----------------------------
(* Small instances of HangCheck for TLC.                                   *)
EXTENDS HangCheck

OneThread(pid, rank, frame) ==
    [pid |-> pid, rank |-> rank, threads |-> <<[tid |-> pid, frames |-> <<frame>>]>>]

Trainer == {OneThread(1, "0", "forward"), OneThread(1, "0", "wait")}

Loader == {OneThread(2, "1", "read")}

Job == Trainer \union Loader

AnyFlag    == {0, 1}
AnySetting == {-1, 0}
=============================================================================
