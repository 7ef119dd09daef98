----------------------------- MODULE StackDiff -----------------------------
(***************************************************************************)
(* pkg/rules: comparing two samples of the processes of a node.  A sample  *)
(* is the list GetProcessStacks returned, in the order its goroutines      *)
(* finished; pids are distinct in a list and thread ids in a process.      *)
(* Ranks and frames are compared with EqualFold: equal values here are     *)
(* equal up to case.  Thread names and parents are not compared.           *)
(***************************************************************************)
EXTENDS Integers, Sequences, FiniteSets

(* What they compare of a pb.ThreadStack and of a pb.ProcessInfo.          *)
Thread == [tid : Int, frames : Seq(STRING)]

ProcessInfo == [pid : Int, rank : STRING, threads : Seq(Thread)]

(* sort.Slice of a list with distinct keys.                                *)
SortedBy(s, Less(_, _)) ==
    CHOOSE t \in [DOMAIN s -> {s[i] : i \in DOMAIN s}] :
        \A j, k \in DOMAIN s : j < k => Less(t[j], t[k])

SortedAsListed(ps) == ps

(* By Pid, and by ThreadId.                                                *)
Sorted(ps) == SortedBy(ps, LAMBDA p, q : p.pid < q.pid)

SortedThreads(ts) == SortedBy(ts, LAMBDA t, u : t.tid < u.tid)

(* Thread ids, then the number of frames, then frame by frame.             *)
SameThreads(a, b) ==
    /\ Len(a.threads) = Len(b.threads)
    /\ LET ta == SortedThreads(a.threads)
           tb == SortedThreads(b.threads)
       IN  \A i \in DOMAIN ta :
              /\ ta[i].tid = tb[i].tid
              /\ Len(ta[i].frames) = Len(tb[i].frames)
              /\ \A level \in DOMAIN ta[i].frames : ta[i].frames[level] = tb[i].frames[level]

(* ThreadsStacksEqual refuses to compare two processes ...                 *)
Incomparable(a, b) == a.rank # b.rank \/ a.pid # b.pid

Mismatch(diff) == [equal |-> FALSE, diff |-> diff, error |-> TRUE]

(* ... and one refusal discards the differences found before it.           *)
PstreeEqual(psa, psb) ==
    LET pa == Sorted(psa)
        pb == Sorted(psb)
        differing == {i \in DOMAIN pa : ~SameThreads(pa[i], pb[i])}
    IN  IF Len(psa) # Len(psb) THEN Mismatch({})
        ELSE IF \E i \in DOMAIN pa : Incomparable(pa[i], pb[i]) THEN Mismatch({})
        ELSE [equal |-> differing = {}, diff |-> {pa[i].pid : i \in differing}, error |-> FALSE]

-----------------------------------------------------------------------------
(* What a sample says, whatever the order of its lists: which processes,   *)
(* with their ranks, and for each thread its stack.                        *)

StackOf(p) == {<<p.threads[i].tid, p.threads[i].frames>> : i \in DOMAIN p.threads}

Snapshot(ps) == {<<ps[i].pid, ps[i].rank, StackOf(ps[i])>> : i \in DOMAIN ps}
=============================================================================
