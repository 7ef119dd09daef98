------------------------------ MODULE MCFanOut ------------------------------
(* Small instances of FanOut for TLC.                                      *)
EXTENDS FanOut

Entry(kind, host) == [kind |-> kind, host |-> host]

Source(from, ok, entries) == [from |-> from, ok |-> ok, entries |-> entries]

(* No source, a missing file, an empty one, a list with a host twice and   *)
(* a blank line, one with a name:host pair; a job clusterx does not know,  *)
(* and two nodes as clusterx prints them.                                  *)
AllSources ==
    {Source("none", FALSE, <<>>), Source("file", FALSE, <<>>),
     Source("file", TRUE, <<Entry("blank", "h1")>>),
     Source("file", TRUE, <<Entry("host", "h1"), Entry("blank", "h1"), Entry("host", "h1")>>),
     Source("file", TRUE, <<Entry("named", "h1")>>),
     Source("clusterx", FALSE, <<>>),
     Source("clusterx", TRUE, <<Entry("named", "h1"), Entry("host", "h2")>>)}

TwoNodes == {Source("clusterx", TRUE, <<Entry("named", "h1"), Entry("host", "h2")>>)}

Holding(c, host, name, t) == [cmd |-> c, host |-> host, name |-> name, type |-> t]

AllHoldings ==
    {Holding("logs", "h1", "r0", "log"), Holding("logs", "h2", "r1", "log"),
     Holding("stacks", "h1", "r0", "trainer"), Holding("stacks", "h1", "r0", "loader"),
     Holding("stacks", "h2", "r1", "trainer"),
     Holding("version", "h1", "v1", "build"), Holding("version", "h2", "v2", "build")}

Unset == [form |-> "unset", name |-> "r0"]

Labels == {Unset, [form |-> "label", name |-> "r0"], [form |-> "lower", name |-> "r0"]}

Numbers == {[form |-> "number", name |-> "r0"]}
=============================================================================
