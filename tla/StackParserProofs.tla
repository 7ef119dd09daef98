------------------------- MODULE StackParserProofs -------------------------
(* Theorems about StackParser, for texts of any length.                    *)
EXTENDS StackParser, TLAPS, SequenceTheorems

-----------------------------------------------------------------------------
(* What one more line adds to a text.                                      *)

(* The line numbers of some kinds.                                         *)
LEMMA NumbersGrow ==
    ASSUME NEW lines \in Seq(Kinds), NEW kind \in Kinds, NEW kinds
    PROVE  /\ Numbers(lines, kinds) \subseteq 1..Len(lines)
           /\ Numbers(Append(lines, kind), kinds) =
                 IF kind \in kinds THEN Numbers(lines, kinds) \union {Len(lines) + 1}
                 ELSE Numbers(lines, kinds)
<1> DEFINE more == Append(lines, kind)
           k == Len(lines) + 1
<1>1. /\ Len(more) = k /\ more[k] = kind /\ k \in Nat /\ 1..k = (1..Len(lines)) \union {k}
      /\ \A i \in 1..Len(lines) : more[i] = lines[i] /\ i # k
  OBVIOUS
<1> HIDE DEF more, k
<1>2. Numbers(more, kinds) = {i \in 1..k : more[i] \in kinds}
  BY <1>1 DEF Numbers
<1>3. Numbers(lines, kinds) = {i \in 1..Len(lines) : lines[i] \in kinds}
  BY DEF Numbers
<1>4. CASE kind \in kinds
  BY <1>1, <1>2, <1>3, <1>4 DEF more, k
<1>5. CASE kind \notin kinds
  BY <1>1, <1>2, <1>3, <1>5 DEF more, k
<1> QED  BY <1>4, <1>5

(* The new line belongs under line h if it is of the kind that does and    *)
(* nothing after h has closed it; nothing belongs under the new line.      *)
LEMMA BelowGrows ==
    ASSUME NEW lines \in Seq(Kinds), NEW kind \in Kinds, NEW h \in 1..Len(lines),
           NEW member \in Kinds, NEW until, member \notin until
    PROVE  LET k == Len(lines) + 1
               more == Append(lines, kind)
           IN  /\ Below(more, h, member, until) =
                     IF kind = member /\ \A m \in Numbers(lines, until) : m <= h
                     THEN Below(lines, h, member, until) \union {k}
                     ELSE Below(lines, h, member, until)
               /\ Below(more, k, member, until) = {}
               /\ \A l \in Below(lines, h, member, until) : l \in 1..Len(lines)
<1> DEFINE k == Len(lines) + 1
           more == Append(lines, kind)
           old == Numbers(lines, {member})
           closers == Numbers(lines, until)
<1>1. /\ old \subseteq 1..Len(lines) /\ closers \subseteq 1..Len(lines)
      /\ Numbers(more, {member}) = IF kind = member THEN old \union {k} ELSE old
      /\ Numbers(more, until) = IF kind \in until THEN closers \union {k} ELSE closers
  <2>1. kind \in {member} <=> kind = member
    OBVIOUS
  <2> QED  BY NumbersGrow, <2>1
<1>2. /\ k \in Nat /\ \A l \in 1..Len(lines) : l \in Nat /\ l < k
      /\ h \in Nat /\ h < k
  OBVIOUS
<1> HIDE DEF k, more, old, closers
<1>3. Below(lines, h, member, until) =
         {l \in old : h < l /\ \A m \in closers : m <= h \/ l < m}
  BY DEF Below, old, closers
<1>4. \A j : Below(more, j, member, until) =
         {l \in Numbers(more, {member}) : j < l /\ \A m \in Numbers(more, until) : m <= j \/ l < m}
  BY DEF Below
<1>5. ASSUME NEW l \in old
      PROVE  (\A m \in Numbers(more, until) : m <= h \/ l < m)
             <=> (\A m \in closers : m <= h \/ l < m)
  <2>1. l < k
    BY <1>1, <1>2
  <2> QED  BY <1>1, <2>1
<1>6. kind = member => ((\A m \in Numbers(more, until) : m <= h \/ k < m)
                        <=> (\A m \in closers : m <= h))
  <2>1. \A m \in closers : m \in Nat /\ m < k
    BY <1>1, <1>2
  <2>2. kind = member => Numbers(more, until) = closers
    BY <1>1
  <2> QED  BY <1>2, <2>1, <2>2
<1>7. Below(more, k, member, until) = {}
  <2>1. \A l \in Numbers(more, {member}) : ~(k < l)
    <3>1. \A l \in old : l \in Nat /\ l < k
      BY <1>1, <1>2
    <3>2. \A l \in Numbers(more, {member}) : l \in old \/ l = k
      BY <1>1
    <3> QED  BY <1>2, <3>1, <3>2
  <2>2. Below(more, k, member, until) =
         {l \in Numbers(more, {member}) : k < l /\ \A m \in Numbers(more, until) : m <= k \/ l < m}
    BY <1>4
  <2> QED  BY <2>1, <2>2
<1>8. Below(more, h, member, until) =
         IF kind = member /\ \A m \in closers : m <= h
         THEN Below(lines, h, member, until) \union {k}
         ELSE Below(lines, h, member, until)
  <2>1. Below(more, h, member, until) =
           {l \in Numbers(more, {member}) : h < l /\ \A m \in Numbers(more, until) : m <= h \/ l < m}
    BY <1>4
  <2>2. \A l \in old : l \in Below(more, h, member, until) <=> l \in Below(lines, h, member, until)
    BY <1>1, <1>3, <1>5, <2>1
  <2>3. kind = member => (k \in Below(more, h, member, until) <=> \A m \in closers : m <= h)
    BY <1>1, <1>2, <1>6, <2>1
  <2>4. /\ Below(lines, h, member, until) \subseteq old
        /\ \A l \in Below(more, h, member, until) : l \in old \/ (l = k /\ kind = member)
    BY <1>1, <1>3, <2>1
  <2>5. CASE kind = member /\ \A m \in closers : m <= h
    BY <2>2, <2>3, <2>4, <2>5
  <2>6. CASE ~(kind = member /\ \A m \in closers : m <= h)
    <3>1. ~(kind = member /\ k \in Below(more, h, member, until))
      BY <2>3, <2>6
    <3>2. \A l \in Below(more, h, member, until) : l \in old
      BY <2>4, <3>1
    <3>3. Below(more, h, member, until) = Below(lines, h, member, until)
      BY <2>2, <2>4, <3>2
    <3> QED  BY <2>6, <3>3
  <2> QED  BY <2>5, <2>6
<1> QED  BY <1>1, <1>3, <1>7, <1>8 DEF k, more, closers

-----------------------------------------------------------------------------
(* Lists.                                                                  *)

(* The lines of a sequence of records.                                     *)
LEMMA Lines ==
    ASSUME NEW R, \A r \in R : r.line \in Nat, NEW seq \in Seq(R)
    PROVE  /\ LineOf(seq) \in Seq(Nat) /\ Len(LineOf(seq)) = Len(seq)
           /\ \A i \in 1..Len(seq) : LineOf(seq)[i] = seq[i].line
<1>1. \A i \in 1..Len(seq) : seq[i].line \in Nat
  OBVIOUS
<1>2. LineOf(seq) \in [1..Len(seq) -> Nat] /\ Len(seq) \in Nat
  BY <1>1 DEF LineOf
<1> QED  BY <1>2 DEF LineOf

(* A list stays one when a line after all of its lines is put at its end.  *)
LEMMA ListsMore ==
    ASSUME NEW seq \in Seq(Nat), NEW numbers, Lists(seq, numbers), NEW x \in Nat,
           \A y \in numbers : y < x, NEW more \in Seq(Nat), Len(more) = Len(seq) + 1,
           more[Len(seq) + 1] = x, \A i \in 1..Len(seq) : more[i] = seq[i]
    PROVE  Lists(more, numbers \union {x})
<1>1. /\ numbers = {seq[i] : i \in 1..Len(seq)} /\ Len(seq) \in Nat
      /\ 1..Len(more) = (1..Len(seq)) \union {Len(seq) + 1}
      /\ \A i, j \in 1..Len(seq) : i < j => seq[i] < seq[j]
  BY DEF Lists
<1>2. {more[i] : i \in 1..Len(more)} = numbers \union {x}
  <2>1. \A i \in 1..Len(more) : more[i] \in numbers \union {x}
    BY <1>1
  <2>2. \A y \in numbers : \E i \in 1..Len(more) : y = more[i]
    BY <1>1
  <2>3. \E i \in 1..Len(more) : x = more[i]
    BY <1>1
  <2> QED  BY <2>1, <2>2, <2>3
<1>3. ASSUME NEW i \in 1..Len(more), NEW j \in 1..Len(more), i < j PROVE more[i] < more[j]
  <2>1. CASE j = Len(seq) + 1
    <3>1. i \in 1..Len(seq)
      BY <1>1, <1>3, <2>1
    <3> QED  BY <1>1, <2>1, <3>1
  <2>2. CASE j \in 1..Len(seq)
    <3>1. i \in 1..Len(seq)
      BY <1>1, <1>3, <2>2
    <3> QED  BY <1>1, <1>3, <2>2, <3>1
  <2> QED  BY <1>1, <2>1, <2>2
<1> QED  BY <1>2, <1>3 DEF Lists

(* Two sequences of records with the same lines list the same.             *)
LEMMA ListsSame ==
    ASSUME NEW R, \A r \in R : r.line \in Nat, NEW a \in Seq(R), NEW b \in Seq(R),
           Len(a) = Len(b), \A i \in 1..Len(a) : a[i].line = b[i].line
    PROVE  LineOf(a) = LineOf(b)
BY DEF LineOf

(* The empty list.                                                         *)
LEMMA ListsNothing == Lists(<<>>, {}) /\ Lists(LineOf(<<>>), {})
<1>1. Len(<<>>) = 0 /\ 1..0 = {}
  OBVIOUS
<1>2. LineOf(<<>>) = <<>>
  BY <1>1 DEF LineOf
<1> QED  BY <1>1, <1>2 DEF Lists


-----------------------------------------------------------------------------
(* Threads.                                                                *)

(* The records have lines.                                                 *)
LEMMA HaveLines ==
    /\ \A t \in Threads : t.line \in Nat /\ t.frames \in Seq(Frames)
    /\ \A f \in Frames : f.line \in Nat /\ f.code \in Seq(Nat)
BY DEF Threads, Frames

(* A frame line below another line stays below it, and is closed, once a   *)
(* header follows; no other line than a frame joins the frames.            *)
LEMMA FramesKept ==
    ASSUME NEW lines \in Seq(Kinds), NEW kind \in Kinds, NEW h \in 1..Len(lines),
           kind # "frame" \/ \E m \in Heads(lines) : h < m
    PROVE  FrameLines(Append(lines, kind), h) = FrameLines(lines, h)
<1>1. /\ "frame" \in Kinds /\ "frame" \notin {"thread", "huge", "odd"}
  BY DEF Kinds
<1>2. \A m \in Heads(lines) : h < m => ~(m <= h)
  BY NumbersGrow DEF Heads, Numbers
<1> QED  BY <1>1, <1>2, BelowGrows DEF FrameLines, Heads

(* The same for the source lines of a frame.                               *)
LEMMA CodeKept ==
    ASSUME NEW lines \in Seq(Kinds), NEW kind \in Kinds, NEW f \in 1..Len(lines),
           kind # "code" \/ \E m \in Numbers(lines, {"thread", "huge", "odd", "frame"}) : f < m
    PROVE  CodeLines(Append(lines, kind), f) = CodeLines(lines, f)
<1>1. /\ "code" \in Kinds /\ "code" \notin {"thread", "huge", "odd", "frame"}
  BY DEF Kinds
<1>2. \A m \in Numbers(lines, {"thread", "huge", "odd", "frame"}) : f < m => ~(m <= f)
  BY NumbersGrow DEF Numbers
<1> QED  BY <1>1, <1>2, BelowGrows DEF CodeLines

(* Where the frames of a thread stand.                                     *)
LEMMA FramesStand ==
    ASSUME NEW lines \in Seq(Kinds), NEW t \in Threads, AsPrinted(lines, t),
           NEW j \in 1..Len(t.frames)
    PROVE  /\ t.frames[j].line \in FrameLines(lines, t.line)
           /\ t.frames[j].line \in 1..Len(lines) /\ t.line < t.frames[j].line
           /\ \A m \in Heads(lines) : m <= t.line \/ t.frames[j].line < m
<1>1. {LineOf(t.frames)[i] : i \in 1..Len(LineOf(t.frames))} = FrameLines(lines, t.line)
  BY DEF AsPrinted, Lists
<1>2. Len(LineOf(t.frames)) = Len(t.frames) /\ LineOf(t.frames)[j] = t.frames[j].line
  BY Lines, HaveLines
<1>3. t.frames[j].line \in FrameLines(lines, t.line)
  BY <1>1, <1>2
<1> QED  BY <1>3 DEF FrameLines, Below, Numbers, Heads

(* A line that cannot join the thread changes nothing about it.            *)
LEMMA ThreadKept ==
    ASSUME NEW lines \in Seq(Kinds), NEW kind \in Kinds, NEW t \in Threads, AsPrinted(lines, t),
           t.line \in Heads(lines),
           kind \notin {"frame", "code"} \/ \E m \in Heads(lines) : t.line < m
    PROVE  AsPrinted(Append(lines, kind), t)
<1> DEFINE more == Append(lines, kind)
<1>1. t.line \in 1..Len(lines) /\ Heads(lines) \subseteq 1..Len(lines)
  BY DEF Heads, Numbers
<1>2. more[t.line] = lines[t.line]
  BY <1>1
<1>3. FrameLines(more, t.line) = FrameLines(lines, t.line)
  BY <1>1, FramesKept
<1>4. ASSUME NEW j \in 1..Len(t.frames)
      PROVE  CodeLines(more, t.frames[j].line) = CodeLines(lines, t.frames[j].line)
  <2>1. /\ t.frames[j].line \in 1..Len(lines)
        /\ \A m \in Heads(lines) : m <= t.line \/ t.frames[j].line < m
    BY FramesStand
  <2>2. Heads(lines) \subseteq Numbers(lines, {"thread", "huge", "odd", "frame"})
    BY DEF Heads, Numbers
  <2>3. kind = "code" => \E m \in Numbers(lines, {"thread", "huge", "odd", "frame"}) : t.frames[j].line < m
    BY <1>1, <2>1, <2>2
  <2> QED  BY <2>1, <2>3, CodeKept
<1> HIDE DEF more
<1> QED  BY <1>2, <1>3, <1>4 DEF AsPrinted, more

(* Where the threads found stand, and that each is as printed.             *)
LEMMA ThreadsStand ==
    ASSUME NEW lines \in Seq(Kinds), NEW found \in Seq(Threads), AllAsPrinted(lines, found),
           NEW i \in 1..Len(found)
    PROVE  /\ AsPrinted(lines, found[i]) /\ found[i] \in Threads
           /\ found[i].line \in Heads(lines) /\ found[i].line \in 1..Len(lines)
           /\ \A j \in 1..Len(found) : i < j => found[i].line < found[j].line
           /\ \A m \in Heads(lines) : m <= found[Len(found)].line
<1>1. /\ Len(LineOf(found)) = Len(found)
      /\ \A j \in 1..Len(found) : LineOf(found)[j] = found[j].line
  BY Lines, HaveLines
<1>2. /\ Heads(lines) = {LineOf(found)[j] : j \in 1..Len(found)}
      /\ \A j, l \in 1..Len(found) : j < l => LineOf(found)[j] < LineOf(found)[l]
  BY <1>1 DEF AllAsPrinted, Lists
<1>3. Heads(lines) = {found[j].line : j \in 1..Len(found)}
  BY <1>1, <1>2
<1>4. \A j, l \in 1..Len(found) : j < l => found[j].line < found[l].line
  BY <1>1, <1>2
<1>5. Len(found) \in 1..Len(found) /\ \A j \in 1..Len(found) : j = Len(found) \/ j < Len(found)
  OBVIOUS
<1>6. \A j \in 1..Len(found) : found[j].line \in Nat /\ found[j] \in Threads
  BY HaveLines
<1>7. ASSUME NEW m \in Heads(lines) PROVE m <= found[Len(found)].line
  <2>1. PICK j \in 1..Len(found) : m = found[j].line
    BY <1>3
  <2> QED  BY <1>4, <1>5, <1>6, <2>1
<1>8. found[i].line \in Heads(lines) /\ Heads(lines) \subseteq 1..Len(lines)
  BY <1>3 DEF Heads, Numbers
<1> QED  BY <1>4, <1>6, <1>7, <1>8 DEF AllAsPrinted

-----------------------------------------------------------------------------
(* One line of each kind.                                                  *)

(* A header begins a thread with no frames.                                *)
LEMMA HeaderLine ==
    ASSUME NEW lines \in Seq(Kinds), NEW found \in Seq(Threads), AllAsPrinted(lines, found),
           NEW kind \in {"thread", "huge", "odd"}, NEW next \in Seq(Threads),
           Len(next) = Len(found) + 1, \A i \in 1..Len(found) : next[i] = found[i],
           next[Len(found) + 1] = Header(Len(lines) + 1, kind)
    PROVE  AllAsPrinted(Append(lines, kind), next)
<1> DEFINE k == Len(lines) + 1
           more == Append(lines, kind)
           new == Header(k, kind)
<1>1. /\ kind \in Kinds /\ kind \notin {"frame", "code"} /\ more \in Seq(Kinds)
      /\ k \in Nat /\ more[k] = kind /\ \A i \in 1..Len(lines) : i < k
  BY DEF Kinds
<1>2. new.line = k /\ new.frames = <<>> /\ (new.numbered <=> kind = "thread") /\ (new.named <=> kind # "odd")
  BY DEF Header
<1>3. Heads(lines) \subseteq 1..Len(lines) /\ Heads(more) = Heads(lines) \union {k}
  BY <1>1, NumbersGrow DEF Heads
<1>4. Lists(LineOf(next), Heads(more))
  <2>1. /\ LineOf(found) \in Seq(Nat) /\ Len(LineOf(found)) = Len(found)
        /\ \A i \in 1..Len(found) : LineOf(found)[i] = found[i].line
    BY Lines, HaveLines
  <2>2. /\ LineOf(next) \in Seq(Nat) /\ Len(LineOf(next)) = Len(next)
        /\ \A i \in 1..Len(next) : LineOf(next)[i] = next[i].line
    BY Lines, HaveLines
  <2>3. /\ Len(found) \in Nat /\ Len(found) + 1 \in 1..Len(next)
        /\ \A i \in 1..Len(found) : i \in 1..Len(next)
    OBVIOUS
  <2>4. /\ Len(LineOf(next)) = Len(LineOf(found)) + 1
        /\ LineOf(next)[Len(LineOf(found)) + 1] = k
        /\ \A i \in 1..Len(LineOf(found)) : LineOf(next)[i] = LineOf(found)[i]
    BY <1>2, <2>1, <2>2, <2>3
  <2>5. Lists(LineOf(found), Heads(lines)) /\ \A y \in Heads(lines) : y < k
    BY <1>1, <1>3 DEF AllAsPrinted
  <2> DEFINE a == LineOf(found)
             b == LineOf(next)
  <2>6. /\ a \in Seq(Nat) /\ b \in Seq(Nat) /\ Len(b) = Len(a) + 1 /\ b[Len(a) + 1] = k
        /\ \A i \in 1..Len(a) : b[i] = a[i]
        /\ Lists(a, Heads(lines)) /\ k \in Nat
    BY <1>1, <2>1, <2>2, <2>4, <2>5
  <2> HIDE DEF k, a, b
  <2>7. Lists(b, Heads(lines) \union {k})
    BY <2>5, <2>6, ListsMore
  <2> QED  BY <1>3, <2>7 DEF b
<1>5. AsPrinted(more, new)
  <2>1. k \in 1..Len(more) /\ "frame" \in Kinds /\ "frame" \notin {"thread", "huge", "odd"}
    BY <1>1 DEF Kinds
  <2>2. FrameLines(more, k) = {}
    <3>1. \A l \in Numbers(more, {"frame"}) : l \in 1..k
      BY DEF Numbers
    <3>2. \A l \in 1..k : ~(k < l)
      BY <1>1
    <3> QED  BY <3>1, <3>2 DEF FrameLines, Below
  <2>3. 1..Len(<<>>) = {}
    OBVIOUS
  <2> HIDE DEF k, more, new
  <2> QED  BY <1>1, <1>2, <2>2, <2>3, ListsNothing DEF AsPrinted
<1>6. ASSUME NEW i \in 1..Len(found) PROVE AsPrinted(more, next[i])
  BY <1>1, ThreadsStand, ThreadKept
<1>7. \A i \in 1..Len(next) : i \in 1..Len(found) \/ i = Len(found) + 1
  OBVIOUS
<1> HIDE DEF k, more, new
<1> QED  BY <1>4, <1>5, <1>6, <1>7 DEF AllAsPrinted, more, new, k

(* A line that is nothing of a thread.                                     *)
LEMMA NoLine ==
    ASSUME NEW lines \in Seq(Kinds), NEW found \in Seq(Threads), AllAsPrinted(lines, found),
           NEW kind \in Kinds \ {"thread", "huge", "odd"}, kind = "other" \/ found = <<>>
    PROVE  AllAsPrinted(Append(lines, kind), found)
<1>1. Heads(Append(lines, kind)) = Heads(lines)
  BY NumbersGrow DEF Heads
<1>2. ASSUME NEW i \in 1..Len(found) PROVE AsPrinted(Append(lines, kind), found[i])
  <2>1. kind = "other"
    OBVIOUS
  <2> QED  BY <2>1, ThreadsStand, ThreadKept
<1> QED  BY <1>1, <1>2 DEF AllAsPrinted

(* A line that changes only the last thread.                               *)
LEMMA LastThread ==
    ASSUME NEW lines \in Seq(Kinds), NEW found \in Seq(Threads), AllAsPrinted(lines, found),
           NEW kind \in Kinds \ {"thread", "huge", "odd"}, NEW next \in Seq(Threads),
           found # <<>>, Len(next) = Len(found), \A i \in 1..Len(found) - 1 : next[i] = found[i],
           next[Len(found)].line = found[Len(found)].line,
           AsPrinted(Append(lines, kind), next[Len(found)])
    PROVE  AllAsPrinted(Append(lines, kind), next)
<1> DEFINE n == Len(found)
           more == Append(lines, kind)
<1>1. n \in Nat /\ n \in 1..n /\ \A i \in 1..n : i = n \/ (i \in 1..n - 1 /\ i < n)
  OBVIOUS
<1>2. Heads(more) = Heads(lines) /\ LineOf(next) = LineOf(found)
  <2>1. \A i \in 1..n : next[i].line = found[i].line
    BY <1>1
  <2>2. Heads(more) = Heads(lines)
    BY NumbersGrow DEF Heads
  <2>3. \A t \in Threads : t.line \in Nat
    BY HaveLines
  <2>4. LineOf(next) = LineOf(found)
    BY <2>1, <2>3, ListsSame
  <2> QED  BY <2>2, <2>4
<1>3. ASSUME NEW i \in 1..n - 1 PROVE AsPrinted(more, next[i])
  <2>1. i \in 1..n /\ i < n
    BY <1>1
  <2>2. /\ AsPrinted(lines, found[i]) /\ found[i] \in Threads /\ found[i].line \in Heads(lines)
        /\ found[n].line \in Heads(lines) /\ found[i].line < found[n].line
    BY <1>1, <2>1, ThreadsStand
  <2> QED  BY <2>2, ThreadKept
<1> QED  BY <1>1, <1>2, <1>3 DEF AllAsPrinted

(* A frame goes to the last thread.                                        *)
LEMMA FrameLine ==
    ASSUME NEW lines \in Seq(Kinds), NEW t \in Threads, AsPrinted(lines, t),
           t.line \in Heads(lines), \A m \in Heads(lines) : m <= t.line
    PROVE  /\ WithFrame(t, Len(lines) + 1) \in Threads
           /\ WithFrame(t, Len(lines) + 1).line = t.line
           /\ AsPrinted(Append(lines, "frame"), WithFrame(t, Len(lines) + 1))
<1> DEFINE k == Len(lines) + 1
           more == Append(lines, "frame")
           u == WithFrame(t, k)
           n == Len(t.frames)
<1>1. /\ k \in Nat /\ n \in Nat /\ Heads(lines) \subseteq 1..Len(lines)
      /\ t.line \in 1..Len(lines) /\ \A i \in 1..Len(lines) : i < k
      /\ t.frames \in Seq(Frames) /\ "frame" \in Kinds
  BY HaveLines DEF Heads, Numbers, Kinds
<1>2. Frame(k) \in Frames /\ Frame(k).line = k /\ Frame(k).code = <<>>
  BY <1>1 DEF Frame, Frames
<1>3. /\ u \in Threads /\ u.line = t.line /\ u.numbered = t.numbered /\ u.named = t.named
      /\ u.frames = Append(t.frames, Frame(k))
  <2> DEFINE all == Append(t.frames, Frame(k))
  <2>1. all \in Seq(Frames)
    BY <1>1, <1>2
  <2>2. u = [t EXCEPT !.frames = all]
    BY DEF WithFrame
  <2> HIDE DEF all, u
  <2>3. u \in Threads /\ u.line = t.line /\ u.numbered = t.numbered /\ u.named = t.named /\ u.frames = all
    BY <2>1, <2>2 DEF Threads
  <2> QED  BY <2>3 DEF all
<1>4. /\ u.frames \in Seq(Frames) /\ Len(u.frames) = n + 1 /\ u.frames[n + 1] = Frame(k)
      /\ \A j \in 1..n : u.frames[j] = t.frames[j]
      /\ \A j \in 1..Len(u.frames) : j \in 1..n \/ j = n + 1
  <2> DEFINE f == Frame(k)
  <2>1. f \in Frames /\ u.frames = Append(t.frames, f) /\ t.frames \in Seq(Frames)
    BY <1>1, <1>2, <1>3
  <2> HIDE DEF f, u
  <2>2. /\ u.frames \in Seq(Frames) /\ Len(u.frames) = n + 1 /\ u.frames[n + 1] = f
        /\ \A j \in 1..n : u.frames[j] = t.frames[j]
    BY <2>1
  <2> QED  BY <1>1, <2>2 DEF f
<1>5. /\ FrameLines(more, t.line) = FrameLines(lines, t.line) \union {k}
      /\ FrameLines(lines, t.line) \subseteq 1..Len(lines)
  <2>1. "frame" \notin {"thread", "huge", "odd"}
    OBVIOUS
  <2>2. \A m \in Numbers(lines, {"thread", "huge", "odd"}) : m <= t.line
    BY DEF Heads
  <2> QED  BY <1>1, <2>1, <2>2, BelowGrows DEF FrameLines
<1>6. Lists(LineOf(u.frames), FrameLines(more, t.line))
  <2>1. /\ LineOf(t.frames) \in Seq(Nat) /\ Len(LineOf(t.frames)) = n
        /\ \A i \in 1..n : LineOf(t.frames)[i] = t.frames[i].line
    BY <1>1, Lines, HaveLines
  <2>2. /\ LineOf(u.frames) \in Seq(Nat) /\ Len(LineOf(u.frames)) = n + 1
        /\ \A i \in 1..n + 1 : LineOf(u.frames)[i] = u.frames[i].line
    BY <1>4, Lines, HaveLines
  <2>3. n + 1 \in 1..n + 1 /\ \A i \in 1..n : i \in 1..n + 1
    BY <1>1
  <2>4. /\ LineOf(u.frames)[n + 1] = k
        /\ \A i \in 1..n : LineOf(u.frames)[i] = LineOf(t.frames)[i]
    BY <1>2, <1>4, <2>1, <2>2, <2>3
  <2>5. Lists(LineOf(t.frames), FrameLines(lines, t.line))
    BY DEF AsPrinted
  <2>6. \A y \in FrameLines(lines, t.line) : y < k
    BY <1>1, <1>5
  <2> DEFINE a == LineOf(t.frames)
             b == LineOf(u.frames)
  <2>7. /\ a \in Seq(Nat) /\ b \in Seq(Nat) /\ Len(b) = Len(a) + 1 /\ b[Len(a) + 1] = k
        /\ \A i \in 1..Len(a) : b[i] = a[i]
        /\ Lists(a, FrameLines(lines, t.line)) /\ k \in Nat
    BY <1>1, <2>1, <2>2, <2>4, <2>5
  <2> HIDE DEF k, a, b
  <2>8. Lists(b, FrameLines(lines, t.line) \union {k})
    BY <2>6, <2>7, ListsMore
  <2> QED  BY <1>5, <2>8 DEF b
<1>7. ASSUME NEW j \in 1..n
      PROVE  Lists(u.frames[j].code, CodeLines(more, u.frames[j].line))
  <2>1. t.frames[j].line \in 1..Len(lines)
    BY FramesStand
  <2>2. CodeLines(more, t.frames[j].line) = CodeLines(lines, t.frames[j].line)
    BY <1>1, <2>1, CodeKept
  <2>3. Lists(t.frames[j].code, CodeLines(lines, t.frames[j].line))
    BY DEF AsPrinted
  <2> QED  BY <1>4, <2>2, <2>3
<1>8. Lists(<<>>, CodeLines(more, k))
  <2>1. \A l \in Numbers(more, {"code"}) : l \in 1..k /\ ~(k < l)
    BY <1>1 DEF Numbers
  <2>2. CodeLines(more, k) = {}
    BY <2>1 DEF CodeLines, Below
  <2> QED  BY <2>2, ListsNothing
<1>9. (u.numbered <=> more[u.line] = "thread") /\ (u.named <=> more[u.line] # "odd")
  BY <1>1, <1>3 DEF AsPrinted
<1> HIDE DEF k, more, u, n
<1>10. ASSUME NEW j \in 1..Len(u.frames)
       PROVE  Lists(u.frames[j].code, CodeLines(more, u.frames[j].line))
  BY <1>2, <1>4, <1>7, <1>8
<1>11. AsPrinted(more, u)
  BY <1>3, <1>6, <1>9, <1>10 DEF AsPrinted
<1> QED  BY <1>3, <1>11 DEF k, more, u

(* The frames of the last thread in order; nothing closes its last frame,  *)
(* which closes all before.                                                *)
LEMMA LastFrame ==
    ASSUME NEW lines \in Seq(Kinds), NEW t \in Threads, AsPrinted(lines, t), t.frames # <<>>,
           t.line \in Heads(lines), \A m \in Heads(lines) : m <= t.line
    PROVE  LET n == Len(t.frames)
               closers == Numbers(lines, {"thread", "huge", "odd", "frame"})
           IN  /\ \A m \in closers : m <= t.frames[n].line
               /\ t.frames[n].line \in closers
               /\ \A j \in 1..n - 1 : t.frames[j].line < t.frames[n].line
<1> DEFINE n == Len(t.frames)
           closers == Numbers(lines, {"thread", "huge", "odd", "frame"})
           a == LineOf(t.frames)
<1>1. /\ t.frames \in Seq(Frames) /\ n \in Nat /\ n \in 1..n
      /\ \A j \in 1..n : j = n \/ (j \in 1..n - 1 /\ j < n)
      /\ \A j \in 1..n - 1 : j \in 1..n /\ j < n
  BY HaveLines
<1>2. /\ Len(a) = n /\ \A j \in 1..n : a[j] = t.frames[j].line /\ t.frames[j].line \in Nat
      /\ {a[j] : j \in 1..Len(a)} = FrameLines(lines, t.line)
      /\ \A i, j \in 1..Len(a) : i < j => a[i] < a[j]
  <2>1. Lists(a, FrameLines(lines, t.line))
    BY DEF AsPrinted
  <2>2. \A j \in 1..n : t.frames[j].line \in Nat
    BY <1>1, HaveLines
  <2> QED  BY <1>1, <2>1, <2>2, Lines, HaveLines DEF Lists
<1> HIDE DEF a, n
<1>3. \A j \in 1..n - 1 : t.frames[j].line < t.frames[n].line
  BY <1>1, <1>2
<1>4. \A l \in FrameLines(lines, t.line) : l <= t.frames[n].line
  <2>1. \A j \in 1..n : t.frames[j].line <= t.frames[n].line
    BY <1>1, <1>2, <1>3
  <2> QED  BY <1>2, <2>1
<1>5. t.frames[n].line \in FrameLines(lines, t.line) /\ t.line < t.frames[n].line
  <2>1. n \in 1..Len(t.frames)
    BY <1>1 DEF n
  <2> QED  BY <2>1, FramesStand
<1>6. ASSUME NEW m \in closers PROVE m <= t.frames[n].line
  <2>1. m \in Heads(lines) \/ m \in Numbers(lines, {"frame"})
    BY DEF Heads, Numbers
  <2>2. m \in 1..Len(lines) /\ m \in Nat /\ t.line \in Nat /\ t.frames[n].line \in Nat
    BY <1>1, <1>2, HaveLines DEF Numbers
  <2>3. CASE m \in Heads(lines)
    BY <1>5, <2>2, <2>3
  <2>4. CASE m \in Numbers(lines, {"frame"}) /\ t.line < m
    <3>1. m \in FrameLines(lines, t.line)
      BY <2>4 DEF FrameLines, Below, Heads
    <3> QED  BY <1>4, <3>1
  <2>5. CASE ~(t.line < m)
    BY <1>5, <2>2, <2>5
  <2> QED  BY <2>1, <2>3, <2>4, <2>5
<1>7. t.frames[n].line \in closers
  BY <1>5 DEF FrameLines, Below, Numbers
<1> QED  BY <1>3, <1>6, <1>7 DEF n

(* A source line goes to the last frame of the last thread.                *)
LEMMA SourceLine ==
    ASSUME NEW lines \in Seq(Kinds), NEW t \in Threads, AsPrinted(lines, t), t.frames # <<>>,
           t.line \in Heads(lines), \A m \in Heads(lines) : m <= t.line
    PROVE  /\ WithCode(t, Len(lines) + 1) \in Threads
           /\ WithCode(t, Len(lines) + 1).line = t.line
           /\ AsPrinted(Append(lines, "code"), WithCode(t, Len(lines) + 1))
<1> DEFINE k == Len(lines) + 1
           more == Append(lines, "code")
           n == Len(t.frames)
           u == WithCode(t, k)
           old == t.frames[n].code
           new == Append(old, k)
           last == [t.frames[n] EXCEPT !.code = new]
           closers == Numbers(lines, {"thread", "huge", "odd", "frame"})
           f == t.frames[n].line
<1>1. /\ k \in Nat /\ n \in Nat /\ n \in 1..n /\ Heads(lines) \subseteq 1..Len(lines)
      /\ t.line \in 1..Len(lines) /\ \A i \in 1..Len(lines) : i < k
      /\ t.frames \in Seq(Frames) /\ "code" \in Kinds
      /\ t.frames[n] \in Frames /\ old \in Seq(Nat)
  BY HaveLines DEF Heads, Numbers, Kinds
<1>2. new \in Seq(Nat) /\ last \in Frames /\ last.line = f /\ last.code = new
  <2>1. new \in Seq(Nat)
    BY <1>1
  <2> HIDE DEF new
  <2> QED  BY <1>1, <2>1 DEF Frames
<1>3. /\ u \in Threads /\ u.line = t.line /\ u.numbered = t.numbered /\ u.named = t.named
      /\ u.frames = [t.frames EXCEPT ![n] = last]
  <2> DEFINE all == [t.frames EXCEPT ![n] = last]
  <2>1. all \in Seq(Frames)
    <3> HIDE DEF last
    <3> QED  BY <1>1, <1>2, ExceptSeq
  <2>2. u = [t EXCEPT !.frames = all]
    BY DEF WithCode
  <2> HIDE DEF all, u
  <2>3. u \in Threads /\ u.line = t.line /\ u.numbered = t.numbered /\ u.named = t.named /\ u.frames = all
    BY <2>1, <2>2 DEF Threads
  <2> QED  BY <2>3 DEF all
<1>4. /\ u.frames \in Seq(Frames) /\ Len(u.frames) = n
      /\ \A j \in 1..n : u.frames[j] = IF j = n THEN last ELSE t.frames[j]
  <2> HIDE DEF last, u
  <2> QED  BY <1>1, <1>2, <1>3, ExceptSeq
<1>5. /\ \A m \in closers : m <= f
      /\ f \in closers /\ \A j \in 1..n - 1 : t.frames[j].line < f
  BY LastFrame
<1>6. LineOf(u.frames) = LineOf(t.frames)
  <2>1. \A j \in 1..n : u.frames[j].line = t.frames[j].line
    BY <1>2, <1>4
  <2>2. /\ Len(u.frames) = Len(t.frames) /\ u.frames \in Seq(Frames)
        /\ \A j \in 1..Len(u.frames) : u.frames[j].line = t.frames[j].line
        /\ \A r \in Frames : r.line \in Nat
    BY <1>4, <2>1, HaveLines
  <2> HIDE DEF u, n
  <2> QED  BY <1>1, <2>2, ListsSame
<1>7. FrameLines(more, t.line) = FrameLines(lines, t.line)
  BY <1>1, FramesKept
<1>8. Lists(new, CodeLines(more, f))
  <2>1. f \in 1..Len(lines) /\ "code" \notin {"thread", "huge", "odd", "frame"}
    BY <1>5 DEF Numbers
  <2>2. /\ CodeLines(more, f) = CodeLines(lines, f) \union {k}
        /\ \A y \in CodeLines(lines, f) : y \in 1..Len(lines)
    BY <1>1, <1>5, <2>1, BelowGrows DEF CodeLines
  <2>3. Lists(old, CodeLines(lines, f)) /\ \A y \in CodeLines(lines, f) : y < k
    BY <1>1, <2>2 DEF AsPrinted
  <2>4. /\ Len(new) = Len(old) + 1 /\ new[Len(old) + 1] = k
        /\ \A i \in 1..Len(old) : new[i] = old[i]
    BY <1>1
  <2> HIDE DEF new, old, k, f, more
  <2>5. Lists(new, CodeLines(lines, f) \union {k})
    BY <1>1, <1>2, <2>3, <2>4, ListsMore
  <2> QED  BY <2>2, <2>5
<1>9. ASSUME NEW j \in 1..n PROVE Lists(u.frames[j].code, CodeLines(more, u.frames[j].line))
  <2>1. CASE j = n
    BY <1>2, <1>4, <1>8, <2>1
  <2>2. CASE j # n
    <3>1. j \in 1..n - 1 /\ u.frames[j] = t.frames[j]
      BY <1>1, <1>4, <2>2
    <3>2. t.frames[j].line \in 1..Len(lines)
      BY FramesStand
    <3>3. CodeLines(more, t.frames[j].line) = CodeLines(lines, t.frames[j].line)
      BY <1>1, <1>5, <3>1, <3>2, CodeKept
    <3>4. Lists(t.frames[j].code, CodeLines(lines, t.frames[j].line))
      BY DEF AsPrinted
    <3> QED  BY <3>1, <3>3, <3>4
  <2> QED  BY <2>1, <2>2
<1>10. (u.numbered <=> more[u.line] = "thread") /\ (u.named <=> more[u.line] # "odd")
  BY <1>1, <1>3 DEF AsPrinted
<1>11. Lists(LineOf(t.frames), FrameLines(lines, t.line))
  BY DEF AsPrinted
<1> HIDE DEF k, more, u, n
<1>12. AsPrinted(more, u)
  BY <1>3, <1>4, <1>6, <1>7, <1>9, <1>10, <1>11 DEF AsPrinted
<1> QED  BY <1>3, <1>12 DEF k, more, u

-----------------------------------------------------------------------------
(* The specification.                                                      *)

(* The inductive invariant: the threads found are those printed, and once  *)
(* one has been found one is being read.                                   *)
Inv ==
    /\ TypeOK /\ ThreadsAsPrinted
    /\ current = <<>> => threads = <<>>

(* The invariant holds before the first line.                              *)
LEMMA InvInit == Init => Inv
<1> SUFFICES ASSUME Init PROVE Inv
  OBVIOUS
<1>1. /\ text = <<>> /\ threads = <<>> /\ current = <<>> /\ pc = "scan" /\ Found = <<>>
  BY DEF Init, Found
<1>2. Len(<<>>) = 0 /\ 1..0 = {} /\ <<>> \in Seq(Threads) /\ <<>> \in Seq(Kinds)
  OBVIOUS
<1>3. TypeOK
  BY <1>1, <1>2, LinesAssumption DEF TypeOK
<1>4. Heads(<<>>) = {}
  BY <1>2 DEF Heads, Numbers
<1>5. ThreadsAsPrinted
  BY <1>1, <1>2, <1>4, ListsNothing DEF ThreadsAsPrinted, AllAsPrinted
<1> QED  BY <1>1, <1>3, <1>5 DEF Inv

(* What is found while scanning: the finished threads, and the one being   *)
(* read as the last.                                                       *)
LEMMA FoundSoFar ==
    ASSUME Inv, pc = "scan"
    PROVE  /\ Found = threads \o current /\ Found \in Seq(Threads)
           /\ Len(Found) = Len(threads) + Len(current)
           /\ \A i \in 1..Len(threads) : Found[i] = threads[i]
           /\ current = <<>> => Found = <<>>
           /\ current # <<>> => /\ Len(current) = 1 /\ current[1] \in Threads
                                /\ Len(Found) = Len(threads) + 1
                                /\ Found[Len(Found)] = current[1]
<1>1. /\ Found = threads \o current /\ threads \in Seq(Threads) /\ current \in Seq(Threads)
      /\ Len(current) <= 1
  BY DEF Found, Inv, TypeOK
<1>2. current = <<>> => threads = <<>>
  BY DEF Inv
<1>3. /\ Found \in Seq(Threads) /\ Len(Found) = Len(threads) + Len(current)
      /\ \A i \in 1..Len(threads) : Found[i] = threads[i]
  BY <1>1
<1>4. current = <<>> => Found = <<>>
  BY <1>1, <1>2
<1>5. ASSUME current # <<>>
      PROVE  /\ Len(current) = 1 /\ current[1] \in Threads
             /\ Len(Found) = Len(threads) + 1 /\ Found[Len(Found)] = current[1]
  <2>1. Len(current) = 1 /\ current[1] \in Threads
    <3>1. Len(current) \in Nat \ {0}
      BY <1>1, <1>5, EmptySeq
    <3>2. Len(current) = 1
      <4> DEFINE n == Len(current)
      <4>1. n \in Nat \ {0} /\ n <= 1
        BY <1>1, <3>1
      <4> HIDE DEF n
      <4>2. n = 1
        BY <4>1
      <4> QED  BY <4>2 DEF n
    <3>3. 1 \in 1..Len(current)
      BY <3>2
    <3> QED  BY <1>1, <3>2, <3>3, ElementOfSeq
  <2> QED  BY <1>1, <1>3, <2>1
<1> QED  BY <1>1, <1>3, <1>4, <1>5

(* A line that changes only the thread being read, if there is one.        *)
LEMMA InvCurrent ==
    ASSUME Inv, NEW kind \in Kinds \ {"thread", "huge", "odd"}, Scanned(kind), UNCHANGED <<threads, pc>>,
           current = <<>> => current' = <<>>,
           NEW u, current # <<>> => /\ current' = <<u>> /\ u \in Threads
                                    /\ u.line = current[1].line /\ AsPrinted(text', u)
    PROVE  Inv'
<1>1. /\ pc = "scan" /\ pc' = "scan" /\ text \in Seq(Kinds) /\ kind \in Kinds
      /\ text' = Append(text, kind) /\ Len(text) < MaxLines /\ MaxLines \in Nat
      /\ threads \in Seq(Threads) /\ AllAsPrinted(text, Found)
  BY LinesAssumption DEF Scanned, Inv, TypeOK, ThreadsAsPrinted
<1>2. text' \in Seq(Kinds) /\ Len(text') <= MaxLines
  BY <1>1
<1>3. CASE current = <<>>
  <2>1. /\ Found = <<>> /\ Found' = <<>> /\ current' = <<>> /\ threads' = <<>>
        /\ <<>> \in Seq(Threads) /\ Len(<<>>) = 0
    BY <1>1, <1>3, FoundSoFar DEF Inv, Found
  <2>2. AllAsPrinted(Append(text, kind), <<>>)
    BY <1>1, <2>1, NoLine
  <2> QED  BY <1>1, <1>2, <2>1, <2>2 DEF Inv, TypeOK, ThreadsAsPrinted
<1>4. CASE current # <<>>
  <2>1. /\ current' = <<u>> /\ u \in Threads /\ u.line = current[1].line
        /\ AsPrinted(Append(text, kind), u)
    BY <1>1, <1>4
  <2>2. /\ Found \in Seq(Threads) /\ Len(Found) = Len(threads) + 1 /\ Found # <<>>
        /\ \A i \in 1..Len(threads) : Found[i] = threads[i]
        /\ Found[Len(Found)] = current[1]
    BY <1>1, <1>4, FoundSoFar
  <2>3. Found' = threads \o <<u>>
    BY <1>1, <2>1 DEF Found
  <2>4. /\ Found' \in Seq(Threads) /\ Len(Found') = Len(threads) + 1
        /\ \A i \in 1..Len(threads) : Found'[i] = threads[i]
        /\ Found'[Len(threads) + 1] = u
    BY <1>1, <2>1, <2>3
  <2>5. /\ Len(Found') = Len(Found) /\ \A i \in 1..Len(Found) - 1 : Found'[i] = Found[i]
        /\ Found'[Len(Found)].line = Found[Len(Found)].line
        /\ AsPrinted(Append(text, kind), Found'[Len(Found)])
    BY <1>1, <2>1, <2>2, <2>4
  <2>6. AllAsPrinted(Append(text, kind), Found')
    BY <1>1, <2>2, <2>4, <2>5, LastThread
  <2>7. /\ <<u>> \in Seq(Threads) /\ Len(<<u>>) <= 1 /\ <<u>> # <<>>
    BY <2>1
  <2> QED  BY <1>1, <1>2, <2>1, <2>6, <2>7 DEF Inv, TypeOK, ThreadsAsPrinted
<1> QED  BY <1>3, <1>4

(* Every step preserves the invariant.                                     *)
LEMMA InvStep == Inv /\ [Next]_vars => Inv'
<1> SUFFICES ASSUME Inv, [Next]_vars PROVE Inv'
  OBVIOUS
<1>0. /\ text \in Seq(Kinds) /\ MaxLines \in Nat /\ threads \in Seq(Threads)
      /\ current \in Seq(Threads) /\ AllAsPrinted(text, Found)
  BY LinesAssumption DEF Inv, TypeOK, ThreadsAsPrinted
<1>a. current # <<>> /\ pc = "scan" =>
         /\ current[1] \in Threads /\ AsPrinted(text, current[1])
         /\ current[1].line \in Heads(text) /\ \A m \in Heads(text) : m <= current[1].line
  <2> SUFFICES ASSUME current # <<>>, pc = "scan"
               PROVE  /\ current[1] \in Threads /\ AsPrinted(text, current[1])
                      /\ current[1].line \in Heads(text)
                      /\ \A m \in Heads(text) : m <= current[1].line
    OBVIOUS
  <2>1. /\ Found \in Seq(Threads) /\ Found[Len(Found)] = current[1]
        /\ Len(Found) = Len(threads) + 1
    BY FoundSoFar
  <2>2. Len(Found) \in 1..Len(Found)
    BY <1>0, <2>1
  <2> QED  BY <1>0, <2>1, <2>2, ThreadsStand
<1>1. ASSUME NEW kind \in Kinds, ThreadStart(kind) PROVE Inv'
  <2> DEFINE new == Header(Len(text) + 1, kind)
  <2>1. /\ kind \in {"thread", "huge", "odd"} /\ pc = "scan" /\ pc' = "scan"
        /\ text' = Append(text, kind) /\ Len(text) < MaxLines /\ Len(text') = Len(text) + 1
        /\ threads' = threads \o current /\ current' = <<new>>
    BY <1>0, <1>1 DEF ThreadStart, Scanned
  <2>2. new \in Threads
    <3>1. <<>> \in Seq(Frames) /\ Len(text) + 1 \in Nat
      BY <1>0
    <3> QED  BY <3>1 DEF Header, Threads
  <2> HIDE DEF new
  <2>3. Found \in Seq(Threads) /\ threads' = Found
    BY <2>1, FoundSoFar
  <2>4. Found' = Found \o <<new>>
    BY <2>1, <2>3 DEF Found
  <2>5. /\ Found' \in Seq(Threads) /\ Len(Found') = Len(Found) + 1
        /\ \A i \in 1..Len(Found) : Found'[i] = Found[i]
        /\ Found'[Len(Found) + 1] = new
    BY <2>2, <2>3, <2>4
  <2>6. AllAsPrinted(Append(text, kind), Found')
    BY <1>0, <2>1, <2>3, <2>5, HeaderLine DEF new
  <2>7. /\ <<new>> \in Seq(Threads) /\ Len(<<new>>) <= 1 /\ <<new>> # <<>>
        /\ text' \in Seq(Kinds) /\ Len(text') <= MaxLines
    BY <1>0, <2>1, <2>2
  <2> QED  BY <2>1, <2>3, <2>6, <2>7 DEF Inv, TypeOK, ThreadsAsPrinted
<1>2. CASE PythonFrame
  <2> DEFINE u == WithFrame(current[1], Len(text) + 1)
  <2>1. /\ Scanned("frame") /\ text' = Append(text, "frame") /\ pc = "scan"
        /\ Len(text') = Len(text) + 1 /\ "frame" \in Kinds \ {"thread", "huge", "odd"}
    BY <1>0, <1>2 DEF PythonFrame, Scanned, Kinds
  <2>2. /\ UNCHANGED <<threads, pc>>
        /\ current' = IF current = <<>> THEN <<>> ELSE <<u>>
    BY <1>2, <2>1 DEF PythonFrame
  <2>3. current # <<>> => u \in Threads /\ u.line = current[1].line /\ AsPrinted(text', u)
    BY <1>0, <1>a, <2>1, FrameLine
  <2> HIDE DEF u
  <2> QED  BY <2>1, <2>2, <2>3, InvCurrent
<1>3. CASE CodeLine
  <2> DEFINE u == IF current[1].frames = <<>> THEN current[1]
                  ELSE WithCode(current[1], Len(text) + 1)
  <2>1. /\ Scanned("code") /\ text' = Append(text, "code") /\ pc = "scan"
        /\ Len(text') = Len(text) + 1 /\ "code" \in Kinds \ {"thread", "huge", "odd"}
    BY <1>0, <1>3 DEF CodeLine, Scanned, Kinds
  <2>2. current # <<>> => current = <<current[1]>>
    BY <2>1, FoundSoFar, <1>0
  <2>3. /\ UNCHANGED <<threads, pc>>
        /\ current = <<>> => current' = <<>>
        /\ current # <<>> => current' = <<u>>
    BY <1>3, <2>1, <2>2 DEF CodeLine
  <2>4. ASSUME current # <<>>, current[1].frames = <<>> PROVE AsPrinted(text', current[1])
    <3> DEFINE t == current[1]
    <3>1. /\ t \in Threads /\ AsPrinted(text, t) /\ t.line \in 1..Len(text) /\ t.frames = <<>>
      BY <1>a, <2>1, <2>4 DEF Heads, Numbers
    <3>2. text'[t.line] = text[t.line] /\ FrameLines(text', t.line) = FrameLines(text, t.line)
      BY <1>0, <2>1, <3>1, FramesKept
    <3>3. 1..Len(<<>>) = {}
      OBVIOUS
    <3> HIDE DEF t
    <3>4. AsPrinted(text', t)
      BY <3>1, <3>2, <3>3 DEF AsPrinted
    <3> QED  BY <3>4 DEF t
  <2>5. current # <<>> => u \in Threads /\ u.line = current[1].line /\ AsPrinted(text', u)
    BY <1>0, <1>a, <2>1, <2>4, SourceLine
  <2> HIDE DEF u
  <2> QED  BY <2>1, <2>3, <2>5, InvCurrent
<1>4. CASE OtherLine
  <2>1. /\ Scanned("other") /\ text' = Append(text, "other") /\ pc = "scan"
        /\ "other" \in Kinds \ {"thread", "huge", "odd"} /\ Len(text') <= MaxLines
        /\ text' \in Seq(Kinds) /\ UNCHANGED <<current, threads, pc>>
    BY <1>0, <1>4 DEF OtherLine, Scanned, Kinds
  <2>2. Found \in Seq(Threads) /\ Found' = Found
    BY <2>1, FoundSoFar DEF Found
  <2>3. AllAsPrinted(text', Found)
    BY <1>0, <2>1, <2>2, NoLine
  <2> QED  BY <2>1, <2>2, <2>3 DEF Inv, TypeOK, ThreadsAsPrinted
<1>5. CASE ScanEnd
  <2>1. /\ pc = "scan" /\ pc' = "done" /\ threads' = threads \o current
        /\ UNCHANGED <<text, current>>
    BY <1>5 DEF ScanEnd
  <2>2. /\ threads' \in Seq(Threads) /\ Found' = Found
        /\ current = <<>> => threads' = <<>>
    BY <2>1, FoundSoFar DEF Found
  <2> QED  BY <1>0, <2>1, <2>2 DEF Inv, TypeOK, ThreadsAsPrinted
<1>6. CASE UNCHANGED vars
  BY <1>6 DEF vars, Inv, TypeOK, ThreadsAsPrinted, Found
<1> QED  BY <1>1, <1>2, <1>3, <1>4, <1>5, <1>6 DEF Next

(* Variables keep their shape, and one thread is being read or none.       *)
THEOREM TypeCorrect == Spec => []TypeOK
<1>1. Inv => TypeOK
  BY DEF Inv
<1> QED  BY <1>1, InvInit, InvStep, PTL DEF Spec

(* Whatever the text, the parser has every thread, frame and source line   *)
(* scanned so far, in the order they were printed in, and each under the   *)
(* one it was printed under.                                               *)
THEOREM ParsedAsPrinted == Spec => []ThreadsAsPrinted
<1>1. Inv => ThreadsAsPrinted
  BY DEF Inv
<1> QED  BY <1>1, InvInit, InvStep, PTL DEF Spec
=============================================================================
