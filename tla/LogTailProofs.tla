---------------------------- MODULE LogTailProofs ----------------------------
(* Theorems about LogTail, for every rank range, every number of lines and *)
(* every length of the logs.                                               *)
EXTENDS LogTail, TLAPS, SequenceTheorems, WellFoundedInduction

-----------------------------------------------------------------------------
(* Indices into the ring.                                                  *)

(* An index inside the ring is left alone.                                 *)
LEMMA InsideRing ==
    ASSUME NEW n \in Nat, n > 0, NEW a \in Nat, a < n
    PROVE  a % n = a
BY SMT

(* An index that has run past the end wraps once.                          *)
LEMMA PastRing ==
    ASSUME NEW n \in Nat, n > 0, NEW a \in Nat, a >= n, a < 2 * n
    PROVE  a % n = a - n
BY SMT

(* The slot written d lines ago, when index is the next one to write.      *)
Slot(i, d) == IF d <= i THEN i - d ELSE i - d + lines

-----------------------------------------------------------------------------
(* Sets of numbers, and recursion over the lines.                          *)

(* A nonempty set of naturals has a least element.                         *)
LEMMA LeastNatural ==
    ASSUME NEW S \in SUBSET Nat, S # {}
    PROVE  \E m \in S : \A t \in S : m <= t
<1> DEFINE Less == {p \in Nat \X Nat : p[1] < p[2]}
<1>1. IsWellFoundedOn(Less, Nat)
  BY NatLessThanWellFounded, Zenon DEF OpToRel
<1>2. \E m \in S : \A t \in S : ~(<<t, m>> \in Less)
  <2> HIDE DEF Less
  <2> QED  BY <1>1, WFMin, Zenon
<1>3. PICK m \in S : \A t \in S : ~(<<t, m>> \in Less)
  BY <1>2
<1>4. \A t \in S : m <= t
  <2> TAKE t \in S
  <2>1. t \in Nat /\ m \in Nat
    OBVIOUS
  <2>2. ~(t < m)
    BY <1>3, <2>1
  <2> QED  BY <2>1, <2>2
<1> QED  BY <1>4

(* A nonempty set of times with a bound has a latest.                      *)
LEMMA LatestIsTime ==
    ASSUME NEW T \in SUBSET Int, T # {}, NEW b \in Int, \A t \in T : t <= b
    PROVE  LatestOf(T) \in T
<1> DEFINE R == {b - t : t \in T}
<1>1. R \in SUBSET Nat /\ R # {}
  <2>1. \A t \in T : t \in Int /\ t <= b
    OBVIOUS
  <2>2. \A t \in T : b - t \in Nat
    BY <2>1
  <2> QED  BY <2>2
<1>2. PICK m \in R : \A r \in R : m <= r
  <2> HIDE DEF R
  <2> QED  BY <1>1, LeastNatural
<1>3. PICK t \in T : m = b - t
  OBVIOUS
<1>4. \A u \in T : u <= t
  <2> TAKE u \in T
  <2>1. b - t <= b - u
    BY <1>2, <1>3
  <2>2. u \in Int /\ t \in Int
    OBVIOUS
  <2> QED  BY <2>1, <2>2
<1> QED  BY <1>4 DEF LatestOf

(* The parser's loop: it is defined for every list of lines, and what it   *)
(* collects are lines.  By the least prefix of the list for which it would *)
(* not be so.                                                              *)
LEMMA EntriesAreLines ==
    ASSUME NEW ls \in Seq(Line)
    PROVE  Entries(ls) \in Seq(Line)
<1> DEFINE n == Len(ls)
           After(p, i) == IF ls[i].kind = "garbled" THEN p[i - 1] ELSE Append(p[i - 1], ls[i])
           Loop(p, m) == p = [i \in 0..m |-> IF i = 0 THEN <<>> ELSE After(p, i)]
           parsed == CHOOSE p : Loop(p, n)
           Undefined == {m \in 0..n : ~\E p : Loop(p, m)}
           Untyped == {m \in 0..n : parsed[m] \notin Seq(Line)}
<1>1. n \in Nat /\ \A i \in 1..n : ls[i] \in Line
  OBVIOUS
<1>2. Undefined = {}
  <2> SUFFICES ASSUME Undefined # {} PROVE FALSE
    OBVIOUS
  <2>1. Undefined \in SUBSET Nat
    BY <1>1
  <2>2. PICK m \in Undefined : \A k \in Undefined : m <= k
    <3> HIDE DEF Undefined
    <3> QED  BY <2>1, LeastNatural
  <2>3. m \in 0..n /\ m \in Nat /\ ~\E p : Loop(p, m)
    BY <1>1
  <2>4. CASE m = 0
    <3> DEFINE p == [i \in 0..0 |-> <<>>]
    <3>1. Loop(p, 0)
      OBVIOUS
    <3> QED  BY <3>1, <2>3, <2>4
  <2>5. CASE m # 0
    <3>1. m - 1 \in 0..n /\ ~(m <= m - 1)
      BY <2>3, <2>5, <1>1
    <3>2. m - 1 \notin Undefined
      <4> HIDE DEF Undefined
      <4> QED  BY <3>1, <2>2
    <3>3. PICK p : Loop(p, m - 1)
      BY <3>1, <3>2
    <3> DEFINE q == [i \in 0..m |-> IF i = m THEN After(p, m) ELSE p[i]]
    <3>4. \A i \in 0..(m - 1) : q[i] = p[i] /\ i \in 0..m
      BY <2>3
    <3>5. ASSUME NEW i \in 0..m PROVE q[i] = IF i = 0 THEN <<>> ELSE After(q, i)
      <4>1. CASE i = 0
        BY <4>1, <3>3, <3>4, <2>3, <2>5
      <4>2. CASE i # 0 /\ i # m
        <5>1. i \in 0..(m - 1) /\ i - 1 \in 0..(m - 1)
          BY <4>2, <2>3
        <5>2. p[i] = After(p, i)
          BY <3>3, <4>2, <5>1
        <5> QED  BY <5>1, <5>2, <3>4, <4>2
      <4>3. CASE i = m
        <5>1. i - 1 \in 0..(m - 1)
          BY <4>3, <2>3, <2>5
        <5> QED  BY <5>1, <3>4, <4>3, <2>5, <2>3
      <4> QED  BY <4>1, <4>2, <4>3
    <3>6. Loop(q, m)
      BY <3>5
    <3> QED  BY <3>6, <2>3
  <2> QED  BY <2>4, <2>5
<1>3. Loop(parsed, n)
  <2>1. n \in 0..n
    BY <1>1
  <2>2. \E p : Loop(p, n)
    BY <1>2, <2>1
  <2> QED  BY <2>2
<1>4. \A i \in 0..n : parsed[i] = IF i = 0 THEN <<>> ELSE After(parsed, i)
  <2> HIDE DEF parsed
  <2> QED  BY <1>3
<1>5. Untyped = {}
  <2> SUFFICES ASSUME Untyped # {} PROVE FALSE
    OBVIOUS
  <2> HIDE DEF parsed
  <2>1. Untyped \in SUBSET Nat
    BY <1>1
  <2>2. PICK m \in Untyped : \A k \in Untyped : m <= k
    <3> HIDE DEF Untyped
    <3> QED  BY <2>1, LeastNatural
  <2>3. m \in 0..n /\ m \in Nat /\ parsed[m] \notin Seq(Line)
    BY <1>1
  <2>4. m # 0
    <3>1. parsed[0] = <<>>
      BY <1>1, <1>4
    <3>2. <<>> \in Seq(Line)
      OBVIOUS
    <3> QED  BY <2>3, <3>1, <3>2
  <2>5. m - 1 \in 0..n /\ ~(m <= m - 1) /\ m \in 1..n
    BY <2>3, <2>4, <1>1
  <2>6. m - 1 \notin Untyped
    <3> HIDE DEF Untyped
    <3> QED  BY <2>5, <2>2
  <2>7. parsed[m - 1] \in Seq(Line) /\ ls[m] \in Line
    BY <2>5, <2>6, <1>1
  <2>8. parsed[m] = After(parsed, m)
    BY <1>4, <2>3, <2>4
  <2>9. After(parsed, m) \in Seq(Line)
    BY <2>7
  <2> QED  BY <2>3, <2>8, <2>9
<1>6. Entries(ls) = parsed[n]
  BY DEF Entries
<1>7. n \in 0..n
  BY <1>1
<1> HIDE DEF parsed
<1> QED  BY <1>5, <1>6, <1>7

-----------------------------------------------------------------------------
(* The inductive invariant.                                                *)

(* The types the arguments rest on.                                        *)
Shape ==
    /\ lines \in Int
    /\ log \in [Ranks -> Seq(Line)]
    /\ now \in 0..MaxTime
    /\ rank \in Ranks
    /\ count \in Nat
    /\ scanned \in Seq(Line)
    /\ pc \in {"begin", "open", "scan", "stat", "parse", "done", "error", "panicked"}

(* A log without a newline at its end has a line there.                    *)
Halves == \A r \in half : r \in Ranks /\ Len(log[r]) > 0

(* What was scanned is a prefix of the file, except that the line the scan *)
(* ended with may have been completed since: its time has not changed.  An *)
(* unterminated line that was scanned has ended the scan.                  *)
Prefix ==
    pc \in {"scan", "stat"} =>
        /\ lines >= 0
        /\ count = Len(scanned) /\ count <= Len(log[rank])
        /\ \A i \in 1..count : scanned[i] = log[rank][i] \/ (eof /\ i = count)
        /\ \A i \in 1..count : scanned[i].at = log[rank][i].at
        /\ rank \in half /\ count = Len(log[rank]) => eof

(* While scanning: the ring holds the last lines scanned, newest first     *)
(* when read backwards from index.                                         *)
RingHolds ==
    pc = "scan" =>
        /\ ring \in [0..(lines - 1) -> Line]
        /\ lines = 0 => count = 0
        /\ lines > 0 => index \in 0..(lines - 1)
        /\ count <= lines => index = IF count = lines THEN 0 ELSE count
        /\ \A d \in 1..lines : d <= count => ring[Slot(index, d)] = scanned[count + 1 - d]

(* After the scan: the lines handed to the parser.                         *)
TailRight == pc = "stat" => tail = LastLines(scanned)

(* The loop is inside the range, and has made one entry for each rank      *)
(* before the current one.                                                 *)
Looping ==
    /\ pc \in {"scan", "stat", "parse"} => rank < MaxRank
    /\ pc = "done" => rank = MaxRank
    /\ \E S : reply \in Seq(S)
    /\ Len(reply) = rank - MinRank
    /\ \A i \in DOMAIN reply : reply[i].rank = MinRank + i - 1

Inv == Shape /\ Halves /\ Prefix /\ RingHolds /\ TailRight /\ Looping

-----------------------------------------------------------------------------
(* One line goes into the ring: each line in it is one step older, and the *)
(* newest is the one just written.                                         *)
LEMMA RingStep ==
    ASSUME Inv, ScanLine, pc = "scan", lines > 0
    PROVE  RingHolds'
<1>1. /\ lines \in Nat /\ lines > 0 /\ lines' = lines
      /\ index \in 0..(lines - 1) /\ count \in Nat
      /\ ring \in [0..(lines - 1) -> Line]
  BY DEF Inv, Shape, Prefix, RingHolds, ScanLine, readVars
<1>2. /\ ring' = [ring EXCEPT ![index] = NextLine]
      /\ index' = NextIndex
      /\ count' = count + 1
      /\ scanned' = Append(scanned, NextLine)
  BY <1>1 DEF ScanLine
<1>3. NextIndex = IF index + 1 = lines THEN 0 ELSE index + 1
  <2>1. CASE index + 1 = lines
    BY <2>1, <1>1, PastRing DEF NextIndex
  <2>2. CASE index + 1 # lines
    <3>1. index + 1 \in Nat /\ index + 1 < lines
      BY <2>2, <1>1
    <3> QED  BY <2>2, <3>1, <1>1, InsideRing DEF NextIndex
  <2> QED  BY <2>1, <2>2
<1>4. NextLine \in Line
  <2>1. count < Len(log[rank]) /\ log[rank] \in Seq(Line)
    BY DEF Inv, Shape, Prefix, ScanLine, AtEnd
  <2> QED  BY <2>1, <1>1 DEF NextLine
<1>5. /\ Len(scanned) = count
      /\ \A i \in 1..count : scanned'[i] = scanned[i]
      /\ scanned'[count + 1] = NextLine
  <2>1. scanned \in Seq(Line) /\ Len(scanned) = count
    BY DEF Inv, Shape, Prefix
  <2> QED  BY <2>1, <1>2, <1>4, AppendProperties
<1>6. ring' \in [0..(lines - 1) -> Line]
  BY <1>1, <1>2, <1>4
<1>7. index' \in 0..(lines - 1)
  BY <1>1, <1>2, <1>3
<1>8. count' <= lines => index' = IF count' = lines THEN 0 ELSE count'
  <2>1. count < lines => index = count
    BY <1>1 DEF Inv, RingHolds
  <2> QED  BY <2>1, <1>1, <1>2, <1>3
<1>9. ASSUME NEW d \in 1..lines, d <= count'
      PROVE  ring'[IF d <= index' THEN index' - d ELSE index' - d + lines] = scanned'[count' + 1 - d]
  <2> DEFINE slot == IF d <= index' THEN index' - d ELSE index' - d + lines
  <2>1. CASE d = 1
    <3>1. slot = index
      BY <2>1, <1>1, <1>2, <1>3
    <3>2. ring'[index] = NextLine
      BY <1>1, <1>2
    <3>3. count' + 1 - d = count + 1
      BY <2>1, <1>1, <1>2
    <3> QED  BY <3>1, <3>2, <3>3, <1>5
  <2>2. CASE d # 1
    <3>1. /\ d - 1 \in 1..lines /\ d - 1 <= count
          /\ count + 1 - (d - 1) \in 1..count
          /\ count' + 1 - d = count + 1 - (d - 1)
      BY <2>2, <1>9, <1>1, <1>2
    <3>2. slot = Slot(index, d - 1) /\ slot # index /\ slot \in 0..(lines - 1)
      <4>1. CASE index + 1 = lines
        BY <4>1, <2>2, <1>1, <1>2, <1>3 DEF Slot
      <4>2. CASE index + 1 # lines
        BY <4>2, <2>2, <1>1, <1>2, <1>3 DEF Slot
      <4> QED  BY <4>1, <4>2
    <3>3. ring[Slot(index, d - 1)] = scanned[count + 1 - (d - 1)]
      BY <3>1, <1>1 DEF Inv, RingHolds
    <3>4. ring'[slot] = ring[slot]
      BY <3>2, <1>1, <1>2
    <3> QED  BY <3>1, <3>2, <3>3, <3>4, <1>5
  <2> QED  BY <2>1, <2>2
<1>10. \A d \in 1..lines' : d <= count' => ring'[Slot(index, d)'] = scanned'[count' + 1 - d]
  BY <1>1, <1>9 DEF Slot
<1>11. /\ ring' \in [0..(lines' - 1) -> Line]
       /\ lines' > 0 => index' \in 0..(lines' - 1)
       /\ count' <= lines' => index' = IF count' = lines' THEN 0 ELSE count'
       /\ lines' # 0
  BY <1>1, <1>6, <1>7, <1>8
<1> QED  BY <1>10, <1>11 DEF RingHolds

(* Reading the ring out from Start gives the end of what was scanned.      *)
LEMMA ReadOut ==
    ASSUME Inv, ScanEnd
    PROVE  tail' = LastLines(scanned)
<1> DEFINE n == IF count < lines THEN count ELSE lines
           first == IF Len(scanned) > lines THEN Len(scanned) - lines + 1 ELSE 1
<1>1. /\ pc = "scan" /\ lines \in Nat /\ count \in Nat
      /\ scanned \in Seq(Line) /\ Len(scanned) = count
      /\ lines = 0 => count = 0
      /\ lines > 0 => index \in 0..(lines - 1)
      /\ count <= lines => index = IF count = lines THEN 0 ELSE count
      /\ \A d \in 1..lines : d <= count => ring[Slot(index, d)] = scanned[count + 1 - d]
  BY DEF Inv, Shape, Prefix, RingHolds, ScanEnd
<1>2. tail' = [i \in 1..n |-> ring[(Start + i - 1) % lines]]
  BY DEF ScanEnd
<1>3. /\ n \in Nat /\ first \in Int /\ first >= 1
      /\ count - first + 1 = n
  BY <1>1
<1>4. ASSUME NEW i \in 1..n
      PROVE  ring[(Start + i - 1) % lines] = scanned[first + i - 1]
  <2> DEFINE d == count + 2 - first - i
  <2>1. d \in 1..lines /\ d <= count /\ count + 1 - d = first + i - 1 /\ lines > 0
    BY <1>1, <1>3
  <2>2. (Start + i - 1) % lines = Slot(index, d)
    <3>1. CASE count > lines
      <4>1. Start = index /\ d = lines + 1 - i /\ index \in Nat /\ index < lines
        BY <3>1, <1>1, <2>1 DEF Start
      <4>2. CASE index + i - 1 < lines
        <5>1. (Start + i - 1) % lines = index + i - 1
          <6>1. index + i - 1 \in Nat
            BY <4>1
          <6> QED  BY <6>1, <4>1, <4>2, <2>1, <1>1, InsideRing
        <5>2. Slot(index, d) = index + i - 1
          BY <4>1, <4>2, <1>1 DEF Slot
        <5> QED  BY <5>1, <5>2
      <4>3. CASE index + i - 1 >= lines
        <5>1. (Start + i - 1) % lines = index + i - 1 - lines
          <6>1. index + i - 1 \in Nat /\ index + i - 1 < 2 * lines
            BY <4>1, <1>1, <3>1
          <6> QED  BY <6>1, <4>1, <4>3, <2>1, <1>1, PastRing
        <5>2. Slot(index, d) = index + i - 1 - lines
          BY <4>1, <4>3, <1>1 DEF Slot
        <5> QED  BY <5>1, <5>2
      <4> QED  BY <4>1, <4>2, <4>3, <1>1
    <3>2. CASE count <= lines
      <4>1. Start = 0 /\ d = count + 1 - i
        BY <3>2, <1>1 DEF Start
      <4>2. (Start + i - 1) % lines = i - 1
        <5>1. i - 1 \in Nat /\ i - 1 < lines
          BY <1>1, <3>2
        <5> QED  BY <5>1, <4>1, <2>1, <1>1, InsideRing
      <4>3. Slot(index, d) = i - 1
        BY <4>1, <3>2, <1>1, <2>1 DEF Slot
      <4> QED  BY <4>2, <4>3
    <3> QED  BY <3>1, <3>2, <1>1
  <2> QED  BY <1>1, <2>1, <2>2
<1>5. LastLines(scanned) = SubSeq(scanned, first, count)
  BY <1>1 DEF LastLines
<1>6. SubSeq(scanned, first, count) = [i \in 1..n |-> scanned[first + i - 1]]
  BY <1>3, <1>1
<1> QED  BY <1>2, <1>4, <1>5, <1>6

-----------------------------------------------------------------------------
(* The initial state.                                                      *)
LEMMA InitInv == Init => Inv
<1> SUFFICES ASSUME Init PROVE Inv
  OBVIOUS
<1>1. MinRank \in Nat /\ MaxRank \in Nat /\ MinRank <= MaxRank /\ LineCounts \subseteq Int /\ MaxTime \in Nat
  BY LogTailAssumption
<1>2. <<>> \in Seq(Line) /\ Len(<<>>) = 0 /\ DOMAIN <<>> = {}
  OBVIOUS
<1>3. Shape
  BY <1>1, <1>2 DEF Init, Shape, Ranks
<1>4. Halves /\ Prefix /\ RingHolds /\ TailRight
  BY DEF Init, Halves, Prefix, RingHolds, TailRight
<1>5. Looping
  <2>1. reply \in Seq(Line) /\ Len(reply) = 0 /\ DOMAIN reply = {}
    BY <1>2 DEF Init
  <2>2. rank - MinRank = 0 /\ pc = "begin"
    BY <1>1 DEF Init
  <2> QED  BY <2>1, <2>2 DEF Looping
<1> QED  BY <1>3, <1>4, <1>5 DEF Inv

(* A rank appends a line, while it is read or not: what has been scanned   *)
(* stays a prefix.                                                         *)
LEMMA WriteInv ==
    ASSUME Inv, NEW r \in Writers, NEW kind \in Kinds, Write(r, kind)
    PROVE  Inv'
<1> DEFINE line == [kind |-> kind, at |-> now]
<1>1. /\ log' = [log EXCEPT ![r] = Append(@, line)]
      /\ half' \in {half, half \union {r}}
      /\ UNCHANGED <<now, pc, lines, rank, ring, index, count, eof, scanned, tail, reply>>
  BY DEF Write, readVars
<1>2. r \in Ranks /\ line \in Line
  BY LogTailAssumption DEF Ranks, Line, Inv, Shape
<1>3. /\ log[r] \in Seq(Line) /\ Append(log[r], line) \in Seq(Line)
      /\ Len(Append(log[r], line)) = Len(log[r]) + 1
      /\ \A i \in 1..Len(log[r]) : Append(log[r], line)[i] = log[r][i]
  <2>1. log[r] \in Seq(Line)
    BY <1>2 DEF Inv, Shape
  <2> HIDE DEF line
  <2> QED  BY <2>1, <1>2, AppendProperties
<1>4. /\ log' \in [Ranks -> Seq(Line)]
      /\ Len(log'[rank]) >= Len(log[rank])
      /\ \A i \in 1..Len(log[rank]) : log'[rank][i] = log[rank][i]
      /\ rank = r => Len(log'[rank]) = Len(log[rank]) + 1
      /\ rank # r => Len(log'[rank]) = Len(log[rank])
      /\ Len(log'[r]) > 0
      /\ \A s \in Ranks \ {r} : log'[s] = log[s]
  <2>1. log \in [Ranks -> Seq(Line)] /\ rank \in Ranks /\ log[rank] \in Seq(Line)
    BY DEF Inv, Shape
  <2> HIDE DEF line
  <2>2. CASE r = rank
    BY <2>1, <2>2, <1>1, <1>2, <1>3
  <2>3. CASE r # rank
    BY <2>1, <2>3, <1>1, <1>2, <1>3
  <2> QED  BY <2>2, <2>3
<1>5. Shape'
  BY <1>1, <1>4 DEF Inv, Shape
<1>6. Prefix'
  <2> SUFFICES ASSUME pc \in {"scan", "stat"} PROVE Prefix'
    BY <1>1 DEF Prefix
  <2>1. /\ lines >= 0 /\ count = Len(scanned) /\ count <= Len(log[rank])
        /\ \A i \in 1..count : scanned[i] = log[rank][i] \/ (eof /\ i = count)
        /\ \A i \in 1..count : scanned[i].at = log[rank][i].at
        /\ rank \in half /\ count = Len(log[rank]) => eof
    BY DEF Inv, Prefix
  <2>2. Len(log[rank]) \in Nat /\ count \in Nat /\ Len(log'[rank]) \in Nat
    BY <1>4 DEF Inv, Shape
  <2>3. count <= Len(log'[rank]) /\ \A i \in 1..count : log'[rank][i] = log[rank][i]
    BY <2>1, <2>2, <1>4
  <2>4. rank \in half' /\ count = Len(log'[rank]) => eof
    BY <2>1, <2>2, <1>1, <1>4
  <2> QED  BY <2>1, <2>3, <2>4, <1>1 DEF Prefix
<1>7. RingHolds' /\ TailRight'
  BY <1>1 DEF Inv, RingHolds, TailRight, Slot, LastLines
<1>8. Looping'
  BY <1>1 DEF Inv, Looping
<1>9. Halves'
  BY <1>1, <1>2, <1>4 DEF Inv, Halves
<1> QED  BY <1>5, <1>6, <1>7, <1>8, <1>9 DEF Inv

(* A rank completes its last line: that line, and nothing else, changes    *)
(* its kind, and keeps its time.                                           *)
LEMMA Completed ==
    ASSUME Inv, NEW r \in Ranks, Finish(r)
    PROVE  /\ log' \in [Ranks -> Seq(Line)]
           /\ \A s \in Ranks : Len(log'[s]) = Len(log[s]) /\ (s # r => log'[s] = log[s])
           /\ \A i \in 1..Len(log[r]) : /\ log'[r][i].at = log[r][i].at
                                        /\ i # Len(log[r]) => log'[r][i] = log[r][i]
<1> DEFINE n == Len(log[r])
           old == log[r][n]
<1>1. PICK kind \in Completions(old.kind) : log' = [log EXCEPT ![r][n].kind = kind]
  BY DEF Finish
<1>2. /\ log \in [Ranks -> Seq(Line)] /\ log[r] \in Seq(Line)
      /\ r \in half /\ n \in 1..n /\ n \in Nat
  <2>1. log \in [Ranks -> Seq(Line)] /\ r \in half /\ Len(log[r]) > 0
    BY DEF Inv, Shape, Halves, Finish
  <2> QED  BY <2>1
<1>3. old \in Line /\ kind \in {"stamped", "plain", "garbled", "long"}
  <2>1. kind \in Kinds
    BY DEF Completions
  <2> QED  BY <2>1, <1>2, LogTailAssumption
<1> DEFINE new == [old EXCEPT !.kind = kind]
           whole == [log[r] EXCEPT ![n] = new]
<1>4. new \in Line /\ new.at = old.at
  BY <1>3 DEF Line
<1>5. log' = [log EXCEPT ![r] = whole]
  BY <1>1
<1>6. /\ whole \in Seq(Line) /\ Len(whole) = n
      /\ whole[n] = new
      /\ \A i \in 1..n : i # n => whole[i] = log[r][i]
  <2> HIDE DEF new, old
  <2> QED  BY <1>2, <1>4
<1>7. log' \in [Ranks -> Seq(Line)] /\ log'[r] = whole /\ \A s \in Ranks : s # r => log'[s] = log[s]
  <2> HIDE DEF whole
  <2> QED  BY <1>2, <1>5, <1>6
<1> HIDE DEF whole, new
<1> QED  BY <1>2, <1>4, <1>6, <1>7

(* What was scanned of it is the line the scan ended with.                 *)
LEMMA FinishInv ==
    ASSUME Inv, NEW r \in Writers, Finish(r)
    PROVE  Inv'
<1>1. /\ half' = half \ {r} /\ r \in half
      /\ UNCHANGED <<now, pc, lines, rank, ring, index, count, eof, scanned, tail, reply>>
  BY DEF Finish, readVars
<1>2. r \in Ranks
  BY LogTailAssumption DEF Ranks
<1>3. /\ log' \in [Ranks -> Seq(Line)]
      /\ \A s \in Ranks : Len(log'[s]) = Len(log[s]) /\ (s # r => log'[s] = log[s])
      /\ \A i \in 1..Len(log[r]) : /\ log'[r][i].at = log[r][i].at
                                   /\ i # Len(log[r]) => log'[r][i] = log[r][i]
  BY <1>2, Completed
<1>4. Shape'
  BY <1>1, <1>3 DEF Inv, Shape
<1>5. Halves'
  BY <1>1, <1>3 DEF Inv, Halves
<1>6. Prefix'
  <2> SUFFICES ASSUME pc \in {"scan", "stat"} PROVE Prefix'
    BY <1>1 DEF Prefix
  <2>1. /\ lines >= 0 /\ count = Len(scanned) /\ count <= Len(log[rank])
        /\ \A i \in 1..count : scanned[i] = log[rank][i] \/ (eof /\ i = count)
        /\ \A i \in 1..count : scanned[i].at = log[rank][i].at
        /\ rank \in half /\ count = Len(log[rank]) => eof
        /\ rank \in Ranks /\ count \in Nat /\ Len(log[rank]) \in Nat
    BY DEF Inv, Shape, Prefix
  <2>2. ASSUME NEW i \in 1..count
        PROVE  /\ scanned[i] = log'[rank][i] \/ (eof /\ i = count)
               /\ scanned[i].at = log'[rank][i].at
    <3>1. CASE rank # r
      BY <3>1, <2>1, <1>3
    <3>2. CASE rank = r
      <4>0. i \in 1..Len(log[r])
        BY <3>2, <2>1
      <4>4. /\ log'[r][i].at = log[r][i].at
            /\ i # Len(log[r]) => log'[r][i] = log[r][i]
        BY <4>0, <1>3, Zenon
      <4>1. i \in 1..Len(log[r]) /\ log'[rank][i].at = log[rank][i].at
        BY <4>0, <4>4, <3>2
      <4>2. CASE i = Len(log[r])
        BY <4>1, <4>2, <3>2, <2>1, <1>1
      <4>3. CASE i # Len(log[r])
        BY <4>1, <4>3, <4>4, <3>2, <2>1
      <4> QED  BY <4>2, <4>3
    <3> QED  BY <3>1, <3>2
  <2>3. Len(log'[rank]) = Len(log[rank])
    BY <2>1, <1>3
  <2> QED  BY <2>1, <2>2, <2>3, <1>1 DEF Prefix
<1>7. RingHolds' /\ TailRight'
  BY <1>1 DEF Inv, RingHolds, TailRight, Slot, LastLines
<1>8. Looping'
  BY <1>1 DEF Inv, Looping
<1> QED  BY <1>4, <1>5, <1>6, <1>7, <1>8 DEF Inv

(* The scanner returns a line.                                             *)
LEMMA ScanLineInv ==
    ASSUME Inv, ScanLine
    PROVE  Inv'
<1>1. /\ pc = "scan" /\ count < Len(log[rank]) /\ ~eof
      /\ UNCHANGED <<now, log, half, lines, rank, reply>>
  <2>1. pc = "scan" /\ ~eof /\ count # Len(log[rank]) /\ UNCHANGED <<now, log, half, lines, rank, reply>>
    BY DEF ScanLine, AtEnd, jobVars
  <2>2. count \in Nat /\ Len(log[rank]) \in Nat /\ count <= Len(log[rank])
    BY <2>1 DEF Inv, Shape, Prefix
  <2> QED  BY <2>1, <2>2
<1>2. CASE lines = 0
  <2>1. pc' = "panicked" /\ UNCHANGED <<count, scanned>>
    BY <1>2 DEF ScanLine
  <2>2. Shape'
    BY <1>1, <2>1 DEF Inv, Shape
  <2>3. Looping'
    BY <1>1, <2>1 DEF Inv, Looping
  <2> QED  BY <1>1, <2>1, <2>2, <2>3 DEF Inv, Halves, Prefix, RingHolds, TailRight
<1>3. CASE lines # 0
  <2>1. /\ pc' = pc /\ count' = count + 1
        /\ scanned' = Append(scanned, NextLine)
        /\ eof' = (rank \in half /\ count + 1 = Len(log[rank]))
    BY <1>3 DEF ScanLine
  <2>2. /\ scanned \in Seq(Line) /\ count \in Nat /\ count = Len(scanned)
        /\ log[rank] \in Seq(Line) /\ lines > 0
        /\ \A i \in 1..count : scanned[i] = log[rank][i]
    BY <1>1, <1>3 DEF Inv, Shape, Prefix
  <2>3. NextLine = log[rank][count + 1] /\ NextLine \in Line
    BY <1>1, <2>2 DEF NextLine
  <2>4. /\ scanned' \in Seq(Line) /\ Len(scanned') = count + 1
        /\ \A i \in 1..count : scanned'[i] = scanned[i]
        /\ scanned'[count + 1] = NextLine
    BY <2>1, <2>2, <2>3, AppendProperties
  <2>5. Shape'
    BY <1>1, <2>1, <2>2, <2>4 DEF Inv, Shape
  <2>6. Prefix'
    <3>1. \A i \in 1..(count + 1) : scanned'[i] = log[rank][i]
      BY <2>2, <2>3, <2>4
    <3>2. lines >= 0
      BY <1>1 DEF Inv, Prefix
    <3>3. count + 1 <= Len(log[rank])
      <4>1. Len(log[rank]) \in Nat
        BY <2>2
      <4> QED  BY <1>1, <2>2, <4>1
    <3>4. rank \in half /\ count + 1 = Len(log[rank]) => eof'
      BY <2>1
    <3> QED  BY <3>1, <3>2, <3>3, <3>4, <2>1, <2>4, <1>1 DEF Prefix
  <2>7. RingHolds'
    BY <1>1, <2>2, RingStep
  <2>8. Halves' /\ TailRight' /\ Looping'
    BY <1>1, <2>1 DEF Inv, Halves, TailRight, Looping
  <2> QED  BY <2>5, <2>6, <2>7, <2>8 DEF Inv
<1> QED  BY <1>2, <1>3

(* The rank's entry is appended to the reply, and the loop goes on.        *)
LEMMA ParseInv ==
    ASSUME Inv, Parse
    PROVE  Inv'
<1> DEFINE entry == [rank |-> rank, entries |-> Entries(tail),
                     suspend |-> SuspendSeconds(tail), at |-> now, file |-> fmod]
<1>1. /\ pc = "parse" /\ pc' = "open" /\ rank' = rank + 1
      /\ reply' = Append(reply, entry)
      /\ UNCHANGED <<now, log, half, lines, count, scanned>>
  BY DEF Parse, jobVars
<1>2. rank \in MinRank..MaxRank /\ MinRank \in Nat /\ MaxRank \in Nat /\ rank < MaxRank
  BY <1>1, LogTailAssumption DEF Inv, Shape, Looping, Ranks
<1>3. Shape'
  BY <1>1, <1>2 DEF Inv, Shape, Ranks
<1>4. Looping'
  <2>1. entry.rank = rank
    OBVIOUS
  <2> HIDE DEF entry
  <2>2. PICK S : reply \in Seq(S)
    BY DEF Inv, Looping
  <2>3. reply \in Seq(S \union {entry})
    <3>1. \A i \in 1..Len(reply) : reply[i] \in S \union {entry}
      BY <2>2
    <3> QED  BY <2>2, <3>1
  <2>4. /\ reply' \in Seq(S \union {entry}) /\ Len(reply') = Len(reply) + 1
        /\ DOMAIN reply' = 1..(Len(reply) + 1) /\ DOMAIN reply = 1..Len(reply)
        /\ Len(reply) \in Nat
        /\ \A i \in 1..Len(reply) : reply'[i] = reply[i]
        /\ reply'[Len(reply) + 1] = entry
    BY <1>1, <2>3, AppendProperties
  <2>5. Len(reply) = rank - MinRank /\ \A i \in DOMAIN reply : reply[i].rank = MinRank + i - 1
    BY DEF Inv, Looping
  <2>6. Len(reply') = rank' - MinRank
    BY <2>4, <2>5, <1>1, <1>2
  <2>7. ASSUME NEW i \in DOMAIN reply' PROVE reply'[i].rank = MinRank + i - 1
    <3>1. CASE i \in 1..Len(reply)
      BY <3>1, <2>4, <2>5
    <3>2. CASE i = Len(reply) + 1
      BY <3>2, <2>1, <2>4, <2>5, <1>2
    <3> QED  BY <3>1, <3>2, <2>4
  <2> QED  BY <2>4, <2>6, <2>7, <1>1 DEF Looping
<1> QED  BY <1>1, <1>3, <1>4 DEF Inv, Halves, Prefix, RingHolds, TailRight

(* Every step preserves the invariant.                                     *)
LEMMA StepInv == Inv /\ [Next]_vars => Inv'
<1> SUFFICES ASSUME Inv, [Next]_vars PROVE Inv'
  OBVIOUS
<1>1. CASE UNCHANGED vars
  BY <1>1 DEF Inv, vars, jobVars, readVars, Shape, Halves, Prefix, RingHolds, TailRight, Looping, Slot, LastLines
<1>2. ASSUME NEW r \in Writers, Create(r) PROVE Inv'
  <2>1. UNCHANGED <<now, log, half, pc, lines, rank, ring, index, count, eof, scanned, tail, reply>>
    BY <1>2 DEF Create, readVars
  <2> QED  BY <2>1 DEF Inv, Shape, Halves, Prefix, RingHolds, TailRight, Looping, Slot, LastLines
<1>3. ASSUME NEW r \in Writers, NEW kind \in Kinds, Write(r, kind) PROVE Inv'
  BY <1>3, WriteInv
<1>14. ASSUME NEW r \in Writers, Finish(r) PROVE Inv'
  BY <1>14, FinishInv
<1>4. CASE Tick
  <2>1. /\ now' \in 0..MaxTime
        /\ UNCHANGED <<log, half, pc, lines, rank, ring, index, count, eof, scanned, tail, reply>>
    BY <1>4, LogTailAssumption DEF Tick, jobVars, readVars, Inv, Shape
  <2> QED  BY <2>1 DEF Inv, Shape, Halves, Prefix, RingHolds, TailRight, Looping, Slot, LastLines
<1>5. CASE Begin
  <2>1. /\ pc' \in {"open", "error"}
        /\ UNCHANGED <<now, log, half, lines, rank, count, eof, scanned, reply>>
    BY <1>5 DEF Begin, jobVars, readVars
  <2> QED  BY <2>1 DEF Inv, Shape, Halves, Prefix, RingHolds, TailRight, Looping
<1>6. CASE Open
  <2>1. /\ pc' \in {"panicked", "scan"} /\ rank < MaxRank
        /\ pc' = "scan" => lines >= 0 /\ ring' = [i \in 0..(lines - 1) |-> Unset]
        /\ index' = 0 /\ count' = 0 /\ scanned' = <<>>
        /\ UNCHANGED <<now, log, half, lines, rank, reply>>
    BY <1>6 DEF Open, InRange, jobVars, Inv, Shape
  <2>2. Unset \in Line /\ 0 \in 0..MaxTime
    BY LogTailAssumption DEF Unset, Line
  <2>3. scanned' \in Seq(Line) /\ Len(scanned') = 0
    BY <2>1
  <2>4. Shape'
    BY <2>1, <2>3 DEF Inv, Shape
  <2>5. Prefix'
    <3>1. Len(log[rank]) \in Nat
      BY DEF Inv, Shape
    <3>2. rank \in half => Len(log[rank]) > 0
      BY DEF Inv, Halves
    <3> QED  BY <2>1, <2>3, <3>1, <3>2 DEF Prefix
  <2>6. RingHolds'
    <3>1. lines \in Int
      BY DEF Inv, Shape
    <3> QED  BY <2>1, <2>2, <3>1 DEF RingHolds
  <2>7. Halves' /\ TailRight' /\ Looping'
    BY <2>1 DEF Inv, Halves, TailRight, Looping
  <2> QED  BY <2>4, <2>5, <2>6, <2>7 DEF Inv
<1>7. CASE OpenFails \/ ScanFails
  <2>1. /\ pc' = "parse" /\ rank < MaxRank
        /\ UNCHANGED <<now, log, half, lines, rank, count, eof, scanned, reply>>
    BY <1>7 DEF OpenFails, ScanFails, Unreadable, InRange, jobVars, Inv, Looping
  <2> QED  BY <2>1 DEF Inv, Shape, Halves, Prefix, RingHolds, TailRight, Looping
<1>8. CASE ScanLine
  BY <1>8, ScanLineInv
<1>9. CASE ScanEnd
  <2>1. /\ pc = "scan" /\ pc' = "stat"
        /\ UNCHANGED <<now, log, half, lines, rank, count, eof, scanned, reply>>
    BY <1>9 DEF ScanEnd, jobVars
  <2>2. TailRight'
    <3>1. tail' = LastLines(scanned)
      BY <1>9, ReadOut
    <3> QED  BY <3>1, <2>1 DEF TailRight, LastLines
  <2> QED  BY <2>1, <2>2 DEF Inv, Shape, Halves, Prefix, RingHolds, Looping
<1>10. CASE Stat
  <2>1. /\ pc = "stat" /\ pc' = "parse"
        /\ UNCHANGED <<now, log, half, lines, rank, count, eof, scanned, reply>>
    BY <1>10 DEF Stat, jobVars
  <2> QED  BY <2>1 DEF Inv, Shape, Halves, Prefix, RingHolds, TailRight, Looping
<1>11. CASE Parse
  BY <1>11, ParseInv
<1>12. CASE Done
  <2>1. /\ pc' = "done" /\ ~(rank < MaxRank)
        /\ UNCHANGED <<now, log, half, lines, rank, count, eof, scanned, reply>>
    BY <1>12 DEF Done, InRange, jobVars, readVars
  <2>2. rank = MaxRank
    BY <2>1, LogTailAssumption DEF Inv, Shape, Ranks
  <2> QED  BY <2>1, <2>2 DEF Inv, Shape, Halves, Prefix, RingHolds, TailRight, Looping
<1>13. CASE Ended
  BY <1>13, <1>1 DEF Ended
<1> QED  BY <1>1, <1>2, <1>3, <1>4, <1>5, <1>6, <1>7, <1>8, <1>9, <1>10, <1>11, <1>12, <1>13, <1>14
         DEF Next, Handler

-----------------------------------------------------------------------------
(* The invariant holds in every reachable state.                           *)
LEMMA Invariance == Spec => []Inv
BY InitInv, StepInv, PTL DEF Spec

(* The ring buffer of readRankLogTail: for every max_lines and every log,  *)
(* written to meanwhile or not, what is read out of it is the end of what  *)
(* was scanned, and what was scanned is the beginning of the file but for  *)
(* the end of a line that was being written.                               *)
THEOREM RingKeepsTail == Spec => []TailIsLast
<1>1. Inv => TailIsLast
  BY DEF Inv, TailRight, Prefix, TailIsLast
<1> QED  BY <1>1, Invariance, PTL

(* The loop of GetRecentLogs: the reply has the ranks from the lowest on,  *)
(* each once and in order, whichever of their logs could not be read, and  *)
(* ends before the highest.                                                *)
THEOREM RepliesInOrder == Spec => []RanksInOrder
<1>1. Inv => RanksInOrder
  BY DEF Inv, Looping, RanksInOrder
<1> QED  BY <1>1, Invariance, PTL

-----------------------------------------------------------------------------
(* The types of the rest, and how old the lines are.                       *)

(* The types of what the ring's argument does not need.                    *)
Typed ==
    /\ exists \subseteq Ranks /\ half \subseteq exists /\ eof \in BOOLEAN
    /\ mtime \in [Ranks -> 0..MaxTime]
    /\ zone \in Int
    /\ index \in Nat
    /\ tail \in Seq(Line)
    /\ fmod \in 0..MaxTime \union {NoTime}
    /\ reply \in Seq(RankLog)

(* No line of a file is younger than the file; nor is a line of the tail   *)
(* younger than the file's time, which was read after the line was.        *)
Aged ==
    /\ \A r \in Ranks : mtime[r] <= now /\ \A i \in 1..Len(log[r]) : log[r][i].at <= mtime[r]
    /\ pc = "parse" /\ fmod # NoTime => \A i \in 1..Len(tail) : tail[i].at <= fmod
    /\ HangNotMissed

(* Both invariants together give the shape of every variable.              *)
LEMMA Shapes == Inv /\ Typed => TypeOK
<1> SUFFICES ASSUME Inv, Typed PROVE TypeOK
  OBVIOUS
<1>1. pc = "scan" => ring \in [0..(lines - 1) -> Line] /\ (lines > 0 => index \in DOMAIN ring)
  BY DEF Inv, RingHolds
<1> QED  BY <1>1 DEF Inv, Shape, Typed, TypeOK

(* A line of the last lines is a line of the whole.                        *)
LEMMA LastLinesAreLines ==
    ASSUME NEW s \in Seq(Line), lines \in Nat
    PROVE  /\ LastLines(s) \in Seq(Line)
           /\ \A i \in 1..Len(LastLines(s)) : \E j \in 1..Len(s) : LastLines(s)[i] = s[j]
<1> DEFINE first == IF Len(s) > lines THEN Len(s) - lines + 1 ELSE 1
<1>1. Len(s) \in Nat /\ first \in Nat /\ first >= 1
  OBVIOUS
<1>2. LastLines(s) = SubSeq(s, first, Len(s))
  BY DEF LastLines
<1> HIDE DEF first
<1>3. \A i \in first..Len(s) : s[i] \in Line
  BY <1>1
<1>4. SubSeq(s, first, Len(s)) = [i \in 1..(Len(s) - first + 1) |-> s[first + i - 1]]
  BY <1>1
<1>5. CASE first <= Len(s)
  <2>1. Len(s) - first + 1 \in Nat
    BY <1>1, <1>5
  <2>2. \A i \in 1..(Len(s) - first + 1) : first + i - 1 \in 1..Len(s)
    BY <1>1, <1>5
  <2>3. /\ LastLines(s) \in Seq(Line) /\ Len(LastLines(s)) = Len(s) - first + 1
        /\ \A i \in 1..(Len(s) - first + 1) : LastLines(s)[i] = s[first + i - 1]
    BY <1>2, <1>4, <2>1, <2>2
  <2> QED  BY <2>2, <2>3
<1>6. CASE first > Len(s)
  <2>1. 1..(Len(s) - first + 1) = {}
    BY <1>1, <1>6
  <2>2. LastLines(s) = <<>>
    BY <1>2, <1>4, <2>1
  <2> QED  BY <2>2
<1> QED  BY <1>1, <1>5, <1>6

(* The lines handed to the parser, when the file could be read to its end. *)
LEMMA ScannedTail ==
    ASSUME Inv, ScanEnd
    PROVE  tail' \in Seq(Line)
<1>1. tail' = LastLines(scanned) /\ scanned \in Seq(Line)
  BY ReadOut DEF Inv, Shape
<1>2. lines \in Nat
  BY DEF Inv, Shape, Prefix, ScanEnd
<1> QED  BY <1>1, <1>2, LastLinesAreLines

(* They are lines of the file, the last perhaps not all of its line.       *)
LEMMA TailIsInFile ==
    ASSUME Inv, pc = "stat"
    PROVE  \A i \in 1..Len(tail) : \E j \in 1..Len(log[rank]) : tail[i].at = log[rank][j].at
<1>1. /\ tail = LastLines(scanned) /\ scanned \in Seq(Line)
      /\ count = Len(scanned) /\ count <= Len(log[rank]) /\ count \in Nat
      /\ \A j \in 1..count : scanned[j].at = log[rank][j].at
  BY DEF Inv, Shape, Prefix, TailRight
<1>2. lines \in Nat /\ Len(log[rank]) \in Nat
  BY DEF Inv, Shape, Prefix
<1> TAKE i \in 1..Len(tail)
<1>3. PICK j \in 1..Len(scanned) : tail[i] = scanned[j]
  BY <1>1, <1>2, LastLinesAreLines
<1> QED  BY <1>1, <1>2, <1>3

(* The times a tail carries, when there are any, have a latest; in a job   *)
(* west of UTC it is no later than the youngest of its lines.              *)
LEMMA LatestOfTail ==
    ASSUME NEW ls \in Seq(Line), zone \in Int, Times(ls) # {}
    PROVE  LatestOf(Times(ls)) \in Int /\ LatestOf(Times(ls)) \in Times(ls)
<1>1. MaxTime \in Nat
  BY LogTailAssumption
<1>2. \A i \in DOMAIN ls : ls[i].at \in 0..MaxTime
  <2>1. \A i \in DOMAIN ls : ls[i] \in Line
    OBVIOUS
  <2> QED  BY <2>1 DEF Line
<1>3. Times(ls) \in SUBSET Int /\ \A t \in Times(ls) : t <= MaxTime + zone
  BY <1>1, <1>2 DEF Times
<1>4. MaxTime + zone \in Int
  BY <1>1
<1>5. LatestOf(Times(ls)) \in Times(ls)
  BY <1>3, <1>4, LatestIsTime
<1> QED  BY <1>3, <1>5

(* What the handler reports about a rank.                                  *)
LEMMA RankEntry ==
    ASSUME Inv, Typed
    PROVE  [rank |-> rank, entries |-> Entries(tail), suspend |-> SuspendSeconds(tail),
            at |-> now, file |-> fmod] \in RankLog
<1>1. rank \in Ranks /\ now \in 0..MaxTime /\ MaxTime \in Nat
  BY LogTailAssumption DEF Inv, Shape
<1>2. tail \in Seq(Line) /\ zone \in Int /\ fmod \in 0..MaxTime \union {NoTime}
  BY DEF Typed
<1>3. Entries(tail) \in Seq(Line)
  BY <1>2, EntriesAreLines
<1>4. SuspendSeconds(tail) \in Int
  <2>1. Times(tail) # {} => LatestOf(Times(tail)) \in Int
    BY <1>2, LatestOfTail
  <2>2. now \in Int /\ (fmod # NoTime => fmod \in Int)
    BY <1>1, <1>2
  <2> QED  BY <2>1, <2>2 DEF SuspendSeconds
<1> QED  BY <1>1, <1>2, <1>3, <1>4 DEF RankLog

(* A tail whose lines are no younger than its file is reported suspended   *)
(* for at least as long as the file.                                       *)
LEMMA LongEnough ==
    ASSUME Inv, Typed, zone <= 0, fmod # NoTime, Entries(tail) # <<>>,
           \A i \in 1..Len(tail) : tail[i].at <= fmod
    PROVE  SuspendSeconds(tail) >= now - fmod
<1>1. now \in Int /\ fmod \in Int /\ zone \in Int /\ tail \in Seq(Line)
  BY LogTailAssumption DEF Inv, Shape, Typed
<1>2. CASE Times(tail) = {}
  BY <1>1, <1>2 DEF SuspendSeconds
<1>3. CASE Times(tail) # {}
  <2> DEFINE latest == LatestOf(Times(tail))
  <2>1. latest \in Int /\ latest \in Times(tail)
    BY <1>1, <1>3, LatestOfTail
  <2>2. PICK i \in 1..Len(tail) : latest = tail[i].at + zone
    <3>1. DOMAIN tail = 1..Len(tail)
      BY <1>1
    <3> HIDE DEF latest
    <3> QED  BY <2>1, <3>1 DEF Times
  <2>3. tail[i].at \in Int /\ tail[i].at <= fmod
    <3>1. tail[i] \in Line
      BY <1>1
    <3>2. tail[i].at \in 0..MaxTime /\ MaxTime \in Nat
      BY <3>1, LogTailAssumption DEF Line
    <3> QED  BY <3>2
  <2>4. latest <= fmod
    BY <2>2, <2>3, <1>1
  <2>5. SuspendSeconds(tail) = now - latest
    BY <1>3 DEF SuspendSeconds
  <2> HIDE DEF latest
  <2> QED  BY <2>1, <2>4, <2>5, <1>1
<1> QED  BY <1>2, <1>3

(* Both hold at the start.                                                 *)
LEMMA InitAged == Init => Typed /\ Aged
<1> SUFFICES ASSUME Init PROVE Typed /\ Aged
  OBVIOUS
<1>1. MaxTime \in Nat /\ 0 \in 0..MaxTime /\ Zones \subseteq Int
  BY LogTailAssumption
<1>2. Typed
  <2>1. eof \in BOOLEAN /\ half \subseteq exists /\ exists \subseteq Ranks
    BY DEF Init
  <2>2. tail \in Seq(Line) /\ reply \in Seq(RankLog) /\ fmod \in 0..MaxTime \union {NoTime}
    BY DEF Init
  <2>3. mtime \in [Ranks -> 0..MaxTime] /\ zone \in Int /\ index \in Nat
    BY <1>1 DEF Init
  <2> QED  BY <2>1, <2>2, <2>3 DEF Typed
<1>3. \A r \in Ranks : mtime[r] = 0 /\ Len(log[r]) = 0 /\ now = 0
  BY DEF Init
<1>4. DOMAIN reply = {} /\ pc = "begin"
  BY DEF Init
<1> QED  BY <1>2, <1>3, <1>4 DEF Aged, HangNotMissed

(* Every step keeps the types.                                             *)
LEMMA TypedStep ==
    ASSUME Inv, Typed, [Next]_vars
    PROVE  Typed'
<1>1. CASE UNCHANGED vars
  BY <1>1 DEF Typed, vars, jobVars, readVars
<1>2. ASSUME NEW r \in Writers, Create(r) \/ Finish(r) \/ \E kind \in Kinds : Write(r, kind) PROVE Typed'
  <2>1. /\ exists' \subseteq exists \union {r} /\ half' \subseteq exists'
        /\ mtime' = [mtime EXCEPT ![r] = now]
        /\ UNCHANGED <<zone, index, eof, tail, fmod, reply>>
    BY <1>2 DEF Create, Finish, Write, readVars, Typed
  <2>2. r \in Ranks /\ now \in 0..MaxTime
    BY LogTailAssumption DEF Ranks, Inv, Shape
  <2>3. mtime' \in [Ranks -> 0..MaxTime] /\ exists' \subseteq Ranks
    BY <2>1, <2>2 DEF Typed
  <2> QED  BY <2>1, <2>3 DEF Typed
<1>3. CASE Tick \/ Begin \/ Done
  BY <1>3 DEF Typed, Tick, Begin, Done, jobVars, readVars
<1>4. CASE Open
  <2>1. /\ index' = 0 /\ eof' = FALSE /\ tail' = <<>> /\ fmod' = NoTime
        /\ UNCHANGED <<exists, half, mtime, zone, reply>>
    BY <1>4 DEF Open, jobVars
  <2>2. eof' \in BOOLEAN /\ half' \subseteq exists'
    BY <2>1 DEF Typed
  <2>3. exists' \subseteq Ranks /\ mtime' \in [Ranks -> 0..MaxTime] /\ zone' \in Int /\ reply' \in Seq(RankLog)
    BY <2>1 DEF Typed
  <2>4. tail' \in Seq(Line)
    BY <2>1
  <2> QED  BY <2>1, <2>2, <2>3, <2>4 DEF Typed
<1>5. CASE OpenFails \/ ScanFails
  <2>1. /\ tail' = <<[kind |-> "plain", at |-> now]>> /\ fmod' = NoTime
        /\ UNCHANGED <<exists, half, mtime, zone, index, eof, reply>>
    BY <1>5 DEF OpenFails, ScanFails, Unreadable, jobVars
  <2>2. [kind |-> "plain", at |-> now] \in Line
    BY DEF Line, Inv, Shape
  <2>3. tail' \in Seq(Line)
    BY <2>1, <2>2
  <2> QED  BY <2>1, <2>3 DEF Typed
<1>6. CASE ScanLine
  <2>1. UNCHANGED <<exists, half, mtime, zone, tail, fmod, reply>>
    BY <1>6 DEF ScanLine, jobVars
  <2>3. eof' \in BOOLEAN
    BY <1>6 DEF ScanLine, Typed
  <2>2. index' \in Nat
    <3>1. CASE lines = 0
      BY <1>6, <3>1 DEF ScanLine, Typed
    <3>2. CASE lines # 0
      <4>1. lines \in Nat /\ lines > 0 /\ pc = "scan"
        BY <1>6, <3>2 DEF ScanLine, Inv, Shape, Prefix
      <4>2. RingHolds' /\ index' = NextIndex /\ index \in Nat
        BY <1>6, <4>1, RingStep DEF ScanLine, Typed
      <4>3. (index + 1) % lines \in Nat
        BY <4>1, <4>2, SMT
      <4> QED  BY <4>2, <4>3 DEF NextIndex
    <3> QED  BY <3>1, <3>2
  <2> QED  BY <2>1, <2>2, <2>3 DEF Typed
<1>7. CASE ScanEnd
  <2>1. UNCHANGED <<exists, half, mtime, zone, index, eof, fmod, reply>>
    BY <1>7 DEF ScanEnd, jobVars
  <2> QED  BY <2>1, <1>7, ScannedTail DEF Typed
<1>8. CASE Stat
  <2>1. /\ fmod' \in {mtime[rank], NoTime}
        /\ UNCHANGED <<exists, half, mtime, zone, index, eof, tail, reply>>
    BY <1>8 DEF Stat, jobVars
  <2>2. rank \in Ranks
    BY DEF Inv, Shape
  <2> QED  BY <2>1, <2>2 DEF Typed
<1>9. CASE Parse
  <2> DEFINE entry == [rank |-> rank, entries |-> Entries(tail),
                       suspend |-> SuspendSeconds(tail), at |-> now, file |-> fmod]
  <2>1. /\ reply' = Append(reply, entry)
        /\ UNCHANGED <<exists, half, mtime, zone, index, eof, tail, fmod>>
    BY <1>9 DEF Parse, jobVars
  <2>2. entry \in RankLog
    BY RankEntry
  <2> HIDE DEF entry
  <2>3. reply' \in Seq(RankLog)
    BY <2>1, <2>2 DEF Typed
  <2> QED  BY <2>1, <2>3 DEF Typed
<1> QED  BY <1>1, <1>2, <1>3, <1>4, <1>5, <1>6, <1>7, <1>8, <1>9 DEF Next, Handler, Ended

(* The clauses on the files: a rank writes no line older than its file.    *)
FilesAged ==
    \A r \in Ranks : mtime[r] <= now /\ \A i \in 1..Len(log[r]) : log[r][i].at <= mtime[r]

(* A rank writes: its file becomes as old as the new line.                 *)
LEMMA WriteAged ==
    ASSUME Inv, Typed, FilesAged, NEW w \in Writers, NEW kind \in Kinds, Write(w, kind)
    PROVE  FilesAged'
<1> DEFINE line == [kind |-> kind, at |-> now]
<1>1. /\ log' = [log EXCEPT ![w] = Append(@, line)]
      /\ mtime' = [mtime EXCEPT ![w] = now]
      /\ now' = now /\ now \in Nat /\ line.at = now
  BY LogTailAssumption DEF Write, Inv, Shape
<1>2. /\ log \in [Ranks -> Seq(Line)] /\ mtime \in [Ranks -> 0..MaxTime] /\ w \in Ranks
  BY LogTailAssumption DEF Ranks, Inv, Shape, Typed
<1> HIDE DEF line
<1> SUFFICES ASSUME NEW r \in Ranks
             PROVE  mtime'[r] <= now /\ \A i \in 1..Len(log'[r]) : log'[r][i].at <= mtime'[r]
  BY <1>1 DEF FilesAged
<1>3. CASE r = w
  <2>1. log'[r] = Append(log[r], line) /\ mtime'[r] = now /\ log[r] \in Seq(Line)
    BY <1>1, <1>2, <1>3
  <2>2. ASSUME NEW i \in 1..Len(log'[r]) PROVE log'[r][i].at <= now
    <3>1. CASE i \in 1..Len(log[r])
      <4>1. log'[r][i] = log[r][i] /\ log[r][i] \in Line
        BY <2>1, <3>1
      <4>2. log[r][i].at <= mtime[r] /\ mtime[r] <= now /\ mtime[r] \in Int /\ log[r][i].at \in Int
        <5>1. log[r][i].at \in 0..MaxTime /\ mtime[r] \in 0..MaxTime /\ MaxTime \in Nat
          BY <4>1, <1>2, LogTailAssumption DEF Line
        <5> QED  BY <5>1, <3>1 DEF FilesAged
      <4> QED  BY <4>1, <4>2, <1>1
    <3>2. CASE i = Len(log[r]) + 1
      <4>1. log'[r][i] = line
        BY <2>1, <3>2
      <4> QED  BY <4>1, <1>1
    <3>3. Len(log'[r]) = Len(log[r]) + 1
      BY <2>1
    <3> QED  BY <3>1, <3>2, <3>3
  <2> QED  BY <2>1, <2>2, <1>1
<1>4. CASE r # w
  <2>1. log'[r] = log[r] /\ mtime'[r] = mtime[r]
    BY <1>1, <1>2, <1>4
  <2> QED  BY <2>1 DEF FilesAged
<1> QED  BY <1>3, <1>4

(* A rank completes its last line: the file is younger, the line is not.   *)
LEMMA FinishAged ==
    ASSUME Inv, Typed, FilesAged, NEW w \in Writers, Finish(w)
    PROVE  FilesAged'
<1>1. /\ mtime' = [mtime EXCEPT ![w] = now] /\ now' = now /\ now \in Nat /\ w \in Ranks
      /\ mtime \in [Ranks -> 0..MaxTime] /\ MaxTime \in Nat
  BY LogTailAssumption DEF Ranks, Finish, Inv, Shape, Typed
<1>2. /\ \A s \in Ranks : Len(log'[s]) = Len(log[s]) /\ (s # w => log'[s] = log[s])
      /\ \A i \in 1..Len(log[w]) : /\ log'[w][i].at = log[w][i].at
                                   /\ i # Len(log[w]) => log'[w][i] = log[w][i]
  BY <1>1, Completed
<1>5. log \in [Ranks -> Seq(Line)]
  BY DEF Inv, Shape
<1> SUFFICES ASSUME NEW r \in Ranks
             PROVE  mtime'[r] <= now /\ \A i \in 1..Len(log'[r]) : log'[r][i].at <= mtime'[r]
  BY <1>1 DEF FilesAged
<1>3. CASE r = w
  <2>1. ASSUME NEW i \in 1..Len(log[w]) PROVE log'[w][i].at <= now
    <3>1. log[w][i] \in Line /\ log[w][i].at <= mtime[w] /\ mtime[w] <= now
      <4>1. log[w] \in Seq(Line)
        BY <1>1, <1>5
      <4>2. log[w][i] \in Line
        BY <4>1
      <4> QED  BY <4>2, <1>1 DEF FilesAged
    <3>2. log[w][i].at \in Int /\ mtime[w] \in Int
      BY <3>1, <1>1 DEF Line
    <3>3. log'[w][i].at = log[w][i].at
      BY <1>2, Zenon
    <3> QED  BY <3>1, <3>2, <3>3, <1>1
  <2> QED  BY <2>1, <1>1, <1>2, <1>3
<1>4. CASE r # w
  BY <1>1, <1>2, <1>4 DEF FilesAged
<1> QED  BY <1>3, <1>4

(* The rank's entry: what the reply says of it and of the ranks before.    *)
LEMMA ParseAged ==
    ASSUME Inv, Typed, Aged, Parse
    PROVE  HangNotMissed'
<1> DEFINE entry == [rank |-> rank, entries |-> Entries(tail),
                     suspend |-> SuspendSeconds(tail), at |-> now, file |-> fmod]
<1>1. /\ reply' = Append(reply, entry) /\ zone' = zone /\ pc = "parse"
      /\ reply \in Seq(RankLog)
  BY DEF Parse, jobVars, Typed
<1>2. entry \in RankLog
  BY RankEntry
<1>3. zone <= 0 /\ entry.file # NoTime /\ entry.entries # <<>> =>
          entry.suspend >= entry.at - entry.file
  <2> SUFFICES ASSUME zone <= 0, fmod # NoTime, Entries(tail) # <<>>
               PROVE  SuspendSeconds(tail) >= now - fmod
    OBVIOUS
  <2>1. \A i \in 1..Len(tail) : tail[i].at <= fmod
    BY <1>1 DEF Aged
  <2> QED  BY <2>1, LongEnough
<1> HIDE DEF entry
<1>4. /\ DOMAIN reply' = 1..(Len(reply) + 1) /\ Len(reply) \in Nat
      /\ \A i \in 1..Len(reply) : reply'[i] = reply[i]
      /\ reply'[Len(reply) + 1] = entry
      /\ DOMAIN reply = 1..Len(reply)
  BY <1>1, <1>2
<1> SUFFICES ASSUME NEW i \in DOMAIN reply', zone <= 0,
                    reply'[i].file # NoTime, reply'[i].entries # <<>>
             PROVE  reply'[i].suspend >= reply'[i].at - reply'[i].file
  BY <1>1 DEF HangNotMissed
<1>5. CASE i \in 1..Len(reply)
  BY <1>4, <1>5 DEF Aged, HangNotMissed
<1>6. CASE i = Len(reply) + 1
  BY <1>3, <1>4, <1>6
<1> QED  BY <1>4, <1>5, <1>6

(* Every step keeps the ages.                                              *)
LEMMA AgedStep ==
    ASSUME Inv, Typed, Aged, [Next]_vars
    PROVE  Aged'
<1>1. CASE UNCHANGED vars
  BY <1>1 DEF Aged, HangNotMissed, vars, jobVars, readVars
<1>2. FilesAged
  BY DEF Aged, FilesAged
<1>3. ASSUME NEW w \in Writers, Create(w) PROVE Aged'
  <2>1. /\ mtime' = [mtime EXCEPT ![w] = now] /\ w \notin exists
        /\ UNCHANGED <<now, log, zone, pc, tail, fmod, reply>>
    BY <1>3 DEF Create, readVars
  <2>2. now \in Nat /\ mtime \in [Ranks -> 0..MaxTime] /\ MaxTime \in Nat /\ log \in [Ranks -> Seq(Line)]
    BY LogTailAssumption DEF Inv, Shape, Typed
  <2>3. ASSUME NEW r \in Ranks
        PROVE  mtime'[r] <= now /\ \A i \in 1..Len(log[r]) : log[r][i].at <= mtime'[r]
    <3>1. mtime[r] <= now /\ mtime[r] \in Int /\ mtime[r] <= mtime'[r] /\ mtime'[r] <= now
          /\ mtime'[r] \in Int
      BY <2>1, <2>2, <1>2 DEF FilesAged
    <3>2. ASSUME NEW i \in 1..Len(log[r]) PROVE log[r][i].at <= mtime'[r]
      <4>1. log[r][i] \in Line
        BY <2>2
      <4>2. log[r][i].at \in Int /\ log[r][i].at <= mtime[r]
        BY <4>1, <2>2, <1>2 DEF Line, FilesAged
      <4> QED  BY <4>2, <3>1
    <3> QED  BY <3>1, <3>2
  <2> QED  BY <2>1, <2>3 DEF Aged, HangNotMissed
<1>4. ASSUME NEW w \in Writers, NEW kind \in Kinds, Write(w, kind) PROVE Aged'
  <2>1. FilesAged'
    BY <1>2, <1>4, WriteAged
  <2>2. UNCHANGED <<zone, pc, tail, fmod, reply>>
    BY <1>4 DEF Write, readVars
  <2> QED  BY <2>1, <2>2 DEF Aged, FilesAged, HangNotMissed
<1>9. ASSUME NEW w \in Writers, Finish(w) PROVE Aged'
  <2>1. FilesAged'
    BY <1>2, <1>9, FinishAged
  <2>2. UNCHANGED <<zone, pc, tail, fmod, reply>>
    BY <1>9 DEF Finish, readVars
  <2> QED  BY <2>1, <2>2 DEF Aged, FilesAged, HangNotMissed
<1>5. CASE Tick
  <2>1. now' = now + 1 /\ UNCHANGED <<log, mtime, zone, pc, tail, fmod, reply>>
    BY <1>5 DEF Tick, jobVars, readVars
  <2>2. now \in Nat /\ MaxTime \in Nat /\ mtime \in [Ranks -> 0..MaxTime]
    BY LogTailAssumption DEF Inv, Shape, Typed
  <2>3. \A r \in Ranks : mtime[r] <= now'
    BY <2>1, <2>2, <1>2 DEF FilesAged
  <2> QED  BY <2>1, <2>3, <1>2 DEF Aged, FilesAged, HangNotMissed
<1>6. CASE Begin \/ Done \/ Open \/ OpenFails \/ ScanFails \/ ScanLine \/ ScanEnd
  <2>1. UNCHANGED <<now, log, mtime, zone, reply>> /\ (pc' = "parse" => fmod' = NoTime)
    <3>1. CASE Begin \/ Done
      BY <3>1 DEF Begin, Done, jobVars
    <3>2. CASE Open \/ ScanLine \/ ScanEnd
      BY <3>2 DEF Open, ScanLine, ScanEnd, jobVars
    <3>3. CASE OpenFails \/ ScanFails
      BY <3>3 DEF OpenFails, ScanFails, Unreadable, jobVars
    <3> QED  BY <1>6, <3>1, <3>2, <3>3
  <2> QED  BY <2>1 DEF Aged, HangNotMissed
<1>7. CASE Stat
  <2>1. /\ pc = "stat" /\ fmod' \in {mtime[rank], NoTime}
        /\ UNCHANGED <<now, log, mtime, zone, tail, reply>>
    BY <1>7 DEF Stat, jobVars
  <2>2. rank \in Ranks
    BY DEF Inv, Shape
  <2>3. \A i \in 1..Len(tail) : tail[i].at <= mtime[rank]
    <3> TAKE i \in 1..Len(tail)
    <3>1. PICK j \in 1..Len(log[rank]) : tail[i].at = log[rank][j].at
      BY <2>1, TailIsInFile
    <3> QED  BY <3>1, <2>2, <1>2 DEF FilesAged
  <2> QED  BY <2>1, <2>3, <1>2 DEF Aged, FilesAged, HangNotMissed
<1>8. CASE Parse
  <2>1. pc' = "open" /\ UNCHANGED <<now, log, mtime>>
    BY <1>8 DEF Parse, jobVars
  <2> QED  BY <2>1, <1>2, <1>8, ParseAged DEF Aged, FilesAged
<1> QED  BY <1>1, <1>3, <1>4, <1>5, <1>6, <1>7, <1>8, <1>9 DEF Next, Handler, Ended

(* Types and ages hold in every reachable state.                           *)
LEMMA AgedInvariance == Spec => [](Typed /\ Aged)
<1>1. Init => Typed /\ Aged
  BY InitAged
<1>2. Inv /\ Typed /\ Aged /\ [Next]_vars => (Typed /\ Aged)'
  BY TypedStep, AgedStep
<1> QED  BY <1>1, <1>2, Invariance, PTL DEF Spec

(* Type correctness: the variables of the handler keep their shape, the    *)
(* ring is indexed inside whatever max_lines is, and the reply's entries   *)
(* are lines the parser kept.                                              *)
THEOREM ReadTypeCorrect == Spec => []TypeOK
<1>1. Inv /\ Typed => TypeOK
  BY Shapes
<1> QED  BY <1>1, Invariance, AgedInvariance, PTL

(* getLatestTime and the suspension GetRecentLogs reports: a rank that has *)
(* been silent is never reported silent for a shorter time, for every log  *)
(* of a job at UTC or behind it, although the log is written to while it   *)
(* is scanned and its time is read afterwards.                             *)
THEOREM NoHangIsMissed == Spec => []HangNotMissed
<1>1. Aged => HangNotMissed
  BY DEF Aged
<1> QED  BY <1>1, AgedInvariance, PTL
=============================================================================
