-------------------------- MODULE HangCheckProofs --------------------------
(* Theorems about HangCheck, for any number of nodes, processes, samples,  *)
(* rounds, changes and failures.                                           *)
EXTENDS HangCheck, TLAPS, FiniteSetTheorems, FunctionTheorems, WellFoundedInduction

-----------------------------------------------------------------------------
(* Sorting a list with distinct keys.                                      *)

(* A nonempty set of naturals has a least element.                         *)
LEMMA LeastNatural ==
    ASSUME NEW S \in SUBSET Nat, S # {}
    PROVE  \E m \in S : \A t \in S : m <= t
<1> DEFINE Less == {p \in Nat \X Nat : p[1] < p[2]}
<1>1. IsWellFoundedOn(Less, Nat)
  BY NatLessThanWellFounded, Zenon DEF OpToRel
<1>2. \E m \in S : \A t \in S : ~(<<t, m>> \in Less)
  <2> HIDE DEF Less
  <2> QED  BY <1>1, WFMin, Zenon
<1>3. PICK m \in S : \A t \in S : ~(<<t, m>> \in Less)
  BY <1>2
<1>4. \A t \in S : m <= t
  <2> TAKE t \in S
  <2>1. t \in Nat /\ m \in Nat
    OBVIOUS
  <2>2. ~(t < m)
    BY <1>3, <2>1
  <2> QED  BY <2>1, <2>2
<1> QED  BY <1>4

(* The indices of the lesser keys.                                         *)
Below(key, i) == {j \in DOMAIN key : key[j] < key[i]}

(* Distinct keys can be put in order: each key's place is the number of    *)
(* the lesser ones, plus one.                                              *)
LEMMA CanBeSorted ==
    ASSUME NEW n \in Nat, NEW key \in [1..n -> Int],
           \A i, j \in 1..n : key[i] = key[j] => i = j
    PROVE  \E at \in [1..n -> 1..n] : \A j, k \in 1..n : j < k => key[at[j]] < key[at[k]]
<1> DEFINE place == [i \in 1..n |-> Cardinality(Below(key, i)) + 1]
<1>1. IsFiniteSet(1..n) /\ Cardinality(1..n) = n
  BY FS_Interval
<1>2. ASSUME NEW i \in 1..n
      PROVE  /\ Below(key, i) \in SUBSET (1..n) /\ i \notin Below(key, i)
             /\ IsFiniteSet(Below(key, i))
             /\ Cardinality(Below(key, i)) \in Nat /\ Cardinality(Below(key, i)) < n
  <2>1. Below(key, i) \in SUBSET (1..n) /\ i \notin Below(key, i)
    BY DEF Below
  <2>2. /\ IsFiniteSet(Below(key, i)) /\ Cardinality(Below(key, i)) <= n
        /\ n = Cardinality(Below(key, i)) => 1..n = Below(key, i)
    BY <1>1, <2>1, FS_Subset
  <2>3. Cardinality(Below(key, i)) \in Nat
    BY <2>2, FS_CardinalityType
  <2> QED  BY <2>1, <2>2, <2>3
<1>3. ASSUME NEW i \in 1..n, NEW j \in 1..n, key[i] < key[j]
      PROVE  place[i] < place[j]
  <2>1. key[i] \in Int /\ key[j] \in Int
    OBVIOUS
  <2>2. Below(key, i) \in SUBSET Below(key, j) /\ i \in Below(key, j)
    BY <1>3, <2>1 DEF Below
  <2>3. /\ Cardinality(Below(key, i)) <= Cardinality(Below(key, j))
        /\ Cardinality(Below(key, j)) # Cardinality(Below(key, i))
    BY <1>2, <2>2, FS_Subset
  <2>4. Cardinality(Below(key, i)) \in Nat /\ Cardinality(Below(key, j)) \in Nat
    BY <1>2
  <2>5. Cardinality(Below(key, i)) + 1 < Cardinality(Below(key, j)) + 1
    BY <2>3, <2>4
  <2> QED  BY <2>5
<1>4. place \in [1..n -> 1..n]
  <2>1. \A i \in 1..n : Cardinality(Below(key, i)) + 1 \in 1..n
    BY <1>2
  <2> QED  BY <2>1
<1> HIDE DEF place
<1>5. place \in Injection(1..n, 1..n)
  <2>1. ASSUME NEW i \in 1..n, NEW j \in 1..n, place[i] = place[j] PROVE i = j
    <3>1. key[i] \in Int /\ key[j] \in Int /\ place[i] \in Int
      BY <1>4
    <3>2. ~(key[i] < key[j]) /\ ~(key[j] < key[i])
      BY <1>3, <2>1, <3>1
    <3> QED  BY <3>1, <3>2
  <2> QED  BY <1>4, <2>1 DEF Injection, IsInjective
<1>6. place \in Surjection(1..n, 1..n)
  BY <1>1, <1>5, FS_Injection
<1>7. \A k \in 1..n : \E i \in 1..n : place[i] = k
  BY <1>6 DEF Surjection
<1> DEFINE at == [k \in 1..n |-> CHOOSE i \in 1..n : place[i] = k]
<1>8. at \in [1..n -> 1..n] /\ \A k \in 1..n : place[at[k]] = k
  BY <1>7
<1> HIDE DEF at
<1>9. ASSUME NEW j \in 1..n, NEW k \in 1..n, j < k PROVE key[at[j]] < key[at[k]]
  <2>1. at[j] \in 1..n /\ at[k] \in 1..n /\ key[at[j]] \in Int /\ key[at[k]] \in Int
    BY <1>8
  <2>2. place[at[j]] = j /\ place[at[k]] = k
    BY <1>8
  <2>3. ~(key[at[k]] < key[at[j]])
    <3>1. key[at[k]] < key[at[j]] => place[at[k]] < place[at[j]]
      BY <1>3, <2>1
    <3> QED  BY <3>1, <2>2, <1>9
  <2>4. key[at[j]] # key[at[k]]
    BY <2>1, <2>2, <1>9
  <2> QED  BY <2>1, <2>3, <2>4
<1> QED  BY <1>8, <1>9

(* A list of distinct elements is exhausted by any list of as many.        *)
LEMMA NothingLost ==
    ASSUME NEW n \in Nat, NEW R, NEW s \in Bijection(1..n, R), NEW t \in Injection(1..n, R)
    PROVE  \A r \in R : \E k \in 1..n : t[k] = r
<1>1. IsFiniteSet(1..n)
  BY FS_Interval
<1>2. s \in Surjection(1..n, R) /\ s \in Injection(1..n, R)
  BY DEF Bijection
<1>3. IsFiniteSet(R) /\ Cardinality(R) = Cardinality(1..n)
  BY <1>1, <1>2, FS_Surjection
<1>4. t \in Surjection(1..n, R)
  BY <1>3, FS_Injection
<1> QED  BY <1>4 DEF Surjection

Increasing(f, n) == \A j, k \in 1..n : j < k => f[j] < f[k]

Within(f, n, h, m) == \A i \in 1..n : \E k \in 1..m : f[i] = h[k]

(* Two increasing lists of the same numbers are the same list.             *)
LEMMA OneOrder ==
    ASSUME NEW n \in Nat, NEW m \in Nat, NEW f \in [1..n -> Int], NEW h \in [1..m -> Int],
           Increasing(f, n), Increasing(h, m), Within(f, n, h, m), Within(h, m, f, n)
    PROVE  n = m /\ \A i \in 1..n : f[i] = h[i]
<1> USE DEF Increasing, Within
<1> DEFINE Bad == {k \in 1..n : k \in 1..m /\ f[k] # h[k]}
<1>1. Bad = {}
  <2> SUFFICES ASSUME Bad # {} PROVE FALSE
    OBVIOUS
  <2>1. Bad \in SUBSET Nat
    OBVIOUS
  <2>2. PICK b \in Bad : \A k \in Bad : b <= k
    <3> HIDE DEF Bad
    <3> QED  BY <2>1, LeastNatural
  <2>3. b \in 1..n /\ b \in 1..m /\ f[b] # h[b] /\ f[b] \in Int /\ h[b] \in Int
    OBVIOUS
  <2>4. \A k \in 1..n : k < b => k \in 1..m /\ f[k] = h[k]
    BY <2>2, <2>3
  <2>5. PICK k \in 1..m : f[b] = h[k]
    BY <2>3
  <2>6. PICK i \in 1..n : f[i] = h[b]
    BY <2>3
  <2>7. ~(k < b)
    <3> SUFFICES ASSUME k < b PROVE FALSE
      OBVIOUS
    <3>1. k \in 1..n
      BY <2>3
    <3>2. f[k] = h[k] /\ f[k] < f[b] /\ f[k] \in Int
      BY <3>1, <2>3, <2>4
    <3> QED  BY <3>2, <2>3, <2>5
  <2>8. ~(i < b)
    <3> SUFFICES ASSUME i < b PROVE FALSE
      OBVIOUS
    <3>1. i \in 1..m /\ f[i] = h[i] /\ h[i] < h[b] /\ h[i] \in Int
      BY <2>3, <2>4
    <3> QED  BY <3>1, <2>3, <2>6
  <2>9. h[b] < f[b]
    <3>1. b < k
      BY <2>3, <2>5, <2>7
    <3> QED  BY <3>1, <2>3, <2>5
  <2>10. f[b] < h[b]
    <3>1. b < i
      BY <2>3, <2>6, <2>8
    <3> QED  BY <3>1, <2>3, <2>6
  <2> QED  BY <2>3, <2>9, <2>10
<1>2. \A k \in 1..n : k \in 1..m => f[k] = h[k]
  BY <1>1
<1> HIDE DEF Bad
<1>3. ~(n < m)
  <2> SUFFICES ASSUME n < m PROVE FALSE
    OBVIOUS
  <2>1. n + 1 \in 1..m
    OBVIOUS
  <2>2. PICK i \in 1..n : f[i] = h[n + 1]
    BY <2>1
  <2>3. i \in 1..m /\ i < n + 1 /\ f[i] = h[i] /\ h[i] < h[n + 1]
    BY <1>2, <2>1
  <2> QED  BY <2>1, <2>2, <2>3
<1>4. ~(m < n)
  <2> SUFFICES ASSUME m < n PROVE FALSE
    OBVIOUS
  <2>1. m + 1 \in 1..n
    OBVIOUS
  <2>2. PICK k \in 1..m : f[m + 1] = h[k]
    BY <2>1
  <2>3. k \in 1..n /\ k < m + 1 /\ f[k] = h[k] /\ f[k] < f[m + 1]
    BY <1>2, <2>1
  <2> QED  BY <2>1, <2>2, <2>3
<1> QED  BY <1>2, <1>3, <1>4

-----------------------------------------------------------------------------
(* Comparing two processes, and two lists of them.                         *)

(* What the agents list: a process has distinct thread ids, a list has     *)
(* distinct pids.                                                          *)
IsProcess(p) ==
    /\ p \in ProcessInfo
    /\ \A i, j \in DOMAIN p.threads : p.threads[i].tid = p.threads[j].tid => i = j

IsList(ps) ==
    /\ ps \in Seq(ProcessInfo)
    /\ \A i \in 1..Len(ps) : IsProcess(ps[i])
    /\ \A i, j \in 1..Len(ps) : ps[i].pid = ps[j].pid => i = j

(* sort.Slice by ThreadId: the same threads, in the order of their ids.    *)
LEMMA ThreadsSorted ==
    ASSUME NEW ts \in Seq(Thread),
           \A i, j \in 1..Len(ts) : ts[i].tid = ts[j].tid => i = j
    PROVE  /\ SortedThreads(ts) \in [1..Len(ts) -> {ts[i] : i \in 1..Len(ts)}]
           /\ \A j, k \in 1..Len(ts) : j < k => SortedThreads(ts)[j].tid < SortedThreads(ts)[k].tid
           /\ \A i \in 1..Len(ts) : \E k \in 1..Len(ts) : SortedThreads(ts)[k] = ts[i]
<1> DEFINE n == Len(ts)
           R == {ts[i] : i \in 1..n}
           key == [i \in 1..n |-> ts[i].tid]
           Right(t) == \A j, k \in 1..n : j < k => t[j].tid < t[k].tid
<1>1. /\ n \in Nat /\ DOMAIN ts = 1..n /\ ts = [i \in 1..n |-> ts[i]]
      /\ \A i \in 1..n : ts[i] \in Thread
  OBVIOUS
<1>2. \A i \in 1..n : ts[i].tid \in Int
  BY <1>1 DEF Thread
<1>3. SortedThreads(ts) = CHOOSE t \in [1..n -> R] : Right(t)
  BY <1>1 DEF SortedThreads, SortedBy
<1>4. key \in [1..n -> Int] /\ \A i, j \in 1..n : key[i] = key[j] => i = j
  BY <1>2
<1> HIDE DEF key, n
<1>5. PICK at \in [1..n -> 1..n] : \A j, k \in 1..n : j < k => key[at[j]] < key[at[k]]
  BY <1>1, <1>4, CanBeSorted
<1> DEFINE w == [k \in 1..n |-> ts[at[k]]]
<1>6. w \in [1..n -> R] /\ Right(w)
  BY <1>5 DEF key
<1>7. SortedThreads(ts) \in [1..n -> R] /\ Right(SortedThreads(ts))
  <2> HIDE DEF w, R, Right
  <2> QED  BY <1>3, <1>6
<1> DEFINE t == SortedThreads(ts)
<1> HIDE DEF t
<1>8. t \in [1..n -> R] /\ Right(t)
  BY <1>7 DEF t
<1>9. ASSUME NEW i \in 1..n, NEW j \in 1..n, t[i] = t[j] PROVE i = j
  <2>1. t[i].tid \in Int
    BY <1>2, <1>8
  <2>2. ~(i < j) /\ ~(j < i)
    BY <1>8, <1>9, <2>1
  <2> QED  BY <1>1, <2>2
<1>10. \A i, j \in 1..n : ts[i] = ts[j] => i = j
  BY <1>4 DEF key
<1>11. \A i \in 1..n : \E k \in 1..n : t[k] = ts[i]
  <2>1. ts \in [1..n -> R] /\ \A r \in R : \E i \in 1..n : ts[i] = r
    BY <1>1
  <2>2. \A i \in 1..n : ts[i] \in R
    OBVIOUS
  <2> HIDE DEF R
  <2>3. ts \in Bijection(1..n, R)
    BY <1>10, <2>1 DEF Bijection, Injection, Surjection, IsInjective
  <2>4. t \in Injection(1..n, R)
    BY <1>8, <1>9 DEF Injection, IsInjective
  <2>5. \A r \in R : \E k \in 1..n : t[k] = r
    BY <1>1, <2>3, <2>4, NothingLost
  <2> QED  BY <2>2, <2>5
<1> QED  BY <1>8, <1>11 DEF t, n

(* sort.Slice by Pid: the same processes, in the order of their pids.      *)
LEMMA ProcessesSorted ==
    ASSUME NEW ps, IsList(ps)
    PROVE  /\ Sorted(ps) \in [1..Len(ps) -> {ps[i] : i \in 1..Len(ps)}]
           /\ \A j, k \in 1..Len(ps) : j < k => Sorted(ps)[j].pid < Sorted(ps)[k].pid
           /\ \A i \in 1..Len(ps) : \E k \in 1..Len(ps) : Sorted(ps)[k] = ps[i]
<1> DEFINE n == Len(ps)
           R == {ps[i] : i \in 1..n}
           key == [i \in 1..n |-> ps[i].pid]
           Right(t) == \A j, k \in 1..n : j < k => t[j].pid < t[k].pid
<1>1. /\ n \in Nat /\ DOMAIN ps = 1..n /\ ps = [i \in 1..n |-> ps[i]]
      /\ \A i \in 1..n : ps[i] \in ProcessInfo
  BY DEF IsList
<1>2. \A i \in 1..n : ps[i].pid \in Int
  BY <1>1 DEF ProcessInfo
<1>3. Sorted(ps) = CHOOSE t \in [1..n -> R] : Right(t)
  BY <1>1 DEF Sorted, SortedBy
<1>4. key \in [1..n -> Int] /\ \A i, j \in 1..n : key[i] = key[j] => i = j
  BY <1>2 DEF IsList
<1> HIDE DEF key, n
<1>5. PICK at \in [1..n -> 1..n] : \A j, k \in 1..n : j < k => key[at[j]] < key[at[k]]
  BY <1>1, <1>4, CanBeSorted
<1> DEFINE w == [k \in 1..n |-> ps[at[k]]]
<1>6. w \in [1..n -> R] /\ Right(w)
  BY <1>5 DEF key
<1>7. Sorted(ps) \in [1..n -> R] /\ Right(Sorted(ps))
  <2> HIDE DEF w, R, Right
  <2> QED  BY <1>3, <1>6
<1> DEFINE t == Sorted(ps)
<1> HIDE DEF t
<1>8. t \in [1..n -> R] /\ Right(t)
  BY <1>7 DEF t
<1>9. ASSUME NEW i \in 1..n, NEW j \in 1..n, t[i] = t[j] PROVE i = j
  <2>1. t[i].pid \in Int
    BY <1>2, <1>8
  <2>2. ~(i < j) /\ ~(j < i)
    BY <1>8, <1>9, <2>1
  <2> QED  BY <1>1, <2>2
<1>10. \A i, j \in 1..n : ps[i] = ps[j] => i = j
  BY <1>4 DEF key
<1>11. \A i \in 1..n : \E k \in 1..n : t[k] = ps[i]
  <2>1. ps \in [1..n -> R] /\ \A r \in R : \E i \in 1..n : ps[i] = r
    BY <1>1
  <2>2. \A i \in 1..n : ps[i] \in R
    OBVIOUS
  <2> HIDE DEF R
  <2>3. ps \in Bijection(1..n, R)
    BY <1>10, <2>1 DEF Bijection, Injection, Surjection, IsInjective
  <2>4. t \in Injection(1..n, R)
    BY <1>8, <1>9 DEF Injection, IsInjective
  <2>5. \A r \in R : \E k \in 1..n : t[k] = r
    BY <1>1, <2>3, <2>4, NothingLost
  <2> QED  BY <2>2, <2>5
<1> QED  BY <1>8, <1>11 DEF t, n

(* ThreadsStacksEqual finds no difference exactly when the two processes   *)
(* have the same threads with the same stacks, in whatever order.          *)
LEMMA ThreadsCompared ==
    ASSUME NEW a, NEW b, IsProcess(a), IsProcess(b)
    PROVE  SameThreads(a, b) <=> StackOf(a) = StackOf(b)
<1> DEFINE n == Len(a.threads)
           m == Len(b.threads)
           ta == SortedThreads(a.threads)
           tb == SortedThreads(b.threads)
           Alike(i) == /\ ta[i].tid = tb[i].tid
                       /\ Len(ta[i].frames) = Len(tb[i].frames)
                       /\ \A level \in DOMAIN ta[i].frames : ta[i].frames[level] = tb[i].frames[level]
<1>1. /\ a.threads \in Seq(Thread) /\ b.threads \in Seq(Thread)
      /\ n \in Nat /\ m \in Nat /\ DOMAIN a.threads = 1..n /\ DOMAIN b.threads = 1..m
      /\ \A i \in 1..n : a.threads[i] \in Thread
      /\ \A i \in 1..m : b.threads[i] \in Thread
      /\ \A i, j \in 1..n : a.threads[i].tid = a.threads[j].tid => i = j
      /\ \A i, j \in 1..m : b.threads[i].tid = b.threads[j].tid => i = j
  BY DEF IsProcess, ProcessInfo
<1>2. /\ ta \in [1..n -> {a.threads[i] : i \in 1..n}]
      /\ \A j, k \in 1..n : j < k => ta[j].tid < ta[k].tid
      /\ \A i \in 1..n : \E k \in 1..n : ta[k] = a.threads[i]
  BY <1>1, ThreadsSorted
<1>3. /\ tb \in [1..m -> {b.threads[i] : i \in 1..m}]
      /\ \A j, k \in 1..m : j < k => tb[j].tid < tb[k].tid
      /\ \A i \in 1..m : \E k \in 1..m : tb[k] = b.threads[i]
  BY <1>1, ThreadsSorted
<1>4. SameThreads(a, b) <=> n = m /\ \A i \in 1..n : Alike(i)
  BY <1>2 DEF SameThreads
<1>5. /\ StackOf(a) = {<<a.threads[i].tid, a.threads[i].frames>> : i \in 1..n}
      /\ StackOf(b) = {<<b.threads[i].tid, b.threads[i].frames>> : i \in 1..m}
  BY <1>1 DEF StackOf
<1> HIDE DEF n, m, ta, tb
<1>6. /\ \A k \in 1..n : \E i \in 1..n : ta[k] = a.threads[i]
      /\ \A k \in 1..m : \E i \in 1..m : tb[k] = b.threads[i]
  <2>1. \A k \in 1..n : ta[k] \in {a.threads[i] : i \in 1..n}
    BY <1>2
  <2>2. \A k \in 1..m : tb[k] \in {b.threads[i] : i \in 1..m}
    BY <1>3
  <2> QED  BY <2>1, <2>2
<1>7. /\ StackOf(a) = {<<ta[k].tid, ta[k].frames>> : k \in 1..n}
      /\ StackOf(b) = {<<tb[k].tid, tb[k].frames>> : k \in 1..m}
  <2>1. /\ \A i \in 1..n : \E k \in 1..n : ta[k] = a.threads[i]
        /\ \A i \in 1..m : \E k \in 1..m : tb[k] = b.threads[i]
    BY <1>2, <1>3
  <2>2. StackOf(a) = {<<ta[k].tid, ta[k].frames>> : k \in 1..n}
    BY <1>5, <1>6, <2>1
  <2>3. StackOf(b) = {<<tb[k].tid, tb[k].frames>> : k \in 1..m}
    BY <1>5, <1>6, <2>1
  <2> QED  BY <2>2, <2>3
<1>8. /\ \A k \in 1..n : ta[k].tid \in Int /\ ta[k].frames \in Seq(STRING)
      /\ \A k \in 1..m : tb[k].tid \in Int /\ tb[k].frames \in Seq(STRING)
  BY <1>1, <1>6 DEF Thread
<1>9. ASSUME n = m, \A i \in 1..n : Alike(i) PROVE StackOf(a) = StackOf(b)
  <2>1. ASSUME NEW k \in 1..n
        PROVE  <<ta[k].tid, ta[k].frames>> = <<tb[k].tid, tb[k].frames>>
    <3>1. ta[k].frames \in Seq(STRING) /\ tb[k].frames \in Seq(STRING) /\ Alike(k)
      BY <1>8, <1>9
    <3>2. ta[k].frames = tb[k].frames
      BY <3>1
    <3> QED  BY <3>1, <3>2
  <2> QED  BY <2>1, <1>7, <1>9
<1>10. ASSUME StackOf(a) = StackOf(b) PROVE n = m /\ \A i \in 1..n : Alike(i)
  <2>1. /\ \A i \in 1..n : \E k \in 1..m : ta[i].tid = tb[k].tid /\ ta[i].frames = tb[k].frames
        /\ \A k \in 1..m : \E i \in 1..n : ta[i].tid = tb[k].tid
    <3>1. ASSUME NEW i \in 1..n
          PROVE  \E k \in 1..m : ta[i].tid = tb[k].tid /\ ta[i].frames = tb[k].frames
      <4>1. <<ta[i].tid, ta[i].frames>> \in StackOf(b)
        BY <1>7, <1>10
      <4> QED  BY <4>1, <1>7
    <3>2. ASSUME NEW k \in 1..m PROVE \E i \in 1..n : ta[i].tid = tb[k].tid
      <4>1. <<tb[k].tid, tb[k].frames>> \in StackOf(a)
        BY <1>7, <1>10
      <4> QED  BY <4>1, <1>7
    <3> QED  BY <3>1, <3>2
  <2> DEFINE f == [i \in 1..n |-> ta[i].tid]
             h == [i \in 1..m |-> tb[i].tid]
  <2>2. /\ f \in [1..n -> Int] /\ h \in [1..m -> Int]
        /\ \A j, k \in 1..n : j < k => f[j] < f[k]
        /\ \A j, k \in 1..m : j < k => h[j] < h[k]
        /\ \A i \in 1..n : \E k \in 1..m : f[i] = h[k]
        /\ \A k \in 1..m : \E i \in 1..n : f[i] = h[k]
    BY <1>2, <1>3, <1>8, <2>1
  <2>3. n \in Nat /\ m \in Nat
    BY <1>1 DEF n, m
  <2>4. n = m /\ \A i \in 1..n : f[i] = h[i]
    <3>1. Increasing(f, n) /\ Increasing(h, m) /\ Within(f, n, h, m) /\ Within(h, m, f, n)
      <4> HIDE DEF f, h
      <4> QED  BY <2>2 DEF Increasing, Within
    <3> HIDE DEF f, h
    <3> QED  BY <2>2, <2>3, <3>1, OneOrder
  <2>5. ASSUME NEW i \in 1..n PROVE Alike(i)
    <3>1. ta[i].tid = tb[i].tid
      BY <2>4
    <3>2. PICK k \in 1..m : ta[i].tid = tb[k].tid /\ ta[i].frames = tb[k].frames
      BY <2>1
    <3>3. k = i
      <4>1. tb[i].tid \in Int /\ tb[k].tid = tb[i].tid /\ i \in 1..m
        BY <1>8, <2>4, <3>1, <3>2
      <4>2. k < i => tb[k].tid < tb[i].tid
        BY <4>1, <1>3
      <4>3. i < k => tb[i].tid < tb[k].tid
        BY <4>1, <1>3
      <4>4. \A x \in Int : ~(x < x)
        OBVIOUS
      <4>5. ~(k < i) /\ ~(i < k)
        BY <4>1, <4>2, <4>3, <4>4
      <4> QED  BY <4>1, <4>5, <2>3
    <3> QED  BY <3>1, <3>2, <3>3
  <2> QED  BY <2>4, <2>5
<1> QED  BY <1>4, <1>9, <1>10

(* PstreeEqual finds two samples equal exactly when they show the same     *)
(* processes, with the same ranks and the same stacks, in whatever order.  *)
LEMMA ListsCompared ==
    ASSUME NEW psa, NEW psb, IsList(psa), IsList(psb)
    PROVE  PstreeEqual(psa, psb).equal <=> Snapshot(psa) = Snapshot(psb)
<1> DEFINE n == Len(psa)
           m == Len(psb)
           pa == Sorted(psa)
           pb == Sorted(psb)
           Alike(i) == ~Incomparable(pa[i], pb[i]) /\ SameThreads(pa[i], pb[i])
<1>1. /\ n \in Nat /\ m \in Nat /\ DOMAIN psa = 1..n /\ DOMAIN psb = 1..m
      /\ \A i \in 1..n : IsProcess(psa[i])
      /\ \A i \in 1..m : IsProcess(psb[i])
  BY DEF IsList
<1>2. /\ pa \in [1..n -> {psa[i] : i \in 1..n}]
      /\ \A j, k \in 1..n : j < k => pa[j].pid < pa[k].pid
      /\ \A i \in 1..n : \E k \in 1..n : pa[k] = psa[i]
  BY ProcessesSorted
<1>3. /\ pb \in [1..m -> {psb[i] : i \in 1..m}]
      /\ \A j, k \in 1..m : j < k => pb[j].pid < pb[k].pid
      /\ \A i \in 1..m : \E k \in 1..m : pb[k] = psb[i]
  BY ProcessesSorted
<1>4. PstreeEqual(psa, psb).equal <=> n = m /\ \A i \in 1..n : Alike(i)
  <2> DEFINE differing == {i \in DOMAIN pa : ~SameThreads(pa[i], pb[i])}
  <2>1. DOMAIN pa = 1..n
    BY <1>2
  <2>2. PstreeEqual(psa, psb) =
            IF n # m THEN Mismatch({})
            ELSE IF \E i \in DOMAIN pa : Incomparable(pa[i], pb[i]) THEN Mismatch({})
            ELSE [equal |-> differing = {}, diff |-> {pa[i].pid : i \in differing}, error |-> FALSE]
    BY DEF PstreeEqual
  <2>3. Mismatch({}).equal = FALSE
    BY DEF Mismatch
  <2>4. differing = {} <=> \A i \in 1..n : SameThreads(pa[i], pb[i])
    BY <2>1
  <2>5. CASE n # m
    BY <2>2, <2>3, <2>5
  <2>6. CASE n = m /\ \E i \in DOMAIN pa : Incomparable(pa[i], pb[i])
    BY <2>1, <2>2, <2>3, <2>6
  <2>7. CASE n = m /\ ~\E i \in DOMAIN pa : Incomparable(pa[i], pb[i])
    <3>1. PstreeEqual(psa, psb).equal = (differing = {})
      <4> HIDE DEF differing, pa, pb, n, m
      <4> QED  BY <2>2, <2>7
    <3>2. PstreeEqual(psa, psb).equal <=> differing = {}
      BY <3>1
    <3> HIDE DEF differing, pa, pb, n, m
    <3> QED  BY <2>1, <2>4, <2>7, <3>2
  <2> QED  BY <2>5, <2>6, <2>7
<1>5. /\ Snapshot(psa) = {<<psa[i].pid, psa[i].rank, StackOf(psa[i])>> : i \in 1..n}
      /\ Snapshot(psb) = {<<psb[i].pid, psb[i].rank, StackOf(psb[i])>> : i \in 1..m}
  BY <1>1 DEF Snapshot
<1> HIDE DEF n, m, pa, pb
<1>6. /\ \A k \in 1..n : \E i \in 1..n : pa[k] = psa[i]
      /\ \A k \in 1..m : \E i \in 1..m : pb[k] = psb[i]
  <2>1. \A k \in 1..n : pa[k] \in {psa[i] : i \in 1..n}
    BY <1>2
  <2>2. \A k \in 1..m : pb[k] \in {psb[i] : i \in 1..m}
    BY <1>3
  <2> QED  BY <2>1, <2>2
<1>7. /\ Snapshot(psa) = {<<pa[k].pid, pa[k].rank, StackOf(pa[k])>> : k \in 1..n}
      /\ Snapshot(psb) = {<<pb[k].pid, pb[k].rank, StackOf(pb[k])>> : k \in 1..m}
  <2>1. /\ \A i \in 1..n : \E k \in 1..n : pa[k] = psa[i]
        /\ \A i \in 1..m : \E k \in 1..m : pb[k] = psb[i]
    BY <1>2, <1>3
  <2>2. Snapshot(psa) = {<<pa[k].pid, pa[k].rank, StackOf(pa[k])>> : k \in 1..n}
    BY <1>5, <1>6, <2>1
  <2>3. Snapshot(psb) = {<<pb[k].pid, pb[k].rank, StackOf(pb[k])>> : k \in 1..m}
    BY <1>5, <1>6, <2>1
  <2> QED  BY <2>2, <2>3
<1>8. /\ \A k \in 1..n : IsProcess(pa[k]) /\ pa[k].pid \in Int
      /\ \A k \in 1..m : IsProcess(pb[k]) /\ pb[k].pid \in Int
  <2>1. /\ \A k \in 1..n : IsProcess(pa[k])
        /\ \A k \in 1..m : IsProcess(pb[k])
    BY <1>1, <1>6
  <2> QED  BY <2>1 DEF IsProcess, ProcessInfo
<1>9. ASSUME n = m, \A i \in 1..n : Alike(i) PROVE Snapshot(psa) = Snapshot(psb)
  <2>1. ASSUME NEW k \in 1..n
        PROVE  <<pa[k].pid, pa[k].rank, StackOf(pa[k])>> = <<pb[k].pid, pb[k].rank, StackOf(pb[k])>>
    <3>1. ~Incomparable(pa[k], pb[k]) /\ SameThreads(pa[k], pb[k])
      BY <1>9
    <3>2. StackOf(pa[k]) = StackOf(pb[k])
      BY <1>8, <1>9, <3>1, ThreadsCompared
    <3> QED  BY <3>1, <3>2 DEF Incomparable
  <2> QED  BY <2>1, <1>7, <1>9
<1>10. ASSUME Snapshot(psa) = Snapshot(psb) PROVE n = m /\ \A i \in 1..n : Alike(i)
  <2>1. /\ \A i \in 1..n : \E k \in 1..m : /\ pa[i].pid = pb[k].pid /\ pa[i].rank = pb[k].rank
                                           /\ StackOf(pa[i]) = StackOf(pb[k])
        /\ \A k \in 1..m : \E i \in 1..n : pa[i].pid = pb[k].pid
    <3>1. ASSUME NEW i \in 1..n
          PROVE  \E k \in 1..m : /\ pa[i].pid = pb[k].pid /\ pa[i].rank = pb[k].rank
                                 /\ StackOf(pa[i]) = StackOf(pb[k])
      <4>1. <<pa[i].pid, pa[i].rank, StackOf(pa[i])>> \in Snapshot(psb)
        BY <1>7, <1>10
      <4> QED  BY <4>1, <1>7
    <3>2. ASSUME NEW k \in 1..m PROVE \E i \in 1..n : pa[i].pid = pb[k].pid
      <4>1. <<pb[k].pid, pb[k].rank, StackOf(pb[k])>> \in Snapshot(psa)
        BY <1>7, <1>10
      <4> QED  BY <4>1, <1>7
    <3> QED  BY <3>1, <3>2
  <2> DEFINE f == [i \in 1..n |-> pa[i].pid]
             h == [i \in 1..m |-> pb[i].pid]
  <2>2. /\ f \in [1..n -> Int] /\ h \in [1..m -> Int]
        /\ \A j, k \in 1..n : j < k => f[j] < f[k]
        /\ \A j, k \in 1..m : j < k => h[j] < h[k]
        /\ \A i \in 1..n : \E k \in 1..m : f[i] = h[k]
        /\ \A k \in 1..m : \E i \in 1..n : f[i] = h[k]
    BY <1>2, <1>3, <1>8, <2>1
  <2>3. n \in Nat /\ m \in Nat
    BY <1>1 DEF n, m
  <2>4. n = m /\ \A i \in 1..n : f[i] = h[i]
    <3>1. Increasing(f, n) /\ Increasing(h, m) /\ Within(f, n, h, m) /\ Within(h, m, f, n)
      <4> HIDE DEF f, h
      <4> QED  BY <2>2 DEF Increasing, Within
    <3> HIDE DEF f, h
    <3> QED  BY <2>2, <2>3, <3>1, OneOrder
  <2>5. ASSUME NEW i \in 1..n PROVE Alike(i)
    <3>1. pa[i].pid = pb[i].pid
      BY <2>4
    <3>2. PICK k \in 1..m : /\ pa[i].pid = pb[k].pid /\ pa[i].rank = pb[k].rank
                            /\ StackOf(pa[i]) = StackOf(pb[k])
      BY <2>1
    <3>3. k = i
      <4>1. pb[i].pid \in Int /\ pb[k].pid = pb[i].pid /\ i \in 1..m
        BY <1>8, <2>4, <3>1, <3>2
      <4>2. k < i => pb[k].pid < pb[i].pid
        BY <4>1, <1>3
      <4>3. i < k => pb[i].pid < pb[k].pid
        BY <4>1, <1>3
      <4>4. \A x \in Int : ~(x < x)
        OBVIOUS
      <4>5. ~(k < i) /\ ~(i < k)
        BY <4>1, <4>2, <4>3, <4>4
      <4> QED  BY <4>1, <4>5, <2>3
    <3>4. IsProcess(pa[i]) /\ IsProcess(pb[i]) /\ StackOf(pa[i]) = StackOf(pb[i])
      BY <1>8, <2>4, <3>2, <3>3
    <3>5. SameThreads(pa[i], pb[i])
      BY <3>4, ThreadsCompared
    <3> QED  BY <3>1, <3>2, <3>3, <3>5 DEF Incomparable
  <2> QED  BY <2>4, <2>5
<1> QED  BY <1>4, <1>9, <1>10

-----------------------------------------------------------------------------
(* The inductive invariant.                                                *)

(* What a goroutine has left behind where it stands.                       *)
NodeOK(n) ==
    /\ answer[n] = "none" <=> g[n] \in {"none", "ask"}
    /\ n \in results \/ n \in received <=> g[n] \in {"look", "sample", "done"}
    /\ ~(n \in results /\ n \in received)
    /\ g[n] \in {"none", "ask"} => ~stalled[n]
    /\ g[n] \in {"none", "ask", "look"} => Len(taken[n]) = 0
    /\ g[n] = "sample" => stalled[n] /\ Len(taken[n]) < Samples
    /\ g[n] = "done" /\ stalled[n] => Len(taken[n]) = Samples

(* Main collects when every goroutine is done, and reports when it has     *)
(* everything.                                                             *)
MainOK ==
    /\ suspicious = {n \in Nodes : stalled[n] /\ g[n] # "look"}
    /\ pc # "run" => \A n \in Nodes : g[n] \in {"none", "done"}
    /\ pc \notin {"run", "ready"} => \A n \in Nodes : g[n] = "done"
    /\ pc = "run" => received = {}
    /\ pc \in {"report", "wait", "panicked", "returned"} => received = Nodes
    /\ round = 0 => pc = "ready"

Inv == TypeOK /\ (\A n \in Nodes : NodeOK(n)) /\ MainOK

-----------------------------------------------------------------------------
(* The disjuncts of Next, one action each.                                 *)
LEMMA Steps ==
    ASSUME Next
    PROVE  \/ \E n \in Nodes, hang \in BOOLEAN : AskAnswered(n, hang)
           \/ \E n \in Nodes : AskFails(n) \/ Look(n) \/ SampleFails(n) \/ Receive(n)
           \/ \E n \in Nodes : \E ps \in SetToSeqs(procs[n]) : Sample(n, ps)
           \/ \E n \in Nodes, S \in Listings : Change(n, S)
           \/ RoundBegin \/ Join \/ Report \/ NextRound \/ TickerFires \/ UNCHANGED vars
<1>1. ASSUME NEW n \in Nodes, AskStep(n) \/ SampleStep(n) \/ \E S \in Listings : Change(n, S)
      PROVE  \/ \E hang \in BOOLEAN : AskAnswered(n, hang)
             \/ AskFails(n) \/ Look(n) \/ SampleFails(n)
             \/ \E ps \in SetToSeqs(procs[n]) : Sample(n, ps)
             \/ \E S \in Listings : Change(n, S)
  BY <1>1 DEF AskStep, SampleStep
<1>2. CASE Main \/ TickerFires
  BY <1>2 DEF Main
<1>3. CASE \E n \in Nodes : AskStep(n) \/ SampleStep(n) \/ \E S \in Listings : Change(n, S)
  BY <1>1, <1>3
<1> QED  BY <1>2, <1>3 DEF Next

(* A listing of processes is a sequence of processes.                      *)
LEMMA Listing ==
    ASSUME TypeOK, NEW n \in Nodes, NEW ps \in SetToSeqs(procs[n])
    PROVE  ps \in Seq(Processes)
<1>1. procs[n] \subseteq Processes
  BY DEF TypeOK, Listings
<1>2. IsFiniteSet(procs[n])
  BY <1>1, HangAssumption, FS_Subset
<1>3. PICK k \in Nat : k = Cardinality(procs[n])
  BY <1>2, FS_CardinalityType
<1>4. ps \in [1..k -> procs[n]]
  BY <1>3 DEF SetToSeqs
<1>5. ps \in [1..k -> Processes]
  BY <1>1, <1>4
<1> QED  BY <1>3, <1>5

(* One more sample, and its verdict.                                       *)
LEMMA OneMore ==
    ASSUME TypeOK, NEW n \in Nodes, Sampling(n), NEW ps \in Seq(Processes),
           NEW word \in {"first", "nothing", "noDiff", "haveDiff"}
    PROVE  LET t == [taken EXCEPT ![n] = Append(@, ps)]
               s == [saved EXCEPT ![n] = Append(@, word)]
           IN  /\ t \in [Nodes -> Seq(Seq(Processes))]
               /\ s \in [Nodes -> Seq({"first", "nothing", "noDiff", "haveDiff"})]
               /\ \A m \in Nodes :
                     /\ Len(t[m]) <= Samples /\ Len(s[m]) = Len(t[m])
                     /\ Len(t[m]) = IF m = n THEN Len(taken[m]) + 1 ELSE Len(taken[m])
<1> DEFINE W == {"first", "nothing", "noDiff", "haveDiff"}
           t == [taken EXCEPT ![n] = Append(@, ps)]
           s == [saved EXCEPT ![n] = Append(@, word)]
<1>1. /\ Append(taken[n], ps) \in Seq(Seq(Processes))
      /\ Append(saved[n], word) \in Seq(W)
  BY DEF TypeOK
<1>2. /\ t \in [Nodes -> Seq(Seq(Processes))]
      /\ s \in [Nodes -> Seq(W)]
      /\ \A m \in Nodes : /\ t[m] = IF m = n THEN Append(taken[n], ps) ELSE taken[m]
                          /\ s[m] = IF m = n THEN Append(saved[n], word) ELSE saved[m]
  BY <1>1 DEF TypeOK
<1>3. ASSUME NEW m \in Nodes
      PROVE  /\ Len(t[m]) <= Samples /\ Len(s[m]) = Len(t[m])
             /\ Len(t[m]) = IF m = n THEN Len(taken[m]) + 1 ELSE Len(taken[m])
  <2>1. /\ taken[m] \in Seq(Seq(Processes)) /\ Len(taken[m]) <= Samples
        /\ saved[m] \in Seq(W) /\ Len(saved[m]) = Len(taken[m])
        /\ Samples \in Nat
    BY HangAssumption DEF TypeOK
  <2>2. m = n => Len(t[m]) = Len(taken[m]) + 1 /\ Len(s[m]) = Len(saved[m]) + 1
    BY <1>2, <2>1
  <2>3. m = n => Len(taken[m]) < Samples
    BY DEF Sampling
  <2> QED  BY <1>2, <2>1, <2>2, <2>3
<1> QED  BY <1>2, <1>3

-----------------------------------------------------------------------------
(* Type correctness.                                                       *)

(* The shape at the start.                                                 *)
LEMMA TypeInit == Init => TypeOK
<1> SUFFICES ASSUME Init PROVE TypeOK
  OBVIOUS
<1>1. asked \in Int
  BY HangAssumption DEF Init, Asked
<1>2. /\ <<>> \in Seq(Seq(Processes)) /\ <<>> \in Seq({"first", "nothing", "noDiff", "haveDiff"})
      /\ Len(<<>>) = 0
  OBVIOUS
<1>3. /\ taken \in [Nodes -> Seq(Seq(Processes))]
      /\ saved \in [Nodes -> Seq({"first", "nothing", "noDiff", "haveDiff"})]
      /\ \A n \in Nodes : Len(taken[n]) = 0 /\ Len(saved[n]) = 0
  BY <1>2 DEF Init
<1>4. /\ procs \in [Nodes -> Listings] /\ g \in [Nodes -> {"none", "ask", "look", "sample", "done"}]
      /\ answer \in [Nodes -> {"none", "ok", "error"}] /\ stalled \in [Nodes -> BOOLEAN]
      /\ failed \in [Nodes -> SUBSET (1..Samples)]
  BY DEF Init
<1>5. /\ results = {} /\ received = {} /\ suspicious = {} /\ pc = "ready" /\ round = 0
      /\ ticker = FALSE /\ tick = FALSE /\ changes = 0 /\ failures = 0
  BY DEF Init
<1>6. /\ Samples \in Nat /\ 0 \in 0..MaxRounds /\ 0 \in 0..MaxChanges /\ 0 \in 0..MaxFailures
  BY HangAssumption
<1>7. /\ round \in 0..MaxRounds /\ changes \in 0..MaxChanges /\ failures \in 0..MaxFailures
  BY <1>5, <1>6
<1>8. \A n \in Nodes : Len(taken[n]) <= Samples /\ Len(saved[n]) = Len(taken[n])
  BY <1>3, <1>6
<1>9. /\ results \subseteq Nodes /\ received \subseteq Nodes /\ suspicious \subseteq Nodes
      /\ pc \in {"ready", "run", "collect", "report", "wait", "panicked", "returned"}
      /\ ticker \in BOOLEAN /\ tick \in BOOLEAN
  BY <1>5
<1> QED  BY <1>1, <1>3, <1>4, <1>7, <1>8, <1>9 DEF TypeOK

(* Every step keeps the shape.                                             *)
LEMMA TypeStep == TypeOK /\ [Next]_vars => TypeOK'
<1> SUFFICES ASSUME TypeOK, [Next]_vars PROVE TypeOK'
  OBVIOUS
<1> USE HangAssumption DEF nodeVars, mainVars
<1>1. ASSUME NEW n \in Nodes, NEW hang \in BOOLEAN, AskAnswered(n, hang) PROVE TypeOK'
  BY <1>1 DEF AskAnswered, Send, TypeOK
<1>2. ASSUME NEW n \in Nodes, AskFails(n) PROVE TypeOK'
  BY <1>2 DEF AskFails, Send, TypeOK
<1>11. ASSUME NEW n \in Nodes, Look(n) PROVE TypeOK'
  <2>1. suspicious' \subseteq Nodes
        /\ g' \in [Nodes -> {"none", "ask", "look", "sample", "done"}]
    BY <1>11 DEF Look, TypeOK
  <2>2. UNCHANGED <<procs, answer, stalled, results, taken, failed, saved, mainVars, changes, failures>>
    BY <1>11 DEF Look
  <2> QED  BY <2>1, <2>2 DEF TypeOK
<1>3. ASSUME NEW n \in Nodes, NEW ps \in SetToSeqs(procs[n]), Sample(n, ps) PROVE TypeOK'
  <2>1. Verdict(n, ps) \in {"first", "nothing", "noDiff", "haveDiff"}
    BY DEF Verdict
  <2>2. ps \in Seq(Processes) /\ Sampling(n)
    BY <1>3, Listing DEF Sample
  <2>3. /\ taken' \in [Nodes -> Seq(Seq(Processes))]
        /\ saved' \in [Nodes -> Seq({"first", "nothing", "noDiff", "haveDiff"})]
        /\ \A m \in Nodes : Len(taken'[m]) <= Samples /\ Len(saved'[m]) = Len(taken'[m])
    BY <1>3, <2>1, <2>2, OneMore DEF Sample
  <2>4. g' \in [Nodes -> {"none", "ask", "look", "sample", "done"}]
    BY <1>3 DEF Sample, AfterSample, TypeOK
  <2>5. UNCHANGED <<procs, answer, stalled, suspicious, failed, results, mainVars, changes, failures>>
    BY <1>3 DEF Sample
  <2> QED  BY <2>3, <2>4, <2>5 DEF TypeOK
<1>4. ASSUME NEW n \in Nodes, SampleFails(n) PROVE TypeOK'
  <2>1. <<>> \in Seq(Processes) /\ Sampling(n)
    BY <1>4 DEF SampleFails
  <2>2. /\ taken' \in [Nodes -> Seq(Seq(Processes))]
        /\ saved' \in [Nodes -> Seq({"first", "nothing", "noDiff", "haveDiff"})]
        /\ \A m \in Nodes :
              /\ Len(taken'[m]) <= Samples /\ Len(saved'[m]) = Len(taken'[m])
              /\ Len(taken'[m]) = IF m = n THEN Len(taken[m]) + 1 ELSE Len(taken[m])
    <3> DEFINE none == <<>>
               word == "nothing"
    <3>1. /\ taken' = [taken EXCEPT ![n] = Append(@, none)]
          /\ saved' = [saved EXCEPT ![n] = Append(@, word)]
      BY <1>4 DEF SampleFails
    <3>2. none \in Seq(Processes) /\ word \in {"first", "nothing", "noDiff", "haveDiff"}
      BY <2>1
    <3> HIDE DEF none, word
    <3> QED  BY <2>1, <3>1, <3>2, OneMore
  <2>3. g' \in [Nodes -> {"none", "ask", "look", "sample", "done"}] /\ failures' \in 0..MaxFailures
    BY <1>4 DEF SampleFails, AfterSample, TypeOK
  <2>4. Len(taken[n]) \in Nat
    BY DEF TypeOK
  <2>5. Len(taken'[n]) \in 1..Samples
    BY <2>2, <2>4
  <2>6. failed' \in [Nodes -> SUBSET (1..Samples)]
    BY <1>4, <2>5 DEF SampleFails, TypeOK
  <2>7. UNCHANGED <<procs, answer, stalled, suspicious, results, mainVars, changes>>
    BY <1>4 DEF SampleFails
  <2> QED  BY <2>2, <2>3, <2>6, <2>7 DEF TypeOK
<1>5. ASSUME NEW n \in Nodes, NEW S \in Listings, Change(n, S) PROVE TypeOK'
  BY <1>5 DEF Change, TypeOK
<1>6. CASE RoundBegin
  <2>1. /\ taken' \in [Nodes -> Seq(Seq(Processes))]
        /\ saved' \in [Nodes -> Seq({"first", "nothing", "noDiff", "haveDiff"})]
        /\ \A n \in Nodes : taken'[n] = <<>> /\ saved'[n] = <<>>
    BY <1>6 DEF RoundBegin
  <2>2. \A n \in Nodes : Len(taken'[n]) <= Samples /\ Len(saved'[n]) = Len(taken'[n])
    BY <2>1
  <2> QED  BY <1>6, <2>1, <2>2 DEF RoundBegin, TypeOK
<1>7. ASSUME NEW n \in Nodes, Receive(n) PROVE TypeOK'
  BY <1>7 DEF Receive, TypeOK
<1>8. CASE Join \/ NextRound \/ TickerFires
  BY <1>8 DEF Join, NextRound, TickerFires, TypeOK
<1>9. CASE Report
  BY <1>9 DEF Report, TypeOK
<1>10. CASE UNCHANGED vars
  BY <1>10 DEF vars, TypeOK
<1> QED
  BY <1>1, <1>2, <1>3, <1>4, <1>5, <1>6, <1>7, <1>8, <1>9, <1>10, <1>11, Steps

(* Variables keep their shape, and a node has a verdict for each sample.   *)
THEOREM TypeCorrect == Spec => []TypeOK
BY TypeInit, TypeStep, PTL DEF Spec

-----------------------------------------------------------------------------
(* The inductive invariant holds.                                          *)

(* The invariant at the start.                                             *)
LEMMA InvInit == Init => Inv
<1> SUFFICES ASSUME Init PROVE Inv
  OBVIOUS
<1>1. ASSUME NEW n \in Nodes
      PROVE  /\ g[n] = "none" /\ answer[n] = "none" /\ stalled[n] = FALSE /\ taken[n] = <<>>
             /\ n \notin results /\ n \notin received
  BY DEF Init
<1>2. Len(<<>>) = 0
  OBVIOUS
<1>3. \A n \in Nodes : NodeOK(n)
  BY <1>1, <1>2 DEF NodeOK
<1>4. MainOK
  BY <1>1 DEF MainOK, Init
<1> QED  BY <1>3, <1>4, TypeInit DEF Inv

(* The node whose goroutine moves is the only one that changes.            *)
LEMMA OthersKept ==
    ASSUME NEW m \in Nodes, NodeOK(m),
           g'[m] = g[m], answer'[m] = answer[m], stalled'[m] = stalled[m],
           taken'[m] = taken[m],
           m \in results' <=> m \in results, m \in received' <=> m \in received
    PROVE  NodeOK(m)'
BY DEF NodeOK

(* Goroutines.                                                             *)
LEMMA InvGoroutine ==
    ASSUME Inv, NEW n \in Nodes,
           \/ \E hang \in BOOLEAN : AskAnswered(n, hang)
           \/ AskFails(n) \/ Look(n) \/ SampleFails(n)
           \/ \E ps \in SetToSeqs(procs[n]) : Sample(n, ps)
    PROVE  (\A m \in Nodes : NodeOK(m)') /\ MainOK'
<1> USE DEF nodeVars, mainVars
<1>0. TypeOK /\ NodeOK(n) /\ MainOK /\ Samples \in Nat \ {0} /\ Len(taken[n]) \in Nat
  BY HangAssumption DEF Inv, TypeOK
<1>1. ASSUME NEW hang \in BOOLEAN, AskAnswered(n, hang)
      PROVE  (\A m \in Nodes : NodeOK(m)') /\ MainOK'
  <2>1. /\ g[n] = "ask" /\ g' = [g EXCEPT ![n] = "look"]
        /\ results' = results \union {n} /\ answer' = [answer EXCEPT ![n] = "ok"]
        /\ stalled' = [stalled EXCEPT ![n] = hang]
        /\ UNCHANGED <<suspicious, taken, received, pc, round>>
    BY <1>1 DEF AskAnswered, Send
  <2>2. NodeOK(n)'
    BY <1>0, <2>1 DEF NodeOK, TypeOK
  <2>3. ASSUME NEW m \in Nodes, m # n PROVE NodeOK(m)'
    BY <2>1, <2>3, OthersKept DEF Inv, TypeOK
  <2>4. pc = "run"
    BY <1>0, <2>1 DEF MainOK
  <2>5. suspicious' = {m \in Nodes : stalled'[m] /\ g'[m] # "look"}
    BY <1>0, <2>1 DEF MainOK, NodeOK, TypeOK
  <2> QED  BY <1>0, <2>1, <2>2, <2>3, <2>4, <2>5 DEF MainOK
<1>4. CASE Look(n)
  <2>1. /\ g[n] = "look" /\ g' = [g EXCEPT ![n] = IF stalled[n] THEN "sample" ELSE "done"]
        /\ suspicious' = IF stalled[n] THEN suspicious \union {n} ELSE suspicious
        /\ UNCHANGED <<answer, stalled, results, taken, received, pc, round>>
    BY <1>4 DEF Look
  <2>2. NodeOK(n)'
    BY <1>0, <2>1 DEF NodeOK, TypeOK
  <2>3. ASSUME NEW m \in Nodes, m # n PROVE NodeOK(m)'
    BY <2>1, <2>3, OthersKept DEF Inv, TypeOK
  <2>4. pc = "run"
    BY <1>0, <2>1 DEF MainOK
  <2>5. suspicious' = {m \in Nodes : stalled'[m] /\ g'[m] # "look"}
    BY <1>0, <2>1 DEF MainOK, TypeOK
  <2> QED  BY <1>0, <2>1, <2>2, <2>3, <2>4, <2>5 DEF MainOK
<1>2. CASE AskFails(n)
  <2>1. /\ g[n] = "ask" /\ g' = [g EXCEPT ![n] = "done"]
        /\ results' = results \union {n} /\ answer' = [answer EXCEPT ![n] = "error"]
        /\ UNCHANGED <<stalled, suspicious, taken, received, pc, round>>
    BY <1>2 DEF AskFails, Send
  <2>2. NodeOK(n)'
    BY <1>0, <2>1 DEF NodeOK, TypeOK
  <2>3. ASSUME NEW m \in Nodes, m # n PROVE NodeOK(m)'
    BY <2>1, <2>3, OthersKept DEF Inv, TypeOK
  <2>4. pc = "run"
    BY <1>0, <2>1 DEF MainOK
  <2>5. suspicious' = {m \in Nodes : stalled'[m] /\ g'[m] # "look"}
    BY <1>0, <2>1 DEF MainOK, NodeOK, TypeOK
  <2> QED  BY <1>0, <2>1, <2>2, <2>3, <2>4, <2>5 DEF MainOK
<1>3. CASE SampleFails(n) \/ \E ps \in SetToSeqs(procs[n]) : Sample(n, ps)
  <2>1. /\ Sampling(n) /\ AfterSample(n)
        /\ UNCHANGED <<answer, stalled, suspicious, results, received, pc, round>>
        /\ \E ps \in Seq(Processes) : taken' = [taken EXCEPT ![n] = Append(@, ps)]
    <3>1. CASE SampleFails(n)
      <4>1. <<>> \in Seq(Processes)
        OBVIOUS
      <4> QED  BY <3>1, <4>1 DEF SampleFails
    <3>2. ASSUME NEW ps \in SetToSeqs(procs[n]), Sample(n, ps)
          PROVE  /\ Sampling(n) /\ AfterSample(n)
                 /\ UNCHANGED <<answer, stalled, suspicious, results, received, pc, round>>
                 /\ ps \in Seq(Processes) /\ taken' = [taken EXCEPT ![n] = Append(@, ps)]
      BY <1>0, <3>2, Listing DEF Sample
    <3> QED  BY <1>3, <3>1, <3>2
  <2>2. PICK ps \in Seq(Processes) : taken' = [taken EXCEPT ![n] = Append(@, ps)]
    BY <2>1
  <2>3. Len(taken'[n]) = Len(taken[n]) + 1 /\ \A m \in Nodes \ {n} : taken'[m] = taken[m]
    BY <1>0, <2>2 DEF TypeOK
  <2>4. /\ g[n] = "sample" /\ Len(taken[n]) < Samples
        /\ g'[n] = IF Len(taken[n]) + 1 = Samples THEN "done" ELSE "sample"
        /\ \A m \in Nodes \ {n} : g'[m] = g[m]
    BY <1>0, <2>1 DEF Sampling, AfterSample, TypeOK
  <2>5. NodeOK(n)'
    BY <1>0, <2>1, <2>3, <2>4 DEF NodeOK
  <2>6. ASSUME NEW m \in Nodes, m # n PROVE NodeOK(m)'
    BY <2>1, <2>3, <2>4, <2>6, OthersKept DEF Inv
  <2>7. pc = "run"
    BY <1>0, <2>4 DEF MainOK
  <2>8. suspicious' = {m \in Nodes : stalled'[m] /\ g'[m] # "look"}
    BY <1>0, <2>1, <2>4 DEF MainOK
  <2> QED  BY <1>0, <2>1, <2>5, <2>6, <2>7, <2>8 DEF MainOK
<1> QED  BY <1>1, <1>2, <1>3, <1>4

(* Every step keeps the invariant.                                         *)
LEMMA InvStep == Inv /\ [Next]_vars => Inv'
<1> SUFFICES ASSUME Inv, [Next]_vars PROVE (\A m \in Nodes : NodeOK(m)') /\ MainOK'
  BY TypeStep DEF Inv
<1> USE DEF nodeVars, mainVars
<1>0. TypeOK /\ MainOK /\ (\A m \in Nodes : NodeOK(m))
  BY DEF Inv
<1>1. ASSUME NEW n \in Nodes,
             \/ \E hang \in BOOLEAN : AskAnswered(n, hang)
             \/ AskFails(n) \/ Look(n) \/ SampleFails(n)
             \/ \E ps \in SetToSeqs(procs[n]) : Sample(n, ps)
      PROVE  (\A m \in Nodes : NodeOK(m)') /\ MainOK'
  BY <1>1, InvGoroutine
<1>2. CASE \/ \E n \in Nodes, S \in Listings : Change(n, S)
           \/ TickerFires \/ UNCHANGED vars
  <2>1. UNCHANGED <<g, answer, stalled, suspicious, taken, results, received, pc, round>>
    BY <1>2 DEF Change, TickerFires, vars
  <2> QED  BY <1>0, <2>1 DEF NodeOK, MainOK
<1>3. CASE RoundBegin
  <2>1. /\ pc' = "run" /\ suspicious' = {} /\ received' = {} /\ results' = {} /\ round' = round + 1
        /\ \A m \in Nodes : /\ g'[m] = "ask" /\ answer'[m] = "none" /\ stalled'[m] = FALSE
                            /\ taken'[m] = <<>>
    BY <1>3 DEF RoundBegin
  <2>2. Len(<<>>) = 0 /\ round' # 0
    BY <1>0, <2>1 DEF TypeOK
  <2> QED  BY <2>1, <2>2 DEF NodeOK, MainOK
<1>4. CASE Join \/ Report \/ NextRound
  <2>1. UNCHANGED <<g, answer, stalled, suspicious, taken, results, received, round>>
    BY <1>4 DEF Join, Report, NextRound
  <2>2. \A m \in Nodes : NodeOK(m)'
    BY <1>0, <2>1 DEF NodeOK
  <2>3. suspicious' = {n \in Nodes : stalled'[n] /\ g'[n] # "look"}
    BY <1>0, <2>1 DEF MainOK
  <2>4. /\ pc # "ready" /\ round # 0 /\ pc' # "run"
        /\ pc' \in {"report", "wait", "panicked", "returned"} =>
              pc \in {"report", "wait", "panicked", "returned"}
        /\ \A n \in Nodes : g[n] = "done"
    BY <1>0, <1>4 DEF Join, Report, NextRound, MainOK
  <2>5. MainOK'
    BY <1>0, <2>1, <2>3, <2>4 DEF MainOK
  <2> QED  BY <2>2, <2>5
<1>5. ASSUME NEW n \in Nodes, Receive(n) PROVE (\A m \in Nodes : NodeOK(m)') /\ MainOK'
  <2>1. /\ pc = "collect" /\ n \in results
        /\ results' = results \ {n} /\ received' = received \union {n}
        /\ pc' = IF Cardinality(received') = Cardinality(Nodes) THEN "report" ELSE "collect"
        /\ UNCHANGED <<g, answer, stalled, suspicious, taken, round>>
    BY <1>5 DEF Receive
  <2>2. \A m \in Nodes : NodeOK(m)'
    BY <1>0, <2>1 DEF NodeOK
  <2>3. pc' = "report" => received' = Nodes
    <3>1. received' \subseteq Nodes
      BY <1>0, <2>1 DEF TypeOK
    <3> QED  BY <2>1, <3>1, HangAssumption, FS_Subset
  <2> QED  BY <1>0, <2>1, <2>2, <2>3 DEF MainOK
<1> QED
  BY <1>1, <1>2, <1>3, <1>4, <1>5, Steps

(* The invariant holds throughout.                                         *)
LEMMA Invariance == Spec => []Inv
BY InvInit, InvStep, PTL DEF Spec

(* When a round is over every node has its result in the report, and the   *)
(* suspicious ones, no others, have been sampled to the end.               *)
THEOREM RoundsAreComplete == Spec => []RoundIsComplete
<1>1. Inv => RoundIsComplete
  <2> SUFFICES ASSUME Inv, pc \in {"wait", "panicked"}
               PROVE  /\ received = Nodes /\ suspicious = {n \in Nodes : stalled[n]}
                      /\ \A n \in suspicious : Len(taken[n]) = Samples
    BY DEF RoundIsComplete
  <2> QED  BY DEF Inv, MainOK, NodeOK
<1> QED  BY <1>1, Invariance, PTL

-----------------------------------------------------------------------------
(* The refinement.                                                         *)

(* Every step of check-hang is one of Gather, or none.                     *)
LEMMA CheckGathers ==
    ASSUME Inv, Inv', [Next]_vars PROVE [G!Next]_(G!vars)
<1> USE DEF nodeVars, mainVars
<1>0. TypeOK /\ MainOK /\ (\A m \in Nodes : NodeOK(m)) /\ round \in Nat /\ (round' = 0 => pc' = "ready")
  BY DEF Inv, TypeOK, MainOK
<1>1. ASSUME UNCHANGED <<round, received>>, Phase' = Phase,
             \A m \in received : answer'[m] = answer[m]
      PROVE  [G!Next]_(G!vars)
  BY <1>1 DEF HeardSoFar, G!vars
<1>2. ASSUME NEW n \in Nodes,
             \/ \E hang \in BOOLEAN : AskAnswered(n, hang)
             \/ AskFails(n) \/ Look(n) \/ SampleFails(n)
             \/ \E ps \in SetToSeqs(procs[n]) : Sample(n, ps)
      PROVE  [G!Next]_(G!vars)
  <2>1. UNCHANGED <<round, received, pc>>
    BY <1>2 DEF AskAnswered, AskFails, Look, SampleFails, Sample
  <2>2. \A m \in received : answer'[m] = answer[m]
    <3>1. CASE g[n] = "ask"
      <4>1. n \notin received
        BY <1>0, <3>1 DEF NodeOK
      <4>2. \A m \in Nodes \ {n} : answer'[m] = answer[m]
        BY <1>0, <1>2 DEF AskAnswered, AskFails, Look, SampleFails, Sample, Send, TypeOK
      <4> QED  BY <1>0, <4>1, <4>2 DEF TypeOK
    <3>2. CASE g[n] # "ask"
      BY <1>2, <3>2 DEF AskAnswered, AskFails, Look, SampleFails, Sample
    <3> QED  BY <3>1, <3>2
  <2> QED  BY <1>1, <2>1, <2>2 DEF Phase
<1>3. CASE \/ \E n \in Nodes, S \in Listings : Change(n, S)
           \/ TickerFires \/ UNCHANGED vars \/ Join \/ NextRound
  <2>1. UNCHANGED <<round, received, answer>>
    BY <1>3 DEF Change, TickerFires, vars, Join, NextRound
  <2>2. Phase' = Phase
    BY <1>0, <1>3 DEF Change, TickerFires, vars, Join, NextRound, Phase
  <2> QED  BY <1>1, <2>1, <2>2
<1>4. CASE RoundBegin
  <2>1. Phase # "asking" /\ Phase' = "asking" /\ received' = {}
    BY <1>4 DEF RoundBegin, Phase
  <2>2. HeardSoFar' = G!Asked(Nodes)
    BY <2>1 DEF HeardSoFar, G!Asked
  <2>3. G!Ask(Nodes)
    BY <2>1, <2>2 DEF G!Ask
  <2> QED  BY <2>3 DEF G!Next
<1>5. CASE Report
  <2>1. pc = "report" /\ received = Nodes /\ UNCHANGED <<round, received, answer>> /\ round # 0
        /\ pc' \in {"panicked", "returned", "wait"}
    BY <1>0, <1>5 DEF Report, MainOK
  <2>2. Phase = "asking" /\ Phase' = "told"
    BY <2>1 DEF Phase
  <2>3. HeardSoFar' = HeardSoFar
    BY <2>1, <2>2 DEF HeardSoFar
  <2>4. \A n \in Nodes : HeardSoFar[n] # "waiting"
    BY <1>0, <2>1, <2>2 DEF HeardSoFar, TypeOK
  <2> QED  BY <2>2, <2>3, <2>4 DEF G!Next, G!Tell
<1>6. ASSUME NEW n \in Nodes, Receive(n) PROVE G!Next
  <2>1. /\ pc = "collect" /\ pc' \in {"collect", "report"} /\ n \in results
        /\ received' = received \union {n} /\ UNCHANGED <<answer, round>>
    BY <1>6 DEF Receive
  <2>2. Phase = "asking" /\ Phase' = "asking"
    BY <2>1 DEF Phase
  <2>3. n \notin received /\ answer[n] \in {"ok", "error"}
    BY <1>0, <2>1 DEF NodeOK, TypeOK
  <2>4. HeardSoFar[n] = "waiting" /\ HeardSoFar' = [HeardSoFar EXCEPT ![n] = answer[n]]
    BY <2>1, <2>2, <2>3 DEF HeardSoFar
  <2> QED  BY <2>2, <2>3, <2>4 DEF G!Next, G!Hear
<1> QED
  BY <1>2, <1>3, <1>4, <1>5, <1>6, Steps

(* check-hang gathers in every round, although it samples between asking   *)
(* and telling.                                                            *)
THEOREM CheckImplementsGather == Spec => ImplementsGather
<1>1. Init => G!Init
  BY DEF Init, G!Init, G!Nobody, Phase, HeardSoFar
<1> QED
  BY <1>1, CheckGathers, Invariance, PTL DEF Spec, ImplementsGather, G!Spec

-----------------------------------------------------------------------------
(* What the names of the saved files say.                                  *)

(* A sample is a listing, or empty; and a verdict that compares is exact.  *)
Judged(n) ==
    \A k \in 1..Len(taken[n]) :
        /\ IsList(taken[n][k])
        /\ saved[n][k] \in {"noDiff", "haveDiff"} =>
              /\ k > 1
              /\ saved[n][k] = "noDiff" <=> Snapshot(taken[n][k]) = Snapshot(taken[n][k - 1])

(* A node answers with a list of distinct processes.                       *)
LEMMA ListingIsList ==
    ASSUME TypeOK, NEW n \in Nodes, NEW ps \in SetToSeqs(procs[n])
    PROVE  IsList(ps)
<1>1. procs[n] \in SUBSET Processes /\ \A p, q \in procs[n] : p.pid = q.pid => p = q
  BY DEF TypeOK, Listings
<1>2. IsFiniteSet(procs[n])
  BY <1>1, HangAssumption, FS_Subset
<1>3. PICK k \in Nat : k = Cardinality(procs[n])
  BY <1>2, FS_CardinalityType
<1>4. ps \in [1..k -> procs[n]] /\ \A i, j \in 1..k : i # j => ps[i] # ps[j]
  BY <1>3 DEF SetToSeqs
<1>5. Len(ps) = k /\ \A i \in 1..k : ps[i] \in procs[n]
  BY <1>4
<1>6. \A p \in Processes : IsProcess(p)
  BY HangAssumption DEF IsProcess
<1>7. ps \in Seq(ProcessInfo)
  <2>1. \A i \in 1..k : ps[i] \in ProcessInfo
    BY <1>1, <1>5, HangAssumption
  <2> QED  BY <1>4, <2>1
<1>8. \A i \in 1..k : IsProcess(ps[i])
  BY <1>1, <1>5, <1>6
<1>9. \A i, j \in 1..k : ps[i].pid = ps[j].pid => i = j
  BY <1>1, <1>4, <1>5
<1> QED  BY <1>5, <1>7, <1>8, <1>9 DEF IsList

(* One more sample of a node: the verdict on it is exact, those before     *)
(* stand.                                                                  *)
LEMMA OneMoreJudged ==
    ASSUME TypeOK, NEW n \in Nodes, Judged(n), NEW ps \in Seq(Processes), IsList(ps),
           NEW word \in {"first", "nothing", "noDiff", "haveDiff"},
           taken' = [taken EXCEPT ![n] = Append(@, ps)],
           saved' = [saved EXCEPT ![n] = Append(@, word)],
           word \in {"noDiff", "haveDiff"} =>
               /\ taken[n] # <<>>
               /\ word = "noDiff" <=> Snapshot(ps) = Snapshot(Last(taken[n]))
    PROVE  Judged(n)'
<1> DEFINE len == Len(taken[n])
<1>1. /\ taken[n] \in Seq(Seq(Processes)) /\ len \in Nat
      /\ saved[n] \in Seq({"first", "nothing", "noDiff", "haveDiff"}) /\ Len(saved[n]) = len
  BY DEF TypeOK
<1>2. taken'[n] = Append(taken[n], ps) /\ saved'[n] = Append(saved[n], word)
  BY DEF TypeOK
<1>3. /\ Len(taken'[n]) = len + 1
      /\ \A k \in 1..len : taken'[n][k] = taken[n][k] /\ saved'[n][k] = saved[n][k]
      /\ taken'[n][len + 1] = ps /\ saved'[n][len + 1] = word
  BY <1>1, <1>2
<1> SUFFICES ASSUME NEW k \in 1..(len + 1)
             PROVE  /\ IsList(taken'[n][k])
                    /\ saved'[n][k] \in {"noDiff", "haveDiff"} =>
                          /\ k > 1
                          /\ saved'[n][k] = "noDiff" <=>
                                Snapshot(taken'[n][k]) = Snapshot(taken'[n][k - 1])
  BY <1>3 DEF Judged
<1>4. CASE k \in 1..len
  <2>1. k > 1 => k - 1 \in 1..len
    BY <1>1, <1>4
  <2>2. k > 1 => taken'[n][k - 1] = taken[n][k - 1]
    BY <1>3, <2>1
  <2> HIDE DEF len
  <2>3. IsList(taken[n][k])
    BY <1>4 DEF Judged, len
  <2>4. saved[n][k] \in {"noDiff", "haveDiff"} =>
            /\ k > 1
            /\ saved[n][k] = "noDiff" <=> Snapshot(taken[n][k]) = Snapshot(taken[n][k - 1])
    BY <1>4 DEF Judged, len
  <2>5. taken'[n][k] = taken[n][k] /\ saved'[n][k] = saved[n][k]
    BY <1>3, <1>4
  <2> QED  BY <2>2, <2>3, <2>4, <2>5
<1>5. CASE k = len + 1
  <2>1. taken'[n][k] = ps /\ saved'[n][k] = word
    BY <1>3, <1>5
  <2>2. ASSUME word \in {"noDiff", "haveDiff"}
        PROVE  k > 1 /\ taken'[n][k - 1] = Last(taken[n])
    <3>1. len # 0
      BY <2>2, <1>1
    <3>2. len \in 1..len /\ k - 1 = len /\ k > 1
      BY <3>1, <1>1, <1>5
    <3>3. Last(taken[n]) = taken[n][len]
      BY DEF Last
    <3> QED  BY <3>2, <3>3, <1>3
  <2> QED  BY <2>1, <2>2
<1>6. k \in 1..len \/ k = len + 1
  BY <1>1
<1> HIDE DEF len
<1> QED  BY <1>4, <1>5, <1>6

(* Every step keeps the verdicts exact.                                    *)
LEMMA JudgedStep ==
    ASSUME TypeOK, \A n \in Nodes : Judged(n), [Next]_vars
    PROVE  \A n \in Nodes : Judged(n)'
<1> USE DEF nodeVars, mainVars
<1>1. CASE UNCHANGED <<taken, saved>>
  BY <1>1 DEF Judged
<1>2. CASE RoundBegin
  <2>1. \A n \in Nodes : taken'[n] = <<>>
    BY <1>2 DEF RoundBegin
  <2>2. \A n \in Nodes : Len(taken'[n]) = 0
    BY <2>1
  <2> QED  BY <2>2 DEF Judged
<1>3. ASSUME NEW n \in Nodes, NEW ps \in Seq(Processes), NEW word,
             taken' = [taken EXCEPT ![n] = Append(@, ps)],
             saved' = [saved EXCEPT ![n] = Append(@, word)],
             Judged(n)'
      PROVE  \A m \in Nodes : Judged(m)'
  <2>1. \A m \in Nodes \ {n} : taken'[m] = taken[m] /\ saved'[m] = saved[m]
    BY <1>3 DEF TypeOK
  <2>2. \A m \in Nodes \ {n} : Judged(m)'
    BY <2>1 DEF Judged
  <2> QED  BY <1>3, <2>2
<1>4. ASSUME NEW n \in Nodes, NEW ps \in SetToSeqs(procs[n]), Sample(n, ps)
      PROVE  \A m \in Nodes : Judged(m)'
  <2> DEFINE word == Verdict(n, ps)
  <2>1. /\ taken' = [taken EXCEPT ![n] = Append(@, ps)]
        /\ saved' = [saved EXCEPT ![n] = Append(@, word)]
        /\ ps \in Seq(Processes) /\ IsList(ps)
    BY <1>4, Listing, ListingIsList DEF Sample
  <2>2. word \in {"first", "nothing", "noDiff", "haveDiff"}
    BY DEF Verdict
  <2>3. ASSUME word \in {"noDiff", "haveDiff"}
        PROVE  /\ taken[n] # <<>>
               /\ word = "noDiff" <=> Snapshot(ps) = Snapshot(Last(taken[n]))
    <3>1. taken[n] # <<>>
      BY <2>3 DEF Verdict
    <3>2. taken[n] \in Seq(Seq(Processes)) /\ Len(taken[n]) \in 1..Len(taken[n])
      BY <3>1 DEF TypeOK
    <3>3. IsList(Last(taken[n]))
      BY <3>2 DEF Judged, Last
    <3>4. word = "noDiff" <=> PstreeEqual(ps, Last(taken[n])).equal
      BY <3>1 DEF Verdict
    <3> QED  BY <2>1, <3>1, <3>3, <3>4, ListsCompared
  <2> HIDE DEF word
  <2>4. Judged(n)'
    BY <2>1, <2>2, <2>3, OneMoreJudged
  <2> QED  BY <2>1, <2>4, <1>3
<1>5. ASSUME NEW n \in Nodes, SampleFails(n) PROVE \A m \in Nodes : Judged(m)'
  <2> DEFINE none == <<>>
             word == "nothing"
  <2>1. /\ taken' = [taken EXCEPT ![n] = Append(@, none)]
        /\ saved' = [saved EXCEPT ![n] = Append(@, word)]
    BY <1>5 DEF SampleFails
  <2>2. /\ none \in Seq(Processes) /\ IsList(none)
        /\ word \in {"first", "nothing", "noDiff", "haveDiff"}
        /\ word \notin {"noDiff", "haveDiff"}
    BY DEF IsList
  <2> HIDE DEF none, word
  <2>3. Judged(n)'
    BY <2>1, <2>2, OneMoreJudged
  <2> QED  BY <2>1, <2>2, <2>3, <1>3
<1>6. ASSUME \/ \E n \in Nodes, hang \in BOOLEAN : AskAnswered(n, hang)
             \/ \E n \in Nodes : AskFails(n) \/ Look(n) \/ Receive(n)
             \/ \E n \in Nodes, S \in Listings : Change(n, S)
             \/ Join \/ Report \/ NextRound \/ TickerFires \/ UNCHANGED vars
      PROVE  UNCHANGED <<taken, saved>>
  BY <1>6 DEF AskAnswered, AskFails, Look, Receive, Change, Join, Report, NextRound, TickerFires, vars
<1> QED  BY <1>1, <1>2, <1>4, <1>5, <1>6, Steps

(* The verdicts are exact throughout.                                      *)
LEMMA AllJudged == Spec => [](TypeOK /\ \A n \in Nodes : Judged(n))
<1>1. Init => \A n \in Nodes : Judged(n)
  <2>1. Len(<<>>) = 0
    OBVIOUS
  <2>2. Init => \A n \in Nodes : Len(taken[n]) = 0
    BY <2>1 DEF Init
  <2> QED  BY <2>2 DEF Judged
<1>2. TypeOK /\ (\A n \in Nodes : Judged(n)) /\ [Next]_vars => (\A n \in Nodes : Judged(n))'
  BY JudgedStep
<1> QED  BY <1>1, <1>2, TypeInit, TypeStep, PTL DEF Spec

(* CheckHangStacks and PstreeEqual: a file named noDiff stands for two     *)
(* consecutive samples with the same processes, ranks and stacks, however  *)
(* many there are and in whatever order they were listed.                  *)
THEOREM NoDiffIsSame == Spec => []NoDiffMeansSame
<1>1. TypeOK /\ (\A n \in Nodes : Judged(n)) => NoDiffMeansSame
  <2> SUFFICES ASSUME TypeOK, NEW n \in Nodes, Judged(n), NEW k \in Compared(n),
                      saved[n][k] = "noDiff"
               PROVE  Snapshot(taken[n][k]) = Snapshot(taken[n][k - 1])
    BY DEF NoDiffMeansSame
  <2>1. k \in 1..Len(taken[n])
    BY DEF TypeOK, Compared
  <2> QED  BY <2>1 DEF Judged
<1> QED  BY <1>1, AllJudged, PTL

(* A file named haveDiff stands for two samples that differ.  The sorting, *)
(* by pid and by thread id, makes no difference of its own.                *)
THEOREM HaveDiffIsCaused == Spec => []HaveDiffHasCause
<1>1. TypeOK /\ (\A n \in Nodes : Judged(n)) => HaveDiffHasCause
  <2> SUFFICES ASSUME TypeOK, NEW n \in Nodes, Judged(n), NEW k \in Compared(n),
                      saved[n][k] = "haveDiff"
               PROVE  Snapshot(taken[n][k]) # Snapshot(taken[n][k - 1])
    BY DEF HaveDiffHasCause
  <2>1. k \in 1..Len(taken[n])
    BY DEF TypeOK, Compared
  <2> QED  BY <2>1 DEF Judged
<1> QED  BY <1>1, AllJudged, PTL
=============================================================================
