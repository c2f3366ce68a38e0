---------------------------- MODULE CoresProofs ----------------------------
(***************************************************************************)
(* TLAPS proofs about the sets of cores, for any number of cores.          *)
(* CoreSetStrings, for any sequence of tokens: what a command line names   *)
(* is what the daemon and the monitor pin to, count, split and print.      *)
(* DynamicCores, for any numbers of threads: every round deals each core   *)
(* to one class and leaves none of the active classes out, unless compute  *)
(* or memory finds no P-core left by its weight while all three classes    *)
(* are active; then the masks of the round before are kept.                *)
(***************************************************************************)
EXTENDS MeasurementProofs

-----------------------------------------------------------------------------
(* Lists of cores.  The larger and the smaller of two numbers.             *)

LEMMA LargerOfTwo ==
  ASSUME NEW a \in Int, NEW b \in Int
  PROVE  /\ Reading!Max({a, b}) = IF a >= b THEN a ELSE b
         /\ Cores!Max({a, b}) = IF a >= b THEN a ELSE b
<1>1. PICK m \in {a, b} : m = IF a >= b THEN a ELSE b
  OBVIOUS
<1>2. \A y \in {a, b} : m >= y
  BY <1>1
<1>3. \A x \in {a, b} : (\A y \in {a, b} : x >= y) => x = m
  BY <1>1
<1> QED
  BY <1>1, <1>2, <1>3 DEF Reading!Max, Cores!Max

LEMMA SmallerOfTwo ==
  ASSUME NEW a \in Int, NEW b \in Int
  PROVE  /\ Reading!Min({a, b}) = IF a <= b THEN a ELSE b
         /\ Cores!Min({a, b}) = IF a <= b THEN a ELSE b
<1>1. PICK m \in {a, b} : m = IF a <= b THEN a ELSE b
  OBVIOUS
<1>2. \A y \in {a, b} : m <= y
  BY <1>1
<1>3. \A x \in {a, b} : (\A y \in {a, b} : x <= y) => x = m
  BY <1>1
<1> QED
  BY <1>1, <1>2, <1>3 DEF Reading!Min, Cores!Min

(* The operators that do not know how many cores there are are the same in *)
(* both instances.                                                         *)
LEMMA SameLists ==
  /\ \A lo, hi : Cores!Interval(lo, hi) = Reading!Interval(lo, hi)
  /\ \A ss : Cores!FlattenSeq(ss) = Reading!FlattenSeq(ss)
  /\ \A c : Cores!ToSet(c) = Reading!ToSet(c)
  /\ \A c : Cores!cores_to_string(c) = Reading!cores_to_string(c)
<1>1. \A lo, hi : Cores!Interval(lo, hi) = Reading!Interval(lo, hi)
  BY Zenon DEF Cores!Interval, Reading!Interval
<1>2. \A ss : Cores!FlattenSeq(ss) = Reading!FlattenSeq(ss)
  BY Zenon DEF Cores!FlattenSeq, Reading!FlattenSeq
<1>3. \A c : Cores!ToSet(c) = Reading!ToSet(c)
  BY Zenon DEF Cores!ToSet, Reading!ToSet
<1>4. \A S : Cores!Cardinality(S) = Reading!Cardinality(S)
  BY Zenon DEF Cores!Cardinality, Reading!Cardinality
<1>5. \A S : Cores!Min(S) = Reading!Min(S)
  BY Zenon DEF Cores!Min, Reading!Min
<1>6. \A c : Cores!qsort(c) = Reading!qsort(c)
  BY <1>4, <1>5 DEF Cores!qsort, Reading!qsort
<1>7. \A c : Cores!Runs(c) = Reading!Runs(c)
  BY Zenon DEF Cores!Runs, Reading!Runs, Cores!Lengthen, Reading!Lengthen,
     Cores!Core, Reading!Core, Cores!Span, Reading!Span
<1> QED
  BY <1>1, <1>2, <1>3, <1>6, <1>7 DEF Cores!cores_to_string, Reading!cores_to_string

LEMMA IntervalHolds ==
  ASSUME NEW lo \in Int, NEW hi \in Int, NEW S, lo..hi \subseteq S
  PROVE  /\ Reading!Interval(lo, hi) \in Seq(S)
         /\ Len(Reading!Interval(lo, hi)) = IF lo > hi THEN 0 ELSE hi - lo + 1
         /\ \A i \in 1..hi - lo + 1 : Reading!Interval(lo, hi)[i] = lo + i - 1
         /\ Reading!ToSet(Reading!Interval(lo, hi)) = lo..hi
<1>1. CASE lo > hi
  <2>1. Reading!Interval(lo, hi) = <<>>
    BY <1>1 DEF Reading!Interval
  <2>2. Reading!ToSet(<<>>) = {}
    BY DEF Reading!ToSet
  <2>3. lo..hi = {} /\ 1..hi - lo + 1 = {}
    BY <1>1
  <2>4. <<>> \in Seq(S) /\ Len(<<>>) = 0
    OBVIOUS
  <2>5. \A i \in 1..hi - lo + 1 : Reading!Interval(lo, hi)[i] = lo + i - 1
    BY <2>3
  <2>6. Reading!ToSet(Reading!Interval(lo, hi)) = lo..hi
    BY <2>1, <2>2, <2>3, Zenon
  <2>7. Len(Reading!Interval(lo, hi)) = IF lo > hi THEN 0 ELSE hi - lo + 1
    BY <1>1, <2>1, <2>4
  <2>8. Reading!Interval(lo, hi) \in Seq(S)
    BY <2>1, <2>4
  <2> QED
    BY <2>5, <2>6, <2>7, <2>8, Zenon
<1>2. CASE lo <= hi
  <2>1. Reading!Interval(lo, hi) = [i \in 1..hi - lo + 1 |-> lo + i - 1]
    BY <1>2 DEF Reading!Interval
  <2>2. \A i \in 1..hi - lo + 1 : lo + i - 1 \in S
    <3>1. \A i \in 1..hi - lo + 1 : lo + i - 1 \in lo..hi
      OBVIOUS
    <3> QED
      BY <3>1
  <2>3. hi - lo + 1 \in Nat
    BY <1>2
  <2>4. \A c \in lo..hi : c - lo + 1 \in 1..hi - lo + 1 /\ lo + (c - lo + 1) - 1 = c
    OBVIOUS
  <2>5. \A i \in 1..hi - lo + 1 : lo + i - 1 \in lo..hi
    OBVIOUS
  <2>6. Reading!ToSet(Reading!Interval(lo, hi)) = {lo + i - 1 : i \in 1..hi - lo + 1}
    BY <2>1 DEF Reading!ToSet
  <2>7. {lo + i - 1 : i \in 1..hi - lo + 1} = lo..hi
    BY <2>4, <2>5
  <2>8. Reading!Interval(lo, hi) \in Seq(S) /\ Len(Reading!Interval(lo, hi)) = hi - lo + 1
    <3> DEFINE n == hi - lo + 1
    <3> HIDE DEF n
    <3>1. [i \in 1..n |-> lo + i - 1] \in [1..n -> S]
      BY <2>2 DEF n
    <3>2. n \in Nat
      BY <2>3 DEF n
    <3>3. [i \in 1..n |-> lo + i - 1] \in Seq(S) /\ Len([i \in 1..n |-> lo + i - 1]) = n
      BY <3>1, <3>2
    <3> QED
      BY <2>1, <3>3 DEF n
  <2>9. \A i \in 1..hi - lo + 1 : Reading!Interval(lo, hi)[i] = lo + i - 1
    BY <2>1
  <2>10. Reading!ToSet(Reading!Interval(lo, hi)) = lo..hi
    BY <2>6, <2>7, Zenon
  <2>11. Len(Reading!Interval(lo, hi)) = IF lo > hi THEN 0 ELSE hi - lo + 1
    BY <1>2, <2>8
  <2> QED
    BY <2>8, <2>9, <2>10, <2>11, Zenon
<1> QED
  BY <1>1, <1>2

(* A sequence of sequences and what its prefixes flatten to.               *)
Flat(f, ss, S) ==
  /\ f \in [0..Len(ss) -> Seq(S)]
  /\ f[0] = <<>>
  /\ \A k \in 1..Len(ss) : f[k] = f[k - 1] \o ss[k]

LEMMA FlatExists ==
  ASSUME NEW S, NEW ss \in Seq(Seq(S))
  PROVE  \E f : Flat(f, ss, S)
<1> DEFINE Up(f, n) == /\ f \in [0..n -> Seq(S)]
                       /\ f[0] = <<>>
                       /\ \A k \in 1..n : f[k] = f[k - 1] \o ss[k]
           T == {n \in Nat : n <= Len(ss) => \E f : Up(f, n)}
<1>1. 0 \in T
  <2>1. Up([k \in 0..0 |-> <<>>], 0)
    OBVIOUS
  <2> QED
    BY <2>1
<1>2. ASSUME NEW n \in Nat, n \in T
      PROVE  n + 1 \in T
  <2>0. SUFFICES ASSUME n + 1 <= Len(ss)
                 PROVE  \E f : Up(f, n + 1)
    <3> HIDE DEF Up
    <3> QED
      OBVIOUS
  <2>1. PICK f : Up(f, n)
    <3>1. n <= Len(ss)
      BY <2>0
    <3> HIDE DEF Up
    <3> QED
      BY <1>2, <3>1
  <2> DEFINE g == [k \in 0..n + 1 |-> IF k <= n THEN f[k] ELSE f[n] \o ss[n + 1]]
  <2>2. ss[n + 1] \in Seq(S)
    BY <2>0
  <2>3. f[n] \in Seq(S)
    BY <2>1
  <2>4. f[n] \o ss[n + 1] \in Seq(S)
    BY <2>2, <2>3
  <2>5. \A k \in 0..n + 1 : g[k] \in Seq(S)
    BY <2>1, <2>4
  <2>6. ASSUME NEW k \in 1..n + 1
        PROVE  g[k] = g[k - 1] \o ss[k]
    <3>1. CASE k <= n
      <4>1. f[k] = f[k - 1] \o ss[k]
        <5>1. k \in 1..n
          BY <3>1
        <5>2. \A j \in 1..n : f[j] = f[j - 1] \o ss[j]
          BY <2>1
        <5> QED
          BY <5>1, <5>2
      <4>2. g[k] = f[k] /\ g[k - 1] = f[k - 1]
        BY <3>1
      <4> QED
        BY <4>1, <4>2
    <3>2. CASE k = n + 1
      <4>1. n + 1 \in 0..n + 1 /\ ~ n + 1 <= n /\ n \in 0..n + 1 /\ n <= n /\ (n + 1) - 1 = n
        OBVIOUS
      <4>2. g[n + 1] = f[n] \o ss[n + 1]
        BY <4>1, Zenon
      <4>3. g[n] = f[n]
        BY <4>1, Zenon
      <4> HIDE DEF g
      <4> QED
        BY <3>2, <4>1, <4>2, <4>3
    <3>3. k <= n \/ k = n + 1
      OBVIOUS
    <3> HIDE DEF g
    <3> QED
      BY <3>1, <3>2, <3>3
  <2>7. g[0] = <<>>
    BY <2>1
  <2>8. g \in [0..n + 1 -> Seq(S)]
    BY <2>5
  <2>9. Up(g, n + 1)
    <3> HIDE DEF g
    <3> QED
      BY <2>6, <2>7, <2>8
  <2> HIDE DEF g, Up
  <2> QED
    BY <2>9
<1>3. Nat \subseteq T
  <2> HIDE DEF T
  <2> QED
    BY <1>1, <1>2, Induction
<1>4. PICK f : Up(f, Len(ss))
  <2>1. Len(ss) \in Nat
    OBVIOUS
  <2>2. Len(ss) \in T
    BY <1>3, <2>1
  <2> HIDE DEF Up
  <2> QED
    BY <2>1, <2>2
<1> QED
  BY <1>4 DEF Flat

LEMMA FlatIsFlattened ==
  ASSUME NEW S, NEW ss \in Seq(Seq(S)), NEW f, Flat(f, ss, S)
  PROVE  Reading!FlattenSeq(ss) = f[Len(ss)]
<1>1. CASE Len(ss) = 0
  <2>1. ss = <<>>
    BY <1>1
  <2> QED
    BY <1>1, <2>1 DEF Flat, Reading!FlattenSeq
<1>2. CASE Len(ss) # 0
  <2> DEFINE IsFlat(h) == h = [i \in 1..Len(ss) |-> IF i = 1 THEN ss[i] ELSE h[i - 1] \o ss[i]]
             h0 == [i \in 1..Len(ss) |-> f[i]]
             h == CHOOSE h : IsFlat(h)
             T == {n \in Nat : n + 1 <= Len(ss) => h[n + 1] = f[n + 1]}
  <2>1. f[1] = ss[1]
    <3>1. 1 \in 1..Len(ss) /\ 1 - 1 = 0
      BY <1>2
    <3>2. f[1] = <<>> \o ss[1]
      BY <3>1 DEF Flat
    <3>3. ss[1] \in Seq(S)
      BY <3>1, ElementOfSeq
    <3> QED
      BY <3>2, <3>3, ConcatEmptySeq
  <2>2. IsFlat(h0)
    <3>1. ASSUME NEW i \in 1..Len(ss)
          PROVE  f[i] = IF i = 1 THEN ss[i] ELSE h0[i - 1] \o ss[i]
      <4>1. CASE i = 1
        BY <2>1, <4>1
      <4>2. CASE i # 1
        <5>1. i - 1 \in 1..Len(ss)
          BY <4>2
        <5> QED
          BY <4>2, <5>1 DEF Flat
      <4> QED
        BY <4>1, <4>2
    <3> QED
      BY <3>1
  <2>3. IsFlat(h)
    <3> HIDE DEF IsFlat, h0
    <3> QED
      BY <2>2
  <2>4. \A i \in 1..Len(ss) : h[i] = IF i = 1 THEN ss[i] ELSE h[i - 1] \o ss[i]
    <3> HIDE DEF h
    <3> QED
      BY <2>3
  <2>5. 0 \in T
    <3> HIDE DEF h
    <3> QED
      BY <2>1, <2>4
  <2>6. ASSUME NEW n \in Nat, n \in T
        PROVE  n + 1 \in T
    <3> HIDE DEF h
    <3> SUFFICES ASSUME n + 1 + 1 <= Len(ss)
                 PROVE  h[n + 1 + 1] = f[n + 1 + 1]
      OBVIOUS
    <3>1. n + 2 \in 1..Len(ss) /\ (n + 2) - 1 = n + 1 /\ n + 1 + 1 = n + 2 /\ n + 2 # 1
      OBVIOUS
    <3>2. h[n + 2] = h[n + 1] \o ss[n + 2]
      BY <2>4, <3>1
    <3>3. f[n + 2] = f[n + 1] \o ss[n + 2]
      BY <3>1 DEF Flat
    <3>4. h[n + 1] = f[n + 1]
      <4>1. n + 1 <= Len(ss)
        BY <3>1
      <4> QED
        BY <2>6, <4>1
    <3> HIDE DEF T
    <3> QED
      BY <3>1, <3>2, <3>3, <3>4
  <2>7. Nat \subseteq T
    <3> HIDE DEF T
    <3> QED
      BY <2>5, <2>6, Induction
  <2>8. h[Len(ss)] = f[Len(ss)]
    <3>1. Len(ss) - 1 \in Nat /\ Len(ss) - 1 + 1 = Len(ss) /\ Len(ss) <= Len(ss)
      BY <1>2
    <3>2. Len(ss) - 1 \in T
      BY <2>7, <3>1
    <3> HIDE DEF h
    <3> QED
      BY <3>1, <3>2
  <2>9. Reading!FlattenSeq(ss) = h[Len(ss)]
    BY <1>2, Zenon DEF Reading!FlattenSeq
  <2> QED
    BY <2>8, <2>9
<1> QED
  BY <1>1, <1>2

LEMMA ConcatHolds ==
  ASSUME NEW S, NEW a \in Seq(S), NEW b \in Seq(S)
  PROVE  Reading!ToSet(a \o b) = Reading!ToSet(a) \cup Reading!ToSet(b)
<1> DEFINE m == Len(a)
           n == Len(b)
           ab == a \o b
<1>1. m \in Nat /\ n \in Nat /\ DOMAIN a = 1..m /\ DOMAIN b = 1..n
  OBVIOUS
<1>2. /\ ab \in Seq(S) /\ Len(ab) = m + n
      /\ \A i \in 1..m + n : ab[i] = IF i <= m THEN a[i] ELSE b[i - m]
  BY ConcatProperties
<1>3. DOMAIN ab = 1..m + n
  BY <1>2, LenProperties
<1> HIDE DEF m, n, ab
<1>4. \A i \in 1..m : i \in 1..m + n /\ ab[i] = a[i]
  BY <1>1, <1>2
<1>5. \A i \in 1..n : i + m \in 1..m + n /\ ab[i + m] = b[i]
  <2>1. \A i \in 1..n : i + m \in 1..m + n /\ ~ i + m <= m /\ (i + m) - m = i
    BY <1>1
  <2> QED
    BY <1>2, <2>1
<1>6. \A i \in 1..m + n : \/ i \in 1..m /\ ab[i] = a[i]
                          \/ i - m \in 1..n /\ ab[i] = b[i - m]
  <2>1. \A i \in 1..m + n : (i <= m => i \in 1..m) /\ (~ i <= m => i - m \in 1..n)
    BY <1>1
  <2> QED
    BY <1>2, <2>1
<1>7. Reading!ToSet(ab) = Reading!ToSet(a) \cup Reading!ToSet(b)
  <2>1. /\ Reading!ToSet(ab) = {ab[i] : i \in 1..m + n}
        /\ Reading!ToSet(a) = {a[i] : i \in 1..m}
        /\ Reading!ToSet(b) = {b[i] : i \in 1..n}
    BY <1>1, <1>3, Zenon DEF Reading!ToSet
  <2>2. {ab[i] : i \in 1..m + n} \subseteq {a[i] : i \in 1..m} \cup {b[i] : i \in 1..n}
    BY <1>6
  <2>3. {a[i] : i \in 1..m} \subseteq {ab[i] : i \in 1..m + n}
    BY <1>4
  <2>4. {b[i] : i \in 1..n} \subseteq {ab[i] : i \in 1..m + n}
    BY <1>5
  <2> QED
    BY <2>1, <2>2, <2>3, <2>4
<1> QED
  BY <1>7 DEF ab

LEMMA FlatHolds ==
  ASSUME NEW S, NEW ss \in Seq(Seq(S))
  PROVE  /\ Reading!FlattenSeq(ss) \in Seq(S)
         /\ Reading!ToSet(Reading!FlattenSeq(ss)) =
              {c \in S : \E k \in 1..Len(ss) : c \in Reading!ToSet(ss[k])}
<1>1. PICK f : Flat(f, ss, S)
  BY FlatExists
<1>2. Reading!FlattenSeq(ss) = f[Len(ss)]
  BY <1>1, FlatIsFlattened
<1>3. Len(ss) \in Nat
  OBVIOUS
<1>4. \A k \in 0..Len(ss) : f[k] \in Seq(S)
  BY <1>1 DEF Flat
<1> DEFINE Some(n) == {c \in S : \E k \in 1..n : c \in Reading!ToSet(ss[k])}
           T == {n \in Nat : n <= Len(ss) => Reading!ToSet(f[n]) = Some(n)}
<1>5. 0 \in T
  <2>1. f[0] = <<>>
    BY <1>1 DEF Flat
  <2>2. Reading!ToSet(<<>>) = {}
    BY DEF Reading!ToSet
  <2>3. Some(0) = {}
    OBVIOUS
  <2> HIDE DEF Some
  <2> QED
    BY <2>1, <2>2, <2>3
<1>6. ASSUME NEW n \in Nat, n \in T
      PROVE  n + 1 \in T
  <2>0. SUFFICES ASSUME n + 1 <= Len(ss)
                 PROVE  Reading!ToSet(f[n + 1]) = Some(n + 1)
    OBVIOUS
  <2>1. n + 1 \in 1..Len(ss) /\ n \in 0..Len(ss) /\ (n + 1) - 1 = n
    BY <1>3, <2>0
  <2>2. f[n + 1] = f[n] \o ss[n + 1]
    BY <1>1, <2>1 DEF Flat
  <2>3. Reading!ToSet(f[n]) = Some(n)
    BY <1>6, <2>1
  <2>4. f[n] \in Seq(S)
    BY <1>4, <2>1
  <2>5. ss[n + 1] \in Seq(S)
    BY <2>1, ElementOfSeq
  <2>6. Reading!ToSet(f[n] \o ss[n + 1]) = Reading!ToSet(f[n]) \cup Reading!ToSet(ss[n + 1])
    BY <2>4, <2>5, ConcatHolds
  <2>7. Reading!ToSet(ss[n + 1]) \subseteq S
    BY <2>5 DEF Reading!ToSet
  <2>8. Some(n + 1) = Some(n) \cup Reading!ToSet(ss[n + 1])
    <3>1. 1..n + 1 = 1..n \cup {n + 1}
      OBVIOUS
    <3> QED
      BY <2>7, <3>1
  <2> HIDE DEF Some
  <2> QED
    BY <2>2, <2>3, <2>6, <2>8
<1>7. Nat \subseteq T
  <2> HIDE DEF T
  <2> QED
    BY <1>5, <1>6, Induction
<1>8. Reading!ToSet(f[Len(ss)]) = Some(Len(ss))
  <2>1. Len(ss) \in T
    BY <1>3, <1>7
  <2> HIDE DEF Some
  <2> QED
    BY <1>3, <2>1
<1> QED
  BY <1>2, <1>3, <1>4, <1>8

LEMMA FlatOfAppend ==
  ASSUME NEW S, NEW ss \in Seq(Seq(S)), NEW t \in Seq(S)
  PROVE  Reading!FlattenSeq(Append(ss, t)) = Reading!FlattenSeq(ss) \o t
<1>1. PICK f : Flat(f, ss, S)
  BY FlatExists
<1>2. Reading!FlattenSeq(ss) = f[Len(ss)]
  BY <1>1, FlatIsFlattened
<1> DEFINE n == Len(ss)
           tt == Append(ss, t)
           g == [k \in 0..n + 1 |-> IF k <= n THEN f[k] ELSE f[n] \o t]
<1>3. n \in Nat
  OBVIOUS
<1>4. /\ f \in [0..n -> Seq(S)] /\ f[0] = <<>>
      /\ \A k \in 1..n : f[k] = f[k - 1] \o ss[k]
  BY <1>1 DEF Flat
<1>5. tt \in Seq(Seq(S)) /\ Len(tt) = n + 1 /\ tt[n + 1] = t /\ \A k \in 1..n : tt[k] = ss[k]
  BY AppendProperties
<1> HIDE DEF n, tt
<1>6. f[n] \o t \in Seq(S)
  <2>1. f[n] \in Seq(S)
    BY <1>3, <1>4
  <2> QED
    BY <2>1, ConcatProperties
<1>7. \A k \in 0..n : g[k] = f[k]
  BY <1>3
<1>8. g[n + 1] = f[n] \o t
  BY <1>3
<1>9. g \in [0..n + 1 -> Seq(S)]
  BY <1>3, <1>4, <1>6
<1> HIDE DEF g
<1>10. ASSUME NEW k \in 1..n + 1
       PROVE  g[k] = g[k - 1] \o tt[k]
  <2>1. CASE k \in 1..n
    <3>1. k \in 0..n /\ k - 1 \in 0..n
      BY <1>3, <2>1
    <3> QED
      BY <1>4, <1>5, <1>7, <2>1, <3>1
  <2>2. CASE k = n + 1
    <3>1. k - 1 = n /\ n \in 0..n
      BY <1>3, <2>2
    <3> QED
      BY <1>5, <1>7, <1>8, <2>2, <3>1
  <2>3. k \in 1..n \/ k = n + 1
    BY <1>3
  <2> QED
    BY <2>1, <2>2, <2>3
<1>11. Flat(g, tt, S)
  <2>1. g[0] = <<>>
    BY <1>3, <1>4, <1>7
  <2> QED
    BY <1>5, <1>9, <1>10, <2>1 DEF Flat
<1>12. Reading!FlattenSeq(tt) = g[n + 1]
  BY <1>5, <1>11, FlatIsFlattened
<1> QED
  BY <1>2, <1>8, <1>12 DEF n, tt

(* The cores below N that a token and that a string names.                 *)
Exist(N, t) == Reading!Interval(IF 0 >= t.lo THEN 0 ELSE t.lo,
                                IF N - 1 <= t.hi THEN N - 1 ELSE t.hi)
ListedOf(N, s) == Reading!FlattenSeq([k \in DOMAIN s |-> Exist(N, s[k])])
MeantBy(N, s) == {c \in 0..N - 1 : \E k \in DOMAIN s : c \in s[k].lo..s[k].hi}

LEMMA ExistHolds ==
  ASSUME NEW N \in Nat, NEW t \in Reading!Token
  PROVE  /\ Exist(N, t) \in Seq(0..N - 1)
         /\ Reading!ToSet(Exist(N, t)) = {c \in 0..N - 1 : c \in t.lo..t.hi}
<1> DEFINE lo == IF 0 >= t.lo THEN 0 ELSE t.lo
           hi == IF N - 1 <= t.hi THEN N - 1 ELSE t.hi
<1>1. t.lo \in Int /\ t.hi \in Int
  BY DEF Reading!Token
<1>2. lo \in Int /\ hi \in Int
  BY <1>1
<1>3. lo..hi = {c \in 0..N - 1 : c \in t.lo..t.hi}
  BY <1>1
<1>4. lo..hi \subseteq 0..N - 1
  BY <1>3
<1>5. Exist(N, t) = Reading!Interval(lo, hi)
  BY DEF Exist
<1> HIDE DEF lo, hi
<1>6. /\ Reading!Interval(lo, hi) \in Seq(0..N - 1)
      /\ Reading!ToSet(Reading!Interval(lo, hi)) = lo..hi
  BY <1>2, <1>4, IntervalHolds
<1> QED
  BY <1>3, <1>5, <1>6

LEMMA SameListed ==
  ASSUME NEW s \in Seq(Reading!Token)
  PROVE  /\ Reading!Listed(s) = ListedOf(StringCores, s)
         /\ Cores!Listed(s) = ListedOf(MAX_CORES, s)
<1>1. \A k \in DOMAIN s : s[k].lo \in Int /\ s[k].hi \in Int
  BY DEF Reading!Token
<1>2. StringCores \in Nat /\ MAX_CORES \in Nat
  BY StringsAssumption, CoresAssumption
<1>3. ASSUME NEW k \in DOMAIN s
      PROVE  /\ Reading!Existing(s[k]) = Exist(StringCores, s[k])
             /\ Cores!Existing(s[k]) = Exist(MAX_CORES, s[k])
  <2>1. /\ 0 \in Int /\ s[k].lo \in Int /\ s[k].hi \in Int
        /\ StringCores - 1 \in Int /\ MAX_CORES - 1 \in Int
    BY <1>1, <1>2
  <2>2. /\ Reading!Max({0, s[k].lo}) = IF 0 >= s[k].lo THEN 0 ELSE s[k].lo
        /\ Cores!Max({0, s[k].lo}) = IF 0 >= s[k].lo THEN 0 ELSE s[k].lo
    BY <2>1, LargerOfTwo
  <2>3. Reading!Min({StringCores - 1, s[k].hi})
          = IF StringCores - 1 <= s[k].hi THEN StringCores - 1 ELSE s[k].hi
    BY <2>1, SmallerOfTwo
  <2>4. Cores!Min({MAX_CORES - 1, s[k].hi})
          = IF MAX_CORES - 1 <= s[k].hi THEN MAX_CORES - 1 ELSE s[k].hi
    BY <2>1, SmallerOfTwo
  <2> QED
    BY <2>2, <2>3, <2>4, SameLists, Zenon DEF Reading!Existing, Cores!Existing, Exist
<1>4. [k \in DOMAIN s |-> Reading!Existing(s[k])] = [k \in DOMAIN s |-> Exist(StringCores, s[k])]
  BY <1>3
<1>5. [k \in DOMAIN s |-> Cores!Existing(s[k])] = [k \in DOMAIN s |-> Exist(MAX_CORES, s[k])]
  BY <1>3
<1> QED
  BY <1>4, <1>5, SameLists, Zenon DEF Reading!Listed, Cores!Listed, ListedOf

LEMMA ListedHolds ==
  ASSUME NEW N \in Nat, NEW s \in Seq(Reading!Token)
  PROVE  /\ ListedOf(N, s) \in Seq(0..N - 1)
         /\ Reading!ToSet(ListedOf(N, s)) = MeantBy(N, s)
<1> DEFINE ss == [k \in DOMAIN s |-> Exist(N, s[k])]
           C == 0..N - 1
<1>1. DOMAIN s = 1..Len(s) /\ Len(s) \in Nat /\ \A k \in DOMAIN s : s[k] \in Reading!Token
  OBVIOUS
<1>2. \A k \in DOMAIN s : /\ Exist(N, s[k]) \in Seq(C)
                          /\ Reading!ToSet(Exist(N, s[k])) = {c \in C : c \in s[k].lo..s[k].hi}
  BY <1>1, ExistHolds
<1>3. ss \in Seq(Seq(C)) /\ Len(ss) = Len(s)
  <2> HIDE DEF C
  <2>1. [k \in 1..Len(s) |-> Exist(N, s[k])] \in [1..Len(s) -> Seq(C)]
    BY <1>1, <1>2
  <2>2. ss \in [1..Len(s) -> Seq(C)]
    BY <1>1, <2>1
  <2> HIDE DEF ss
  <2> QED
    BY <1>1, <2>2
<1>4. \A k \in 1..Len(s) : ss[k] = Exist(N, s[k])
  BY <1>1
<1>5. ListedOf(N, s) = Reading!FlattenSeq(ss)
  BY DEF ListedOf
<1> HIDE DEF ss, C
<1>6. /\ Reading!FlattenSeq(ss) \in Seq(C)
      /\ Reading!ToSet(Reading!FlattenSeq(ss)) =
            {c \in C : \E k \in 1..Len(s) : c \in Reading!ToSet(ss[k])}
  BY <1>3, FlatHolds
<1>7. MeantBy(N, s) = {c \in C : \E k \in 1..Len(s) : c \in s[k].lo..s[k].hi}
  BY <1>1 DEF MeantBy, C
<1>8. {c \in C : \E k \in 1..Len(s) : c \in Reading!ToSet(ss[k])}
        = {c \in C : \E k \in 1..Len(s) : c \in s[k].lo..s[k].hi}
  BY <1>1, <1>2, <1>4
<1> QED
  BY <1>5, <1>6, <1>7, <1>8 DEF C

LEMMA ListedOfAppend ==
  ASSUME NEW N \in Nat, NEW s \in Seq(Reading!Token), NEW t \in Reading!Token
  PROVE  ListedOf(N, Append(s, t)) = ListedOf(N, s) \o Exist(N, t)
<1> DEFINE ss == [k \in DOMAIN s |-> Exist(N, s[k])]
           st == Append(s, t)
           C == 0..N - 1
<1>1. DOMAIN s = 1..Len(s) /\ Len(s) \in Nat /\ \A k \in DOMAIN s : s[k] \in Reading!Token
  OBVIOUS
<1>2. \A k \in DOMAIN s : Exist(N, s[k]) \in Seq(C)
  BY <1>1, ExistHolds
<1>3. Exist(N, t) \in Seq(C)
  BY ExistHolds
<1>4. ss \in Seq(Seq(C)) /\ Len(ss) = Len(s)
  <2> HIDE DEF C
  <2>1. [k \in 1..Len(s) |-> Exist(N, s[k])] \in [1..Len(s) -> Seq(C)]
    BY <1>1, <1>2
  <2>2. ss \in [1..Len(s) -> Seq(C)]
    BY <1>1, <2>1
  <2> HIDE DEF ss
  <2> QED
    BY <1>1, <2>2
<1>5. st \in Seq(Reading!Token) /\ Len(st) = Len(s) + 1 /\ st[Len(s) + 1] = t
      /\ \A k \in 1..Len(s) : st[k] = s[k]
  BY AppendProperties
<1>6. DOMAIN st = 1..Len(s) + 1
  BY <1>5, LenProperties
<1>7. \A k \in 1..Len(s) : ss[k] = Exist(N, s[k])
  BY <1>1
<1> HIDE DEF st, ss
<1>8. [k \in DOMAIN st |-> Exist(N, st[k])] = Append(ss, Exist(N, t))
  <2> DEFINE a == [k \in DOMAIN st |-> Exist(N, st[k])]
             b == Append(ss, Exist(N, t))
             n == Len(s)
  <2>1. b \in Seq(Seq(C)) /\ Len(b) = n + 1 /\ b[n + 1] = Exist(N, t)
        /\ \A k \in 1..n : b[k] = ss[k]
    <3> HIDE DEF C
    <3> QED
      BY <1>3, <1>4, AppendProperties
  <2>2. a = [k \in 1..n + 1 |-> Exist(N, st[k])]
    BY <1>6
  <2>3. b = [k \in 1..n + 1 |-> b[k]]
    <3> HIDE DEF b, C
    <3>1. b \in [1..Len(b) -> Seq(C)]
      BY <2>1, LenProperties
    <3> QED
      BY <2>1, <3>1
  <2>4. \A k \in 1..n + 1 : Exist(N, st[k]) = b[k]
    <3>1. \A k \in 1..n + 1 : k \in 1..n \/ k = n + 1
      BY <1>1
    <3> HIDE DEF b, n
    <3> QED
      BY <1>5, <1>7, <2>1, <3>1 DEF n
  <2> HIDE DEF a, b
  <2> QED
    BY <2>2, <2>3, <2>4 DEF a, b
<1>9. ListedOf(N, st) = Reading!FlattenSeq(Append(ss, Exist(N, t)))
  BY <1>8 DEF ListedOf
<1>10. Reading!FlattenSeq(Append(ss, Exist(N, t))) = Reading!FlattenSeq(ss) \o Exist(N, t)
  <2> HIDE DEF C
  <2> QED
    BY <1>3, <1>4, FlatOfAppend
<1> QED
  BY <1>9, <1>10 DEF ListedOf, st, ss

-----------------------------------------------------------------------------
(* Sorting.  The i-th smallest of a list: at least i cores are no larger,  *)
(* and fewer than i are smaller.                                           *)
AtMost(c, v) == {j \in DOMAIN c : c[j] <= v}
Less(c, v) == {j \in DOMAIN c : c[j] < v}

LEMMA PlacesAreFinite ==
  ASSUME NEW n \in Nat, NEW T, T \subseteq 1..n
  PROVE  IsFiniteSet(T) /\ Cardinality(T) \in 0..n
<1>1. IsFiniteSet(1..n) /\ Cardinality(1..n) = n
  <2>1. 1 \in Int /\ n \in Int
    OBVIOUS
  <2>2. IsFiniteSet(1..n) /\ Cardinality(1..n) = IF 1 > n THEN 0 ELSE n - 1 + 1
    BY <2>1, FS_Interval
  <2> QED
    BY <2>2
<1>2. IsFiniteSet(T) /\ Cardinality(T) <= n
  BY <1>1, FS_Subset
<1> QED
  BY <1>2, FS_CardinalityType

LEMMA FewerPlaces ==
  ASSUME NEW n \in Nat, NEW T, T \subseteq 1..n, NEW U, U \subseteq T
  PROVE  /\ Cardinality(U) \in 0..n /\ Cardinality(T) \in 0..n
         /\ Cardinality(U) <= Cardinality(T)
         /\ U # T => Cardinality(U) < Cardinality(T)
<1>1. IsFiniteSet(T) /\ Cardinality(T) \in 0..n
  BY PlacesAreFinite
<1>2. IsFiniteSet(U) /\ Cardinality(U) \in 0..n
  BY PlacesAreFinite
<1>3. Cardinality(U) <= Cardinality(T) /\ (Cardinality(T) = Cardinality(U) => T = U)
  BY <1>1, FS_Subset
<1> QED
  BY <1>1, <1>2, <1>3

LEMMA FirstPlaces ==
  ASSUME NEW n \in Nat
  PROVE  Cardinality(1..n) = n
<1>1. 1 \in Int /\ n \in Int
  OBVIOUS
<1>2. Cardinality(1..n) = IF 1 > n THEN 0 ELSE n - 1 + 1
  BY <1>1, FS_Interval
<1> QED
  BY <1>2

LEMMA QsortPlaces ==
  ASSUME NEW N \in Nat, NEW c \in Seq(0..N - 1), NEW i \in 1..Len(c),
         NEW v, v = Reading!qsort(c)[i]
  PROVE  /\ \E k \in 1..Len(c) : v = c[k]
         /\ Cardinality(AtMost(c, v)) >= i
         /\ Cardinality(Less(c, v)) < i
<1> DEFINE n == Len(c)
           K == {k \in 1..n : Cardinality(AtMost(c, c[k])) >= i}
           V == {c[k] : k \in K}
<1>1. n \in Nat /\ DOMAIN c = 1..n /\ i \in 1..n /\ N \in Nat
  OBVIOUS
<1>2. \A k \in 1..n : c[k] \in 0..N
  OBVIOUS
<1>3. v = Tests!Min(V)
  <2>1. \A S : Reading!Cardinality(S) = Cardinality(S)
    BY Zenon DEF Reading!Cardinality, Cardinality
  <2>2. Reading!Min(V) = Tests!Min(V)
    BY Zenon DEF Reading!Min, Tests!Min
  <2>3. v = Reading!Min(V)
    BY <1>1, <2>1 DEF Reading!qsort, AtMost
  <2> QED
    BY <2>2, <2>3
<1> HIDE DEF n
<1>4. \A w : AtMost(c, w) \subseteq 1..n /\ Less(c, w) \subseteq 1..n
  BY <1>1 DEF AtMost, Less
<1>5. V \in SUBSET Nat
  BY <1>2
<1>6. V # {}
  <2>1. PICK k \in 1..n : \A j \in 1..n : c[j] <= c[k]
    <3>1. 1..n # {}
      BY <1>1
    <3> QED
      BY <1>1, <1>2, <3>1, SomeLargest
  <2>2. AtMost(c, c[k]) = 1..n
    BY <1>1, <2>1 DEF AtMost
  <2>3. Cardinality(1..n) = n
    BY <1>1, FirstPlaces
  <2>4. k \in K
    BY <1>1, <2>2, <2>3
  <2> QED
    BY <2>4
<1>7. Tests!Min(V) \in V /\ \A y \in V : Tests!Min(V) <= y
  <2> HIDE DEF V
  <2> QED
    BY <1>5, <1>6, MinIsLeast
<1>8. PICK k \in K : v = c[k]
  BY <1>3, <1>7
<1>9. \A m \in K : v <= c[m]
  <2>1. \A m \in K : c[m] \in V
    OBVIOUS
  <2> HIDE DEF V, K
  <2> QED
    BY <1>3, <1>7, <2>1
<1>10. Cardinality(Less(c, v)) < i
  <2>1. SUFFICES ASSUME ~ Cardinality(Less(c, v)) < i
                 PROVE  FALSE
    OBVIOUS
  <2>2. Cardinality(Less(c, v)) \in 0..n
    BY <1>1, <1>4, PlacesAreFinite
  <2>3. Less(c, v) # {}
    <3>1. Cardinality(Less(c, v)) # 0
      BY <1>1, <2>1, <2>2
    <3>2. Cardinality({}) = 0
      BY FS_EmptySet
    <3> QED
      BY <3>1, <3>2
  <2>4. \A j \in Less(c, v) : c[j] \in 0..N
    BY <1>2, <1>4
  <2>5. PICK m \in Less(c, v) : \A j \in Less(c, v) : c[j] <= c[m]
    BY <1>1, <2>3, <2>4, SomeLargest
  <2>6. m \in 1..n
    BY <1>4, <2>5
  <2>7. Less(c, v) \subseteq AtMost(c, c[m])
    BY <2>5 DEF AtMost, Less
  <2>8. /\ Cardinality(Less(c, v)) <= Cardinality(AtMost(c, c[m]))
        /\ Cardinality(AtMost(c, c[m])) \in 0..n
    BY <1>1, <1>4, <2>7, FewerPlaces
  <2>9. Cardinality(AtMost(c, c[m])) >= i
    BY <1>1, <2>1, <2>2, <2>8
  <2>10. v <= c[m]
    BY <1>9, <2>6, <2>9
  <2>11. c[m] < v
    BY <2>5 DEF Less
  <2>12. v \in 0..N /\ c[m] \in 0..N
    BY <1>2, <1>8, <2>6
  <2> QED
    BY <2>10, <2>11, <2>12
<1> QED
  BY <1>1, <1>8, <1>10 DEF n

LEMMA QsortSorts ==
  ASSUME NEW N \in Nat, NEW c \in Seq(0..N - 1)
  PROVE  LET q == Reading!qsort(c) IN
         /\ q \in Seq(0..N - 1)
         /\ Len(q) = Len(c)
         /\ \A i \in 1..Len(c), j \in 1..Len(c) : i <= j => q[i] <= q[j]
         /\ Reading!ToSet(q) = Reading!ToSet(c)
<1> DEFINE q == Reading!qsort(c)
           n == Len(c)
           C == 0..N - 1
<1>1. n \in Nat /\ DOMAIN c = 1..n /\ \A k \in 1..n : c[k] \in C
  OBVIOUS
<1>2. q = [i \in 1..n |-> q[i]]
  BY <1>1 DEF Reading!qsort
<1>3. \A i \in 1..n : /\ \E k \in 1..n : q[i] = c[k]
                      /\ Cardinality(AtMost(c, q[i])) >= i
                      /\ Cardinality(Less(c, q[i])) < i
  BY QsortPlaces
<1> HIDE DEF q, n, C
<1>4. \A i \in 1..n : q[i] \in C
  BY <1>1, <1>3
<1>5. q \in Seq(C) /\ Len(q) = n /\ DOMAIN q = 1..n
  <2>1. q \in [1..n -> C]
    BY <1>2, <1>4
  <2> QED
    BY <1>1, <2>1
<1>6. \A w : AtMost(c, w) \subseteq 1..n /\ Less(c, w) \subseteq 1..n
  BY <1>1 DEF AtMost, Less
<1>7. \A w : Cardinality(AtMost(c, w)) \in 0..n /\ Cardinality(Less(c, w)) \in 0..n
  BY <1>1, <1>6, PlacesAreFinite
<1>8. ASSUME NEW i \in 1..n, NEW j \in 1..n, i <= j
      PROVE  q[i] <= q[j]
  <2>1. SUFFICES ASSUME q[j] < q[i]
                 PROVE  FALSE
    BY <1>4 DEF C
  <2>2. AtMost(c, q[j]) \subseteq Less(c, q[i])
    BY <1>1, <1>4, <2>1 DEF AtMost, Less, C
  <2>3. Cardinality(AtMost(c, q[j])) <= Cardinality(Less(c, q[i]))
    BY <1>1, <1>6, <2>2, FewerPlaces
  <2> QED
    BY <1>1, <1>3, <1>7, <1>8, <2>3
<1>9. ASSUME NEW k \in 1..n
      PROVE  \E i \in 1..n : q[i] = c[k]
  <2> DEFINE v == c[k]
             i == Cardinality(AtMost(c, v))
  <2>1. v \in C
    BY <1>1
  <2>2. k \in AtMost(c, v)
    BY <1>1, <2>1 DEF AtMost, C
  <2>3. i \in 1..n
    <3>1. AtMost(c, v) # {}
      BY <2>2
    <3>2. IsFiniteSet(AtMost(c, v))
      BY <1>1, <1>6, PlacesAreFinite
    <3>3. i # 0
      BY <3>1, <3>2, FS_EmptySet
    <3> QED
      BY <1>1, <1>7, <3>3
  <2> HIDE DEF i
  <2>4. q[i] \in C
    BY <1>4, <2>3
  <2>5. ~ v < q[i]
    <3>1. SUFFICES ASSUME v < q[i]
                   PROVE  FALSE
      OBVIOUS
    <3>2. AtMost(c, v) \subseteq Less(c, q[i])
      BY <1>1, <2>1, <2>4, <3>1 DEF AtMost, Less, C
    <3>3. Cardinality(AtMost(c, v)) <= Cardinality(Less(c, q[i]))
      BY <1>1, <1>6, <3>2, FewerPlaces
    <3>4. Cardinality(Less(c, q[i])) < i /\ Cardinality(Less(c, q[i])) \in 0..n
      BY <1>3, <1>7, <2>3
    <3> QED
      BY <1>1, <2>3, <3>3, <3>4 DEF i
  <2>6. ~ q[i] < v
    <3>1. SUFFICES ASSUME q[i] < v
                   PROVE  FALSE
      OBVIOUS
    <3>2. AtMost(c, q[i]) \subseteq AtMost(c, v)
      BY <1>1, <2>1, <2>4, <3>1 DEF AtMost, C
    <3>3. AtMost(c, q[i]) # AtMost(c, v)
      <4>1. k \notin AtMost(c, q[i])
        BY <2>1, <2>4, <3>1 DEF AtMost, C
      <4> QED
        BY <2>2, <4>1
    <3>4. Cardinality(AtMost(c, q[i])) < Cardinality(AtMost(c, v))
      BY <1>1, <1>6, <3>2, <3>3, FewerPlaces
    <3>5. Cardinality(AtMost(c, q[i])) >= i /\ Cardinality(AtMost(c, q[i])) \in 0..n
      BY <1>3, <1>7, <2>3
    <3> QED
      BY <1>1, <2>3, <3>4, <3>5 DEF i
  <2>7. q[i] = v
    BY <2>1, <2>4, <2>5, <2>6 DEF C
  <2> QED
    BY <2>3, <2>7
<1>10. Reading!ToSet(q) = Reading!ToSet(c)
  <2>1. Reading!ToSet(q) = {q[i] : i \in 1..n} /\ Reading!ToSet(c) = {c[i] : i \in 1..n}
    BY <1>1, <1>5, Zenon DEF Reading!ToSet
  <2>2. {q[i] : i \in 1..n} \subseteq {c[i] : i \in 1..n}
    BY <1>3
  <2>3. {c[i] : i \in 1..n} \subseteq {q[i] : i \in 1..n}
    BY <1>9
  <2> QED
    BY <2>1, <2>2, <2>3
<1> QED
  BY <1>5, <1>8, <1>10 DEF q, n, C

LEMMA QsortKeeps ==
  ASSUME NEW N \in Nat, NEW c \in Seq(0..N - 1),
         \A i \in 1..Len(c), j \in 1..Len(c) : i <= j => c[i] <= c[j]
  PROVE  Reading!qsort(c) = c
<1> DEFINE q == Reading!qsort(c)
           n == Len(c)
           C == 0..N - 1
<1>1. n \in Nat /\ DOMAIN c = 1..n /\ \A k \in 1..n : c[k] \in C
  OBVIOUS
<1>2. q \in Seq(C) /\ Len(q) = n
  BY QsortSorts
<1>3. \A i \in 1..n : /\ Cardinality(AtMost(c, q[i])) >= i
                      /\ Cardinality(Less(c, q[i])) < i
  BY QsortPlaces
<1>4. \A i \in 1..n, j \in 1..n : i <= j => c[i] <= c[j]
  OBVIOUS
<1> HIDE DEF q, n, C
<1>5. ASSUME NEW i \in 1..n
      PROVE  q[i] = c[i]
  <2>1. q[i] \in C /\ c[i] \in C
    BY <1>1, <1>2
  <2>2. ~ c[i] < q[i]
    <3>1. SUFFICES ASSUME c[i] < q[i]
                   PROVE  FALSE
      OBVIOUS
    <3>2. 1..i \subseteq Less(c, q[i])
      <4>1. ASSUME NEW j \in 1..i
            PROVE  j \in 1..n /\ c[j] < q[i]
        <5>1. j \in 1..n /\ j <= i
          BY <1>1
        <5>2. c[j] <= c[i] /\ c[j] \in C
          BY <1>1, <1>4, <5>1
        <5> QED
          BY <2>1, <3>1, <5>1, <5>2 DEF C
      <4> QED
        BY <1>1, <4>1 DEF Less
    <3>3. Less(c, q[i]) \subseteq 1..n
      BY <1>1 DEF Less
    <3>4. /\ Cardinality(1..i) <= Cardinality(Less(c, q[i]))
          /\ Cardinality(Less(c, q[i])) \in 0..n
      BY <1>1, <3>2, <3>3, FewerPlaces
    <3>5. i \in Nat
      BY <1>1
    <3>6. Cardinality(1..i) = i
      BY <3>5, FirstPlaces
    <3> QED
      BY <1>1, <1>3, <3>4, <3>5, <3>6
  <2>3. ~ q[i] < c[i]
    <3>1. SUFFICES ASSUME q[i] < c[i]
                   PROVE  FALSE
      OBVIOUS
    <3>2. AtMost(c, q[i]) \subseteq 1..i - 1
      <4>1. ASSUME NEW j \in 1..n, c[j] <= q[i]
            PROVE  j \in 1..i - 1
        <5>1. c[j] \in C
          BY <1>1
        <5>2. ~ c[i] <= c[j]
          BY <2>1, <3>1, <4>1, <5>1 DEF C
        <5>3. ~ i <= j
          BY <1>4, <5>2
        <5> QED
          BY <1>1, <5>3
      <4> QED
        BY <1>1, <4>1 DEF AtMost
    <3>3. i - 1 \in Nat /\ 1..i - 1 \subseteq 1..i - 1
      BY <1>1
    <3>4. /\ Cardinality(AtMost(c, q[i])) <= Cardinality(1..i - 1)
          /\ Cardinality(AtMost(c, q[i])) \in 0..i - 1
      BY <3>2, <3>3, FewerPlaces
    <3> QED
      BY <1>1, <1>3, <3>4
  <2> QED
    BY <2>1, <2>2, <2>3 DEF C
<1>6. c \in Seq(C)
  BY DEF C
<1>7. q = c
  BY <1>2, <1>5, <1>6, SeqEqual DEF n
<1> QED
  BY <1>7 DEF q

-----------------------------------------------------------------------------
(* Printing.  A token that both sides read as the cores from lo to hi.     *)
Fit(N, t) == /\ t \in Reading!Token /\ t.kind \in {"core", "range"}
             /\ 0 <= t.lo /\ t.lo <= t.hi /\ t.hi <= N - 1

LEMMA FitExists ==
  ASSUME NEW N \in Nat, NEW t, Fit(N, t)
  PROVE  /\ t.lo \in Int /\ t.hi \in Int
         /\ Exist(N, t) = Reading!Interval(t.lo, t.hi)
<1>1. t.lo \in Int /\ t.hi \in Int
  BY DEF Fit, Reading!Token
<1>2. (IF 0 >= t.lo THEN 0 ELSE t.lo) = t.lo /\ (IF N - 1 <= t.hi THEN N - 1 ELSE t.hi) = t.hi
  BY <1>1 DEF Fit
<1> QED
  BY <1>1, <1>2 DEF Exist

LEMMA CoreFits ==
  ASSUME NEW N \in Nat, NEW v \in 0..N - 1
  PROVE  /\ Fit(N, Reading!Core(v)) /\ Reading!Core(v).hi = v
         /\ Exist(N, Reading!Core(v)) = <<v>>
<1>1. Fit(N, Reading!Core(v)) /\ Reading!Core(v).lo = v /\ Reading!Core(v).hi = v
  BY DEF Fit, Reading!Token, Reading!Core
<1>2. Exist(N, Reading!Core(v)) = Reading!Interval(v, v)
  BY <1>1, FitExists
<1>3. /\ v \in Int /\ v..v \subseteq 0..N - 1 /\ v - v + 1 = 1 /\ ~ v > v
      /\ 1 \in 1..v - v + 1 /\ v + 1 - 1 = v
  OBVIOUS
<1> DEFINE I == Reading!Interval(v, v)
<1>4. /\ I \in Seq(0..N - 1) /\ Len(I) = (IF v > v THEN 0 ELSE v - v + 1)
      /\ \A i \in 1..v - v + 1 : I[i] = v + i - 1
  <2> HIDE DEF I
  <2> QED
    BY <1>3, IntervalHolds DEF I
<1>5. I = <<v>>
  <2> HIDE DEF I
  <2>1. Len(I) = 1 /\ I[1] = v
    BY <1>3, <1>4
  <2> QED
    BY <1>4, <2>1
<1> QED
  BY <1>1, <1>2, <1>5

LEMMA IntervalGrows ==
  ASSUME NEW N \in Nat, NEW lo \in Nat, NEW hi \in Nat, lo <= hi, hi + 1 <= N - 1
  PROVE  Reading!Interval(lo, hi + 1) = Reading!Interval(lo, hi) \o <<hi + 1>>
<1> DEFINE a == Reading!Interval(lo, hi)
           b == Reading!Interval(lo, hi + 1)
           m == hi - lo + 1
<1>1. /\ lo \in Int /\ hi \in Int /\ hi + 1 \in Int /\ ~ lo > hi /\ ~ lo > hi + 1
      /\ m \in Nat /\ (hi + 1) - lo + 1 = m + 1
  OBVIOUS
<1>2. lo..hi \subseteq Int /\ lo..hi + 1 \subseteq Int
  OBVIOUS
<1>3. a \in Seq(Int) /\ Len(a) = m /\ \A i \in 1..m : a[i] = lo + i - 1
  <2> HIDE DEF a
  <2> QED
    BY <1>1, <1>2, IntervalHolds DEF a
<1>4. b \in Seq(Int) /\ Len(b) = m + 1 /\ \A i \in 1..m + 1 : b[i] = lo + i - 1
  <2>1. b \in Seq(Int) /\ Len(b) = (IF lo > hi + 1 THEN 0 ELSE (hi + 1) - lo + 1)
        /\ \A i \in 1..(hi + 1) - lo + 1 : b[i] = lo + i - 1
    <3> HIDE DEF b
    <3> QED
      BY <1>1, <1>2, IntervalHolds DEF b
  <2> HIDE DEF b, m
  <2> QED
    BY <1>1, <2>1
<1>5. lo + (m + 1) - 1 = hi + 1
  OBVIOUS
<1> HIDE DEF a, b, m
<1>6. <<hi + 1>> \in Seq(Int) /\ Len(<<hi + 1>>) = 1
  BY <1>1
<1>7. /\ a \o <<hi + 1>> \in Seq(Int) /\ Len(a \o <<hi + 1>>) = m + 1
      /\ \A i \in 1..m + 1 : (a \o <<hi + 1>>)[i] = IF i <= m THEN a[i] ELSE <<hi + 1>>[i - m]
  BY <1>1, <1>3, <1>6, ConcatProperties
<1>8. \A i \in 1..m + 1 : b[i] = (a \o <<hi + 1>>)[i]
  <2>1. ASSUME NEW i \in 1..m
        PROVE  b[i] = (a \o <<hi + 1>>)[i]
    <3>1. i \in 1..m + 1 /\ i <= m
      BY <1>1
    <3> QED
      BY <1>3, <1>4, <1>7, <3>1
  <2>2. b[m + 1] = (a \o <<hi + 1>>)[m + 1]
    <3>1. m + 1 \in 1..m + 1 /\ ~ m + 1 <= m /\ (m + 1) - m = 1
      BY <1>1
    <3> QED
      BY <1>4, <1>5, <1>7, <3>1
  <2>3. \A i \in 1..m + 1 : i \in 1..m \/ i = m + 1
    BY <1>1
  <2> QED
    BY <2>1, <2>2, <2>3
<1>9. b = a \o <<hi + 1>>
  BY <1>4, <1>7, <1>8, SeqEqual
<1> QED
  BY <1>9 DEF a, b

(* o is a run of tokens that fit, one core longer than out: v was added.    *)
Grown(N, o, out, v) ==
  /\ o \in Seq(Reading!Token) /\ o # <<>>
  /\ \A k \in 1..Len(o) : Fit(N, o[k])
  /\ o[Len(o)].hi = v
  /\ ListedOf(N, o) = ListedOf(N, out) \o <<v>>

LEMMA Lengthened ==
  ASSUME NEW N \in Nat, NEW out \in Seq(Reading!Token), out # <<>>,
         \A k \in 1..Len(out) : Fit(N, out[k]),
         NEW v \in 0..N - 1, v = out[Len(out)].hi + 1
  PROVE  Grown(N, Reading!Lengthen(out, v), out, v)
<1> DEFINE o == Reading!Lengthen(out, v)
           n == Len(out)
           t == out[n]
           u == Reading!Span(t.lo, v)
<1>1. n \in Nat /\ n >= 1 /\ n \in 1..n
  OBVIOUS
<1>2. Fit(N, t) /\ t \in Reading!Token
  BY <1>1 DEF Fit
<1>3. t.lo \in Nat /\ t.hi \in Nat /\ t.lo <= t.hi /\ v = t.hi + 1 /\ v <= N - 1 /\ v \in Nat
  BY <1>2 DEF Fit, Reading!Token
<1>4. o = [out EXCEPT ![n] = u]
  BY DEF Reading!Lengthen
<1>5. Fit(N, u) /\ u \in Reading!Token /\ u.lo = t.lo /\ u.hi = v
  <2> HIDE DEF t
  <2> QED
    BY <1>3 DEF Fit, Reading!Token, Reading!Span
<1>6. PICK front \in Seq(Reading!Token), e \in Reading!Token : out = Append(front, e)
  BY SequenceEmptyOrAppend
<1> DEFINE m == Len(front)
<1>7. /\ m \in Nat /\ n = m + 1 /\ t = e
      /\ \A k \in 1..m : out[k] = front[k]
  <2>1. /\ Len(Append(front, e)) = Len(front) + 1
        /\ \A i \in 1..Len(front) : Append(front, e)[i] = front[i]
        /\ Append(front, e)[Len(front) + 1] = e
    BY <1>6, AppendProperties
  <2>2. Len(front) \in Nat
    BY <1>6
  <2> QED
    BY <1>6, <2>1, <2>2
<1> HIDE DEF o, n, t, u
<1>8. /\ o \in Seq(Reading!Token) /\ Len(o) = n
      /\ \A k \in 1..n : o[k] = IF k = n THEN u ELSE out[k]
  BY <1>1, <1>4, <1>5, ExceptSeq DEF n
<1>9. \A k \in 1..n : Fit(N, o[k])
  BY <1>5, <1>8 DEF n
<1>10. o = Append(front, u)
  <2>1. /\ Append(front, u) \in Seq(Reading!Token) /\ Len(Append(front, u)) = m + 1
        /\ \A i \in 1..m : Append(front, u)[i] = front[i]
        /\ Append(front, u)[m + 1] = u
    BY <1>5, <1>6, AppendProperties
  <2> HIDE DEF m
  <2>2. ASSUME NEW k \in 1..n
        PROVE  o[k] = Append(front, u)[k]
    <3>1. CASE k = n
      BY <1>7, <1>8, <2>1, <3>1
    <3>2. CASE k # n
      <4>1. k \in 1..m
        BY <1>7, <3>2
      <4> QED
        BY <1>7, <1>8, <2>1, <3>2, <4>1
    <3> QED
      BY <3>1, <3>2
  <2> QED
    BY <1>7, <1>8, <2>1, <2>2, SeqEqual
<1> HIDE DEF m
<1>11. ListedOf(N, o) = ListedOf(N, front) \o Reading!Interval(t.lo, v)
  <2>1. ListedOf(N, Append(front, u)) = ListedOf(N, front) \o Exist(N, u)
    BY <1>5, <1>6, ListedOfAppend
  <2>2. Exist(N, u) = Reading!Interval(u.lo, u.hi)
    BY <1>5, FitExists
  <2> QED
    BY <1>5, <1>10, <2>1, <2>2
<1>12. ListedOf(N, out) = ListedOf(N, front) \o Reading!Interval(t.lo, t.hi)
  <2>1. ListedOf(N, Append(front, e)) = ListedOf(N, front) \o Exist(N, e)
    BY <1>6, ListedOfAppend
  <2>2. Exist(N, t) = Reading!Interval(t.lo, t.hi)
    BY <1>2, FitExists
  <2> QED
    BY <1>6, <1>7, <2>1, <2>2
<1>13. Reading!Interval(t.lo, v) = Reading!Interval(t.lo, t.hi) \o <<v>>
  BY <1>3, IntervalGrows
<1>14. /\ ListedOf(N, front) \in Seq(Int)
       /\ Reading!Interval(t.lo, t.hi) \in Seq(Int)
       /\ <<v>> \in Seq(Int)
  <2>1. ListedOf(N, front) \in Seq(0..N - 1)
    BY <1>6, ListedHolds
  <2>2. 0..N - 1 \subseteq Int /\ t.lo..t.hi \subseteq Int /\ t.lo \in Int /\ t.hi \in Int
    BY <1>3
  <2>3. ListedOf(N, front) \in Seq(Int)
    BY <2>1, <2>2, SeqMonotonic
  <2>4. Reading!Interval(t.lo, t.hi) \in Seq(Int)
    BY <2>2, IntervalHolds
  <2>5. <<v>> \in Seq(Int)
    BY <1>3
  <2> QED
    BY <2>3, <2>4, <2>5
<1>15. ListedOf(N, o) = ListedOf(N, out) \o <<v>>
  <2> DEFINE a == ListedOf(N, front)
             b == Reading!Interval(t.lo, t.hi)
             d == <<v>>
  <2>1. (a \o b) \o d = a \o (b \o d)
    <3>1. a \in Seq(Int) /\ b \in Seq(Int) /\ d \in Seq(Int)
      BY <1>14
    <3> HIDE DEF a, b, d
    <3> QED
      BY <3>1, ConcatAssociative, SMTT(30)
  <2> QED
    BY <1>11, <1>12, <1>13, <2>1, Zenon
<1>16. o # <<>> /\ o[Len(o)].hi = v
  BY <1>1, <1>5, <1>8
<1> QED
  BY <1>8, <1>9, <1>15, <1>16 DEF o, Grown

LEMMA Appended ==
  ASSUME NEW N \in Nat, NEW out \in Seq(Reading!Token),
         \A k \in 1..Len(out) : Fit(N, out[k]),
         NEW v \in 0..N - 1
  PROVE  Grown(N, Append(out, Reading!Core(v)), out, v)
<1> DEFINE t == Reading!Core(v)
           o == Append(out, t)
           n == Len(out)
<1>1. Fit(N, t) /\ t.hi = v /\ Exist(N, t) = <<v>>
  BY CoreFits
<1>2. t \in Reading!Token
  BY <1>1 DEF Fit
<1>3. ListedOf(N, o) = ListedOf(N, out) \o <<v>>
  <2> HIDE DEF t
  <2> QED
    BY <1>1, <1>2, ListedOfAppend
<1> HIDE DEF t
<1>4. /\ o \in Seq(Reading!Token) /\ o # <<>> /\ Len(o) = n + 1
      /\ \A i \in 1..n : o[i] = out[i]
      /\ o[n + 1] = t
  BY <1>2, AppendProperties
<1>5. n \in Nat
  OBVIOUS
<1>6. ASSUME NEW k \in 1..Len(o)
      PROVE  Fit(N, o[k])
  <2>1. k \in 1..n \/ k = n + 1
    BY <1>4, <1>5
  <2> HIDE DEF o
  <2> QED
    BY <1>1, <1>4, <2>1
<1> HIDE DEF o, n
<1> QED
  BY <1>1, <1>3, <1>4, <1>6 DEF o, t, Grown

(* What is printed of the first n cores.                                   *)
PrintStep(f, c, m) ==
  IF m = 0 THEN <<>>
  ELSE IF m > 1 /\ c[m] = c[m - 1] + 1 THEN Reading!Lengthen(f[m - 1], c[m])
  ELSE Append(f[m - 1], Reading!Core(c[m]))

LEMMA PrintExists ==
  ASSUME NEW c, NEW n \in Nat
  PROVE  \E f : f = [m \in 0..n |-> PrintStep(f, c, m)]
<1> DEFINE IsPrint(f, k) == f = [m \in 0..k |-> PrintStep(f, c, m)]
           T == {k \in Nat : \E f : IsPrint(f, k)}
<1>1. 0 \in T
  <2> DEFINE f0 == [m \in 0..0 |-> <<>>]
  <2>1. \A m \in 0..0 : PrintStep(f0, c, m) = <<>>
    BY DEF PrintStep
  <2>2. IsPrint(f0, 0)
    BY <2>1
  <2> HIDE DEF IsPrint, f0
  <2> QED
    BY <2>2
<1>2. ASSUME NEW k \in Nat, k \in T
      PROVE  k + 1 \in T
  <2>1. PICK f : IsPrint(f, k)
    <3> HIDE DEF IsPrint
    <3> QED
      BY <1>2
  <2> DEFINE g == [m \in 0..k + 1 |-> IF m \in 0..k THEN f[m] ELSE PrintStep(f, c, k + 1)]
  <2>2. \A m \in 0..k : f[m] = PrintStep(f, c, m)
    BY <2>1
  <2>3. \A m \in 0..k : g[m] = f[m]
    OBVIOUS
  <2>4. g[k + 1] = PrintStep(f, c, k + 1)
    OBVIOUS
  <2>5. g = [m \in 0..k + 1 |-> g[m]]
    OBVIOUS
  <2> HIDE DEF g
  <2>6. ASSUME NEW m \in 0..k + 1
        PROVE  g[m] = PrintStep(g, c, m)
    <3>1. PrintStep(g, c, m) = PrintStep(f, c, m)
      <4>1. CASE m = 0
        BY <4>1 DEF PrintStep
      <4>2. CASE m # 0
        <5>1. m - 1 \in 0..k
          BY <4>2
        <5>2. g[m - 1] = f[m - 1]
          BY <2>3, <5>1
        <5> QED
          BY <5>2, Zenon DEF PrintStep
      <4> QED
        BY <4>1, <4>2
    <3>2. CASE m \in 0..k
      BY <2>2, <2>3, <3>1, <3>2
    <3>3. CASE m = k + 1
      BY <2>4, <3>1, <3>3
    <3>4. m \in 0..k \/ m = k + 1
      OBVIOUS
    <3> QED
      BY <3>2, <3>3, <3>4
  <2>7. IsPrint(g, k + 1)
    BY <2>5, <2>6
  <2> HIDE DEF IsPrint
  <2> QED
    BY <2>7
<1>3. Nat \subseteq T
  <2> HIDE DEF T
  <2> QED
    BY <1>1, <1>2, Induction
<1>4. n \in T
  BY <1>3
<1> QED
  BY <1>4

LEMMA RunsPrint ==
  ASSUME NEW N \in Nat, NEW c \in Seq(0..N - 1)
  PROVE  LET r == Reading!Runs(c) IN
         /\ r \in Seq(Reading!Token)
         /\ \A k \in 1..Len(r) : Fit(N, r[k])
         /\ ListedOf(N, r) = c
         /\ r = <<>> <=> c = <<>>
<1> DEFINE n == Len(c)
           C == 0..N - 1
           IsPrint(f) == f = [m \in 0..n |-> PrintStep(f, c, m)]
           f == CHOOSE f : IsPrint(f)
<1>1. n \in Nat /\ DOMAIN c = 1..n /\ \A k \in 1..n : c[k] \in C
  OBVIOUS
<1>2. IsPrint(f)
  <2>1. \E g : IsPrint(g)
    <3> HIDE DEF n
    <3> QED
      BY <1>1, PrintExists
  <2> HIDE DEF IsPrint
  <2> QED
    BY <2>1
<1>3. Reading!Runs(c) = f[n]
  BY Zenon DEF Reading!Runs, PrintStep
<1>4. \A m \in 0..n : f[m] = PrintStep(f, c, m)
  <2> HIDE DEF f
  <2> QED
    BY <1>2
<1> HIDE DEF f, n
<1> DEFINE Good(m) == LET o == f[m] IN
             /\ o \in Seq(Reading!Token)
             /\ \A k \in 1..Len(o) : Fit(N, o[k])
             /\ o = <<>> <=> m = 0
             /\ m > 0 => o[Len(o)].hi = c[m]
             /\ ListedOf(N, o) = SubSeq(c, 1, m)
           T == {m \in Nat : m <= n => Good(m)}
<1>5. Good(0)
  <2>1. f[0] = <<>>
    BY <1>1, <1>4 DEF PrintStep
  <2>2. ListedOf(N, <<>>) = <<>>
    <3>1. [k \in DOMAIN <<>> |-> Exist(N, <<>>[k])] = <<>>
      OBVIOUS
    <3>2. Reading!FlattenSeq(<<>>) = <<>>
      BY DEF Reading!FlattenSeq
    <3> QED
      BY <3>1, <3>2 DEF ListedOf
  <2>3. SubSeq(c, 1, 0) = <<>>
    BY SubSeqEmpty
  <2>4. <<>> \in Seq(Reading!Token) /\ Len(<<>>) = 0
    OBVIOUS
  <2>5. f[0] \in Seq(Reading!Token) /\ Len(f[0]) = 0
    BY <2>1, <2>4
  <2>6. \A k \in 1..Len(f[0]) : Fit(N, f[0][k])
    BY <2>5
  <2>7. ListedOf(N, f[0]) = SubSeq(c, 1, 0)
    BY <2>1, <2>2, <2>3
  <2> QED
    BY <2>1, <2>5, <2>6, <2>7
<1>6. ASSUME NEW m \in Nat, m \in T, m + 1 <= n
      PROVE  Good(m + 1)
  <2> DEFINE v == c[m + 1]
  <2>1. Good(m)
    BY <1>1, <1>6
  <2>2. m + 1 \in 1..n /\ m + 1 \in 0..n /\ m + 1 # 0 /\ (m + 1) - 1 = m
    BY <1>1, <1>6
  <2>3. v \in C
    BY <1>1, <2>2
  <2>4. SubSeq(c, 1, m + 1) = SubSeq(c, 1, m) \o <<v>>
    <3>1. 1 \in 1..n /\ m + 1 \in 1..n
      BY <1>1, <2>2
    <3> QED
      BY <2>2, <3>1, SubSeqRecursiveSecond DEF n
  <2>5. CASE m + 1 > 1 /\ v = c[m] + 1
    <3>1. f[m + 1] = Reading!Lengthen(f[m], v)
      BY <1>4, <2>2, <2>5 DEF PrintStep
    <3>2. f[m] # <<>> /\ v = f[m][Len(f[m])].hi + 1
      BY <2>1, <2>5
    <3>3. f[m] \in Seq(Reading!Token) /\ \A k \in 1..Len(f[m]) : Fit(N, f[m][k])
      BY <2>1
    <3> HIDE DEF v
    <3>4. Grown(N, Reading!Lengthen(f[m], v), f[m], v)
      BY <2>3, <3>2, <3>3, Lengthened, Zenon
    <3>5. ListedOf(N, f[m]) = SubSeq(c, 1, m)
      BY <2>1
    <3> HIDE DEF C
    <3> QED
      BY <2>2, <2>4, <3>1, <3>4, <3>5 DEF v, Grown
  <2>6. CASE ~ (m + 1 > 1 /\ v = c[m] + 1)
    <3>1. f[m + 1] = Append(f[m], Reading!Core(v))
      BY <1>4, <2>2, <2>6 DEF PrintStep
    <3>2. f[m] \in Seq(Reading!Token) /\ \A k \in 1..Len(f[m]) : Fit(N, f[m][k])
      BY <2>1
    <3> HIDE DEF v
    <3>3. Grown(N, Append(f[m], Reading!Core(v)), f[m], v)
      BY <2>3, <3>2, Appended, Zenon
    <3>4. ListedOf(N, f[m]) = SubSeq(c, 1, m)
      BY <2>1
    <3> HIDE DEF C
    <3> QED
      BY <2>2, <2>4, <3>1, <3>3, <3>4 DEF v, Grown
  <2> QED
    BY <2>5, <2>6
<1>7. 0 \in T
  <2> HIDE DEF Good
  <2> QED
    BY <1>5
<1>8. ASSUME NEW m \in Nat, m \in T
      PROVE  m + 1 \in T
  <2>1. m + 1 <= n => Good(m + 1)
    <3> HIDE DEF Good, T
    <3> QED
      BY <1>6, <1>8
  <2> HIDE DEF Good
  <2> QED
    BY <2>1
<1>9. Nat \subseteq T
  <2> HIDE DEF T
  <2> QED
    BY <1>7, <1>8, Induction
<1>10. Good(n)
  <2> HIDE DEF Good
  <2> QED
    BY <1>1, <1>9
<1>11. SubSeq(c, 1, n) = c
  BY SubSeqFull DEF n
<1>12. c = <<>> <=> n = 0
  BY <1>1 DEF n
<1> QED
  BY <1>3, <1>10, <1>11, <1>12

LEMMA PrintedString ==
  ASSUME NEW N \in Nat, NEW c \in Seq(0..N - 1)
  PROVE  LET r == Reading!cores_to_string(c) IN
         /\ r \in Seq(Reading!Token)
         /\ \A k \in 1..Len(r) : Fit(N, r[k])
         /\ ListedOf(N, r) = Reading!qsort(c)
         /\ MeantBy(N, r) = Reading!ToSet(c)
         /\ r = <<>> <=> c = <<>>
<1> DEFINE q == Reading!qsort(c)
           r == Reading!Runs(q)
<1>1. /\ q \in Seq(0..N - 1) /\ Len(q) = Len(c)
      /\ Reading!ToSet(q) = Reading!ToSet(c)
  BY QsortSorts
<1>2. q = <<>> <=> c = <<>>
  <2> HIDE DEF q
  <2> QED
    BY <1>1
<1>3. Reading!cores_to_string(c) = r
  BY DEF Reading!cores_to_string
<1> HIDE DEF q
<1>4. /\ r \in Seq(Reading!Token) /\ \A k \in 1..Len(r) : Fit(N, r[k])
      /\ ListedOf(N, r) = q /\ (r = <<>> <=> q = <<>>)
  BY <1>1, RunsPrint
<1> HIDE DEF r
<1>5. MeantBy(N, r) = Reading!ToSet(ListedOf(N, r))
  BY <1>4, ListedHolds
<1> QED
  BY <1>1, <1>2, <1>3, <1>4, <1>5 DEF q

LEMMA OnceEach ==
  ASSUME NEW N \in Nat, NEW c \in Seq(0..N - 1),
         \A i \in 1..Len(c), j \in 1..Len(c) : c[i] = c[j] => i = j
  PROVE  Len(c) <= N /\ Cardinality(Reading!ToSet(c)) = Len(c)
<1> DEFINE n == Len(c)
           S == Reading!ToSet(c)
<1>1. n \in Nat /\ DOMAIN c = 1..n /\ c \in [1..n -> 0..N - 1]
  BY LenProperties
<1>2. S = {c[i] : i \in 1..n}
  BY <1>1 DEF Reading!ToSet
<1>3. S \subseteq 0..N - 1
  BY <1>1, <1>2
<1>4. c = [i \in 1..n |-> c[i]]
  BY <1>1
<1>5. \A i, j \in 1..n : c[i] = c[j] => i = j
  OBVIOUS
<1> HIDE DEF n, S
<1>6. c \in [1..n -> S]
  BY <1>2, <1>4
<1>7. c \in Surjection(1..n, S)
  BY <1>2, <1>6 DEF Surjection
<1>8. c \in Injection(1..n, S)
  BY <1>1, <1>5, <1>6 DEF Injection, IsInjective
<1>9. IsFiniteSet(1..n) /\ Cardinality(1..n) = n
  BY <1>1, PlacesAreFinite, FirstPlaces
<1>10. Cardinality(S) = n
  BY <1>7, <1>8, <1>9, FS_Surjection
<1>11. IsFiniteSet(0..N - 1) /\ Cardinality(0..N - 1) = N
  <2>1. 0 \in Int /\ N - 1 \in Int
    OBVIOUS
  <2>2. IsFiniteSet(0..N - 1) /\ Cardinality(0..N - 1) = IF 0 > N - 1 THEN 0 ELSE (N - 1) - 0 + 1
    BY <2>1, FS_Interval
  <2> QED
    BY <2>2
<1>12. Cardinality(S) <= N
  <2> DEFINE C == 0..N - 1
  <2>1. S \subseteq C /\ IsFiniteSet(C) /\ Cardinality(C) = N
    BY <1>3, <1>11
  <2> HIDE DEF C
  <2>2. Cardinality(S) <= Cardinality(C)
    BY <2>1, FS_Subset
  <2> QED
    BY <2>1, <2>2
<1> QED
  BY <1>10, <1>12 DEF n, S

-----------------------------------------------------------------------------
(* What both sides make of a string.                                       *)

LEMMA MonitorReads ==
  ASSUME NEW s \in Seq(Reading!Token)
  PROVE  Reading!ToSet(Reading!Named(s)) = {c \in Int : \E k \in DOMAIN s : c \in s[k].lo..s[k].hi}
<1> DEFINE ss == [k \in DOMAIN s |-> Reading!Interval(s[k].lo, s[k].hi)]
<1>1. DOMAIN s = 1..Len(s) /\ Len(s) \in Nat
  OBVIOUS
<1>2. \A k \in DOMAIN s : s[k].lo \in Int /\ s[k].hi \in Int /\ s[k].lo..s[k].hi \subseteq Int
  BY DEF Reading!Token
<1>3. \A k \in DOMAIN s : /\ Reading!Interval(s[k].lo, s[k].hi) \in Seq(Int)
                          /\ Reading!ToSet(Reading!Interval(s[k].lo, s[k].hi)) = s[k].lo..s[k].hi
  BY <1>2, IntervalHolds
<1>4. ss \in Seq(Seq(Int)) /\ Len(ss) = Len(s)
  <2>1. [k \in 1..Len(s) |-> Reading!Interval(s[k].lo, s[k].hi)] \in [1..Len(s) -> Seq(Int)]
    BY <1>1, <1>3
  <2>2. ss \in [1..Len(s) -> Seq(Int)]
    BY <1>1, <2>1
  <2> HIDE DEF ss
  <2> QED
    BY <1>1, <2>2
<1>5. \A k \in 1..Len(s) : ss[k] = Reading!Interval(s[k].lo, s[k].hi)
  BY <1>1
<1>6. Reading!Named(s) = Reading!FlattenSeq(ss)
  BY DEF Reading!Named
<1> HIDE DEF ss
<1>7. Reading!ToSet(Reading!FlattenSeq(ss)) =
         {c \in Int : \E k \in 1..Len(s) : c \in Reading!ToSet(ss[k])}
  BY <1>4, FlatHolds
<1> QED
  BY <1>1, <1>3, <1>5, <1>6, <1>7

LEMMA MeaningIsMeant ==
  ASSUME NEW s \in Seq(Reading!Token)
  PROVE  /\ Reading!Meaning(s) = MeantBy(StringCores, s)
         /\ Reading!set_affinity(s) = MeantBy(StringCores, s)
         /\ Cores!set_affinity(s) = MeantBy(MAX_CORES, s)
<1>1. StringCores \in Nat /\ MAX_CORES \in Nat
  BY StringsAssumption, CoresAssumption
<1>2. Reading!Meaning(s) = MeantBy(StringCores, s)
  BY DEF Reading!Meaning, MeantBy
<1>3. Reading!set_affinity(s) = MeantBy(StringCores, s)
  BY <1>1, ListedHolds, SameListed DEF Reading!set_affinity
<1>4. Cores!set_affinity(s) = MeantBy(MAX_CORES, s)
  <2>1. Cores!set_affinity(s) = Reading!ToSet(ListedOf(MAX_CORES, s))
    BY SameListed, SameLists, Zenon DEF Cores!set_affinity
  <2> QED
    BY <1>1, <2>1, ListedHolds
<1> QED
  BY <1>2, <1>3, <1>4

(* The monitor, when it does not end, sees the cores that are meant.       *)
LEMMA AcceptedIsMeant ==
  ASSUME NEW s \in Seq(Reading!Token)
  PROVE  /\ ~ Reading!monitor_set_affinity(s).exits =>
              Reading!monitor_set_affinity(s).cpuset = Reading!Meaning(s)
         /\ ~ Reading!init_global_cpuset(s).exits =>
              /\ Reading!init_global_cpuset(s).cpuset = Reading!Meaning(s)
              /\ Reading!Meaning(s) # {}
<1> DEFINE r == Reading!monitor_set_affinity(s)
<1>1. r.exits = (s = <<>> \/ \E k \in DOMAIN s : Reading!Refused(s[k]))
  BY DEF Reading!monitor_set_affinity
<1>2. r.cpuset = Reading!ToSet(Reading!Named(s))
  BY DEF Reading!monitor_set_affinity
<1>3. r.cpuset = {c \in Int : \E k \in DOMAIN s : c \in s[k].lo..s[k].hi}
  BY <1>2, MonitorReads
<1>4. Reading!Meaning(s) = {c \in 0..StringCores - 1 : \E k \in DOMAIN s : c \in s[k].lo..s[k].hi}
  BY DEF Reading!Meaning
<1>5. ASSUME ~ r.exits
      PROVE  r.cpuset = Reading!Meaning(s)
  <2>1. StringCores \in Nat
    BY StringsAssumption
  <2>2. ASSUME NEW k \in DOMAIN s
        PROVE  s[k].lo..s[k].hi \subseteq 0..StringCores - 1
    <3> DEFINE t == s[k]
    <3>1. t \in Reading!Token
      OBVIOUS
    <3>2. ~ Reading!Refused(t)
      BY <1>1, <1>5
    <3>0. SUFFICES t.lo..t.hi \subseteq 0..StringCores - 1
      OBVIOUS
    <3> HIDE DEF t
    <3>3. t.lo \in Int /\ t.hi \in Int
      BY <3>1 DEF Reading!Token
    <3>4. CASE t.kind = "range"
      BY <2>1, <3>2, <3>3, <3>4 DEF Reading!Refused
    <3>5. CASE t.kind = "core"
      <4>1. 0 <= t.lo /\ t.lo < StringCores
        BY <3>2, <3>5 DEF Reading!Refused, Reading!Valid
      <4>2. t.lo = t.hi
        BY <3>1, <3>5 DEF Reading!Token
      <4> QED
        BY <2>1, <3>3, <4>1, <4>2
    <3>6. CASE t.kind = "unreadable"
      <4>1. t.lo > t.hi
        BY <3>1, <3>6 DEF Reading!Token
      <4> QED
        BY <3>3, <4>1
    <3>7. t.kind \in {"core", "range", "unreadable"}
      BY <3>1 DEF Reading!Token
    <3> QED
      BY <3>4, <3>5, <3>6, <3>7
  <2> QED
    BY <1>3, <1>4, <2>1, <2>2
<1>6. /\ Reading!init_global_cpuset(s).exits = (r.exits \/ r.cpuset = {})
      /\ Reading!init_global_cpuset(s).cpuset = r.cpuset
  BY DEF Reading!init_global_cpuset, Reading!monitor_set_affinity
<1> HIDE DEF r
<1> QED
  BY <1>5, <1>6 DEF r

LEMMA ParseKeepsCores ==
  ASSUME NEW s \in Seq(Reading!Token)
  PROVE  LET L == ListedOf(StringCores, s)
             p == Reading!parse_coreset(s)
         IN  /\ p \in Seq(0..StringCores - 1) /\ Len(p) <= StringCores
             /\ Len(L) <= StringCores => p = L
<1> DEFINE L == ListedOf(StringCores, s)
           m == IF Len(L) <= StringCores THEN Len(L) ELSE StringCores
           C == 0..StringCores - 1
<1>1. StringCores \in Nat
  BY StringsAssumption
<1>2. L \in Seq(C)
  BY <1>1, ListedHolds
<1> HIDE DEF L, C
<1>3. Len(L) \in Nat /\ DOMAIN L = 1..Len(L) /\ \A i \in 1..Len(L) : L[i] \in C
  BY <1>2
<1>4. Reading!parse_coreset(s) = SubSeq(L, 1, m)
  <2>1. Len(L) \in Int /\ StringCores \in Int
    BY <1>1, <1>3
  <2>2. Reading!Min({Len(L), StringCores}) = m
    BY <2>1, SmallerOfTwo
  <2>3. Reading!Listed(s) = L
    BY SameListed DEF L
  <2> QED
    BY <2>2, <2>3 DEF Reading!parse_coreset
<1>5. m \in Nat /\ m <= StringCores /\ m <= Len(L)
  BY <1>1, <1>3
<1>6. SubSeq(L, 1, m) \in Seq(C) /\ Len(SubSeq(L, 1, m)) = m
  <2> HIDE DEF m
  <2>1. 1 \in Int /\ m \in Int /\ \A i \in 1..m : L[i] \in C
    BY <1>3, <1>5
  <2>2. /\ SubSeq(L, 1, m) \in Seq(C)
        /\ Len(SubSeq(L, 1, m)) = IF 1 <= m THEN m - 1 + 1 ELSE 0
    BY <2>1, SubSeqProperties
  <2> QED
    BY <1>5, <2>2
<1>7. Len(L) <= StringCores => SubSeq(L, 1, m) = L
  BY <1>2, SubSeqFull
<1> HIDE DEF m
<1> QED
  BY <1>4, <1>5, <1>6, <1>7 DEF L, C

LEMMA MasksAreMeant ==
  ASSUME read_coreset \in Seq(Reading!Token)
  PROVE  Reading!MasksAreWhatIsMeant
<1>1. Reading!set_affinity(read_coreset) = Reading!Meaning(read_coreset)
  BY MeaningIsMeant
<1> QED
  BY <1>1, AcceptedIsMeant DEF Reading!MasksAreWhatIsMeant

LEMMA ListsAreComplete ==
  ASSUME read_coreset \in Seq(Reading!Token)
  PROVE  Reading!ListIsComplete
<1> DEFINE L == ListedOf(StringCores, read_coreset)
<1>0. StringCores \in Nat
  BY StringsAssumption
<1>1. /\ L \in Seq(0..StringCores - 1)
      /\ Reading!ToSet(L) = Reading!Meaning(read_coreset)
  BY <1>0, ListedHolds, MeaningIsMeant
<1>2. Reading!Listed(read_coreset) = L
  BY SameListed
<1>3. Len(L) <= StringCores => Reading!parse_coreset(read_coreset) = L
  BY ParseKeepsCores
<1> HIDE DEF L
<1>4. SUFFICES ASSUME Reading!IsInjective(L)
               PROVE  /\ Reading!ToSet(Reading!parse_coreset(read_coreset)) = Reading!Meaning(read_coreset)
                      /\ Reading!count_cores(read_coreset)
                           = Reading!Cardinality(Reading!Meaning(read_coreset))
  BY <1>2 DEF Reading!ListIsComplete
<1>5. \A i \in 1..Len(L), j \in 1..Len(L) : L[i] = L[j] => i = j
  <2>1. DOMAIN L = 1..Len(L)
    BY <1>1
  <2> QED
    BY <1>4, <2>1 DEF Reading!IsInjective
<1>6. Len(L) <= StringCores /\ Cardinality(Reading!ToSet(L)) = Len(L)
  BY <1>0, <1>1, <1>5, OnceEach
<1>7. \A S : Reading!Cardinality(S) = Cardinality(S)
  BY Zenon DEF Reading!Cardinality, Cardinality
<1>8. Reading!parse_coreset(read_coreset) = L
  BY <1>3, <1>6
<1> QED
  BY <1>1, <1>6, <1>7, <1>8 DEF Reading!count_cores

LEMMA PrintsReadBack ==
  ASSUME read_coreset \in Seq(Reading!Token)
  PROVE  Reading!PrintedReadsBack
<1> DEFINE N == StringCores
           c == Reading!parse_coreset(read_coreset)
           r == Reading!cores_to_string(c)
           q == Reading!qsort(c)
<1>0. N \in Nat
  BY StringsAssumption
<1>1. c \in Seq(0..N - 1) /\ Len(c) <= N
  BY ParseKeepsCores
<1> HIDE DEF c
<1>2. /\ r \in Seq(Reading!Token) /\ \A k \in 1..Len(r) : Fit(N, r[k])
      /\ ListedOf(N, r) = q /\ MeantBy(N, r) = Reading!ToSet(c)
      /\ r = <<>> <=> c = <<>>
  BY <1>0, <1>1, PrintedString
<1>3. /\ q \in Seq(0..N - 1) /\ Len(q) = Len(c) /\ Reading!ToSet(q) = Reading!ToSet(c)
      /\ \A i \in 1..Len(c), j \in 1..Len(c) : i <= j => q[i] <= q[j]
  BY <1>0, <1>1, QsortSorts
<1>4. Reading!cores_to_string(Reading!parse_coreset(r)) = r
  <2>1. Len(q) <= N
    BY <1>1, <1>3
  <2>2. Len(ListedOf(N, r)) <= N => Reading!parse_coreset(r) = ListedOf(N, r)
    <3> HIDE DEF r
    <3> QED
      BY <1>2, ParseKeepsCores
  <2>3. Reading!parse_coreset(r) = q
    BY <1>2, <2>1, <2>2
  <2>4. Reading!qsort(q) = q
    <3> HIDE DEF q
    <3> QED
      BY <1>0, <1>3, QsortKeeps
  <2> QED
    BY <2>3, <2>4 DEF Reading!cores_to_string
<1> HIDE DEF r, q
<1>5. Reading!Meaning(r) = Reading!ToSet(c)
  BY <1>2, MeaningIsMeant
<1>6. ASSUME r # <<>>
      PROVE  ~ Reading!init_global_cpuset(r).exits
  <2>1. DOMAIN r = 1..Len(r) /\ Len(r) \in Nat
    BY <1>2
  <2>2. ASSUME NEW k \in DOMAIN r
        PROVE  ~ Reading!Refused(r[k])
    <3>1. Fit(N, r[k])
      BY <1>2, <2>1
    <3>2. r[k].lo \in Int /\ r[k].hi \in Int
      BY <3>1 DEF Fit, Reading!Token
    <3>3. 0 <= r[k].lo /\ r[k].lo <= r[k].hi /\ r[k].hi <= N - 1
      BY <3>1 DEF Fit
    <3> QED
      BY <1>0, <3>2, <3>3 DEF Reading!Refused, Reading!Valid
  <2>3. ~ Reading!monitor_set_affinity(r).exits
    BY <1>6, <2>2 DEF Reading!monitor_set_affinity
  <2>4. Reading!monitor_set_affinity(r).cpuset = Reading!ToSet(c)
    BY <1>2, <1>5, <2>3, AcceptedIsMeant
  <2>5. Reading!ToSet(c) # {}
    <3>1. c # <<>>
      BY <1>2, <1>6
    <3>2. 1 \in DOMAIN c
      BY <1>1, <3>1
    <3> QED
      BY <3>2 DEF Reading!ToSet
  <2>6. Reading!init_global_cpuset(r).exits
          = (Reading!monitor_set_affinity(r).exits \/ Reading!monitor_set_affinity(r).cpuset = {})
    BY DEF Reading!init_global_cpuset, Reading!monitor_set_affinity
  <2> QED
    BY <2>3, <2>4, <2>5, <2>6
<1> QED
  BY <1>4, <1>5, <1>6 DEF Reading!PrintedReadsBack, c, r

(* One range.                                                              *)
LEMMA SpanMeans ==
  ASSUME NEW N \in Nat, NEW a \in Nat, NEW b \in Int, b <= N - 1
  PROVE  /\ <<Reading!Span(a, b)>> \in Seq(Reading!Token)
         /\ MeantBy(N, <<Reading!Span(a, b)>>) = a..b
<1>1. Reading!Span(a, b) \in Reading!Token /\ Reading!Span(a, b).lo = a /\ Reading!Span(a, b).hi = b
  BY DEF Reading!Span, Reading!Token
<1>2. <<Reading!Span(a, b)>> \in Seq(Reading!Token)
  BY <1>1
<1>3. MeantBy(N, <<Reading!Span(a, b)>>) = {c \in 0..N - 1 : c \in a..b}
  <2>1. DOMAIN <<Reading!Span(a, b)>> = {1}
    OBVIOUS
  <2> QED
    BY <1>1, <2>1 DEF MeantBy
<1>4. {c \in 0..N - 1 : c \in a..b} = a..b
  OBVIOUS
<1> QED
  BY <1>2, <1>3, <1>4

LEMMA ClassesAreAgreed ==
  ASSUME read_coreset \in Seq(Reading!Token)
  PROVE  Reading!ClassesAgree
<1> DEFINE r == Reading!init_global_cpuset(read_coreset)
           half == StringCores \div 2
           M == Reading!Meaning(read_coreset)
           P == Reading!set_affinity(<<Reading!Span(0, half - 1)>>)
           E == Reading!set_affinity(<<Reading!Span(half, StringCores - 1)>>)
<1>1. StringCores \in Nat /\ half \in Nat /\ half <= StringCores
  BY StringsAssumption
<1>2. P = 0..half - 1
  <2>1. half - 1 \in Int /\ half - 1 <= StringCores - 1
    BY <1>1
  <2> HIDE DEF half
  <2>2. /\ <<Reading!Span(0, half - 1)>> \in Seq(Reading!Token)
        /\ MeantBy(StringCores, <<Reading!Span(0, half - 1)>>) = 0..half - 1
    BY <1>1, <2>1, SpanMeans
  <2> QED
    BY <2>2, MeaningIsMeant
<1>3. E = half..StringCores - 1
  <2>1. StringCores - 1 \in Int /\ StringCores - 1 <= StringCores - 1
    BY <1>1
  <2> HIDE DEF half
  <2>2. /\ <<Reading!Span(half, StringCores - 1)>> \in Seq(Reading!Token)
        /\ MeantBy(StringCores, <<Reading!Span(half, StringCores - 1)>>) = half..StringCores - 1
    BY <1>1, <2>1, SpanMeans
  <2> QED
    BY <2>2, MeaningIsMeant
<1>4. M \subseteq 0..StringCores - 1
  BY DEF Reading!Meaning
<1>5. ~ r.exits => r.cpuset = M
  BY AcceptedIsMeant
<1> HIDE DEF r, half, M, P, E
<1>6. ASSUME ~ r.exits, NEW core_type \in [0..StringCores - 1 -> 0..3]
      PROVE  LET split == Reading!build_p_e_sets_from_global_cpuset(r.cpuset, core_type, half)
                 silent == \A c \in r.cpuset : core_type[c] \in {0, 3} IN
               /\ \A c \in M : (c \in split.pset) # (c \in split.eset)
               /\ silent => split.pset = M \cap P /\ split.eset = M \cap E
  <2> DEFINE split == Reading!build_p_e_sets_from_global_cpuset(r.cpuset, core_type, half)
             D == {c \in M : Reading!detect_pcore_sysfs(core_type, half, c)}
  <2>1. split.pset = D /\ split.eset = M \ D
    BY <1>5, <1>6 DEF Reading!build_p_e_sets_from_global_cpuset
  <2> HIDE DEF split
  <2>2. \A c \in M : (c \in split.pset) # (c \in split.eset)
    <3> HIDE DEF D
    <3>1. \A c \in M : c \in split.eset <=> c \notin split.pset
      BY <2>1
    <3> QED
      BY <3>1
  <2>3. ASSUME \A c \in r.cpuset : core_type[c] \in {0, 3}
        PROVE  split.pset = M \cap P /\ split.eset = M \cap E
    <3>1. \A c \in M : Reading!detect_pcore_sysfs(core_type, half, c) <=> c < half
      BY <1>5, <1>6, <2>3 DEF Reading!detect_pcore_sysfs
    <3>2. \A c \in M : (c < half <=> c \in P) /\ (c \notin P <=> c \in E)
      BY <1>1, <1>2, <1>3, <1>4
    <3>3. D = M \cap P /\ M \ D = M \cap E
      BY <3>1, <3>2
    <3> QED
      BY <2>1, <3>3
  <2> QED
    BY <2>2, <2>3 DEF split
<1> QED
  BY <1>6 DEF Reading!ClassesAgree, r, half, M, P, E

LEMMA StringsAreRead ==
  ASSUME read_coreset \in Seq(Reading!Token)
  PROVE  Reading!StringsKeepTheirMeaning
BY MasksAreMeant, ListsAreComplete, PrintsReadBack, ClassesAreAgreed
   DEF Reading!StringsKeepTheirMeaning

(* Whatever a command line names, once or several times, in whatever       *)
(* order, with ranges that run past the last core or cannot be read: the   *)
(* mask is what is meant, the list, its count and its two halves agree     *)
(* with it, and printing the list and reading it back changes nothing, in  *)
(* the daemon and in the monitor, on any number of cores                   *)
(* (scheduler.c:273-332, 787-822, libmonitor.c:130-245, 740-750).          *)
THEOREM StringsKeep == ProgramSpec => []StringsKeepTheirMeaning
<1> DEFINE Readable == read_coreset \in Seq(Reading!Token)
<1>1. ProgramInit => Readable
  <2>1. <<>> \in Seq(Reading!Token)
    OBVIOUS
  <2> QED
    BY <2>1, StringsAssumption DEF ProgramInit, Reading!Init
<1>2. Readable /\ [ProgramNext]_all => Readable'
  <2> SUFFICES ASSUME Readable, [ProgramNext]_all
               PROVE  Readable'
    OBVIOUS
  <2>1. CASE read_coreset' = read_coreset
    BY <2>1
  <2>2. CASE Reading!Next
    <3>1. StringCores \in Nat
      BY StringsAssumption
    <3>2. Reading!parse_coreset(read_coreset) \in Seq(0..StringCores - 1)
      BY ParseKeepsCores
    <3>3. Reading!cores_to_string(Reading!parse_coreset(read_coreset)) \in Seq(Reading!Token)
      BY <3>1, <3>2, PrintedString
    <3> QED
      BY <2>2, <3>3 DEF Reading!Next, Reading!Reprint
  <2> QED
    BY <2>1, <2>2 DEF ProgramNext, all
<1>3. Readable => StringsKeepTheirMeaning
  BY StringsAreRead DEF StringsKeepTheirMeaning
<1> QED
  BY <1>1, <1>2, <1>3, PTL DEF ProgramSpec

-----------------------------------------------------------------------------
(* Dealing out the machine: the cores of either side that are free, what   *)
(* each class holds and what it still wants.                               *)
Sides == {"P", "E"}
Boards == [free : [Sides -> Seq(Int)], cores : [Cores!Classes -> Seq(Int)],
           desired : [Cores!Classes -> Nat]]

(* Every core is free or held by one class, and nothing is listed twice.   *)
Apart(a) ==
  /\ \A s \in Sides : \A i, j \in 1..Len(a.free[s]) : a.free[s][i] = a.free[s][j] => i = j
  /\ \A s, t \in Sides : s # t =>
       Reading!ToSet(a.free[s]) \cap Reading!ToSet(a.free[t]) = {}
  /\ \A s \in Sides, c \in Cores!Classes :
       Reading!ToSet(a.free[s]) \cap Reading!ToSet(a.cores[c]) = {}
  /\ \A c, d \in Cores!Classes : c # d =>
       Reading!ToSet(a.cores[c]) \cap Reading!ToSet(a.cores[d]) = {}
Everywhere(a) ==
  \A x : x \in 0..MAX_CORES - 1 <=> \/ \E s \in Sides : x \in Reading!ToSet(a.free[s])
                                   \/ \E c \in Cores!Classes : x \in Reading!ToSet(a.cores[c])

(* A list that is cut in two.                                              *)
LEMMA CutInTwo ==
  ASSUME NEW s \in Seq(Int), NEW k \in 0..Len(s)
  PROVE  /\ SubSeq(s, 1, k) \in Seq(Int) /\ Len(SubSeq(s, 1, k)) = k
         /\ SubSeq(s, k + 1, Len(s)) \in Seq(Int) /\ Len(SubSeq(s, k + 1, Len(s))) = Len(s) - k
         /\ \A i \in 1..k : SubSeq(s, 1, k)[i] = s[i]
         /\ \A i \in 1..Len(s) - k : SubSeq(s, k + 1, Len(s))[i] = s[k + i]
         /\ Reading!ToSet(s) = Reading!ToSet(SubSeq(s, 1, k)) \cup Reading!ToSet(SubSeq(s, k + 1, Len(s)))
<1> DEFINE n == Len(s)
           a == SubSeq(s, 1, k)
           b == SubSeq(s, k + 1, n)
<1>1. n \in Nat /\ k \in Nat /\ k <= n /\ \A i \in 1..n : s[i] \in Int
  OBVIOUS
<1>2. /\ a \in Seq(Int) /\ Len(a) = (IF 1 <= k THEN k - 1 + 1 ELSE 0)
      /\ \A i \in 1..k - 1 + 1 : a[i] = s[1 + i - 1]
  <2>1. 1 \in Int /\ k \in Int /\ \A i \in 1..k : s[i] \in Int
    BY <1>1
  <2> QED
    BY <2>1, SubSeqProperties
<1>3. /\ b \in Seq(Int) /\ Len(b) = (IF k + 1 <= n THEN n - (k + 1) + 1 ELSE 0)
      /\ \A i \in 1..n - (k + 1) + 1 : b[i] = s[k + 1 + i - 1]
  <2>1. k + 1 \in Int /\ n \in Int /\ \A i \in k + 1..n : s[i] \in Int
    BY <1>1
  <2> HIDE DEF n
  <2> QED
    BY <2>1, SubSeqProperties
<1> HIDE DEF n, a, b
<1>4. Len(a) = k /\ \A i \in 1..k : a[i] = s[i]
  <2>1. k - 1 + 1 = k /\ \A i \in 1..k : 1 + i - 1 = i
    BY <1>1
  <2> QED
    BY <1>1, <1>2, <2>1
<1>5. Len(b) = n - k /\ \A i \in 1..n - k : b[i] = s[k + i]
  <2>1. n - (k + 1) + 1 = n - k /\ \A i \in 1..n - k : k + 1 + i - 1 = k + i
    BY <1>1
  <2> QED
    BY <1>1, <1>3, <2>1
<1>6. DOMAIN s = 1..n /\ DOMAIN a = 1..k /\ DOMAIN b = 1..n - k
  BY <1>2, <1>3, <1>4, <1>5, LenProperties DEF n
<1>7. Reading!ToSet(s) = Reading!ToSet(a) \cup Reading!ToSet(b)
  <2>1. /\ Reading!ToSet(s) = {s[i] : i \in 1..n}
        /\ Reading!ToSet(a) = {a[i] : i \in 1..k}
        /\ Reading!ToSet(b) = {b[i] : i \in 1..n - k}
    BY <1>6, Zenon DEF Reading!ToSet
  <2>2. \A i \in 1..k : i \in 1..n /\ a[i] = s[i]
    BY <1>1, <1>4
  <2>3. \A i \in 1..n - k : k + i \in 1..n /\ b[i] = s[k + i]
    BY <1>1, <1>5
  <2>4. \A i \in 1..n : i \in 1..k \/ (i - k \in 1..n - k /\ k + (i - k) = i)
    BY <1>1
  <2>5. {a[i] : i \in 1..k} \subseteq {s[i] : i \in 1..n}
    BY <2>2
  <2>6. {b[i] : i \in 1..n - k} \subseteq {s[i] : i \in 1..n}
    BY <2>3
  <2>7. {s[i] : i \in 1..n} \subseteq {a[i] : i \in 1..k} \cup {b[i] : i \in 1..n - k}
    BY <2>2, <2>3, <2>4
  <2> QED
    BY <2>1, <2>5, <2>6, <2>7
<1> QED
  BY <1>2, <1>3, <1>4, <1>5, <1>7 DEF a, b, n

LEMMA CutApart ==
  ASSUME NEW s \in Seq(Int), NEW k \in 0..Len(s),
         \A i, j \in 1..Len(s) : s[i] = s[j] => i = j
  PROVE  /\ Reading!ToSet(SubSeq(s, 1, k)) \cap Reading!ToSet(SubSeq(s, k + 1, Len(s))) = {}
         /\ LET b == SubSeq(s, k + 1, Len(s))
            IN  \A i, j \in 1..Len(b) : b[i] = b[j] => i = j
<1> DEFINE n == Len(s)
           a == SubSeq(s, 1, k)
           b == SubSeq(s, k + 1, n)
<1>1. n \in Nat /\ k \in Nat /\ k <= n
  OBVIOUS
<1>2. /\ a \in Seq(Int) /\ Len(a) = k /\ b \in Seq(Int) /\ Len(b) = n - k
      /\ \A i \in 1..k : a[i] = s[i]
      /\ \A i \in 1..n - k : b[i] = s[k + i]
  BY CutInTwo
<1>3. \A i, j \in 1..n : s[i] = s[j] => i = j
  OBVIOUS
<1> HIDE DEF n, a, b
<1>4. DOMAIN a = 1..k /\ DOMAIN b = 1..n - k
  BY <1>2, LenProperties
<1>5. \A i \in 1..n - k : k + i \in 1..n /\ k + i \notin 1..k
  BY <1>1
<1>6. \A i \in 1..k : i \in 1..n
  BY <1>1
<1>7. ASSUME NEW i \in 1..k, NEW j \in 1..n - k
      PROVE  a[i] # b[j]
  <2>1. i \in 1..n /\ k + j \in 1..n /\ i # k + j
    BY <1>5, <1>6
  <2>2. s[i] # s[k + j]
    BY <1>3, <2>1
  <2>3. a[i] = s[i] /\ b[j] = s[k + j]
    BY <1>2
  <2> QED
    BY <2>2, <2>3
<1>8. Reading!ToSet(a) \cap Reading!ToSet(b) = {}
  BY <1>4, <1>7 DEF Reading!ToSet
<1>9. ASSUME NEW i \in 1..n - k, NEW j \in 1..n - k, b[i] = b[j]
      PROVE  i = j
  <2>1. b[i] = s[k + i] /\ b[j] = s[k + j]
    BY <1>2
  <2>2. k + i \in 1..n /\ k + j \in 1..n
    BY <1>5
  <2>3. s[k + i] = s[k + j]
    BY <1>9, <2>1
  <2>4. k + i = k + j
    BY <1>3, <2>2, <2>3
  <2> QED
    BY <1>1, <2>4
<1> QED
  BY <1>2, <1>8, <1>9 DEF a, b, n

LEMMA AssignMoves ==
  ASSUME NEW a \in Boards, NEW class \in Cores!Classes, NEW side \in Sides, NEW want \in Nat
  PROVE  LET b == Cores!Assign(a, class, side, want)
             k == IF want <= Len(a.free[side]) THEN want ELSE Len(a.free[side])
         IN  /\ b \in Boards
             /\ \A s \in Sides : Len(b.free[s]) = Len(a.free[s]) - (IF s = side THEN k ELSE 0)
             /\ \A c \in Cores!Classes :
                  /\ Len(b.cores[c]) = Len(a.cores[c]) + (IF c = class THEN k ELSE 0)
                  /\ b.desired[c] = IF c # class THEN a.desired[c]
                                    ELSE IF a.desired[c] >= k THEN a.desired[c] - k ELSE 0
             /\ Apart(a) => Apart(b)
             /\ Everywhere(a) => Everywhere(b)
<1> DEFINE b == Cores!Assign(a, class, side, want)
           l == Len(a.free[side])
           k == IF want <= l THEN want ELSE l
           left == SubSeq(a.free[side], k + 1, l)
           moved == SubSeq(a.free[side], 1, k)
           d == IF a.desired[class] >= k THEN a.desired[class] - k ELSE 0
           own == a.cores[class]
<1>1. a.free[side] \in Seq(Int) /\ own \in Seq(Int) /\ a.desired[class] \in Nat
  BY DEF Boards
<1>2. l \in Nat /\ k \in Nat /\ k <= l /\ k \in 0..l /\ d \in Nat
  BY <1>1
<1>3. Cores!Min({want, l}) = k
  <2>1. want \in Int /\ l \in Int
    BY <1>2
  <2> HIDE DEF l
  <2> QED
    BY <2>1, SmallerOfTwo
<1>4. Cores!Max({a.desired[class] - k, 0}) = d
  <2>1. a.desired[class] - k \in Int /\ 0 \in Int
    BY <1>1, <1>2
  <2> HIDE DEF k
  <2>2. Cores!Max({a.desired[class] - k, 0})
          = IF a.desired[class] - k >= 0 THEN a.desired[class] - k ELSE 0
    BY <2>1, LargerOfTwo
  <2> QED
    BY <1>1, <1>2, <2>2
<1> HIDE DEF k, d, l
<1>5. b = [a EXCEPT !.free[side] = left, !.cores[class] = own \o moved, !.desired[class] = d]
  BY <1>3, <1>4, Zenon DEF Cores!Assign, l
<1>6. /\ moved \in Seq(Int) /\ Len(moved) = k /\ left \in Seq(Int) /\ Len(left) = l - k
      /\ Reading!ToSet(a.free[side]) = Reading!ToSet(moved) \cup Reading!ToSet(left)
  BY <1>1, <1>2, CutInTwo DEF l
<1>7. Apart(a) => /\ Reading!ToSet(moved) \cap Reading!ToSet(left) = {}
                  /\ \A i, j \in 1..Len(left) : left[i] = left[j] => i = j
  <2>1. SUFFICES ASSUME Apart(a)
                 PROVE  /\ Reading!ToSet(moved) \cap Reading!ToSet(left) = {}
                        /\ \A i, j \in 1..Len(left) : left[i] = left[j] => i = j
    OBVIOUS
  <2>2. \A i, j \in 1..l : a.free[side][i] = a.free[side][j] => i = j
    BY <2>1 DEF Apart, l
  <2> QED
    BY <1>1, <1>2, <2>2, CutApart DEF l
<1> HIDE DEF moved, left, b
<1>8. /\ own \o moved \in Seq(Int) /\ Len(own \o moved) = Len(own) + k
      /\ Reading!ToSet(own \o moved) = Reading!ToSet(own) \cup Reading!ToSet(moved)
  <2>1. moved \in Seq(Int) /\ Len(moved) = k
    BY <1>6
  <2> HIDE DEF own
  <2>2. own \o moved \in Seq(Int) /\ Len(own \o moved) = Len(own) + Len(moved)
    BY <1>1, <2>1, ConcatProperties
  <2>3. Reading!ToSet(own \o moved) = Reading!ToSet(own) \cup Reading!ToSet(moved)
    BY <1>1, <2>1, ConcatHolds
  <2> QED
    BY <2>1, <2>2, <2>3
<1>9. b \in Boards
  BY <1>2, <1>5, <1>6, <1>8 DEF Boards
<1>10. /\ \A s \in Sides : b.free[s] = IF s = side THEN left ELSE a.free[s]
       /\ \A c \in Cores!Classes : b.cores[c] = IF c = class THEN own \o moved ELSE a.cores[c]
       /\ \A c \in Cores!Classes : b.desired[c] = IF c = class THEN d ELSE a.desired[c]
  BY <1>5 DEF Boards
<1>11. \A s \in Sides : Len(b.free[s]) = Len(a.free[s]) - (IF s = side THEN k ELSE 0)
  <2> SUFFICES ASSUME NEW s \in Sides
               PROVE  Len(b.free[s]) = Len(a.free[s]) - (IF s = side THEN k ELSE 0)
    OBVIOUS
  <2>1. Len(a.free[s]) \in Nat
    BY DEF Boards
  <2>2. CASE s = side
    BY <1>6, <1>10, <2>2 DEF l
  <2>3. CASE s # side
    <3>1. b.free[s] = a.free[s]
      BY <1>10, <2>3
    <3> QED
      BY <2>1, <2>3, <3>1
  <2> QED
    BY <2>2, <2>3
<1>12. \A c \in Cores!Classes : Len(b.cores[c]) = Len(a.cores[c]) + (IF c = class THEN k ELSE 0)
  <2> SUFFICES ASSUME NEW c \in Cores!Classes
               PROVE  Len(b.cores[c]) = Len(a.cores[c]) + (IF c = class THEN k ELSE 0)
    OBVIOUS
  <2>1. Len(a.cores[c]) \in Nat
    BY DEF Boards
  <2>2. CASE c = class
    <3>1. b.cores[c] = own \o moved
      BY <1>10, <2>2
    <3>2. Len(own \o moved) = Len(own) + k
      BY <1>8
    <3> QED
      BY <2>2, <3>1, <3>2
  <2>3. CASE c # class
    <3>1. b.cores[c] = a.cores[c]
      BY <1>10, <2>3
    <3> QED
      BY <2>1, <2>3, <3>1
  <2> QED
    BY <2>2, <2>3
<1>13. \A c \in Cores!Classes :
         b.desired[c] = IF c # class THEN a.desired[c]
                        ELSE IF a.desired[c] >= k THEN a.desired[c] - k ELSE 0
  BY <1>10 DEF d
<1> HIDE DEF own
<1>14. ASSUME Apart(a)
       PROVE  Apart(b)
  <2> DEFINE F(s) == Reading!ToSet(a.free[s])
             G(c) == Reading!ToSet(a.cores[c])
             M == Reading!ToSet(moved)
             L == Reading!ToSet(left)
  <2>1. /\ \A s, t \in Sides : s # t => F(s) \cap F(t) = {}
        /\ \A s \in Sides, c \in Cores!Classes : F(s) \cap G(c) = {}
        /\ \A c, e \in Cores!Classes : c # e => G(c) \cap G(e) = {}
        /\ \A s \in Sides : \A i, j \in 1..Len(a.free[s]) : a.free[s][i] = a.free[s][j] => i = j
    BY <1>14 DEF Apart
  <2>2. M \cap L = {} /\ F(side) = M \cup L /\ \A i, j \in 1..Len(left) : left[i] = left[j] => i = j
    BY <1>6, <1>7, <1>14
  <2>3. /\ \A s \in Sides : Reading!ToSet(b.free[s]) = IF s = side THEN L ELSE F(s)
        /\ \A c \in Cores!Classes : Reading!ToSet(b.cores[c]) = IF c = class THEN G(c) \cup M ELSE G(c)
    BY <1>8, <1>10 DEF own
  <2>4. \A s \in Sides : \A i, j \in 1..Len(b.free[s]) : b.free[s][i] = b.free[s][j] => i = j
    BY <1>10, <2>1, <2>2
  <2> HIDE DEF F, G, M, L
  <2>5. \A s, t \in Sides : s # t => Reading!ToSet(b.free[s]) \cap Reading!ToSet(b.free[t]) = {}
    BY <2>1, <2>2, <2>3
  <2>8. /\ \A c \in Cores!Classes : M \cap G(c) = {} /\ L \cap G(c) = {}
        /\ \A s \in Sides : s # side => M \cap F(s) = {}
    BY <2>1, <2>2
  <2>6. \A s \in Sides, c \in Cores!Classes : Reading!ToSet(b.free[s]) \cap Reading!ToSet(b.cores[c]) = {}
    <3> SUFFICES ASSUME NEW s \in Sides, NEW c \in Cores!Classes
                 PROVE  Reading!ToSet(b.free[s]) \cap Reading!ToSet(b.cores[c]) = {}
      OBVIOUS
    <3>1. L \cap (G(c) \cup M) = {} /\ L \cap G(c) = {}
      BY <2>2, <2>8
    <3>2. s # side => F(s) \cap (G(c) \cup M) = {} /\ F(s) \cap G(c) = {}
      BY <2>1, <2>8
    <3> QED
      BY <2>3, <3>1, <3>2
  <2>7. \A c, e \in Cores!Classes : c # e => Reading!ToSet(b.cores[c]) \cap Reading!ToSet(b.cores[e]) = {}
    <3> SUFFICES ASSUME NEW c \in Cores!Classes, NEW e \in Cores!Classes, c # e
                 PROVE  Reading!ToSet(b.cores[c]) \cap Reading!ToSet(b.cores[e]) = {}
      OBVIOUS
    <3>1. /\ G(c) \cap G(e) = {} /\ (G(c) \cup M) \cap G(e) = {} /\ G(c) \cap (G(e) \cup M) = {}
      BY <2>1, <2>8
    <3> QED
      BY <2>3, <3>1
  <2> QED
    BY <2>4, <2>5, <2>6, <2>7 DEF Apart
<1>15. ASSUME Everywhere(a)
       PROVE  Everywhere(b)
  <2> DEFINE F(s) == Reading!ToSet(a.free[s])
             G(c) == Reading!ToSet(a.cores[c])
             M == Reading!ToSet(moved)
             L == Reading!ToSet(left)
  <2>1. /\ \A s \in Sides : Reading!ToSet(b.free[s]) = IF s = side THEN L ELSE F(s)
        /\ \A c \in Cores!Classes : Reading!ToSet(b.cores[c]) = IF c = class THEN G(c) \cup M ELSE G(c)
        /\ F(side) = M \cup L
    BY <1>6, <1>8, <1>10 DEF own
  <2>2. \A x : x \in 0..MAX_CORES - 1 <=> \/ \E s \in Sides : x \in F(s)
                                         \/ \E c \in Cores!Classes : x \in G(c)
    BY <1>15 DEF Everywhere
  <2> HIDE DEF F, G, M, L
  <2>3. \A x : (\/ \E s \in Sides : x \in F(s)
              \/ \E c \in Cores!Classes : x \in G(c))
           <=> (\/ \E s \in Sides : x \in Reading!ToSet(b.free[s])
                \/ \E c \in Cores!Classes : x \in Reading!ToSet(b.cores[c]))
    BY <2>1
  <2> QED
    BY <2>2, <2>3, Zenon DEF Everywhere
<1> QED
  BY <1>9, <1>11, <1>12, <1>13, <1>14, <1>15 DEF b, k, l

Counts3 == [Cores!Classes -> Nat]

LEMMA FloorIsShare ==
  ASSUME NEW r \in Nat, NEW e \in Nat, NEW t \in Nat \ {0}
  PROVE  (r * e) \div t \in Nat /\ t * ((r * e) \div t) <= r * e
<1>1. r * e \in Nat
  OBVIOUS
<1>2. \A c \in Nat : c \div t \in Nat /\ t * (c \div t) <= c
  <2> SUFFICES ASSUME NEW c \in Nat
               PROVE  c \div t \in Nat /\ t * (c \div t) <= c
    OBVIOUS
  <2>1. c \div t \in Nat /\ c % t \in 0..t - 1 /\ c = t * (c \div t) + (c % t)
    BY DivMod
  <2>2. PICK q, m : q = c \div t /\ m = c % t
    OBVIOUS
  <2>3. q \in Nat /\ m \in Nat /\ c = t * q + m
    BY <2>1, <2>2
  <2>4. t * q \in Nat
    BY <2>3
  <2> QED
    BY <2>2, <2>3, <2>4
<1> QED
  BY <1>1, <1>2

LEMMA SharesFit ==
  ASSUME NEW r \in Nat, NEW t \in Nat \ {0},
         NEW a \in Nat, NEW b \in Nat, NEW c \in Nat, a + b + c <= t,
         NEW p \in Nat, NEW q \in Nat, NEW s \in Nat,
         t * p <= r * a, t * q <= r * b, t * s <= r * c
  PROVE  p + q + s <= r
<1>1. t * (p + q + s) <= r * (a + b + c)
  OBVIOUS
<1>2. r * (a + b + c) <= r * t
  <2>1. PICK d \in Nat : t = a + b + c + d
    <3>1. t - (a + b + c) \in Nat /\ t = a + b + c + (t - (a + b + c))
      OBVIOUS
    <3> QED
      BY <3>1
  <2>2. r * t = r * (a + b + c) + r * d /\ r * d \in Nat
    BY <2>1
  <2> QED
    BY <2>2
<1>3. SUFFICES ASSUME p + q + s >= r + 1
               PROVE  FALSE
  OBVIOUS
<1>4. PICK d \in Nat : p + q + s = r + 1 + d
  <2>1. (p + q + s) - (r + 1) \in Nat /\ p + q + s = r + 1 + ((p + q + s) - (r + 1))
    BY <1>3
  <2> QED
    BY <2>1
<1>5. t * (p + q + s) = t * r + t + t * d /\ t * d \in Nat /\ r * t = t * r
  BY <1>4
<1>6. t * (p + q + s) \in Int /\ t * r \in Int /\ r * (a + b + c) \in Int
  OBVIOUS
<1> QED
  BY <1>1, <1>2, <1>5, <1>6

(* One if the class is active.                                             *)
One(n) == IF n > 0 THEN 1 ELSE 0

LEMMA ActiveCounted ==
  ASSUME NEW th \in Counts3
  PROVE  /\ Cores!Cardinality(Cores!Active(th)) = One(th.compute) + One(th.io) + One(th.memory)
         /\ Cores!Active(th) = {} <=> th.compute = 0 /\ th.io = 0 /\ th.memory = 0
<1> DEFINE A == IF th.compute > 0 THEN {"compute"} ELSE {}
           B == IF th.io > 0 THEN {"io"} ELSE {}
           C == IF th.memory > 0 THEN {"memory"} ELSE {}
<1>1. th["compute"] \in Nat /\ th["io"] \in Nat /\ th["memory"] \in Nat
  BY DEF Counts3, Cores!Classes
<1>2. Cores!Active(th) = A \cup B \cup C
  BY DEF Cores!Active, Cores!Classes
<1>3. /\ IsFiniteSet(A) /\ Cardinality(A) = One(th.compute)
      /\ IsFiniteSet(B) /\ Cardinality(B) = One(th.io)
      /\ IsFiniteSet(C) /\ Cardinality(C) = One(th.memory)
  BY FS_EmptySet, FS_Singleton DEF One
<1>4. A \cap B = {} /\ (A \cup B) \cap C = {}
  OBVIOUS
<1>5. A \cup B \cup C = {} <=> th.compute = 0 /\ th.io = 0 /\ th.memory = 0
  BY <1>1
<1>6. One(th.compute) \in Nat /\ One(th.io) \in Nat /\ One(th.memory) \in Nat
  BY DEF One
<1> HIDE DEF A, B, C
<1>7. IsFiniteSet(A \cup B) /\ Cardinality(A \cup B) = One(th.compute) + One(th.io)
  <2>1. /\ IsFiniteSet(A \cup B)
        /\ Cardinality(A \cup B) = Cardinality(A) + Cardinality(B) - Cardinality(A \cap B)
    BY <1>3, FS_Union
  <2>2. Cardinality(A \cap B) = 0
    BY <1>4, FS_EmptySet
  <2> QED
    BY <1>3, <1>6, <2>1, <2>2
<1>8. Cardinality((A \cup B) \cup C) = One(th.compute) + One(th.io) + One(th.memory)
  <2>1. Cardinality((A \cup B) \cup C)
          = Cardinality(A \cup B) + Cardinality(C) - Cardinality((A \cup B) \cap C)
    BY <1>3, <1>7, FS_Union
  <2>2. Cardinality((A \cup B) \cap C) = 0
    BY <1>4, FS_EmptySet
  <2> QED
    BY <1>3, <1>6, <1>7, <2>1, <2>2
<1>9. \A S : Cores!Cardinality(S) = Cardinality(S)
  BY Zenon DEF Cores!Cardinality, Cardinality
<1> QED
  BY <1>2, <1>5, <1>8, <1>9

(* The cores that are asked for are as many as there are, and at least one *)
(* for each active class: what the rounding leaves is never less than zero.*)
LEMMA DesiredSums ==
  ASSUME NEW th \in Counts3, Cores!Active(th) # {}
  PROVE  LET d == Cores!Desired(th) IN
         /\ d \in Counts3
         /\ d.compute + d.io + d.memory = MAX_CORES
         /\ \A k \in Cores!Classes : d[k] > 0 <=> th[k] > 0
<1> DEFINE d == Cores!Desired(th)
           em == th.memory \div 4
           units == th.compute + th.io + em
           total == IF 1 >= units THEN 1 ELSE units
           rest == MAX_CORES - (One(th.compute) + One(th.io) + One(th.memory))
           qc == (rest * th.compute) \div total
           qi == (rest * th.io) \div total
           qm == (rest * em) \div total
           sc == IF th.compute > 0 THEN 1 + qc ELSE 0
           si == IF th.io > 0 THEN 1 + qi ELSE 0
           sm == IF th.memory > 0 THEN 1 + qm ELSE 0
           slack == MAX_CORES - (sc + si + sm)
<1>1. MAX_CORES \in Nat /\ MAX_CORES >= 3
  BY CoresAssumption
<1>2. th.compute \in Nat /\ th.io \in Nat /\ th.memory \in Nat
  BY DEF Counts3, Cores!Classes
<1>3. em \in Nat /\ (th.memory = 0 => em = 0)
  BY <1>2
<1>4. ~ (th.compute = 0 /\ th.io = 0 /\ th.memory = 0)
  BY ActiveCounted
<1>5. rest \in Nat
  BY <1>1, <1>2 DEF One
<1> HIDE DEF em
<1>6. units \in Nat /\ total \in Nat \ {0} /\ units <= total
  BY <1>2, <1>3
<1>7. /\ Cores!Effective(th).compute = th.compute
      /\ Cores!Effective(th).io = th.io
      /\ Cores!Effective(th).memory = em
  BY DEF Cores!Effective, Counts3, Cores!Classes, em
<1>8. Cores!Max({1, Cores!Sum3(Cores!Effective(th))}) = total
  <2>1. Cores!Sum3(Cores!Effective(th)) = units
    BY <1>7 DEF Cores!Sum3
  <2>2. 1 \in Int /\ units \in Int
    BY <1>6
  <2> HIDE DEF units
  <2> QED
    BY <2>1, <2>2, LargerOfTwo
<1>9. MAX_CORES - Cores!Cardinality(Cores!Active(th)) = rest
  BY ActiveCounted
<1> HIDE DEF total
<1>10. /\ qc \in Nat /\ total * qc <= rest * th.compute
       /\ qi \in Nat /\ total * qi <= rest * th.io
       /\ qm \in Nat /\ total * qm <= rest * em
  <2> HIDE DEF rest
  <2> QED
    BY <1>2, <1>3, <1>5, <1>6, FloorIsShare
<1> HIDE DEF qc, qi, qm
<1>11. qc + qi + qm <= rest
  <2>1. th.compute + th.io + em <= total
    BY <1>6
  <2> HIDE DEF rest
  <2> QED
    BY <1>2, <1>3, <1>5, <1>6, <1>10, <2>1, SharesFit
<1>12. /\ sc \in Nat /\ si \in Nat /\ sm \in Nat /\ slack \in Nat
       /\ (sc > 0 <=> th.compute > 0) /\ (si > 0 <=> th.io > 0) /\ (sm > 0 <=> th.memory > 0)
  BY <1>1, <1>2, <1>10, <1>11 DEF One
<1> DEFINE share == [k \in Cores!Classes |->
                       IF k \in Cores!Active(th)
                       THEN 1 + (rest * Cores!Effective(th)[k]) \div total ELSE 0]
<1>13. share = [k \in Cores!Classes |-> IF k = "compute" THEN sc ELSE IF k = "io" THEN si ELSE sm]
  BY <1>7 DEF Cores!Active, Cores!Classes, qc, qi, qm
<1> HIDE DEF rest, share
<1>14. MAX_CORES - Cores!Sum3(share) = slack
  BY <1>13 DEF Cores!Sum3, Cores!Classes
<1> DEFINE gains == Cores!FirstActive(th, "compute", "memory", "io")
           loses == Cores!FirstActive(th, "io", "memory", "compute")
<1>15. gains \in Cores!Classes /\ th[gains] > 0
  <2>1. \/ th["compute"] > 0 /\ gains = "compute"
        \/ th["memory"] > 0 /\ gains = "memory"
        \/ th["io"] > 0 /\ gains = "io"
    BY <1>2, <1>4 DEF Cores!FirstActive
  <2> HIDE DEF gains
  <2> QED
    BY <2>1 DEF Cores!Classes
<1>16. d = [k \in Cores!Classes |->
              IF slack > 0 /\ k = gains THEN share[k] + slack
              ELSE IF slack < 0 /\ k = loses THEN Cores!Max({1, share[k] + slack})
              ELSE share[k]]
  BY <1>8, <1>9, <1>14, Zenon DEF Cores!Desired, share
<1> HIDE DEF sc, si, sm, slack, gains, loses
<1>17. ~ slack < 0
  BY <1>12
<1>18. d = [k \in Cores!Classes |-> IF k = gains THEN share[k] + slack ELSE share[k]]
  <2>1. \A k \in Cores!Classes : share[k] \in Nat
    BY <1>12, <1>13
  <2> QED
    BY <1>12, <1>16, <1>17, <2>1
<1> HIDE DEF d
<1>19. d \in Counts3
  BY <1>12, <1>13, <1>18 DEF Counts3
<1>20. d.compute + d.io + d.memory = sc + si + sm + slack
  <2>1. gains \in {"compute", "io", "memory"}
    BY <1>15 DEF Cores!Classes
  <2> QED
    BY <1>12, <1>13, <1>18, <2>1 DEF Cores!Classes
<1>21. sc + si + sm + slack = MAX_CORES
  BY <1>1, <1>12 DEF slack
<1>22. \A k \in Cores!Classes : d[k] > 0 <=> th[k] > 0
  BY <1>12, <1>13, <1>15, <1>18 DEF Cores!Classes
<1> QED
  BY <1>19, <1>20, <1>21, <1>22 DEF d

(* How much is free on each side, held by each class and wanted still, on  *)
(* a board on which every core is somewhere and none is twice.             *)
Holding(a, p, e, x, y, z, c, i, m) ==
  /\ a \in Boards /\ Apart(a) /\ Everywhere(a)
  /\ Len(a.free["P"]) = p /\ Len(a.free["E"]) = e
  /\ Len(a.cores["compute"]) = x /\ Len(a.cores["io"]) = y /\ Len(a.cores["memory"]) = z
  /\ a.desired["compute"] = c /\ a.desired["io"] = i /\ a.desired["memory"] = m

Least(a, b) == IF a <= b THEN a ELSE b
Without(a, b) == IF a >= b THEN a - b ELSE 0

(* The board the daemon starts from.                                       *)
Start(th) == [free |-> [P |-> [i \in 1..Cores!Half |-> i - 1],
                        E |-> [i \in 1..MAX_CORES - Cores!Half |-> Cores!Half + i - 1]],
              cores |-> Cores!NoMasks, desired |-> Cores!Desired(th)]

LEMMA HalfBounds ==
  /\ Cores!Half \in Nat \ {0} /\ MAX_CORES \in Nat
  /\ 2 * Cores!Half <= MAX_CORES /\ MAX_CORES - Cores!Half \in Nat \ {0, 1}
BY CoresAssumption DEF Cores!Half

LEMMA StartHolds ==
  ASSUME NEW th \in Counts3, Cores!Active(th) # {}
  PROVE  LET d == Cores!Desired(th)
         IN  Holding(Start(th), Cores!Half, MAX_CORES - Cores!Half, 0, 0, 0,
                     d.compute, d.io, d.memory)
<1> DEFINE h == Cores!Half
           n == MAX_CORES
           P == [i \in 1..h |-> i - 1]
           E == [i \in 1..n - h |-> h + i - 1]
           d == Cores!Desired(th)
           b == Start(th)
<1>1. h \in Nat /\ n \in Nat /\ n - h \in Nat
  BY HalfBounds
<1>2. d \in Counts3
  BY DesiredSums
<1> HIDE DEF h, n, d
<1>3. /\ P \in Seq(Int) /\ Len(P) = h /\ DOMAIN P = 1..h
      /\ E \in Seq(Int) /\ Len(E) = n - h /\ DOMAIN E = 1..n - h
  <2>1. P \in [1..h -> Int]
    BY <1>1
  <2> DEFINE k == n - h
  <2>2. k \in Nat
    BY <1>1
  <2>3. [i \in 1..k |-> h + i - 1] \in [1..k -> Int]
    BY <1>1
  <2> HIDE DEF k
  <2>4. /\ [i \in 1..k |-> h + i - 1] \in Seq(Int)
        /\ Len([i \in 1..k |-> h + i - 1]) = k
        /\ DOMAIN [i \in 1..k |-> h + i - 1] = 1..k
    BY <2>2, <2>3
  <2>5. P \in Seq(Int) /\ Len(P) = h /\ DOMAIN P = 1..h
    BY <1>1, <2>1
  <2> QED
    BY <2>4, <2>5 DEF k
<1>4. /\ Reading!ToSet(P) = 0..h - 1
      /\ Reading!ToSet(E) = h..n - 1
      /\ Reading!ToSet(<<>>) = {}
  <2>1. Reading!ToSet(P) = {i - 1 : i \in 1..h} /\ Reading!ToSet(E) = {h + i - 1 : i \in 1..n - h}
    BY <1>3 DEF Reading!ToSet
  <2>2. \A v \in 0..h - 1 : v + 1 \in 1..h /\ (v + 1) - 1 = v
    BY <1>1
  <2>3. \A v \in h..n - 1 : v - h + 1 \in 1..n - h /\ h + (v - h + 1) - 1 = v
    BY <1>1
  <2>4. {i - 1 : i \in 1..h} = 0..h - 1
    BY <1>1, <2>2
  <2>5. {h + i - 1 : i \in 1..n - h} = h..n - 1
    <3>1. \A i \in 1..n - h : h + i - 1 \in h..n - 1
      BY <1>1
    <3> QED
      BY <2>3, <3>1
  <2>6. Reading!ToSet(<<>>) = {}
    BY DEF Reading!ToSet
  <2> QED
    BY <2>1, <2>4, <2>5, <2>6
<1>5. /\ \A i, j \in 1..h : P[i] = P[j] => i = j
      /\ \A i, j \in 1..n - h : E[i] = E[j] => i = j
  BY <1>1
<1> HIDE DEF P, E
<1>6. b = [free |-> [P |-> P, E |-> E], cores |-> Cores!NoMasks, desired |-> d]
  BY Zenon DEF Start, P, E, h, n, d
<1>7. /\ b.free["P"] = P /\ b.free["E"] = E /\ b.desired = d
      /\ \A k \in Cores!Classes : b.cores[k] = <<>>
  BY <1>6 DEF Cores!NoMasks
<1>8. b \in Boards
  <2>1. [P |-> P, E |-> E] \in [Sides -> Seq(Int)]
    BY <1>3 DEF Sides
  <2>2. Cores!NoMasks \in [Cores!Classes -> Seq(Int)]
    BY DEF Cores!NoMasks
  <2> QED
    BY <1>2, <1>6, <2>1, <2>2 DEF Boards, Counts3
<1> HIDE DEF b
<1>9. Apart(b)
  <2>1. \A s \in Sides : \A i, j \in 1..Len(b.free[s]) : b.free[s][i] = b.free[s][j] => i = j
    BY <1>3, <1>5, <1>7 DEF Sides
  <2>2. (0..h - 1) \cap (h..n - 1) = {}
    BY <1>1
  <2>3. \A s, t \in Sides : s # t => Reading!ToSet(b.free[s]) \cap Reading!ToSet(b.free[t]) = {}
    BY <1>4, <1>7, <2>2 DEF Sides
  <2> QED
    BY <1>4, <1>7, <2>1, <2>3 DEF Apart
<1>10. Everywhere(b)
  <2>1. \A v : v \in 0..n - 1 <=> v \in 0..h - 1 \/ v \in h..n - 1
    BY <1>1
  <2> QED
    BY <1>4, <1>7, <2>1 DEF Everywhere, Sides, n
<1>11. /\ b.desired["compute"] = d.compute /\ b.desired["io"] = d.io /\ b.desired["memory"] = d.memory
       /\ Len(b.cores["compute"]) = 0 /\ Len(b.cores["io"]) = 0 /\ Len(b.cores["memory"]) = 0
  BY <1>7 DEF Cores!Classes
<1> QED
  BY <1>3, <1>7, <1>8, <1>9, <1>10, <1>11 DEF Holding, b, d, h, n

LEMMA AssignHolds ==
  ASSUME NEW a, NEW p \in Nat, NEW e \in Nat, NEW x \in Nat, NEW y \in Nat, NEW z \in Nat,
         NEW c \in Nat, NEW i \in Nat, NEW m \in Nat, Holding(a, p, e, x, y, z, c, i, m),
         NEW class \in Cores!Classes, NEW side \in Sides, NEW n \in Nat
  PROVE  LET k == Least(n, IF side = "P" THEN p ELSE e)
         IN  Holding(Cores!Assign(a, class, side, n),
                     IF side = "P" THEN p - k ELSE p, IF side = "P" THEN e ELSE e - k,
                     IF class = "compute" THEN x + k ELSE x,
                     IF class = "io" THEN y + k ELSE y,
                     IF class = "memory" THEN z + k ELSE z,
                     IF class = "compute" THEN Without(c, k) ELSE c,
                     IF class = "io" THEN Without(i, k) ELSE i,
                     IF class = "memory" THEN Without(m, k) ELSE m)
<1> DEFINE k == Least(n, IF side = "P" THEN p ELSE e)
           j == IF n <= Len(a.free[side]) THEN n ELSE Len(a.free[side])
           b == Cores!Assign(a, class, side, n)
<1>1. /\ a \in Boards /\ Apart(a) /\ Everywhere(a)
      /\ Len(a.free["P"]) = p /\ Len(a.free["E"]) = e
      /\ Len(a.cores["compute"]) = x /\ Len(a.cores["io"]) = y /\ Len(a.cores["memory"]) = z
      /\ a.desired["compute"] = c /\ a.desired["io"] = i /\ a.desired["memory"] = m
  BY DEF Holding
<1>2. Cores!Classes = {"compute", "io", "memory"} /\ Sides = {"P", "E"}
  BY DEF Cores!Classes, Sides
<1>3. j = k
  BY <1>1, <1>2 DEF Least
<1>4. k \in Nat
  BY DEF Least
<1>5. /\ b \in Boards
      /\ \A s \in Sides : Len(b.free[s]) = Len(a.free[s]) - (IF s = side THEN j ELSE 0)
      /\ \A t \in Cores!Classes :
           /\ Len(b.cores[t]) = Len(a.cores[t]) + (IF t = class THEN j ELSE 0)
           /\ b.desired[t] = IF t # class THEN a.desired[t]
                             ELSE IF a.desired[t] >= j THEN a.desired[t] - j ELSE 0
      /\ Apart(a) => Apart(b)
      /\ Everywhere(a) => Everywhere(b)
  BY <1>1, AssignMoves
<1> HIDE DEF b, j, k
<1>6. /\ Len(b.free["P"]) = IF side = "P" THEN p - k ELSE p
      /\ Len(b.free["E"]) = IF side = "P" THEN e ELSE e - k
  <2>1. Len(b.free["P"]) = p - (IF "P" = side THEN k ELSE 0)
    BY <1>1, <1>2, <1>3, <1>5
  <2>2. Len(b.free["E"]) = e - (IF "E" = side THEN k ELSE 0)
    BY <1>1, <1>2, <1>3, <1>5
  <2>3. side = "P" \/ side = "E"
    BY <1>2
  <2> QED
    BY <1>4, <2>1, <2>2, <2>3
<1>7. /\ Len(b.cores["compute"]) = IF class = "compute" THEN x + k ELSE x
      /\ Len(b.cores["io"]) = IF class = "io" THEN y + k ELSE y
      /\ Len(b.cores["memory"]) = IF class = "memory" THEN z + k ELSE z
  <2>1. Len(b.cores["compute"]) = x + (IF "compute" = class THEN k ELSE 0)
    BY <1>1, <1>2, <1>3, <1>5
  <2>2. Len(b.cores["io"]) = y + (IF "io" = class THEN k ELSE 0)
    BY <1>1, <1>2, <1>3, <1>5
  <2>3. Len(b.cores["memory"]) = z + (IF "memory" = class THEN k ELSE 0)
    BY <1>1, <1>2, <1>3, <1>5
  <2> QED
    BY <1>4, <2>1, <2>2, <2>3
<1>8. /\ b.desired["compute"] = IF class = "compute" THEN Without(c, k) ELSE c
      /\ b.desired["io"] = IF class = "io" THEN Without(i, k) ELSE i
      /\ b.desired["memory"] = IF class = "memory" THEN Without(m, k) ELSE m
  BY <1>1, <1>2, <1>3, <1>4, <1>5 DEF Without
<1> QED
  BY <1>1, <1>5, <1>6, <1>7, <1>8 DEF Holding, b, k

(* A class takes what it wants from a side, as far as it goes.             *)
LEMMA WantHolds ==
  ASSUME NEW a, NEW p \in Nat, NEW e \in Nat, NEW x \in Nat, NEW y \in Nat, NEW z \in Nat,
         NEW c \in Nat, NEW i \in Nat, NEW m \in Nat, Holding(a, p, e, x, y, z, c, i, m),
         NEW class \in Cores!Classes, NEW side \in Sides
  PROVE  LET w == IF class = "compute" THEN c ELSE IF class = "io" THEN i ELSE m
             k == Least(w, IF side = "P" THEN p ELSE e)
         IN  /\ k \in Nat /\ w - k \in Nat /\ (IF side = "P" THEN p ELSE e) - k \in Nat
             /\ Holding(Cores!Want(a, class, side),
                        IF side = "P" THEN p - k ELSE p, IF side = "P" THEN e ELSE e - k,
                        IF class = "compute" THEN x + k ELSE x,
                        IF class = "io" THEN y + k ELSE y,
                        IF class = "memory" THEN z + k ELSE z,
                        IF class = "compute" THEN c - k ELSE c,
                        IF class = "io" THEN i - k ELSE i,
                        IF class = "memory" THEN m - k ELSE m)
<1> DEFINE w == IF class = "compute" THEN c ELSE IF class = "io" THEN i ELSE m
           f == IF side = "P" THEN p ELSE e
           k == Least(w, f)
<1>1. class = "compute" \/ class = "io" \/ class = "memory"
  BY DEF Cores!Classes
<1>2. a.desired[class] = w
  BY <1>1 DEF Holding
<1>3. w \in Nat /\ f \in Nat
  OBVIOUS
<1>4. Cores!Want(a, class, side) = Cores!Assign(a, class, side, w)
  BY <1>2, Zenon DEF Cores!Want
<1>5. k \in Nat /\ w - k \in Nat /\ f - k \in Nat /\ Without(w, k) = w - k
  <2> HIDE DEF w, f
  <2> QED
    BY <1>3 DEF Least, Without
<1>6. Holding(Cores!Assign(a, class, side, w),
              IF side = "P" THEN p - k ELSE p, IF side = "P" THEN e ELSE e - k,
              IF class = "compute" THEN x + k ELSE x,
              IF class = "io" THEN y + k ELSE y,
              IF class = "memory" THEN z + k ELSE z,
              IF class = "compute" THEN Without(c, k) ELSE c,
              IF class = "io" THEN Without(i, k) ELSE i,
              IF class = "memory" THEN Without(m, k) ELSE m)
  <2> DEFINE v == w
  <2>1. v \in Nat
    BY <1>3
  <2> HIDE DEF v
  <2>2. k = Least(v, IF side = "P" THEN p ELSE e)
    BY DEF v
  <2>3. Cores!Assign(a, class, side, w) = Cores!Assign(a, class, side, v)
    BY DEF v
  <2> HIDE DEF k
  <2> QED
    BY <2>1, <2>2, <2>3, AssignHolds
<1>7. CASE class = "compute"
  <2>1. w = c /\ Without(c, k) = c - k
    BY <1>5, <1>7
  <2> HIDE DEF k
  <2> QED
    BY <1>4, <1>5, <1>6, <1>7, <2>1, Zenon DEF k, w, f
<1>8. CASE class = "io"
  <2>1. w = i /\ Without(i, k) = i - k
    BY <1>5, <1>8
  <2> HIDE DEF k
  <2> QED
    BY <1>4, <1>5, <1>6, <1>8, <2>1, Zenon DEF k, w, f
<1>9. CASE class = "memory"
  <2>1. w = m /\ Without(m, k) = m - k
    BY <1>5, <1>9
  <2> HIDE DEF k
  <2> QED
    BY <1>4, <1>5, <1>6, <1>9, <2>1, Zenon DEF k, w, f
<1> QED
  BY <1>1, <1>7, <1>8, <1>9

(* The six takings that end a round.                                       *)
Takings(a) ==
  LET io_E == Cores!Want(a, "io", "E")
      io_P == Cores!Want(io_E, "io", "P")
      compute_P == Cores!Want(io_P, "compute", "P")
      memory_P == Cores!Want(compute_P, "memory", "P")
      compute_E == Cores!Want(memory_P, "compute", "E")
  IN  Cores!Want(compute_E, "memory", "E")

(* What the six takings amount to.                                         *)
TakenAre(t, p, e, c, i, m) ==
  /\ t \in [1..6 -> Nat]
  /\ t[1] = Least(i, e) /\ t[2] = Least(i - t[1], p)
  /\ t[3] = Least(c, p - t[2]) /\ t[4] = Least(m, p - t[2] - t[3])
  /\ t[5] = Least(c - t[3], e - t[1]) /\ t[6] = Least(m - t[4], e - t[1] - t[5])

Ends(a, p, e, x, y, z, c, i, m) ==
  \E t : /\ TakenAre(t, p, e, c, i, m)
         /\ Holding(Takings(a), p - t[2] - t[3] - t[4], e - t[1] - t[5] - t[6],
                    x + t[3] + t[5], y + t[1] + t[2], z + t[4] + t[6],
                    c - t[3] - t[5], i - t[1] - t[2], m - t[4] - t[6])

LEMMA TakingsHold ==
  ASSUME NEW a, NEW p \in Nat, NEW e \in Nat, NEW x \in Nat, NEW y \in Nat, NEW z \in Nat,
         NEW c \in Nat, NEW i \in Nat, NEW m \in Nat, Holding(a, p, e, x, y, z, c, i, m)
  PROVE  Ends(a, p, e, x, y, z, c, i, m)
<1> DEFINE k1 == Least(i, e)
           k2 == Least(i - k1, p)
           k3 == Least(c, p - k2)
           k4 == Least(m, p - k2 - k3)
           k5 == Least(c - k3, e - k1)
           k6 == Least(m - k4, e - k1 - k5)
           io_E == Cores!Want(a, "io", "E")
           io_P == Cores!Want(io_E, "io", "P")
           compute_P == Cores!Want(io_P, "compute", "P")
           memory_P == Cores!Want(compute_P, "memory", "P")
           compute_E == Cores!Want(memory_P, "compute", "E")
           memory_E == Cores!Want(compute_E, "memory", "E")
<1>0. /\ "compute" \in Cores!Classes /\ "io" \in Cores!Classes /\ "memory" \in Cores!Classes
      /\ "P" \in Sides /\ "E" \in Sides
  BY DEF Cores!Classes, Sides
<1>1. k1 \in Nat /\ i - k1 \in Nat /\ e - k1 \in Nat
  BY DEF Least
<1> HIDE DEF k1
<1>2. k2 \in Nat /\ i - k1 - k2 \in Nat /\ p - k2 \in Nat
  BY <1>1 DEF Least
<1> HIDE DEF k2
<1>3. k3 \in Nat /\ c - k3 \in Nat /\ p - k2 - k3 \in Nat
  BY <1>2 DEF Least
<1> HIDE DEF k3
<1>4. k4 \in Nat /\ m - k4 \in Nat /\ p - k2 - k3 - k4 \in Nat
  BY <1>3 DEF Least
<1> HIDE DEF k4
<1>5. k5 \in Nat /\ c - k3 - k5 \in Nat /\ e - k1 - k5 \in Nat
  BY <1>1, <1>3 DEF Least
<1> HIDE DEF k5
<1>6. k6 \in Nat /\ m - k4 - k6 \in Nat /\ e - k1 - k5 - k6 \in Nat
  BY <1>4, <1>5 DEF Least
<1> HIDE DEF k6
<1>7. Holding(io_E, p, e - k1, x, y + k1, z, c, i - k1, m)
  BY <1>0, <1>1, WantHolds DEF k1
<1> HIDE DEF io_E
<1>8. Holding(io_P, p - k2, e - k1, x, y + k1 + k2, z, c, i - k1 - k2, m)
  BY <1>0, <1>1, <1>2, <1>7, WantHolds DEF k2
<1> HIDE DEF io_P
<1>9. Holding(compute_P, p - k2 - k3, e - k1, x + k3, y + k1 + k2, z, c - k3, i - k1 - k2, m)
  BY <1>0, <1>1, <1>2, <1>3, <1>8, WantHolds DEF k3
<1> HIDE DEF compute_P
<1>10. Holding(memory_P, p - k2 - k3 - k4, e - k1, x + k3, y + k1 + k2, z + k4,
               c - k3, i - k1 - k2, m - k4)
  BY <1>0, <1>1, <1>2, <1>3, <1>4, <1>9, WantHolds DEF k4
<1> HIDE DEF memory_P
<1>11. Holding(compute_E, p - k2 - k3 - k4, e - k1 - k5, x + k3 + k5, y + k1 + k2, z + k4,
               c - k3 - k5, i - k1 - k2, m - k4)
  BY <1>0, <1>1, <1>2, <1>3, <1>4, <1>5, <1>10, WantHolds DEF k5
<1> HIDE DEF compute_E
<1>12. Holding(memory_E, p - k2 - k3 - k4, e - k1 - k5 - k6, x + k3 + k5, y + k1 + k2, z + k4 + k6,
               c - k3 - k5, i - k1 - k2, m - k4 - k6)
  BY <1>0, <1>1, <1>2, <1>3, <1>4, <1>5, <1>6, <1>11, WantHolds DEF k6
<1>13. memory_E = Takings(a)
  BY Zenon DEF Takings, memory_E, compute_E, memory_P, compute_P, io_P, io_E
<1> HIDE DEF memory_E
<1> DEFINE t == <<k1, k2, k3, k4, k5, k6>>
<1>14. /\ t \in [1..6 -> Nat]
       /\ t[1] = k1 /\ t[2] = k2 /\ t[3] = k3 /\ t[4] = k4 /\ t[5] = k5 /\ t[6] = k6
  BY <1>1, <1>2, <1>3, <1>4, <1>5, <1>6
<1> HIDE DEF t
<1>15. /\ t[1] = Least(i, e) /\ t[2] = Least(i - t[1], p)
       /\ t[3] = Least(c, p - t[2]) /\ t[4] = Least(m, p - t[2] - t[3])
       /\ t[5] = Least(c - t[3], e - t[1]) /\ t[6] = Least(m - t[4], e - t[1] - t[5])
  BY <1>14, Zenon DEF k1, k2, k3, k4, k5, k6
<1>16. Holding(Takings(a), p - t[2] - t[3] - t[4], e - t[1] - t[5] - t[6],
               x + t[3] + t[5], y + t[1] + t[2], z + t[4] + t[6],
               c - t[3] - t[5], i - t[1] - t[2], m - t[4] - t[6])
  BY <1>12, <1>13, <1>14, Zenon
<1>17. TakenAre(t, p, e, c, i, m)
  BY <1>14, <1>15 DEF TakenAre
<1> QED
  BY <1>16, <1>17 DEF Ends

(* The P-cores that are dealt out by weight: all of them, unless neither   *)
(* compute nor memory weighs anything.                                     *)
Weighed(th) ==
  LET eff == Cores!Effective(th)
      weight == eff.compute + eff.memory
      p_compute == (Cores!Half * eff.compute) \div weight
  IN  IF weight = 0 THEN Start(th)
      ELSE Cores!Assign(Cores!Assign(Start(th), "compute", "P", p_compute),
                        "memory", "P", Cores!Half - p_compute)

LEMMA EffectiveThreads ==
  ASSUME NEW th \in Counts3
  PROVE  /\ Cores!Effective(th).compute = th.compute /\ th.compute \in Nat
         /\ Cores!Effective(th).io = th.io /\ th.io \in Nat
         /\ Cores!Effective(th).memory = th.memory \div 4 /\ th.memory \div 4 \in Nat
         /\ th.memory \in Nat /\ (th.memory = 0 => th.memory \div 4 = 0)
<1>1. th["compute"] \in Nat /\ th["io"] \in Nat /\ th["memory"] \in Nat
  BY DEF Counts3, Cores!Classes
<1> QED
  BY <1>1 DEF Cores!Effective, Counts3, Cores!Classes

LEMMA WeighedHolds ==
  ASSUME NEW th \in Counts3, Cores!Active(th) # {}
  PROVE  LET d == Cores!Desired(th)
             eff == Cores!Effective(th)
             weight == eff.compute + eff.memory
             x == (Cores!Half * eff.compute) \div weight
             z == Cores!Half - x
             e == MAX_CORES - Cores!Half
         IN  /\ weight = 0 => Holding(Weighed(th), Cores!Half, e, 0, 0, 0, d.compute, d.io, d.memory)
             /\ weight > 0 => /\ x \in Nat /\ z \in Nat /\ weight * x <= Cores!Half * eff.compute
                              /\ Cores!Half * eff.compute < weight * x + weight
                              /\ Holding(Weighed(th), 0, e, x, 0, z, Without(d.compute, x), d.io,
                                         Without(d.memory, z))
<1> DEFINE d == Cores!Desired(th)
           eff == Cores!Effective(th)
           weight == eff.compute + eff.memory
           h == Cores!Half
           x == (h * eff.compute) \div weight
           z == h - x
           e == MAX_CORES - h
           b == Cores!Assign(Start(th), "compute", "P", x)
           b2 == Cores!Assign(b, "memory", "P", z)
<1>1. h \in Nat /\ e \in Nat
  BY HalfBounds
<1>2. d.compute \in Nat /\ d.io \in Nat /\ d.memory \in Nat
  BY DesiredSums DEF Counts3, Cores!Classes
<1>3. eff.compute \in Nat /\ eff.memory \in Nat /\ weight \in Nat
  BY EffectiveThreads
<1>4. Holding(Start(th), h, e, 0, 0, 0, d.compute, d.io, d.memory)
  BY StartHolds
<1>5. weight = 0 => Weighed(th) = Start(th)
  BY Zenon DEF Weighed
<1>6. weight > 0 => Weighed(th) = b2
  <2>1. weight > 0 => weight # 0
    BY <1>3
  <2> QED
    BY <2>1, Zenon DEF Weighed
<1> HIDE DEF h, eff, d
<1>7. ASSUME weight > 0
      PROVE  /\ x \in Nat /\ z \in Nat /\ weight * x <= h * eff.compute
             /\ h * eff.compute < weight * x + weight
  <2> DEFINE c == h * eff.compute
  <2>1. c \in Nat /\ weight \in Nat \ {0}
    BY <1>1, <1>3, <1>7
  <2>2. c <= h * weight
    <3>1. h * weight = h * eff.compute + h * eff.memory /\ h * eff.memory \in Nat
      BY <1>1, <1>3
    <3> QED
      BY <2>1, <3>1
  <2> HIDE DEF c, weight
  <2>3. c \div weight \in Nat /\ c % weight \in 0..weight - 1 /\ c = weight * (c \div weight) + (c % weight)
    BY <2>1, DivMod
  <2>4. PICK q, r : q = c \div weight /\ r = c % weight
    OBVIOUS
  <2>5. q \in Nat /\ r \in 0..weight - 1 /\ c = weight * q + r /\ x = q
    BY <2>3, <2>4 DEF c
  <2>6. weight * q <= c /\ c < weight * q + weight
    BY <2>1, <2>5
  <2>7. q <= h
    <3>1. SUFFICES ASSUME q >= h + 1
                   PROVE  FALSE
      BY <1>1, <2>5
    <3>2. weight * q >= weight * (h + 1)
      BY <1>1, <2>1, <2>5, <3>1
    <3>3. weight * (h + 1) = h * weight + weight
      BY <1>1, <2>1
    <3>4. weight * q \in Int /\ weight * (h + 1) \in Int /\ h * weight \in Int
      BY <1>1, <2>1, <2>5
    <3> QED
      BY <2>1, <2>2, <2>6, <3>2, <3>3, <3>4
  <2> QED
    BY <1>1, <2>1, <2>5, <2>6, <2>7 DEF c
<1>8. ASSUME weight > 0
      PROVE  Holding(b2, 0, e, x, 0, z, Without(d.compute, x), d.io, Without(d.memory, z))
  <2>0. /\ "compute" \in Cores!Classes /\ "memory" \in Cores!Classes /\ "P" \in Sides
    BY DEF Cores!Classes, Sides
  <2>1. x \in Nat /\ z \in Nat /\ z = h - x
    BY <1>7, <1>8
  <2> HIDE DEF x, z
  <2>2. Least(x, h) = x /\ Least(z, z) = z /\ z - z = 0
    BY <1>1, <2>1 DEF Least
  <2>3. Without(d.compute, x) \in Nat
    BY <1>2, <2>1 DEF Without
  <2>4. Holding(b, z, e, x, 0, 0, Without(d.compute, x), d.io, d.memory)
    BY <1>1, <1>2, <1>4, <2>0, <2>1, <2>2, AssignHolds
  <2> HIDE DEF b, e
  <2>5. Holding(b2, z - z, e, x, 0, 0 + z, Without(d.compute, x), d.io, Without(d.memory, z))
    BY <1>1, <1>2, <2>0, <2>1, <2>2, <2>3, <2>4, AssignHolds
  <2>6. 0 + z = z
    BY <2>1
  <2> QED
    BY <2>2, <2>5, <2>6
<1> QED
  BY <1>4, <1>5, <1>6, <1>7, <1>8 DEF h, eff, d

(* Nothing weighs anything: compute is not active.                         *)
DealtUnweighed(t, h, e, i, m) ==
  /\ h - t[2] - t[3] - t[4] = 0 /\ e - t[1] - t[5] - t[6] = 0
  /\ i > 0 => t[1] + t[2] > 0
  /\ m > 0 => t[4] + t[6] > 0

LEMMA TakenUnweighed ==
  ASSUME NEW h \in Nat, NEW e \in Nat, NEW i \in Nat, NEW m \in Nat, i + m = h + e, e >= 1,
         NEW t, TakenAre(t, h, e, 0, i, m)
  PROVE  DealtUnweighed(t, h, e, i, m)
<1>1. PICK a \in Nat, b \in Nat, c \in Nat, d \in Nat, f \in Nat, g \in Nat :
        t[1] = a /\ t[2] = b /\ t[3] = c /\ t[4] = d /\ t[5] = f /\ t[6] = g
  <2>1. \A j \in 1..6 : t[j] \in Nat
    BY DEF TakenAre
  <2>2. t[1] \in Nat /\ t[2] \in Nat /\ t[3] \in Nat /\ t[4] \in Nat /\ t[5] \in Nat /\ t[6] \in Nat
    BY <2>1
  <2> QED
    BY <2>2, Zenon
<1>2. /\ a = Least(i, e) /\ b = Least(i - a, h)
      /\ c = Least(0, h - b) /\ d = Least(m, h - b - c)
      /\ f = Least(0 - c, e - a) /\ g = Least(m - d, e - a - f)
  BY <1>1 DEF TakenAre
<1>3. /\ h - b - c - d = 0 /\ e - a - f - g = 0
      /\ i > 0 => a + b > 0
      /\ m > 0 => d + g > 0
  BY <1>2 DEF Least
<1> QED
  BY <1>1, <1>3 DEF DealtUnweighed

(* The P-cores are gone, x of them to compute and z to memory.             *)
DealtWeighed(t, e, x, z, dc, i, dm) ==
  /\ 0 - t[2] - t[3] - t[4] = 0 /\ e - t[1] - t[5] - t[6] = 0
  /\ i > 0 => t[1] + t[2] > 0
  /\ dc > 0 /\ x + t[3] + t[5] = 0 => x = 0 /\ i > 0
  /\ dm > 0 /\ z + t[4] + t[6] = 0 => z = 0 /\ (dc > 0 => i > 0)

LEMMA TakenWeighed ==
  ASSUME NEW h \in Nat, NEW e \in Nat, NEW x \in Nat, NEW z \in Nat, x + z = h, e >= 1, h >= 1,
         NEW dc \in Nat, NEW i \in Nat, NEW dm \in Nat, dc + i + dm = h + e,
         NEW t, TakenAre(t, 0, e, Without(dc, x), i, Without(dm, z))
  PROVE  DealtWeighed(t, e, x, z, dc, i, dm)
<1>1. PICK a \in Nat, b \in Nat, c \in Nat, d \in Nat, f \in Nat, g \in Nat :
        t[1] = a /\ t[2] = b /\ t[3] = c /\ t[4] = d /\ t[5] = f /\ t[6] = g
  <2>1. \A j \in 1..6 : t[j] \in Nat
    BY DEF TakenAre
  <2>2. t[1] \in Nat /\ t[2] \in Nat /\ t[3] \in Nat /\ t[4] \in Nat /\ t[5] \in Nat /\ t[6] \in Nat
    BY <2>1
  <2> QED
    BY <2>2, Zenon
<1>2. PICK wc \in Nat, wm \in Nat : wc = Without(dc, x) /\ wm = Without(dm, z)
  <2>1. Without(dc, x) \in Nat /\ Without(dm, z) \in Nat
    BY DEF Without
  <2> QED
    BY <2>1, Zenon
<1>3. /\ a = Least(i, e) /\ b = Least(i - a, 0)
      /\ c = Least(wc, 0 - b) /\ d = Least(wm, 0 - b - c)
      /\ f = Least(wc - c, e - a) /\ g = Least(wm - d, e - a - f)
  BY <1>1, <1>2 DEF TakenAre
<1>4. a <= i /\ a <= e /\ b = 0 /\ c = 0 /\ d = 0
  <2>1. a <= i /\ a <= e
    BY <1>3 DEF Least
  <2>2. b = 0
    BY <1>3, <2>1 DEF Least
  <2>3. c = 0
    <3>1. 0 - b = 0
      BY <2>2
    <3>2. c = Least(wc, 0)
      BY <1>3, <3>1
    <3> QED
      BY <3>2 DEF Least
  <2>4. d = 0
    BY <1>3, <2>2, <2>3 DEF Least
  <2> QED
    BY <2>1, <2>2, <2>3, <2>4
<1>5. f = Least(wc, e - a) /\ g = Least(wm, e - a - f)
  BY <1>3, <1>4
<1>6. wc >= dc - x /\ wm >= dm - z /\ (dc >= x => wc = dc - x) /\ (dm >= z => wm = dm - z)
  BY <1>2 DEF Without
<1>7. wc + i + wm >= e
  BY <1>6
<1>8. e - a - f - g = 0 /\ (i > 0 => a > 0)
  BY <1>3, <1>4, <1>5, <1>7 DEF Least
<1>9. ASSUME dc > 0, x + f = 0
      PROVE  x = 0 /\ i > 0
  <2>1. x = 0 /\ f = 0 /\ wc > 0
    BY <1>6, <1>9
  <2>2. e - a = 0
    BY <1>4, <1>5, <2>1 DEF Least
  <2> QED
    BY <1>4, <2>1, <2>2
<1>10. ASSUME dm > 0, z + g = 0
       PROVE  z = 0 /\ (dc > 0 => i > 0)
  <2>1. z = 0 /\ g = 0 /\ x = h /\ wm = dm
    BY <1>6, <1>10
  <2>2. e - a - f = 0
    BY <1>4, <1>5, <1>8, <2>1
  <2>3. ASSUME i = 0
        PROVE  dc = 0
    <3>1. a = 0 /\ f = e /\ wc >= e
      BY <1>4, <1>5, <2>2, <2>3 DEF Least
    <3>2. wc = dc - h
      BY <1>2, <2>1, <3>1 DEF Without
    <3> QED
      BY <1>10, <2>3, <3>1, <3>2
  <2> QED
    BY <2>1, <2>3
<1>11. /\ 0 - b - c - d = 0 /\ e - a - f - g = 0 /\ (i > 0 => a + b > 0)
       /\ dc > 0 /\ x + c + f = 0 => x = 0 /\ i > 0
       /\ dm > 0 /\ z + d + g = 0 => z = 0 /\ (dc > 0 => i > 0)
  BY <1>4, <1>8, <1>9, <1>10
<1> QED
  BY <1>1, <1>11 DEF DealtWeighed

LEMMA RoundDeals ==
  ASSUME NEW th \in Counts3, Cores!Active(th) # {}
  PROVE  LET b == Takings(Weighed(th))
         IN  /\ b \in Boards /\ Apart(b) /\ Everywhere(b)
             /\ \A s \in Sides : Len(b.free[s]) = 0
             /\ Len(b.cores["compute"]) + Len(b.cores["io"]) + Len(b.cores["memory"]) = MAX_CORES
             /\ ~ Cores!Squeezed(th) => \A k \in Cores!Active(th) : Len(b.cores[k]) > 0
<1> DEFINE b == Takings(Weighed(th))
           d == Cores!Desired(th)
           eff == Cores!Effective(th)
           weight == eff.compute + eff.memory
           h == Cores!Half
           e == MAX_CORES - h
           x == (h * eff.compute) \div weight
           z == h - x
<1>1. /\ h \in Nat /\ h >= 1 /\ e \in Nat /\ e >= 1 /\ h + e = MAX_CORES
  BY HalfBounds
<1>2. PICK dc \in Nat, di \in Nat, dm \in Nat : d.compute = dc /\ d.io = di /\ d.memory = dm
  <2>1. d.compute \in Nat /\ d.io \in Nat /\ d.memory \in Nat
    BY DesiredSums DEF Counts3, Cores!Classes
  <2> QED
    BY <2>1, Zenon
<1>3. /\ dc + di + dm = h + e
      /\ (dc > 0 <=> th.compute > 0) /\ (di > 0 <=> th.io > 0) /\ (dm > 0 <=> th.memory > 0)
  <2>1. dc + di + dm = MAX_CORES
    BY <1>2, DesiredSums
  <2>2. \A k \in Cores!Classes : d[k] > 0 <=> th[k] > 0
    BY DesiredSums
  <2>3. /\ (dc > 0 <=> th.compute > 0) /\ (di > 0 <=> th.io > 0) /\ (dm > 0 <=> th.memory > 0)
    BY <1>2, <2>2 DEF Cores!Classes
  <2> QED
    BY <1>1, <2>1, <2>3
<1>4. /\ eff.compute = th.compute /\ th.compute \in Nat /\ th.io \in Nat /\ th.memory \in Nat
      /\ eff.memory \in Nat /\ (th.memory = 0 => eff.memory = 0)
  BY EffectiveThreads
<1>5. /\ weight = 0 => Holding(Weighed(th), h, e, 0, 0, 0, dc, di, dm)
      /\ weight > 0 => /\ x \in Nat /\ z \in Nat /\ weight * x <= h * eff.compute
                       /\ h * eff.compute < weight * x + weight
                       /\ Holding(Weighed(th), 0, e, x, 0, z, Without(dc, x), di, Without(dm, z))
  BY <1>2, WeighedHolds
<1>6. \A k \in Cores!Active(th) : \/ k = "compute" /\ th.compute > 0
                                  \/ k = "io" /\ th.io > 0
                                  \/ k = "memory" /\ th.memory > 0
  BY DEF Cores!Active, Cores!Classes
<1>7. Cores!Squeezed(th) <=> /\ th.compute > 0 /\ th.io > 0 /\ th.memory > 0
                             /\ eff.memory = 0 \/ h * eff.compute < weight
  <2>1. Cores!Active(th) = Cores!Classes <=> th.compute > 0 /\ th.io > 0 /\ th.memory > 0
    BY DEF Cores!Active, Cores!Classes
  <2> QED
    BY <2>1 DEF Cores!Squeezed
<1> HIDE DEF h, e, d, eff
<1>8. CASE weight = 0
  <2>1. eff.compute = 0 /\ th.compute = 0 /\ dc = 0
    BY <1>3, <1>4, <1>8
  <2>2. PICK t :
          /\ TakenAre(t, h, e, 0, di, dm)
          /\ Holding(b, h - t[2] - t[3] - t[4], e - t[1] - t[5] - t[6],
                     0 + t[3] + t[5], 0 + t[1] + t[2], 0 + t[4] + t[6],
                     0 - t[3] - t[5], di - t[1] - t[2], dm - t[4] - t[6])
    <3>1. Holding(Weighed(th), h, e, 0, 0, 0, 0, di, dm)
      BY <1>5, <1>8, <2>1
    <3>2. 0 \in Nat
      OBVIOUS
    <3>3. Ends(Weighed(th), h, e, 0, 0, 0, 0, di, dm)
      BY <1>1, <3>1, <3>2, TakingsHold, Zenon
    <3> QED
      BY <3>3 DEF Ends
  <2>3. PICK t1 \in Nat, t2 \in Nat, t3 \in Nat, t4 \in Nat, t5 \in Nat, t6 \in Nat :
          t[1] = t1 /\ t[2] = t2 /\ t[3] = t3 /\ t[4] = t4 /\ t[5] = t5 /\ t[6] = t6
    <3>0. \A j \in 1..6 : t[j] \in Nat
      BY <2>2 DEF TakenAre
    <3>1. t[1] \in Nat /\ t[2] \in Nat /\ t[3] \in Nat /\ t[4] \in Nat /\ t[5] \in Nat /\ t[6] \in Nat
      BY <3>0
    <3> QED
      BY <3>1, Zenon
  <2>4. /\ h - t2 - t3 - t4 = 0 /\ e - t1 - t5 - t6 = 0
        /\ di > 0 => t1 + t2 > 0
        /\ dm > 0 => t4 + t6 > 0
    <3>1. di + dm = h + e
      BY <1>3, <2>1
    <3>2. DealtUnweighed(t, h, e, di, dm)
      <4>1. TakenAre(t, h, e, 0, di, dm)
        BY <2>2
      <4>2. di \in Nat /\ dm \in Nat /\ e >= 1 /\ h \in Nat /\ e \in Nat
        BY <1>1
      <4> QED
        BY <3>1, <4>1, <4>2, TakenUnweighed, Zenon
    <3> QED
      BY <2>3, <3>2 DEF DealtUnweighed
  <2>5. /\ b \in Boards /\ Apart(b) /\ Everywhere(b)
        /\ Len(b.free["P"]) = 0 /\ Len(b.free["E"]) = 0
        /\ Len(b.cores["compute"]) = t3 + t5
        /\ Len(b.cores["io"]) = t1 + t2 /\ Len(b.cores["memory"]) = t4 + t6
    <3> HIDE DEF b
    <3>1. 0 + t3 = t3 /\ 0 + t1 = t1 /\ 0 + t4 = t4
      OBVIOUS
    <3> QED
      BY <2>2, <2>3, <2>4, <3>1 DEF Holding
  <2> HIDE DEF b
  <2>6. (t3 + t5) + (t1 + t2) + (t4 + t6) = MAX_CORES
    BY <1>1, <2>4
  <2>7. ASSUME NEW k \in Cores!Active(th)
        PROVE  Len(b.cores[k]) > 0
    <3>1. (k = "io" /\ di > 0) \/ (k = "memory" /\ dm > 0)
      BY <1>3, <1>6, <2>1
    <3> QED
      BY <2>4, <2>5, <3>1
  <2> QED
    BY <2>5, <2>6, <2>7 DEF Sides, b
<1>9. CASE weight > 0
  <2> HIDE DEF b
  <2>1. /\ x \in Nat /\ z \in Nat /\ weight * x <= h * eff.compute
        /\ h * eff.compute < weight * x + weight
        /\ Holding(Weighed(th), 0, e, x, 0, z, Without(dc, x), di, Without(dm, z))
    BY <1>5, <1>9
  <2>2. x + z = h
    BY <1>1, <2>1
  <2> HIDE DEF x, z
  <2>3. PICK t :
          /\ TakenAre(t, 0, e, Without(dc, x), di, Without(dm, z))
          /\ Holding(b, 0 - t[2] - t[3] - t[4], e - t[1] - t[5] - t[6],
                     x + t[3] + t[5], 0 + t[1] + t[2], z + t[4] + t[6],
                     Without(dc, x) - t[3] - t[5], di - t[1] - t[2], Without(dm, z) - t[4] - t[6])
    <3>1. Without(dc, x) \in Nat /\ Without(dm, z) \in Nat /\ 0 \in Nat
      BY <2>1 DEF Without
    <3>2. Ends(Weighed(th), 0, e, x, 0, z, Without(dc, x), di, Without(dm, z))
      BY <1>1, <2>1, <3>1, TakingsHold, Zenon
    <3> QED
      BY <3>2 DEF Ends, b
  <2>4. PICK t1 \in Nat, t2 \in Nat, t3 \in Nat, t4 \in Nat, t5 \in Nat, t6 \in Nat :
          t[1] = t1 /\ t[2] = t2 /\ t[3] = t3 /\ t[4] = t4 /\ t[5] = t5 /\ t[6] = t6
    <3>0. \A j \in 1..6 : t[j] \in Nat
      BY <2>3 DEF TakenAre
    <3>1. t[1] \in Nat /\ t[2] \in Nat /\ t[3] \in Nat /\ t[4] \in Nat /\ t[5] \in Nat /\ t[6] \in Nat
      BY <3>0
    <3> QED
      BY <3>1, Zenon
  <2>5. /\ 0 - t2 - t3 - t4 = 0 /\ e - t1 - t5 - t6 = 0
        /\ di > 0 => t1 + t2 > 0
        /\ dc > 0 /\ x + t3 + t5 = 0 => x = 0 /\ di > 0
        /\ dm > 0 /\ z + t4 + t6 = 0 => z = 0 /\ (dc > 0 => di > 0)
    <3>1. DealtWeighed(t, e, x, z, dc, di, dm)
      <4>1. TakenAre(t, 0, e, Without(dc, x), di, Without(dm, z))
        BY <2>3
      <4>2. /\ h \in Nat /\ e \in Nat /\ h >= 1 /\ e >= 1 /\ x \in Nat /\ z \in Nat
            /\ x + z = h /\ dc + di + dm = h + e
        BY <1>1, <1>3, <2>1, <2>2
      <4> QED
        BY <4>1, <4>2, TakenWeighed, Zenon
    <3> QED
      BY <2>4, <3>1 DEF DealtWeighed
  <2>6. /\ b \in Boards /\ Apart(b) /\ Everywhere(b)
        /\ Len(b.free["P"]) = 0 /\ Len(b.free["E"]) = 0
        /\ Len(b.cores["compute"]) = x + t3 + t5
        /\ Len(b.cores["io"]) = t1 + t2 /\ Len(b.cores["memory"]) = z + t4 + t6
    <3>1. 0 + t1 = t1
      OBVIOUS
    <3> QED
      BY <2>3, <2>4, <2>5, <3>1 DEF Holding
  <2>7. (x + t3 + t5) + (t1 + t2) + (z + t4 + t6) = MAX_CORES
    BY <1>1, <2>1, <2>2, <2>5
  <2>8. ASSUME NEW k \in Cores!Active(th), ~ Len(b.cores[k]) > 0
        PROVE  Cores!Squeezed(th)
    <3>1. CASE k = "io"
      BY <1>3, <1>6, <2>5, <2>6, <2>8, <3>1
    <3>2. CASE k = "compute"
      <4>1. dc > 0 /\ x + t3 + t5 = 0
        <5>1. dc > 0
          BY <1>3, <1>6, <3>2
        <5>2. ~ x + t3 + t5 > 0
          BY <2>6, <2>8, <3>2
        <5> QED
          BY <2>1, <5>1, <5>2
      <4>2. x = 0 /\ di > 0
        BY <2>5, <4>1
      <4>3. h * eff.compute < weight
        BY <1>4, <2>1, <4>2
      <4>4. th.memory > 0
        <5>1. SUFFICES ASSUME th.memory = 0
                       PROVE  FALSE
          BY <1>4
        <5>2. eff.memory = 0 /\ weight = eff.compute
          BY <1>4, <5>1
        <5> QED
          BY <1>1, <1>4, <4>3, <5>2
      <4> QED
        BY <1>3, <1>7, <4>1, <4>2, <4>3, <4>4
    <3>3. CASE k = "memory"
      <4>1. dm > 0 /\ z + t4 + t6 = 0
        <5>1. dm > 0
          BY <1>3, <1>6, <3>3
        <5>2. ~ z + t4 + t6 > 0
          BY <2>6, <2>8, <3>3
        <5> QED
          BY <2>1, <5>1, <5>2
      <4>2. z = 0 /\ (dc > 0 => di > 0) /\ x = h
        BY <1>1, <2>1, <2>2, <2>5, <4>1
      <4>3. eff.memory = 0
        <5>1. weight * h <= h * eff.compute
          BY <2>1, <4>2
        <5>2. weight * h = h * eff.compute + h * eff.memory
          BY <1>1, <1>4
        <5>3. SUFFICES ASSUME eff.memory >= 1
                       PROVE  FALSE
          BY <1>4
        <5>4. h * eff.memory >= 1
          BY <1>1, <1>4, <5>3
        <5>5. h * eff.compute \in Int /\ h * eff.memory \in Int
          BY <1>1, <1>4
        <5> QED
          BY <5>1, <5>2, <5>4, <5>5
      <4>4. th.compute > 0
        BY <1>4, <1>9, <4>3
      <4> QED
        BY <1>3, <1>7, <4>1, <4>2, <4>3, <4>4
    <3> QED
      BY <1>6, <3>1, <3>2, <3>3
  <2> QED
    BY <2>6, <2>7, <2>8 DEF Sides, b
<1>10. weight = 0 \/ weight > 0
  BY <1>4
<1> QED
  BY <1>8, <1>9, <1>10

(* The lists a round ends with hold every core, and each in one place; no  *)
(* active class is without a core unless the round is squeezed.            *)
LEMMA ListsHoldAll ==
  ASSUME NEW th \in Counts3, Cores!Active(th) # {}
  PROVE  LET c == Cores!Allocate(th)
         IN  /\ c \in [Cores!Classes -> Seq(0..MAX_CORES - 1)]
             /\ \A v \in 0..MAX_CORES - 1 : \E k \in Cores!Classes :
                  /\ v \in Reading!ToSet(c[k])
                  /\ \A l \in Cores!Classes \ {k} : v \notin Reading!ToSet(c[l])
             /\ Len(c["compute"]) + Len(c["io"]) + Len(c["memory"]) = MAX_CORES
             /\ Cores!Starved(th, c) # {} => Cores!Squeezed(th)
<1> DEFINE b == Takings(Weighed(th))
           c == Cores!Allocate(th)
           N == 0..MAX_CORES - 1
<1>1. c = b.cores
  BY Zenon DEF Cores!Allocate, Takings, Weighed, Start
<1>2. /\ b \in Boards /\ Apart(b) /\ Everywhere(b)
      /\ \A s \in Sides : Len(b.free[s]) = 0
      /\ Len(b.cores["compute"]) + Len(b.cores["io"]) + Len(b.cores["memory"]) = MAX_CORES
      /\ ~ Cores!Squeezed(th) => \A k \in Cores!Active(th) : Len(b.cores[k]) > 0
  BY RoundDeals
<1> HIDE DEF b, c
<1>3. \A k \in Cores!Classes : c[k] \in Seq(Int)
  BY <1>1, <1>2 DEF Boards
<1>4. \A s \in Sides : Reading!ToSet(b.free[s]) = {}
  <2> SUFFICES ASSUME NEW s \in Sides
               PROVE  Reading!ToSet(b.free[s]) = {}
    OBVIOUS
  <2>1. b.free[s] \in Seq(Int) /\ Len(b.free[s]) = 0
    BY <1>2 DEF Boards
  <2>2. DOMAIN b.free[s] = {}
    BY <2>1
  <2> QED
    BY <2>2 DEF Reading!ToSet
<1>5. \A v : v \in N <=> \E k \in Cores!Classes : v \in Reading!ToSet(c[k])
  BY <1>1, <1>2, <1>4 DEF Everywhere
<1>6. c \in [Cores!Classes -> Seq(N)]
  <2>1. ASSUME NEW k \in Cores!Classes
        PROVE  c[k] \in Seq(N)
    <3>1. DOMAIN c[k] = 1..Len(c[k]) /\ Len(c[k]) \in Nat
      BY <1>3
    <3>2. \A j \in 1..Len(c[k]) : c[k][j] \in Reading!ToSet(c[k])
      BY <3>1 DEF Reading!ToSet
    <3>3. \A j \in 1..Len(c[k]) : c[k][j] \in N
      BY <1>5, <3>2
    <3> HIDE DEF N
    <3> QED
      BY <1>3, <3>1, <3>3
  <2>2. c = [k \in Cores!Classes |-> c[k]]
    BY <1>1, <1>2 DEF Boards
  <2> HIDE DEF N
  <2> QED
    BY <2>1, <2>2
<1>7. \A k, l \in Cores!Classes : k # l => Reading!ToSet(c[k]) \cap Reading!ToSet(c[l]) = {}
  BY <1>1, <1>2 DEF Apart
<1>8. ASSUME NEW v \in N
      PROVE  \E k \in Cores!Classes :
               /\ v \in Reading!ToSet(c[k])
               /\ \A l \in Cores!Classes \ {k} : v \notin Reading!ToSet(c[l])
  <2>1. PICK k \in Cores!Classes : v \in Reading!ToSet(c[k])
    BY <1>5
  <2>2. \A l \in Cores!Classes \ {k} : v \notin Reading!ToSet(c[l])
    BY <1>7, <2>1
  <2> QED
    BY <2>1, <2>2
<1>9. ASSUME Cores!Starved(th, c) # {}
      PROVE  Cores!Squeezed(th)
  <2>1. PICK k \in Cores!Active(th) : c[k] = <<>>
    BY <1>9 DEF Cores!Starved
  <2>2. ~ Len(b.cores[k]) > 0
    BY <1>1, <2>1
  <2> QED
    BY <1>2, <2>2
<1> QED
  BY <1>1, <1>2, <1>6, <1>8, <1>9 DEF c

(* The daemon sees an overlap exactly when a class was left without cores. *)
LEMMA OverlapIsStarvation ==
  ASSUME NEW th \in Counts3, Cores!Active(th) # {}
  PROVE  LET c == Cores!Allocate(th)
         IN  Cores!Overlap(th, c) <=> Cores!Starved(th, c) # {}
<1> DEFINE c == Cores!Allocate(th)
           n == MAX_CORES
           N == 0..n - 1
           S == Cores!Starved(th, c)
           lists == [k \in Cores!Classes |-> IF k \in S THEN <<0>> ELSE c[k]]
           two == lists["compute"] \o lists["io"]
           three == two \o lists["memory"]
<1>1. n \in Nat /\ 0 \in N
  BY CoresAssumption
<1>2. /\ c \in [Cores!Classes -> Seq(N)]
      /\ \A v \in N : \E k \in Cores!Classes :
           /\ v \in Reading!ToSet(c[k])
           /\ \A l \in Cores!Classes \ {k} : v \notin Reading!ToSet(c[l])
      /\ Len(c["compute"]) + Len(c["io"]) + Len(c["memory"]) = n
  BY ListsHoldAll
<1> HIDE DEF c
<1>3. S \subseteq Cores!Classes /\ \A k \in S : c[k] = <<>>
  BY DEF Cores!Starved, Cores!Active
<1>4. Cores!Overlap(th, c) <=> Len(three) > Cores!Cardinality(Cores!ToSet(three)) \/ Len(three) > n
  BY DEF Cores!Overlap
<1> HIDE DEF S, N, n
<1>5. <<0>> \in Seq(N) /\ Len(<<0>>) = 1
  BY <1>1
<1>6. \A k \in Cores!Classes : /\ lists[k] \in Seq(N)
                               /\ Len(lists[k]) = IF k \in S THEN 1 ELSE Len(c[k])
                               /\ k \in S => Len(c[k]) = 0
                               /\ Len(c[k]) \in Nat
  <2> SUFFICES ASSUME NEW k \in Cores!Classes
               PROVE  /\ lists[k] \in Seq(N)
                      /\ Len(lists[k]) = IF k \in S THEN 1 ELSE Len(c[k])
                      /\ k \in S => Len(c[k]) = 0
                      /\ Len(c[k]) \in Nat
    OBVIOUS
  <2>1. c[k] \in Seq(N)
    BY <1>2
  <2>2. lists[k] = IF k \in S THEN <<0>> ELSE c[k]
    OBVIOUS
  <2>3. k \in S => Len(c[k]) = 0
    BY <1>3
  <2> HIDE DEF lists
  <2> QED
    BY <1>5, <2>1, <2>2, <2>3
<1>7. "compute" \in Cores!Classes /\ "io" \in Cores!Classes /\ "memory" \in Cores!Classes
  BY DEF Cores!Classes
<1>8. /\ two \in Seq(N) /\ Len(two) = Len(lists["compute"]) + Len(lists["io"])
      /\ Reading!ToSet(two) = Reading!ToSet(lists["compute"]) \cup Reading!ToSet(lists["io"])
  <2>1. lists["compute"] \in Seq(N) /\ lists["io"] \in Seq(N)
    BY <1>6, <1>7
  <2> HIDE DEF lists
  <2> QED
    BY <2>1, ConcatProperties, ConcatHolds
<1>9. /\ three \in Seq(N) /\ Len(three) = Len(two) + Len(lists["memory"])
      /\ Reading!ToSet(three) = Reading!ToSet(two) \cup Reading!ToSet(lists["memory"])
  <2>1. two \in Seq(N) /\ lists["memory"] \in Seq(N)
    BY <1>6, <1>7, <1>8
  <2> HIDE DEF lists, two
  <2> QED
    BY <2>1, ConcatProperties, ConcatHolds
<1> HIDE DEF two, three
<1>10. Len(three) = Len(lists["compute"]) + Len(lists["io"]) + Len(lists["memory"])
  BY <1>8, <1>9
<1>11. CASE S = {}
  <2>1. \A k \in Cores!Classes : lists[k] = c[k]
    BY <1>11
  <2> HIDE DEF lists
  <2>2. Len(three) = n
    BY <1>2, <1>7, <1>10, <2>1
  <2>3. Reading!ToSet(three) = N
    <3>1. Reading!ToSet(three) = Reading!ToSet(c["compute"]) \cup Reading!ToSet(c["io"])
                                   \cup Reading!ToSet(c["memory"])
      BY <1>7, <1>8, <1>9, <2>1
    <3>2. N \subseteq Reading!ToSet(three)
      BY <1>2, <3>1 DEF Cores!Classes
    <3>3. DOMAIN three = 1..Len(three) /\ \A j \in 1..Len(three) : three[j] \in N
      BY <1>9
    <3>4. Reading!ToSet(three) \subseteq N
      BY <3>3 DEF Reading!ToSet
    <3> QED
      BY <3>2, <3>4
  <2>4. Cores!Cardinality(Cores!ToSet(three)) = n
    <3>1. 0 \in Int /\ n - 1 \in Int
      BY <1>1
    <3>2. Cardinality(0..n - 1) = IF 0 > n - 1 THEN 0 ELSE n - 1 - 0 + 1
      BY <3>1, FS_Interval
    <3>3. Cardinality(N) = n
      BY <1>1, <3>2 DEF N
    <3>4. \A T : Cores!Cardinality(T) = Cardinality(T)
      BY Zenon DEF Cores!Cardinality, Cardinality
    <3>5. Cores!ToSet(three) = N
      BY <2>3, SameLists
    <3> QED
      BY <3>3, <3>4, <3>5
  <2>5. ~ (n > n)
    BY <1>1
  <2>6. ~ Cores!Overlap(th, c)
    BY <1>4, <2>2, <2>4, <2>5
  <2> QED
    BY <1>11, <2>6 DEF S, c
<1>12. CASE S # {}
  <2>1. PICK k \in Cores!Classes : k \in S
    BY <1>3, <1>12
  <2>2. /\ Len(lists["compute"]) = IF "compute" \in S THEN 1 ELSE Len(c["compute"])
        /\ Len(lists["io"]) = IF "io" \in S THEN 1 ELSE Len(c["io"])
        /\ Len(lists["memory"]) = IF "memory" \in S THEN 1 ELSE Len(c["memory"])
        /\ "compute" \in S => Len(c["compute"]) = 0
        /\ "io" \in S => Len(c["io"]) = 0
        /\ "memory" \in S => Len(c["memory"]) = 0
        /\ Len(c["compute"]) \in Nat /\ Len(c["io"]) \in Nat /\ Len(c["memory"]) \in Nat
    BY <1>6, <1>7
  <2>3. "compute" \in S \/ "io" \in S \/ "memory" \in S
    BY <2>1 DEF Cores!Classes
  <2> HIDE DEF lists
  <2>4. Len(three) > n
    <3>1. PICK x \in Nat, y \in Nat, z \in Nat :
            Len(c["compute"]) = x /\ Len(c["io"]) = y /\ Len(c["memory"]) = z
      BY <2>2, Zenon
    <3>2. x + y + z = n
      BY <1>2, <3>1
    <3>3. PICK p \in Nat, q \in Nat, r \in Nat :
            /\ Len(lists["compute"]) = p /\ Len(lists["io"]) = q /\ Len(lists["memory"]) = r
            /\ p >= x /\ q >= y /\ r >= z /\ (p > x \/ q > y \/ r > z)
      <4>1. /\ Len(lists["compute"]) \in Nat /\ Len(lists["io"]) \in Nat /\ Len(lists["memory"]) \in Nat
            /\ Len(lists["compute"]) >= x /\ Len(lists["io"]) >= y /\ Len(lists["memory"]) >= z
            /\ (\/ Len(lists["compute"]) > x \/ Len(lists["io"]) > y \/ Len(lists["memory"]) > z)
        BY <2>2, <2>3, <3>1
      <4> QED
        BY <4>1, Zenon
    <3>4. p + q + r > n
      BY <3>2, <3>3
    <3> QED
      BY <1>10, <3>3, <3>4
  <2> QED
    BY <1>4, <1>12, <2>4 DEF S, c
<1> QED
  BY <1>11, <1>12

-----------------------------------------------------------------------------
(* The masks.                                                              *)
Covered(m) == \A v \in 0..MAX_CORES - 1 : \E k \in Cores!Classes : v \in Cores!set_affinity(m[k])

(* What is kept from the last round is nothing or the whole machine.       *)
CoresInv == prev_masks = Cores!NoMasks \/ Covered(prev_masks)

LEMMA PrintedMasks ==
  ASSUME NEW c \in Seq(0..MAX_CORES - 1)
  PROVE  Cores!set_affinity(Cores!cores_to_string(c)) = Reading!ToSet(c)
<1> DEFINE r == Reading!cores_to_string(c)
<1>1. MAX_CORES \in Nat
  BY CoresAssumption
<1>2. r \in Seq(Reading!Token) /\ MeantBy(MAX_CORES, r) = Reading!ToSet(c)
  BY <1>1, PrintedString
<1> HIDE DEF r
<1>3. Cores!set_affinity(r) = MeantBy(MAX_CORES, r)
  BY <1>2, MeaningIsMeant
<1>4. Cores!cores_to_string(c) = r
  BY SameLists DEF r
<1> QED
  BY <1>2, <1>3, <1>4

LEMMA IdleMasksCover == Covered(Cores!IdleMasks)
<1> DEFINE h == Cores!Half
           n == MAX_CORES
<1>1. h \in Nat /\ n \in Nat /\ h <= n
  BY HalfBounds
<1>2. /\ Cores!IdleMasks["compute"] = <<Reading!Span(0, h - 1)>>
      /\ Cores!IdleMasks["io"] = <<Reading!Span(h, n - 1)>>
  BY DEF Cores!IdleMasks, Cores!P_CORESET, Cores!E_CORESET, Cores!Span, Reading!Span
<1> HIDE DEF h, n
<1>3. /\ <<Reading!Span(0, h - 1)>> \in Seq(Reading!Token)
      /\ MeantBy(n, <<Reading!Span(0, h - 1)>>) = 0..h - 1
  <2>1. 0 \in Nat /\ h - 1 \in Int /\ h - 1 <= n - 1
    BY <1>1
  <2> QED
    BY <1>1, <2>1, SpanMeans
<1>4. /\ <<Reading!Span(h, n - 1)>> \in Seq(Reading!Token)
      /\ MeantBy(n, <<Reading!Span(h, n - 1)>>) = h..n - 1
  <2>1. n - 1 \in Int /\ n - 1 <= n - 1
    BY <1>1
  <2> QED
    BY <1>1, <2>1, SpanMeans
<1>5. /\ Cores!set_affinity(Cores!IdleMasks["compute"]) = 0..h - 1
      /\ Cores!set_affinity(Cores!IdleMasks["io"]) = h..n - 1
  BY <1>2, <1>3, <1>4, MeaningIsMeant DEF n
<1>6. \A v \in 0..n - 1 : v \in 0..h - 1 \/ v \in h..n - 1
  BY <1>1
<1> QED
  BY <1>5, <1>6 DEF Covered, Cores!Classes, n

(* What the daemon logs of masks that cover the machine is true.           *)
LEMMA RowIsTrue ==
  ASSUME NEW m, Covered(m)
  PROVE  LET row == Cores!log_core_allocation(m)
             h == [k \in Cores!Classes |-> Cores!set_affinity(m[k])]
         IN  \A v \in 0..MAX_CORES - 1 : v \in h[row[v]]
<1> DEFINE row == Cores!log_core_allocation(m)
           h == [k \in Cores!Classes |-> Cores!set_affinity(m[k])]
<1>1. \A v \in 0..MAX_CORES - 1 : v \in h["compute"] \/ v \in h["io"] \/ v \in h["memory"]
  BY DEF Covered, Cores!Classes
<1>2. row = [v \in 0..MAX_CORES - 1 |-> IF v \in h["memory"] THEN "memory"
                                        ELSE IF v \in h["io"] THEN "io" ELSE "compute"]
  BY DEF Cores!log_core_allocation
<1> HIDE DEF row, h
<1>3. \A v \in 0..MAX_CORES - 1 : v \in h[row[v]]
  BY <1>1, <1>2
<1> QED
  BY <1>3 DEF row, h

(* The three properties, of one step.                                      *)
Partitioned ==
  Cores!Active(threads') # {} => Cores!Kept \/
    LET h == [k \in Cores!Classes |-> Cores!set_affinity(masks'[k])]
    IN  \A c \in 0..MAX_CORES - 1 : \E k \in Cores!Classes :
          c \in h[k] /\ \A l \in Cores!Classes \ {k} : c \notin h[l]
Served ==
  Cores!Kept \/ \A k \in Cores!Active(threads') : Cores!set_affinity(masks'[k]) # {}
Told ==
  masks' # Cores!NoMasks =>
    LET row == Cores!log_core_allocation(masks')
        h == [k \in Cores!Classes |-> Cores!set_affinity(masks'[k])]
    IN  \A c \in 0..MAX_CORES - 1 : c \in h[row[c]]

LEMMA RoundStep ==
  ASSUME CoresInv, Cores!Next
  PROVE  CoresInv' /\ Partitioned /\ Served /\ Told
<1>1. PICK th \in [Cores!Classes -> ThreadCounts] : Cores!compute_dynamic_coresets(th)
  BY DEF Cores!Next
<1>2. th \in Counts3 /\ threads' = th
  BY <1>1, CoresAssumption DEF Counts3, Cores!compute_dynamic_coresets
<1>3. ASSUME masks' = Cores!NoMasks \/ Covered(masks')
      PROVE  Told
  <2>1. CASE masks' = Cores!NoMasks
    BY <2>1 DEF Told
  <2>2. CASE Covered(masks')
    <3>1. LET row == Cores!log_core_allocation(masks')
              h == [k \in Cores!Classes |-> Cores!set_affinity(masks'[k])]
          IN  \A v \in 0..MAX_CORES - 1 : v \in h[row[v]]
      BY <2>2, RowIsTrue
    <3> QED
      BY <3>1 DEF Told
  <2> QED
    BY <1>3, <2>1, <2>2
<1>4. CASE Cores!Active(th) = {}
  <2>1. masks' = Cores!IdleMasks /\ prev_masks' = masks'
    BY <1>1, <1>4 DEF Cores!compute_dynamic_coresets
  <2>2. Covered(masks') /\ Covered(prev_masks')
    BY <2>1, IdleMasksCover
  <2>3. CoresInv'
    BY <2>2 DEF CoresInv, Covered
  <2>4. Partitioned /\ Served
    BY <1>2, <1>4 DEF Partitioned, Served
  <2> QED
    BY <1>3, <2>2, <2>3, <2>4
<1>5. CASE Cores!Active(th) # {}
  <2> DEFINE c == Cores!Allocate(th)
  <2>1. /\ c \in [Cores!Classes -> Seq(0..MAX_CORES - 1)]
        /\ \A v \in 0..MAX_CORES - 1 : \E k \in Cores!Classes :
             /\ v \in Reading!ToSet(c[k])
             /\ \A l \in Cores!Classes \ {k} : v \notin Reading!ToSet(c[l])
        /\ Cores!Starved(th, c) # {} => Cores!Squeezed(th)
    BY <1>2, <1>5, ListsHoldAll
  <2>2. Cores!Overlap(th, c) <=> Cores!Starved(th, c) # {}
    BY <1>2, <1>5, OverlapIsStarvation
  <2>3. IF Cores!Overlap(th, c) THEN masks' = prev_masks /\ UNCHANGED prev_masks
        ELSE masks' = Cores!MasksOf(th, c) /\ prev_masks' = masks'
    BY <1>1, <1>5 DEF Cores!compute_dynamic_coresets
  <2> HIDE DEF c
  <2>4. CASE Cores!Overlap(th, c)
    <3>1. masks' = prev_masks /\ prev_masks' = prev_masks /\ Cores!Squeezed(th)
      BY <2>1, <2>2, <2>3, <2>4
    <3>2. Cores!Kept
      BY <1>2, <3>1 DEF Cores!Kept
    <3>3. CoresInv' /\ (masks' = Cores!NoMasks \/ Covered(masks'))
      BY <3>1 DEF CoresInv, Covered
    <3> QED
      BY <1>3, <3>2, <3>3 DEF Partitioned, Served
  <2>5. CASE ~ Cores!Overlap(th, c)
    <3>1. masks' = Cores!MasksOf(th, c) /\ prev_masks' = masks' /\ Cores!Starved(th, c) = {}
      BY <2>2, <2>3, <2>5
    <3>2. masks' = [k \in Cores!Classes |-> Cores!cores_to_string(c[k])]
      BY <3>1 DEF Cores!MasksOf
    <3>3. \A k \in Cores!Classes : Cores!set_affinity(masks'[k]) = Reading!ToSet(c[k])
      BY <2>1, <3>2, PrintedMasks
    <3>4. Partitioned
      BY <2>1, <3>3 DEF Partitioned
    <3>5. Served
      <4>1. SUFFICES ASSUME NEW k \in Cores!Active(th)
                     PROVE  Cores!set_affinity(masks'[k]) # {}
        BY <1>2 DEF Served
      <4>2. k \in Cores!Classes /\ c[k] # <<>>
        BY <3>1 DEF Cores!Starved, Cores!Active
      <4>3. c[k] \in Seq(0..MAX_CORES - 1)
        BY <2>1, <4>2
      <4>4. 1 \in DOMAIN c[k]
        BY <4>2, <4>3
      <4>5. c[k][1] \in Reading!ToSet(c[k])
        BY <4>4 DEF Reading!ToSet
      <4> QED
        BY <3>3, <4>2, <4>5
    <3>6. Covered(masks') /\ Covered(prev_masks')
      BY <2>1, <3>1, <3>3 DEF Covered
    <3>7. CoresInv'
      BY <3>6 DEF CoresInv, Covered
    <3> QED
      BY <1>3, <3>4, <3>5, <3>6, <3>7
  <2> QED
    BY <2>4, <2>5
<1> QED
  BY <1>4, <1>5

(* Every round deals the whole machine out to the classes that are active, *)
(* each core once, and logs what it dealt, for any number of cores from    *)
(* three on and any numbers of threads; only a squeezed round may keep the *)
(* masks of the one before (scheduler.c:409-650, 695-773).                 *)
THEOREM CoresDealt == ProgramSpec => CoresAreDealt
<1>1. ProgramInit => CoresInv
  BY DEF ProgramInit, Cores!Init, CoresInv
<1>2. CoresInv /\ [ProgramNext]_all => CoresInv'
  <2> SUFFICES ASSUME CoresInv, [ProgramNext]_all
               PROVE  CoresInv'
    OBVIOUS
  <2>1. CASE prev_masks' = prev_masks
    BY <2>1 DEF CoresInv, Covered
  <2>2. CASE Cores!Next
    BY <2>2, RoundStep
  <2> QED
    BY <2>1, <2>2 DEF ProgramNext, all, cores
<1>3. CoresInv /\ [ProgramNext]_all
        => [Partitioned]_Cores!vars /\ [Served]_Cores!vars /\ [Told]_Cores!vars
  <2> SUFFICES ASSUME CoresInv, [ProgramNext]_all
               PROVE  [Partitioned]_Cores!vars /\ [Served]_Cores!vars /\ [Told]_Cores!vars
    OBVIOUS
  <2>1. CASE UNCHANGED Cores!vars
    BY <2>1
  <2>2. CASE Cores!Next
    BY <2>2, RoundStep
  <2> QED
    BY <2>1, <2>2 DEF ProgramNext, all, cores, Cores!vars
<1>4. ProgramSpec => [][Partitioned]_Cores!vars /\ [][Served]_Cores!vars /\ [][Told]_Cores!vars
  BY <1>1, <1>2, <1>3, PTL DEF ProgramSpec
<1>5. [][Partitioned]_Cores!vars => Cores!CoresArePartitioned
  BY PTL DEF Cores!CoresArePartitioned, Partitioned
<1>6. [][Served]_Cores!vars => Cores!NoClassIsStarved
  BY PTL DEF Cores!NoClassIsStarved, Served
<1>7. [][Told]_Cores!vars => Cores!RowTellsTheMasks
  BY PTL DEF Cores!RowTellsTheMasks, Told
<1> QED
  BY <1>4, <1>5, <1>6, <1>7 DEF CoresAreDealt, Cores!CoresAreDealt
=============================================================================
