------------------------- MODULE MeasurementProofs -------------------------
(***************************************************************************)
(* TLAPS proofs about what is computed from measurements.  QualityTest,    *)
(* for any number of tests and processes and any clock: the log of a test  *)
(* is its own and in order, and the starvation that is computed from it is *)
(* real, although the times are sorted apart from their processes.         *)
(* WeightedRatios, for any samples and as many of them between two passes  *)
(* as the shift of a weight can count: the ratios a pass decides on follow *)
(* the samples.  The mean is a fraction that Euclid's algorithm reduces,   *)
(* so nothing is said of its numerator and its denominator but their       *)
(* quotient: Off tells on which side of x / Q it is.                       *)
(***************************************************************************)
EXTENDS Programs, FiniteSetTheorems, SequenceTheorems, WellFoundedInduction, TLAPS

(* Induction over the numbers, stated over a set, as the absence of a      *)
(* least counterexample.                                                   *)
LEMMA Induction ==
  ASSUME NEW S, 0 \in S, \A n \in Nat : n \in S => n + 1 \in S
  PROVE  Nat \subseteq S
<1>1. CASE Nat \ S # {}
  <2>1. PICK x \in Nat \ S : \A y \in Nat \ S : ~ (<<y, x>> \in OpToRel(<, Nat))
    BY <1>1, WFMin, NatLessThanWellFounded, Zenon
  <2>2. x \in Nat /\ x \notin S /\ x # 0
    BY <2>1
  <2>3. x - 1 \in Nat /\ x - 1 < x
    BY <2>2
  <2>4. <<x - 1, x>> \in OpToRel(<, Nat)
    BY <2>2, <2>3 DEF OpToRel
  <2>5. x - 1 \in S
    BY <2>1, <2>3, <2>4
  <2>6. (x - 1) + 1 \in S
    BY <2>3, <2>5
  <2> QED
    BY <2>2, <2>3, <2>6
<1> QED
  BY <1>1

-----------------------------------------------------------------------------
(* The quality test.  The least and the largest of a set of numbers.       *)

LEMMA MinIsLeast ==
  ASSUME NEW S \in SUBSET Nat, S # {}
  PROVE  /\ Tests!Min(S) \in S
         /\ \A y \in S : Tests!Min(S) <= y
<1>1. PICK x \in S : \A y \in S : ~ (<<y, x>> \in OpToRel(<, Nat))
  BY WFMin, NatLessThanWellFounded, Zenon
<1>2. \A y \in S : ~ (<<y, x>> \in {r \in Nat \X Nat : r[1] < r[2]})
  BY <1>1 DEF OpToRel
<1>3. ASSUME NEW y \in S
      PROVE  x <= y
  <2>1. x \in Nat /\ y \in Nat
    OBVIOUS
  <2>2. y < x => <<y, x>> \in {r \in Nat \X Nat : r[1] < r[2]}
    BY <2>1
  <2> QED
    BY <1>2, <2>1, <2>2
<1> QED
  BY <1>3 DEF Tests!Min

LEMMA MaxIsLargest ==
  ASSUME NEW S \in SUBSET Nat, S # {}, NEW b \in Nat, \A x \in S : x <= b
  PROVE  /\ Tests!Max(S) \in S
         /\ \A y \in S : y <= Tests!Max(S)
<1> DEFINE T == {b - x : x \in S}
<1>1. T \in SUBSET Nat /\ T # {}
  <2>1. \A x \in S : b - x \in Nat
    OBVIOUS
  <2> QED
    BY <2>1
<1>2. PICK x \in S : b - x = Tests!Min(T)
  BY <1>1, MinIsLeast
<1>3. \A y \in S : b - x <= b - y
  <2>1. \A y \in S : b - y \in T
    OBVIOUS
  <2> HIDE DEF T
  <2> QED
    BY <1>1, <1>2, <2>1, MinIsLeast
<1>4. \A y \in S : x >= y
  BY <1>3
<1> QED
  BY <1>4 DEF Tests!Max

LEMMA SameCardinality == \A S : Tests!Cardinality(S) = Cardinality(S)
BY Zenon DEF Tests!Cardinality, Cardinality

(* The i-th smallest of n numbers: at least i of them are no larger, and   *)
(* fewer than i are smaller.                                               *)
UpTo(f, n, v) == {j \in 0..n - 1 : f[j] <= v}
Below(f, n, v) == {j \in 0..n - 1 : f[j] < v}

LEMMA SomeAreFinite ==
  ASSUME NEW n \in Nat, NEW T, T \subseteq 0..n - 1
  PROVE  /\ IsFiniteSet(T) /\ Cardinality(T) \in 0..n
<1>1. IsFiniteSet(0..n - 1) /\ Cardinality(0..n - 1) = n
  <2>1. 0 \in Int /\ n - 1 \in Int /\ (n - 1) - 0 + 1 = n
    OBVIOUS
  <2>2. /\ IsFiniteSet(0..n - 1)
        /\ Cardinality(0..n - 1) = IF 0 > n - 1 THEN 0 ELSE (n - 1) - 0 + 1
    BY <2>1, FS_Interval
  <2> QED
    BY <2>1, <2>2
<1>2. IsFiniteSet(T) /\ Cardinality(T) <= n
  BY <1>1, FS_Subset
<1> QED
  BY <1>2, FS_CardinalityType

LEMMA SomeLargest ==
  ASSUME NEW T, T # {}, NEW f, NEW b \in Nat, \A j \in T : f[j] \in 0..b
  PROVE  \E k \in T : \A j \in T : f[j] <= f[k]
<1> DEFINE S == {f[j] : j \in T}
<1>1. S \in SUBSET Nat /\ S # {} /\ \A x \in S : x <= b
  OBVIOUS
<1>2. Tests!Max(S) \in S /\ \A y \in S : y <= Tests!Max(S)
  <2> HIDE DEF S
  <2> QED
    BY <1>1, MaxIsLargest
<1>3. PICK k \in T : Tests!Max(S) = f[k]
  BY <1>2
<1>4. \A j \in T : f[j] \in S
  OBVIOUS
<1> HIDE DEF S
<1> QED
  BY <1>2, <1>3, <1>4

LEMMA SortedIsOrdered ==
  ASSUME NEW n \in Nat, NEW b \in Nat, NEW f, \A j \in 0..n - 1 : f[j] \in 0..b,
         NEW i \in 0..n - 1, NEW v, v = Tests!Sorted(f, n)[i]
  PROVE  /\ \E k \in 0..n - 1 : v = f[k]
         /\ Cardinality(UpTo(f, n, v)) > i
         /\ Cardinality(Below(f, n, v)) <= i
<1> DEFINE K == {k \in 0..n - 1 : Cardinality(UpTo(f, n, f[k])) > i}
           V == {f[k] : k \in K}
<1>1. v = Tests!Min(V)
  BY SameCardinality DEF Tests!Sorted, UpTo
<1>2. \A w : UpTo(f, n, w) \subseteq 0..n - 1 /\ Below(f, n, w) \subseteq 0..n - 1
  BY DEF UpTo, Below
<1>3. V \in SUBSET Nat
  OBVIOUS
<1>4. V # {}
  <2>1. PICK k \in 0..n - 1 : \A j \in 0..n - 1 : f[j] <= f[k]
    BY SomeLargest
  <2>2. UpTo(f, n, f[k]) = 0..n - 1
    BY <2>1 DEF UpTo
  <2>3. Cardinality(0..n - 1) = n
    <3>1. 0 \in Int /\ n - 1 \in Int /\ (n - 1) - 0 + 1 = n
      OBVIOUS
    <3>2. Cardinality(0..n - 1) = IF 0 > n - 1 THEN 0 ELSE (n - 1) - 0 + 1
      BY <3>1, FS_Interval
    <3> QED
      BY <3>1, <3>2
  <2>4. k \in K
    BY <2>2, <2>3
  <2> QED
    BY <2>4
<1>5. PICK k \in K : v = f[k]
  <2>1. Tests!Min(V) \in V
    <3> HIDE DEF V
    <3> QED
      BY <1>3, <1>4, MinIsLeast
  <2> QED
    BY <1>1, <2>1
<1>6. \A m \in K : v <= f[m]
  <2>1. \A m \in K : f[m] \in V
    OBVIOUS
  <2> HIDE DEF V, K
  <2>2. \A y \in V : Tests!Min(V) <= y
    BY <1>3, <1>4, MinIsLeast
  <2>3. \A y \in V : v <= y
    BY <1>1, <2>2
  <2> QED
    BY <2>1, <2>3
<1>7. Cardinality(Below(f, n, v)) <= i
  <2>1. CASE Below(f, n, v) = {}
    BY <2>1, FS_EmptySet
  <2>2. CASE Below(f, n, v) # {}
    <3>1. \A j \in Below(f, n, v) : f[j] \in 0..b
      BY DEF Below
    <3>2. PICK m \in Below(f, n, v) : \A j \in Below(f, n, v) : f[j] <= f[m]
      BY <2>2, <3>1, SomeLargest
    <3>3. m \in 0..n - 1 /\ f[m] < v /\ v \in Nat
      BY <1>5, <3>2 DEF Below
    <3>4. UpTo(f, n, f[m]) = Below(f, n, v)
      BY <3>2, <3>3 DEF UpTo, Below
    <3>5. m \notin K
      BY <1>6, <3>3
    <3>6. ~ (Cardinality(Below(f, n, v)) > i)
      BY <3>3, <3>4, <3>5
    <3>7. Cardinality(Below(f, n, v)) \in 0..n
      BY <1>2, SomeAreFinite
    <3> QED
      BY <3>6, <3>7
  <2> QED
    BY <2>1, <2>2
<1> QED
  BY <1>5, <1>7

(* The scan of the log, line by line.                                      *)
TimedLines(b) == [event : {"START", "END"}, index : Nat, time : 1..b]
EndsTo(lines, k, v) == {j \in 1..k : lines[j].event = "END" /\ lines[j].time <= v}
StartsFrom(lines, k, v) == {j \in 1..k : lines[j].event = "START" /\ v <= lines[j].time}
From(f, n, v) == {c \in 0..n : v <= f[c]}

Blank(n) == [starts |-> [i \in 0..n |-> 0], ends |-> [i \in 0..n |-> 0], count |-> 0]

LEMMA ScanReads ==
  ASSUME NEW L, NEW lines \in Seq(L), NEW n
  PROVE  \E f : /\ f[0] = Blank(n)
                /\ \A k \in 1..Len(lines) : f[k] = Tests!Read(f[k - 1], lines[k], n)
                /\ Tests!Scan(lines, n) = f[Len(lines)]
<1> DEFINE len == Len(lines)
           Rec(g, m) == g = [k \in 0..m |-> IF k = 0 THEN Blank(n)
                                            ELSE Tests!Read(g[k - 1], lines[k], n)]
           S == {m \in Nat : \E g : Rec(g, m)}
<1>1. len \in Nat
  OBVIOUS
<1>2. 0 \in S
  <2>1. Rec([k \in 0..0 |-> Blank(n)], 0)
    OBVIOUS
  <2> QED
    BY <2>1
<1>3. ASSUME NEW m \in Nat, m \in S
      PROVE  m + 1 \in S
  <2>1. PICK g : Rec(g, m)
    BY <1>3
  <2> DEFINE h == [k \in 0..m + 1 |-> IF k <= m THEN g[k]
                                     ELSE Tests!Read(g[m], lines[m + 1], n)]
  <2>2. ASSUME NEW k \in 0..m + 1
        PROVE  h[k] = IF k = 0 THEN Blank(n) ELSE Tests!Read(h[k - 1], lines[k], n)
    <3>1. CASE k <= m
      BY <2>1, <3>1
    <3>2. CASE k = m + 1
      BY <3>2
    <3> QED
      BY <3>1, <3>2
  <2>3. Rec(h, m + 1)
    BY <2>2
  <2> HIDE DEF Rec, h
  <2> QED
    BY <2>3
<1>4. \E g : Rec(g, len)
  <2>1. Nat \subseteq S
    <3> HIDE DEF S
    <3> QED
      BY <1>2, <1>3, Induction
  <2> HIDE DEF Rec
  <2> QED
    BY <1>1, <2>1
<1> DEFINE upto == CHOOSE g : Rec(g, len)
<1>5. Rec(upto, len)
  <2> HIDE DEF Rec
  <2> QED
    BY <1>4
<1>6. Tests!Scan(lines, n) = upto[len]
  BY DEF Tests!Scan, Blank
<1> HIDE DEF upto
<1>7. upto[0] = Blank(n) /\ \A k \in 1..len : upto[k] = Tests!Read(upto[k - 1], lines[k], n)
  BY <1>1, <1>5
<1> QED
  BY <1>6, <1>7

LEMMA LinesAreFinite ==
  ASSUME NEW lines, NEW k \in Nat, NEW v
  PROVE  /\ IsFiniteSet(EndsTo(lines, k, v)) /\ IsFiniteSet(StartsFrom(lines, k, v))
         /\ Cardinality(EndsTo(lines, k, v)) \in Nat
         /\ Cardinality(StartsFrom(lines, k, v)) \in Nat
<1>1. EndsTo(lines, k, v) \in SUBSET (1..k) /\ StartsFrom(lines, k, v) \in SUBSET (1..k)
  BY DEF EndsTo, StartsFrom
<1>2. IsFiniteSet(1..k)
  BY FS_Interval
<1>3. IsFiniteSet(EndsTo(lines, k, v)) /\ IsFiniteSet(StartsFrom(lines, k, v))
  BY <1>1, <1>2, FS_Subset
<1> QED
  BY <1>3, FS_CardinalityType

(* What the next line adds to the sets of lines.                           *)
LEMMA NextLine ==
  ASSUME NEW lines, NEW k \in Nat, NEW v \in Nat
  PROVE  LET line == lines[k + 1] IN
         /\ Cardinality(EndsTo(lines, k + 1, v)) = Cardinality(EndsTo(lines, k, v))
              + IF line.event = "END" /\ line.time <= v THEN 1 ELSE 0
         /\ Cardinality(StartsFrom(lines, k + 1, v)) = Cardinality(StartsFrom(lines, k, v))
              + IF line.event = "START" /\ v <= line.time THEN 1 ELSE 0
<1> DEFINE line == lines[k + 1]
<1>1. k + 1 \notin EndsTo(lines, k, v) /\ k + 1 \notin StartsFrom(lines, k, v)
  BY DEF EndsTo, StartsFrom
<1>2. 1..(k + 1) = 1..k \cup {k + 1}
  OBVIOUS
<1>3. EndsTo(lines, k + 1, v) = IF line.event = "END" /\ line.time <= v
                                THEN EndsTo(lines, k, v) \cup {k + 1} ELSE EndsTo(lines, k, v)
  BY <1>2 DEF EndsTo
<1>4. StartsFrom(lines, k + 1, v) = IF line.event = "START" /\ v <= line.time
                                THEN StartsFrom(lines, k, v) \cup {k + 1}
                                ELSE StartsFrom(lines, k, v)
  BY <1>2 DEF StartsFrom
<1>5. /\ IsFiniteSet(EndsTo(lines, k, v)) /\ IsFiniteSet(StartsFrom(lines, k, v))
      /\ Cardinality(EndsTo(lines, k, v)) \in Nat
      /\ Cardinality(StartsFrom(lines, k, v)) \in Nat
  BY LinesAreFinite
<1>6. Cardinality(EndsTo(lines, k, v) \cup {k + 1}) = Cardinality(EndsTo(lines, k, v)) + 1
  BY <1>1, <1>5, FS_AddElement
<1>7. Cardinality(StartsFrom(lines, k, v) \cup {k + 1})
        = Cardinality(StartsFrom(lines, k, v)) + 1
  BY <1>1, <1>5, FS_AddElement
<1> HIDE DEF line
<1>8. Cardinality(EndsTo(lines, k + 1, v)) = Cardinality(EndsTo(lines, k, v))
              + IF line.event = "END" /\ line.time <= v THEN 1 ELSE 0
  BY <1>3, <1>5, <1>6
<1>9. Cardinality(StartsFrom(lines, k + 1, v)) = Cardinality(StartsFrom(lines, k, v))
              + IF line.event = "START" /\ v <= line.time THEN 1 ELSE 0
  BY <1>4, <1>5, <1>7
<1> QED
  BY <1>8, <1>9 DEF line

-----------------------------------------------------------------------------
(* What has been read after k lines: the ends in the order of the log, and *)
(* of the starts some, none of them twice.                                 *)
Typed(s, n, b) == /\ s \in [starts : [0..n -> 0..b], ends : [0..n -> 0..b], count : 0..n]
ReadFrom(s, lines, k, n) ==
  /\ \A c \in 0..n : s.starts[c] # 0 =>
       \E j \in 1..k : lines[j].event = "START" /\ lines[j].time = s.starts[c]
  /\ \A c \in 0..s.count - 1 :
       \E j \in 1..k : lines[j].event = "END" /\ lines[j].time = s.ends[c]
Counted(s, lines, k, n) ==
  \A v \in Nat :
    /\ Cardinality(UpTo(s.ends, s.count, v)) = Cardinality(EndsTo(lines, k, v))
    /\ v > 0 => Cardinality(From(s.starts, n, v)) <= Cardinality(StartsFrom(lines, k, v))

LEMMA TypedFields ==
  ASSUME NEW n, NEW b, NEW s, Typed(s, n, b)
  PROVE  /\ s.count \in 0..n
         /\ s.starts \in [0..n -> 0..b] /\ s.ends \in [0..n -> 0..b]
BY DEF Typed

LEMMA CountIsEnds ==
  ASSUME NEW n \in Nat, NEW b \in Nat, NEW s, Typed(s, n, b), NEW lines, NEW k \in Nat,
         Counted(s, lines, k, n)
  PROVE  s.count = Cardinality(EndsTo(lines, k, b))
<1>1. s.count \in Nat /\ UpTo(s.ends, s.count, b) = 0..s.count - 1
  BY DEF Typed, UpTo
<1>2. Cardinality(0..s.count - 1) = s.count
  <2>1. 0 \in Int /\ s.count - 1 \in Int /\ (s.count - 1) - 0 + 1 = s.count
    BY <1>1
  <2>2. Cardinality(0..s.count - 1) = IF 0 > s.count - 1 THEN 0 ELSE (s.count - 1) - 0 + 1
    BY <2>1, FS_Interval
  <2> QED
    BY <1>1, <2>1, <2>2
<1> QED
  BY <1>1, <1>2 DEF Counted

LEMMA FromIsFinite ==
  ASSUME NEW n \in Nat, NEW f, NEW v
  PROVE  IsFiniteSet(From(f, n, v)) /\ Cardinality(From(f, n, v)) \in Nat
<1>1. IsFiniteSet(0..n) /\ From(f, n, v) \in SUBSET (0..n)
  BY FS_Interval DEF From
<1>2. IsFiniteSet(From(f, n, v))
  BY <1>1, FS_Subset
<1> QED
  BY <1>2, FS_CardinalityType

(* A START is read.                                                        *)
LEMMA StartRead ==
  ASSUME NEW n \in Nat, NEW b \in Nat, NEW s, Typed(s, n, b), s.count < n,
         NEW k \in Nat, NEW lines, lines[k + 1] \in TimedLines(b),
         lines[k + 1].event = "START",
         ReadFrom(s, lines, k, n), Counted(s, lines, k, n),
         NEW r, r = Tests!Read(s, lines[k + 1], n)
  PROVE  Typed(r, n, b) /\ ReadFrom(r, lines, k + 1, n) /\ Counted(r, lines, k + 1, n)
<1> DEFINE c == s.count
           x == lines[k + 1].time
<1>1. /\ c \in 0..n /\ c < n /\ x \in 1..b
      /\ s.starts \in [0..n -> 0..b] /\ s.ends \in [0..n -> 0..b]
  BY DEF Typed, TimedLines
<1>2. r = [s EXCEPT !.starts[c] = x]
  BY <1>1 DEF Tests!Read
<1>3. r.starts = [s.starts EXCEPT ![c] = x] /\ r.ends = s.ends /\ r.count = c
  BY <1>2 DEF Typed
<1>4. r = [starts |-> r.starts, ends |-> r.ends, count |-> r.count]
  BY <1>2 DEF Typed
<1> HIDE DEF c, x
<1>5. r.starts \in [0..n -> 0..b]
  BY <1>1, <1>3
<1>6. Typed(r, n, b)
  BY <1>1, <1>3, <1>4, <1>5 DEF Typed
<1>7. ReadFrom(r, lines, k + 1, n)
  <2>1. ASSUME NEW d \in 0..n, r.starts[d] # 0
        PROVE  \E j \in 1..k + 1 : lines[j].event = "START" /\ lines[j].time = r.starts[d]
    <3>1. CASE d = c
      <4>1. r.starts[d] = x /\ k + 1 \in 1..k + 1
        BY <1>1, <1>3, <3>1
      <4> QED
        BY <4>1 DEF x
    <3>2. CASE d # c
      BY <1>1, <1>3, <2>1, <3>2 DEF ReadFrom
    <3> QED
      BY <3>1, <3>2
  <2>2. ASSUME NEW d \in 0..r.count - 1
        PROVE  \E j \in 1..k + 1 : lines[j].event = "END" /\ lines[j].time = r.ends[d]
    BY <1>1, <1>3, <2>2 DEF ReadFrom, c
  <2> QED
    BY <2>1, <2>2 DEF ReadFrom
<1>8. ASSUME NEW v \in Nat
      PROVE  Cardinality(UpTo(r.ends, r.count, v)) = Cardinality(EndsTo(lines, k + 1, v))
  <2>1. Cardinality(EndsTo(lines, k + 1, v)) = Cardinality(EndsTo(lines, k, v)) + 0
    BY NextLine
  <2>2. Cardinality(EndsTo(lines, k, v)) \in Nat
    BY LinesAreFinite
  <2> QED
    BY <1>3, <2>1, <2>2 DEF Counted, c
<1>9. ASSUME NEW v \in Nat, v > 0
      PROVE  Cardinality(From(r.starts, n, v)) <= Cardinality(StartsFrom(lines, k + 1, v))
  <2>1. Cardinality(StartsFrom(lines, k + 1, v))
          = Cardinality(StartsFrom(lines, k, v)) + IF v <= x THEN 1 ELSE 0
    BY NextLine DEF x
  <2>2. /\ Cardinality(StartsFrom(lines, k, v)) \in Nat
        /\ Cardinality(From(s.starts, n, v)) <= Cardinality(StartsFrom(lines, k, v))
    BY <1>9, LinesAreFinite DEF Counted
  <2>3. /\ IsFiniteSet(From(s.starts, n, v)) /\ Cardinality(From(s.starts, n, v)) \in Nat
        /\ Cardinality(From(r.starts, n, v)) \in Nat
    BY FromIsFinite
  <2>4. CASE v <= x
    <3>1. From(r.starts, n, v) \subseteq From(s.starts, n, v) \cup {c}
      BY <1>1, <1>3 DEF From
    <3>2. /\ IsFiniteSet(From(s.starts, n, v) \cup {c})
          /\ \/ Cardinality(From(s.starts, n, v) \cup {c}) = Cardinality(From(s.starts, n, v))
             \/ Cardinality(From(s.starts, n, v) \cup {c}) = Cardinality(From(s.starts, n, v)) + 1
      BY <2>3, FS_AddElement
    <3>3. Cardinality(From(r.starts, n, v)) <= Cardinality(From(s.starts, n, v) \cup {c})
      BY <3>1, <3>2, FS_Subset
    <3> QED
      BY <2>1, <2>2, <2>3, <2>4, <3>2, <3>3
  <2>5. CASE ~(v <= x)
    <3>1. From(r.starts, n, v) \subseteq From(s.starts, n, v)
      BY <1>1, <1>3, <2>5 DEF From
    <3>2. Cardinality(From(r.starts, n, v)) <= Cardinality(From(s.starts, n, v))
      BY <2>3, <3>1, FS_Subset
    <3> QED
      BY <2>1, <2>2, <2>3, <2>5, <3>2
  <2> QED
    BY <2>4, <2>5
<1> QED
  BY <1>6, <1>7, <1>8, <1>9 DEF Counted

(* An END is read.                                                         *)
LEMMA EndRead ==
  ASSUME NEW n \in Nat, NEW b \in Nat, NEW s, Typed(s, n, b), s.count < n,
         NEW k \in Nat, NEW lines, lines[k + 1] \in TimedLines(b),
         lines[k + 1].event = "END",
         ReadFrom(s, lines, k, n), Counted(s, lines, k, n),
         NEW r, r = Tests!Read(s, lines[k + 1], n)
  PROVE  Typed(r, n, b) /\ ReadFrom(r, lines, k + 1, n) /\ Counted(r, lines, k + 1, n)
<1> DEFINE c == s.count
           x == lines[k + 1].time
<1>1. /\ c \in 0..n /\ c < n /\ x \in 1..b
      /\ s.starts \in [0..n -> 0..b] /\ s.ends \in [0..n -> 0..b]
  BY DEF Typed, TimedLines
<1>2. r = [s EXCEPT !.ends[c] = x, !.count = c + 1]
  BY <1>1 DEF Tests!Read
<1>3. r.starts = s.starts /\ r.ends = [s.ends EXCEPT ![c] = x] /\ r.count = c + 1
  BY <1>2 DEF Typed
<1>4. r = [starts |-> r.starts, ends |-> r.ends, count |-> r.count]
  BY <1>2 DEF Typed
<1> HIDE DEF c, x
<1>5. r.ends \in [0..n -> 0..b]
  BY <1>1, <1>3
<1>6. Typed(r, n, b)
  <2>1. c + 1 \in 0..n
    BY <1>1
  <2> QED
    BY <1>1, <1>3, <1>4, <1>5, <2>1 DEF Typed
<1>7. ReadFrom(r, lines, k + 1, n)
  <2>1. ASSUME NEW d \in 0..n, r.starts[d] # 0
        PROVE  \E j \in 1..k + 1 : lines[j].event = "START" /\ lines[j].time = r.starts[d]
    BY <1>3, <2>1 DEF ReadFrom
  <2>2. ASSUME NEW d \in 0..r.count - 1
        PROVE  \E j \in 1..k + 1 : lines[j].event = "END" /\ lines[j].time = r.ends[d]
    <3>1. CASE d = c
      <4>1. r.ends[d] = x /\ k + 1 \in 1..k + 1
        BY <1>1, <1>3, <3>1
      <4> QED
        BY <4>1 DEF x
    <3>2. CASE d # c
      <4>1. r.count = c + 1 /\ c \in Nat /\ \A j \in 0..c - 1 : r.ends[j] = s.ends[j]
        BY <1>1, <1>3
      <4>2. d \in 0..c - 1
        BY <2>2, <3>2, <4>1
      <4>3. r.ends[d] = s.ends[d]
        BY <4>1, <4>2
      <4> QED
        BY <4>2, <4>3 DEF ReadFrom, c
    <3> QED
      BY <3>1, <3>2
  <2> QED
    BY <2>1, <2>2 DEF ReadFrom
<1>8. ASSUME NEW v \in Nat
      PROVE  Cardinality(UpTo(r.ends, r.count, v)) = Cardinality(EndsTo(lines, k + 1, v))
  <2>1. Cardinality(EndsTo(lines, k + 1, v))
          = Cardinality(EndsTo(lines, k, v)) + IF x <= v THEN 1 ELSE 0
    BY NextLine DEF x
  <2>2. UpTo(r.ends, r.count, v)
          = IF x <= v THEN UpTo(s.ends, c, v) \cup {c} ELSE UpTo(s.ends, c, v)
    <3>1. 0..(c + 1) - 1 = 0..c - 1 \cup {c} /\ c \notin 0..c - 1
      <4>1. c \in Nat
        BY <1>1
      <4> QED
        BY <4>1
    <3>2. r.ends[c] = x /\ \A j \in 0..c - 1 : r.ends[j] = s.ends[j]
      BY <1>1, <1>3, SMTT(20)
    <3>3. UpTo(r.ends, r.count, v) = {j \in 0..c - 1 \cup {c} : r.ends[j] <= v}
      BY <1>3, <3>1 DEF UpTo
    <3>4. {j \in 0..c - 1 \cup {c} : r.ends[j] <= v}
            = IF x <= v THEN UpTo(s.ends, c, v) \cup {c} ELSE UpTo(s.ends, c, v)
      <4>1. c \notin 0..c - 1 /\ r.ends[c] = x /\ \A j \in 0..c - 1 : r.ends[j] = s.ends[j]
        BY <3>1, <3>2
      <4>2. UpTo(s.ends, c, v) = {j \in 0..c - 1 : s.ends[j] <= v}
        BY Zenon DEF UpTo
      <4>3. CASE x <= v
        BY <4>1, <4>2, <4>3
      <4>4. CASE ~ (x <= v)
        BY <4>1, <4>2, <4>4
      <4> QED
        BY <4>3, <4>4
    <3> QED
      BY <3>3, <3>4
  <2>3. /\ IsFiniteSet(UpTo(s.ends, c, v)) /\ c \notin UpTo(s.ends, c, v)
        /\ Cardinality(UpTo(s.ends, c, v)) \in Nat
    <3>1. c \in Nat /\ UpTo(s.ends, c, v) \subseteq 0..c - 1
      BY <1>1 DEF UpTo
    <3>2. c \notin 0..c - 1
      BY <3>1
    <3> QED
      BY <3>1, <3>2, SomeAreFinite
  <2>4. Cardinality(UpTo(s.ends, c, v) \cup {c}) = Cardinality(UpTo(s.ends, c, v)) + 1
    BY <2>3, FS_AddElement
  <2>5. Cardinality(UpTo(s.ends, c, v)) = Cardinality(EndsTo(lines, k, v))
    BY DEF Counted, c
  <2> QED
    BY <2>1, <2>2, <2>3, <2>4, <2>5
<1>9. ASSUME NEW v \in Nat, v > 0
      PROVE  Cardinality(From(r.starts, n, v)) <= Cardinality(StartsFrom(lines, k + 1, v))
  <2>1. Cardinality(StartsFrom(lines, k + 1, v)) = Cardinality(StartsFrom(lines, k, v)) + 0
    BY NextLine
  <2>2. Cardinality(StartsFrom(lines, k, v)) \in Nat
    BY LinesAreFinite
  <2> QED
    BY <1>3, <1>9, <2>1, <2>2 DEF Counted
<1> QED
  BY <1>6, <1>7, <1>8, <1>9 DEF Counted
LEMMA ScanIsSound ==
  ASSUME NEW n \in Nat, NEW b \in Nat, NEW lines \in Seq(TimedLines(b)),
         Cardinality(EndsTo(lines, Len(lines), b)) <= n,
         NEW s, s = Tests!Scan(lines, n)
  PROVE  /\ Typed(s, n, b) /\ ReadFrom(s, lines, Len(lines), n)
         /\ Counted(s, lines, Len(lines), n)
<1> DEFINE len == Len(lines)
           Good(r, k) == Typed(r, n, b) /\ ReadFrom(r, lines, k, n) /\ Counted(r, lines, k, n)
<1>1. PICK f : /\ f[0] = Blank(n)
               /\ \A k \in 1..len : f[k] = Tests!Read(f[k - 1], lines[k], n)
               /\ Tests!Scan(lines, n) = f[len]
  BY ScanReads
<1>2. len \in Nat /\ \A k \in 1..len : lines[k] \in TimedLines(b)
  OBVIOUS
<1> DEFINE S == {k \in Nat : k <= len => Good(f[k], k)}
<1> HIDE DEF len
<1>3. 0 \in S
  <2>1. Typed(Blank(n), n, b) /\ ReadFrom(Blank(n), lines, 0, n)
    BY DEF Typed, ReadFrom, Blank
  <2>2. ASSUME NEW v \in Nat
        PROVE  Cardinality(UpTo(Blank(n).ends, Blank(n).count, v))
                 = Cardinality(EndsTo(lines, 0, v))
    <3>1. UpTo(Blank(n).ends, Blank(n).count, v) = {} /\ EndsTo(lines, 0, v) = {}
      BY DEF UpTo, EndsTo, Blank
    <3> QED
      BY <3>1
  <2>3. ASSUME NEW v \in Nat, v > 0
        PROVE  Cardinality(From(Blank(n).starts, n, v))
                 <= Cardinality(StartsFrom(lines, 0, v))
    <3>1. From(Blank(n).starts, n, v) = {} /\ StartsFrom(lines, 0, v) = {}
      BY <2>3 DEF From, StartsFrom, Blank
    <3>2. Cardinality({}) = 0
      BY FS_EmptySet
    <3>3. /\ Cardinality(From(Blank(n).starts, n, v)) = 0
          /\ Cardinality(StartsFrom(lines, 0, v)) = 0
      BY <3>1, <3>2, Zenon
    <3> QED
      BY <3>3
  <2>4. Counted(Blank(n), lines, 0, n)
    BY <2>2, <2>3 DEF Counted
  <2> QED
    BY <1>1, <2>1, <2>4
<1>4. ASSUME NEW k \in Nat, k \in S
      PROVE  k + 1 \in S
  <2> SUFFICES ASSUME k + 1 <= len
               PROVE  Good(f[k + 1], k + 1)
    OBVIOUS
  <2> DEFINE line == lines[k + 1]
  <2>1. Typed(f[k], n, b) /\ ReadFrom(f[k], lines, k, n) /\ Counted(f[k], lines, k, n)
    <3> k <= len
      BY <1>2
    <3> QED
      BY <1>4
  <2>2. line \in TimedLines(b) /\ line.event \in {"START", "END"} /\ line.time <= b
    <3>1. line \in TimedLines(b)
      BY <1>2
    <3> QED
      BY <3>1 DEF TimedLines
  <2>3. f[k + 1] = Tests!Read(f[k], line, n)
    <3>1. k + 1 \in 1..len /\ (k + 1) - 1 = k
      BY <1>2
    <3> QED
      BY <1>1, <3>1
  <2> HIDE DEF line
  <2>4. CASE f[k].count >= n
    <3>1. f[k + 1] = f[k]
      BY <2>3, <2>4 DEF Tests!Read
    <3>2. Cardinality(EndsTo(lines, k, b)) = n
      <4>1. f[k].count = n
        BY <2>1, <2>4 DEF Typed
      <4>2. f[k].count = Cardinality(EndsTo(lines, k, b))
        BY <2>1, CountIsEnds
      <4> QED
        BY <4>1, <4>2
    <3>3. line.event # "END"
      <4>1. EndsTo(lines, k + 1, b) \subseteq EndsTo(lines, len, b)
        BY <1>2 DEF EndsTo
      <4>2. Cardinality(EndsTo(lines, k + 1, b)) <= n
        <5>1. IsFiniteSet(EndsTo(lines, len, b)) /\ Cardinality(EndsTo(lines, len, b)) \in Nat
          BY <1>2, LinesAreFinite
        <5>2. Cardinality(EndsTo(lines, k + 1, b)) \in Nat
          BY LinesAreFinite
        <5>3. Cardinality(EndsTo(lines, k + 1, b)) <= Cardinality(EndsTo(lines, len, b))
          BY <4>1, <5>1, FS_Subset
        <5> QED
          BY <5>1, <5>2, <5>3 DEF len
      <4>3. Cardinality(EndsTo(lines, k + 1, b)) = Cardinality(EndsTo(lines, k, b))
              + IF line.event = "END" /\ line.time <= b THEN 1 ELSE 0
        BY NextLine DEF line
      <4> QED
        BY <2>2, <3>2, <4>2, <4>3
    <3>4. ASSUME NEW v \in Nat
          PROVE  /\ Cardinality(EndsTo(lines, k + 1, v)) = Cardinality(EndsTo(lines, k, v))
                 /\ Cardinality(StartsFrom(lines, k, v)) <= Cardinality(StartsFrom(lines, k + 1, v))
                 /\ Cardinality(StartsFrom(lines, k, v)) \in Nat
                 /\ Cardinality(StartsFrom(lines, k + 1, v)) \in Nat
      <4>1. /\ Cardinality(EndsTo(lines, k, v)) \in Nat
            /\ Cardinality(StartsFrom(lines, k, v)) \in Nat
            /\ Cardinality(StartsFrom(lines, k + 1, v)) \in Nat
        BY LinesAreFinite
      <4>2. Cardinality(EndsTo(lines, k + 1, v)) = Cardinality(EndsTo(lines, k, v))
              + IF line.event = "END" /\ line.time <= v THEN 1 ELSE 0
        BY NextLine DEF line
      <4>3. Cardinality(StartsFrom(lines, k + 1, v)) = Cardinality(StartsFrom(lines, k, v))
              + IF line.event = "START" /\ v <= line.time THEN 1 ELSE 0
        BY NextLine DEF line
      <4> QED
        BY <3>3, <4>1, <4>2, <4>3
    <3>5. Counted(f[k], lines, k + 1, n)
      <4>1. ASSUME NEW v \in Nat, v > 0
            PROVE  Cardinality(From(f[k].starts, n, v)) <= Cardinality(StartsFrom(lines, k + 1, v))
        <5>1. /\ Cardinality(From(f[k].starts, n, v)) <= Cardinality(StartsFrom(lines, k, v))
              /\ Cardinality(From(f[k].starts, n, v)) \in Nat
          BY <2>1, <4>1, FromIsFinite DEF Counted
        <5>2. /\ Cardinality(StartsFrom(lines, k, v)) <= Cardinality(StartsFrom(lines, k + 1, v))
              /\ Cardinality(StartsFrom(lines, k, v)) \in Nat
              /\ Cardinality(StartsFrom(lines, k + 1, v)) \in Nat
          BY <3>4
        <5> QED
          BY <5>1, <5>2
      <4> QED
        BY <2>1, <3>4, <4>1 DEF Counted
    <3>6. ReadFrom(f[k], lines, k + 1, n)
      <4>1. 1..k \subseteq 1..(k + 1)
        OBVIOUS
      <4> QED
        BY <2>1, <4>1 DEF ReadFrom
    <3> QED
      BY <2>1, <3>1, <3>5, <3>6
  <2>5. CASE f[k].count < n
    <3>1. CASE line.event = "START"
      BY <2>1, <2>2, <2>3, <2>5, <3>1, StartRead DEF line
    <3>2. CASE line.event = "END"
      BY <2>1, <2>2, <2>3, <2>5, <3>2, EndRead DEF line
    <3> QED
      BY <2>2, <3>1, <3>2
  <2>6. f[k].count \in Nat
    BY <2>1 DEF Typed
  <2> QED
    BY <2>4, <2>5, <2>6
<1>5. Nat \subseteq S
  <2> HIDE DEF S
  <2> QED
    BY <1>3, <1>4, Induction
<1>6. Good(f[len], len)
  BY <1>2, <1>5
<1> QED
  BY <1>1, <1>6 DEF len

-----------------------------------------------------------------------------
LEMMA MostBounds ==
  /\ Len(Counts) \in Nat \ {0}
  /\ Tests!Most \in Nat \ {0}
  /\ \A i \in 1..Len(Counts) : Counts[i] \in 1..Tests!Most
<1> DEFINE S == {k \in Nat : k <= Len(Counts) =>
                    \E b \in Nat : \A i \in 1..k : Counts[i] <= b}
           N == {Counts[i] : i \in 1..Len(Counts)}
<1>1. /\ Len(Counts) \in Nat \ {0}
      /\ \A i \in 1..Len(Counts) : Counts[i] \in Nat \ {0}
  BY TestsAssumption
<1>2. 0 \in S
  OBVIOUS
<1>3. ASSUME NEW k \in Nat, k \in S
      PROVE  k + 1 \in S
  <2> SUFFICES ASSUME k + 1 <= Len(Counts)
               PROVE  \E b \in Nat : \A i \in 1..k + 1 : Counts[i] <= b
    OBVIOUS
  <2>1. PICK b \in Nat : \A i \in 1..k : Counts[i] <= b
    BY <1>1, <1>3
  <2>2. Counts[k + 1] \in Nat
    BY <1>1
  <2>3. \A i \in 1..k + 1 : Counts[i] <= b + Counts[k + 1]
    <3>1. \A i \in 1..k + 1 : i \in 1..k \/ i = k + 1
      OBVIOUS
    <3>2. \A i \in 1..k + 1 : Counts[i] \in Nat
      BY <1>1
    <3> QED
      BY <2>1, <2>2, <3>1, <3>2
  <2>4. b + Counts[k + 1] \in Nat
    BY <2>1, <2>2
  <2> QED
    BY <2>3, <2>4
<1>4. PICK b \in Nat : \A i \in 1..Len(Counts) : Counts[i] <= b
  <2>1. Nat \subseteq S
    <3> HIDE DEF S
    <3> QED
      BY <1>2, <1>3, Induction
  <2>2. Len(Counts) \in S
    BY <1>1, <2>1
  <2> QED
    BY <1>1, <2>2
<1>5. N \in SUBSET Nat /\ N # {} /\ \A x \in N : x <= b
  BY <1>1, <1>4
<1>6. Tests!Most \in N /\ \A y \in N : y <= Tests!Most
  <2> HIDE DEF N
  <2>1. Tests!Max(N) \in N /\ \A y \in N : y <= Tests!Max(N)
    BY <1>5, MaxIsLargest
  <2> QED
    BY <2>1 DEF Tests!Most, N
<1>7. \A i \in 1..Len(Counts) : Counts[i] \in N
  OBVIOUS
<1> QED
  BY <1>1, <1>6, <1>7

(* The tests and the lines of their log.                                   *)
num == Counts[test]
Last == Len(log)
States == {"none", "fork", "stamp", "run", "exited", "killed"}
TestShape ==
  /\ test \in 1..Len(Counts) /\ now \in 1..MaxTime
  /\ child \in [1..Tests!Most -> States]
  /\ stamp \in [0..Tests!Most -> 0..MaxTime]
  /\ \A i \in 0..Tests!Most : stamp[i] <= now
  /\ forked \in 0..num /\ waited \in 0..num
  /\ tpc \in {"fork", "wait", "end", "result", "done", "failed"}
  /\ tpc = "fork" => forked < num
  /\ tpc \in {"fork", "failed"} => waited = 0
  /\ tpc \in {"wait", "end"} => forked = num /\ waited < num
  /\ tpc \in {"result", "done"} => forked = num /\ waited = num
  /\ tpc = "end" => child[waited + 1] = "exited" /\ stamp[0] > 0
ChildrenShape ==
  \A i \in 1..Tests!Most :
    /\ child[i] = "none" <=> i > forked
    /\ i <= waited => child[i] \in {"exited", "killed"}
    /\ child[i] = "stamp" => stamp[i] > 0
LogShape ==
  /\ log \in Seq(TimedLines(MaxTime))
  /\ \A j \in 1..Last : log[j].time <= now
IsStart(j, i) == log[j].event = "START" /\ log[j].index = i
IsEnd(j, i) == log[j].event = "END" /\ log[j].index = i
StartLines ==
  /\ \A j \in 1..Last : log[j].event = "START" =>
       log[j].index \in 1..forked /\ child[log[j].index] \in {"run", "exited", "killed"}
  /\ \A j, k \in 1..Last : \A i \in 1..Tests!Most : IsStart(j, i) /\ IsStart(k, i) => j = k
  /\ \A i \in 1..Tests!Most : child[i] \in {"run", "exited"} => \E j \in 1..Last : IsStart(j, i)
EndLines ==
  /\ \A j \in 1..Last : log[j].event = "END" =>
       log[j].index \in 1..waited /\ child[log[j].index] = "exited"
  /\ \A j, k \in 1..Last : \A i \in 1..Tests!Most : IsEnd(j, i) /\ IsEnd(k, i) => j = k
  /\ \A i \in 1..waited : child[i] = "exited" => \E j \in 1..Last : IsEnd(j, i)
InOrder ==
  /\ \A j, k \in 1..Last : \A i \in 1..Tests!Most :
       IsStart(j, i) /\ IsEnd(k, i) => log[j].time <= log[k].time
  /\ tpc = "end" => \A j \in 1..Last : IsStart(j, waited + 1) => log[j].time <= stamp[0]
TestInv == TestShape /\ ChildrenShape /\ LogShape /\ StartLines /\ EndLines /\ InOrder

LEMMA TestInitial == ProgramInit => TestInv
<1> SUFFICES ASSUME Tests!Init
             PROVE  TestInv
  BY DEF ProgramInit
<1>1. /\ Len(Counts) \in Nat \ {0} /\ Tests!Most \in Nat \ {0}
      /\ Counts[1] \in 1..Tests!Most
  BY MostBounds
<1>2. log = <<>> /\ Len(log) = 0 /\ log \in Seq(TimedLines(MaxTime))
  BY DEF Tests!Init
<1>3. TestShape /\ ChildrenShape
  BY <1>1, TestsAssumption
     DEF Tests!Init, Tests!None, TestShape, ChildrenShape, States, num
<1>4. 1..Last = {}
  BY <1>2 DEF Last
<1>5. LogShape /\ InOrder /\ StartLines /\ EndLines
  BY <1>1, <1>2, <1>4
     DEF Tests!Init, Tests!None, LogShape, InOrder, StartLines, EndLines
<1> QED
  BY <1>3, <1>5 DEF TestInv

LEMMA OneMoreLine ==
  ASSUME NEW b, log \in Seq(TimedLines(b)), NEW line \in TimedLines(b), log' = Append(log, line)
  PROVE  /\ log' \in Seq(TimedLines(b))
         /\ Last \in Nat /\ Last' = Last + 1
         /\ log'[Last + 1] = line
         /\ \A j \in 1..Last : log'[j] = log[j]
         /\ \A j \in 1..Last + 1 : j \in 1..Last \/ j = Last + 1
BY DEF Last

(* The log is left alone, and no child goes back on what it has logged.    *)
LEMMA LinesStay ==
  ASSUME TestInv, log' = log, forked \in Nat, forked' \in Nat, forked <= forked',
         Tests!Most \in Nat, waited \in 0..Tests!Most, forked <= Tests!Most,
         \A k \in 1..Tests!Most :
           /\ child[k] \in {"run", "exited", "killed"} => child'[k] \in {"run", "exited", "killed"}
           /\ child'[k] \in {"run", "exited"} => child[k] \in {"run", "exited"}
           /\ child[k] = "exited" => child'[k] = "exited"
           /\ k <= waited => child'[k] = child[k],
         \/ waited' = waited
         \/ waited' = waited + 1 /\ child'[waited + 1] # "exited"
  PROVE  /\ StartLines' /\ EndLines'
         /\ \A j, k \in 1..Last' : \A i \in 1..Tests!Most :
              IsStart(j, i)' /\ IsEnd(k, i)' => log'[j].time <= log'[k].time
<1>1. /\ Last' = Last
      /\ \A j, i : (IsStart(j, i)' <=> IsStart(j, i)) /\ (IsEnd(j, i)' <=> IsEnd(j, i))
  BY DEF Last, IsStart, IsEnd
<1>2. StartLines'
  <2>1. ASSUME NEW j \in 1..Last', log'[j].event = "START"
        PROVE  log'[j].index \in 1..forked' /\ child'[log'[j].index] \in {"run", "exited", "killed"}
    BY <1>1, <2>1 DEF TestInv, StartLines
  <2>2. \A j, k \in 1..Last' : \A i \in 1..Tests!Most : IsStart(j, i)' /\ IsStart(k, i)' => j = k
    BY <1>1 DEF TestInv, StartLines
  <2>3. ASSUME NEW i \in 1..Tests!Most, child'[i] \in {"run", "exited"}
        PROVE  \E j \in 1..Last' : IsStart(j, i)'
    BY <1>1, <2>3 DEF TestInv, StartLines
  <2> QED
    BY <2>1, <2>2, <2>3 DEF StartLines
<1>3. EndLines'
  <2>1. ASSUME NEW j \in 1..Last', log'[j].event = "END"
        PROVE  log'[j].index \in 1..waited' /\ child'[log'[j].index] = "exited"
    BY <1>1, <2>1 DEF TestInv, EndLines
  <2>2. \A j, k \in 1..Last' : \A i \in 1..Tests!Most : IsEnd(j, i)' /\ IsEnd(k, i)' => j = k
    BY <1>1 DEF TestInv, EndLines
  <2>3. ASSUME NEW i \in 1..waited', child'[i] = "exited"
        PROVE  \E j \in 1..Last' : IsEnd(j, i)'
    <3>1. i \in 1..waited /\ child[i] = "exited"
      BY <2>3
    <3> QED
      BY <1>1, <3>1 DEF TestInv, EndLines
  <2> QED
    BY <2>1, <2>2, <2>3 DEF EndLines
<1>4. ASSUME NEW j \in 1..Last', NEW k \in 1..Last', NEW i \in 1..Tests!Most,
             IsStart(j, i)', IsEnd(k, i)'
      PROVE  log'[j].time <= log'[k].time
  BY <1>1, <1>4 DEF TestInv, InOrder
<1> QED
  BY <1>2, <1>3, <1>4

LEMMA TimesOfLines ==
  ASSUME LogShape
  PROVE  /\ Last \in Nat
         /\ \A j \in 1..Last : log[j].time \in 1..MaxTime /\ log[j].time <= now
<1>1. Last \in Nat /\ \A j \in 1..Last : log[j] \in TimedLines(MaxTime)
  BY DEF LogShape, Last
<1>2. \A j \in 1..Last : log[j].time \in 1..MaxTime
  BY <1>1 DEF TimedLines
<1> QED
  BY <1>1, <1>2 DEF LogShape

(* A step of the test that writes nothing.                                 *)
ParentShape ==
  /\ forked \in 0..num /\ waited \in 0..num
  /\ tpc \in {"fork", "wait", "end", "result", "done", "failed"}
  /\ tpc = "fork" => forked < num
  /\ tpc \in {"fork", "failed"} => waited = 0
  /\ tpc \in {"wait", "end"} => forked = num /\ waited < num
  /\ tpc \in {"result", "done"} => forked = num /\ waited = num
Quiet ==
  /\ test' = test /\ log' = log
  /\ now' \in 1..MaxTime /\ now <= now'
  /\ forked <= forked'
  /\ \/ waited' = waited
     \/ waited' = waited + 1 /\ child'[waited + 1] = "killed"
  /\ tpc' = "end" =>
       /\ waited' = waited /\ child[waited + 1] = "exited"
       /\ \/ stamp'[0] = now
          \/ tpc = "end" /\ stamp'[0] = stamp[0]
QuietChildren ==
  /\ child' \in [1..Tests!Most -> States]
  /\ \A k \in 1..Tests!Most :
       /\ child[k] \in {"run", "exited", "killed"} => child'[k] \in {"run", "exited", "killed"}
       /\ child'[k] \in {"run", "exited"} => child[k] \in {"run", "exited"}
       /\ child[k] = "exited" => child'[k] = "exited"
       /\ k <= waited => child'[k] = child[k]
QuietStamps ==
  /\ stamp' \in [0..Tests!Most -> 0..MaxTime]
  /\ \A h \in 0..Tests!Most : stamp'[h] \in {stamp[h], now}

LEMMA QuietStep ==
  ASSUME TestInv, Quiet, QuietChildren, QuietStamps, ParentShape', ChildrenShape'
  PROVE  TestInv'
<1>1. /\ Tests!Most \in Nat \ {0} /\ num \in 1..Tests!Most
      /\ num' = num /\ Last' = Last
  BY MostBounds DEF TestInv, TestShape, num, Last, Quiet
<1>2. /\ now \in Nat \ {0} /\ now' \in 1..MaxTime /\ now <= now' /\ MaxTime \in Nat
      /\ forked \in 0..num /\ waited \in 0..num /\ forked' \in 0..num /\ forked <= forked'
      /\ \A h \in 0..Tests!Most : stamp[h] \in 0..MaxTime /\ stamp[h] <= now
      /\ tpc = "end" => stamp[0] > 0
  BY <1>1, TestsAssumption DEF TestInv, TestShape, Quiet, ParentShape
<1>3. TestShape'
  <2>1. \A h \in 0..Tests!Most : stamp'[h] <= now'
    BY <1>2 DEF QuietStamps
  <2>2. tpc' = "end" => child'[waited' + 1] = "exited" /\ stamp'[0] > 0
    <3> SUFFICES ASSUME tpc' = "end"
                 PROVE  child'[waited' + 1] = "exited" /\ stamp'[0] > 0
      OBVIOUS
    <3>1. waited + 1 \in 1..Tests!Most /\ child[waited + 1] = "exited" /\ waited' = waited
      BY <1>1, <1>2 DEF Quiet, ParentShape
    <3>2. child'[waited + 1] = "exited"
      BY <3>1 DEF QuietChildren
    <3>3. stamp'[0] > 0
      BY <1>2 DEF Quiet
    <3> QED
      BY <3>1, <3>2, <3>3
  <2>3. test' \in 1..Len(Counts)
    BY DEF TestInv, TestShape, Quiet
  <2> QED
    BY <1>1, <1>2, <2>1, <2>2, <2>3
       DEF TestShape, QuietChildren, QuietStamps, ParentShape
<1>4. LogShape'
  <2>1. /\ log \in Seq(TimedLines(MaxTime)) /\ Last \in Nat
        /\ \A j \in 1..Last : log[j].time \in 1..MaxTime /\ log[j].time <= now
    BY TimesOfLines DEF TestInv, LogShape
  <2>2. \A j \in 1..Last : log[j].time <= now'
    BY <1>2, <2>1
  <2> QED
    BY <1>1, <2>1, <2>2 DEF LogShape, Quiet
<1>5. /\ StartLines' /\ EndLines'
      /\ \A j, k \in 1..Last' : \A h \in 1..Tests!Most :
           IsStart(j, h)' /\ IsEnd(k, h)' => log'[j].time <= log'[k].time
  <2>1. /\ log' = log /\ forked \in Nat /\ forked' \in Nat /\ forked <= forked'
        /\ Tests!Most \in Nat /\ waited \in 0..Tests!Most /\ forked <= Tests!Most
    BY <1>1, <1>2 DEF Quiet
  <2>2. waited' = waited \/ (waited' = waited + 1 /\ child'[waited + 1] # "exited")
    BY DEF Quiet
  <2> QED
    BY <2>1, <2>2, LinesStay DEF QuietChildren
<1>6. ASSUME NEW j \in 1..Last', tpc' = "end", IsStart(j, waited + 1)'
      PROVE  log'[j].time <= stamp'[0]
  <2>1. log' = log /\ log[j].time <= now /\ waited' = waited /\ j \in 1..Last
    BY <1>1, <1>6, TimesOfLines DEF TestInv, Quiet
  <2>2. IsStart(j, waited + 1)
    BY <1>6, <2>1 DEF IsStart
  <2>3. tpc = "end" => log[j].time <= stamp[0]
    BY <2>1, <2>2 DEF TestInv, InOrder
  <2> QED
    BY <1>6, <2>1, <2>3 DEF Quiet
<1>7. InOrder'
  <2>1. tpc' = "end" => \A j \in 1..Last' : IsStart(j, waited + 1)' => log'[j].time <= stamp'[0]
    BY <1>6
  <2>2. (Tests!Most)' = Tests!Most
    BY DEF Tests!Most
  <2> QED
    BY <1>5, <2>1, <2>2 DEF InOrder
<1> QED
  BY <1>3, <1>4, <1>5, <1>7 DEF TestInv

LEMMA ForkKeeps ==
  ASSUME TestInv, Tests!Fork
  PROVE  TestInv'
<1>1. /\ Tests!Most \in Nat \ {0} /\ num \in 1..Tests!Most /\ Tests!num_processes = num
      /\ TestShape /\ ChildrenShape /\ num' = num /\ MaxTime \in Nat
  BY MostBounds, TestsAssumption
     DEF TestInv, TestShape, num, Tests!num_processes, Tests!Fork
<1>2. Quiet
  BY <1>1 DEF Quiet, TestShape, ChildrenShape, Tests!Fork
<1>3. QuietStamps
  BY <1>1 DEF QuietStamps, TestShape, Tests!Fork
<1>4. ParentShape'
  <2>1. /\ forked \in 0..num /\ waited = 0 /\ waited' = 0
        /\ forked < num /\ forked' \in {forked, forked + 1}
    BY <1>1 DEF TestShape, Tests!Fork
  <2>2. \/ tpc' = "failed"
        \/ forked' = forked + 1 /\ tpc' = IF forked + 1 = num THEN "wait" ELSE "fork"
    BY <1>1 DEF Tests!Fork
  <2> QED
    BY <1>1, <2>1, <2>2 DEF ParentShape
<1>5. /\ child' \in [1..Tests!Most -> States]
      /\ forked' \in {forked, forked + 1}
      /\ \A k \in 1..Tests!Most :
            child'[k] = IF forked' = forked + 1 /\ k = forked + 1 THEN "fork" ELSE child[k]
  <2>1. forked + 1 \in 1..Tests!Most
    BY <1>1 DEF TestShape, Tests!Fork
  <2>2. CASE forked' = forked + 1 /\ child' = [child EXCEPT ![forked + 1] = "fork"]
    BY <1>1, <2>1, <2>2 DEF TestShape, States
  <2>3. CASE forked' = forked /\ child' = child
    BY <1>1, <2>3 DEF TestShape
  <2> QED
    BY <2>2, <2>3 DEF Tests!Fork
<1>6. QuietChildren
  <2>1. waited = 0 /\ forked \in Nat
    BY <1>1 DEF TestShape, Tests!Fork
  <2>2. \A k \in 1..Tests!Most : k > forked => child[k] = "none"
    BY <1>1 DEF ChildrenShape
  <2> SUFFICES ASSUME NEW k \in 1..Tests!Most
               PROVE  /\ child[k] \in {"run", "exited", "killed"} => child'[k] = child[k]
                      /\ child'[k] \in {"run", "exited"} => child[k] = child'[k]
                      /\ ~ k <= waited
    BY <1>5 DEF QuietChildren
  <2>3. CASE k = forked + 1
    BY <1>5, <2>1, <2>2, <2>3
  <2>4. CASE k # forked + 1
    BY <1>5, <2>1, <2>4
  <2> QED
    BY <2>3, <2>4
<1>7. ChildrenShape'
  BY <1>1, <1>5 DEF ChildrenShape, TestShape, Tests!Fork
<1> QED
  BY <1>2, <1>3, <1>4, <1>6, <1>7, QuietStep

LEMMA WaitKeeps ==
  ASSUME TestInv, Tests!Wait
  PROVE  TestInv'
<1>1. /\ Tests!Most \in Nat \ {0} /\ num \in 1..Tests!Most /\ Tests!num_processes = num
      /\ TestShape /\ ChildrenShape /\ num' = num /\ MaxTime \in Nat
  BY MostBounds, TestsAssumption
     DEF TestInv, TestShape, num, Tests!num_processes, Tests!Wait, Tests!Waited,
         Tests!get_time_ms
<1>2. /\ tpc = "wait" /\ test' = test /\ log' = log /\ now' = now /\ forked' = forked
      /\ child' = child
  BY DEF Tests!Wait
<1>3. \/ /\ child[waited + 1] = "exited" /\ tpc' = "end" /\ waited' = waited
         /\ stamp' = [stamp EXCEPT ![0] = now]
      \/ /\ child[waited + 1] = "killed" /\ waited' = waited + 1 /\ stamp' = stamp
         /\ tpc' = IF waited' = num THEN "result" ELSE "wait"
  BY <1>1 DEF Tests!Wait, Tests!Waited, Tests!get_time_ms
<1>4. /\ forked = num /\ num \in Nat /\ waited \in 0..num - 1 /\ now \in 1..MaxTime
      /\ child \in [1..Tests!Most -> States]
      /\ stamp \in [0..Tests!Most -> 0..MaxTime]
  BY <1>1, <1>2 DEF TestShape
<1>5. Quiet
  <2>1. now \in Nat /\ now' \in 1..MaxTime /\ now <= now' /\ forked <= forked'
    BY <1>1, <1>2, <1>4
  <2>2. 0 \in 0..Tests!Most
    BY <1>1
  <2> QED
    BY <1>2, <1>3, <1>4, <2>1, <2>2 DEF Quiet
<1>6. QuietStamps
  <2>1. stamp' = stamp \/ stamp' = [stamp EXCEPT ![0] = now]
    BY <1>3
  <2>2. now \in 0..MaxTime
    BY <1>1, <1>4
  <2>3. stamp' \in [0..Tests!Most -> 0..MaxTime]
    BY <1>4, <2>1, <2>2
  <2>4. \A h \in 0..Tests!Most : stamp'[h] \in {stamp[h], now}
    BY <1>4, <2>1
  <2> QED
    BY <2>3, <2>4 DEF QuietStamps
<1>7. ParentShape'
  <2>1. forked' \in 0..num' /\ waited' \in 0..num'
    BY <1>1, <1>2, <1>3, <1>4
  <2>2. \/ tpc' = "end" /\ waited' < num'
        \/ tpc' = "result" /\ waited' = num'
        \/ tpc' = "wait" /\ waited' < num'
    BY <1>1, <1>3, <1>4
  <2>3. forked' = num'
    BY <1>1, <1>2, <1>4
  <2> QED
    BY <2>1, <2>2, <2>3 DEF ParentShape
<1>8. QuietChildren
  BY <1>2, <1>4 DEF QuietChildren
<1>9. ChildrenShape'
  <2>1. (Tests!Most)' = Tests!Most
    BY DEF Tests!Most
  <2> SUFFICES ASSUME NEW i \in 1..Tests!Most
               PROVE  /\ child'[i] = "none" <=> i > forked'
                      /\ i <= waited' => child'[i] \in {"exited", "killed"}
                      /\ child'[i] = "stamp" => stamp'[i] > 0
    BY <2>1 DEF ChildrenShape
  <2>2. /\ child[i] = "none" <=> i > forked
        /\ i <= waited => child[i] \in {"exited", "killed"}
        /\ child[i] = "stamp" => stamp[i] > 0
    BY <1>1 DEF ChildrenShape
  <2>3. i <= waited' => child[i] \in {"exited", "killed"}
    <3>1. i <= waited' => i <= waited \/ (i = waited + 1 /\ child[waited + 1] = "killed")
      BY <1>1, <1>3, <1>4
    <3> QED
      BY <2>2, <3>1
  <2>4. stamp'[i] = stamp[i]
    BY <1>1, <1>3, <1>4
  <2> QED
    BY <1>2, <2>2, <2>3, <2>4
<1> QED
  BY <1>1, <1>5, <1>6, <1>7, <1>8, <1>9, QuietStep

LEMMA TickKeeps ==
  ASSUME TestInv, Tests!Tick
  PROVE  TestInv'
<1>1. /\ Tests!Most \in Nat \ {0} /\ num \in 1..Tests!Most /\ Tests!num_processes = num
      /\ TestShape /\ ChildrenShape /\ num' = num /\ MaxTime \in Nat
  BY MostBounds, TestsAssumption
     DEF TestInv, TestShape, num, Tests!num_processes, Tests!Tick
<1>2. Quiet
  BY <1>1 DEF Quiet, TestShape, ChildrenShape, Tests!Tick
<1>3. QuietStamps
  BY <1>1 DEF QuietStamps, TestShape, Tests!Tick
<1>4. ParentShape'
  BY <1>1 DEF ParentShape, TestShape, Tests!Tick
<1>6. QuietChildren
  BY <1>1 DEF QuietChildren, TestShape, Tests!Tick
<1>7. ChildrenShape'
  BY <1>1 DEF ChildrenShape, TestShape, Tests!Tick
<1> QED
  BY <1>2, <1>3, <1>4, <1>6, <1>7, QuietStep

LEMMA StampKeeps ==
  ASSUME TestInv, NEW i \in 1..Tests!Most, Tests!Stamp(i)
  PROVE  TestInv'
<1>1. /\ Tests!Most \in Nat \ {0} /\ num \in 1..Tests!Most /\ Tests!num_processes = num
      /\ TestShape /\ ChildrenShape /\ num' = num /\ MaxTime \in Nat
  BY MostBounds, TestsAssumption
     DEF TestInv, TestShape, num, Tests!num_processes, Tests!Stamp,
         Tests!get_time_ms
<1>2. Quiet
  BY <1>1 DEF Quiet, TestShape, ChildrenShape, Tests!Stamp, Tests!get_time_ms
<1>3. QuietStamps
  BY <1>1 DEF QuietStamps, TestShape, Tests!Stamp, Tests!get_time_ms
<1>4. ParentShape'
  BY <1>1 DEF ParentShape, TestShape, Tests!Stamp, Tests!get_time_ms
<1>5. /\ child' \in [1..Tests!Most -> States]
      /\ \A k \in 1..Tests!Most : child'[k] = IF k = i THEN "stamp" ELSE child[k]
  BY <1>1 DEF TestShape, States, Tests!Stamp, Tests!get_time_ms
<1>6. QuietChildren
  BY <1>1, <1>5
     DEF QuietChildren, ChildrenShape, TestShape, Tests!Stamp, Tests!get_time_ms
<1>7. ChildrenShape'
  BY <1>1, <1>5 DEF ChildrenShape, TestShape, Tests!Stamp, Tests!get_time_ms
<1> QED
  BY <1>2, <1>3, <1>4, <1>6, <1>7, QuietStep

LEMMA FinishKeeps ==
  ASSUME TestInv, NEW i \in 1..Tests!Most, Tests!Finish(i)
  PROVE  TestInv'
<1>1. /\ Tests!Most \in Nat \ {0} /\ num \in 1..Tests!Most /\ Tests!num_processes = num
      /\ TestShape /\ ChildrenShape /\ num' = num /\ MaxTime \in Nat
  BY MostBounds, TestsAssumption
     DEF TestInv, TestShape, num, Tests!num_processes, Tests!Finish
<1>2. Quiet
  BY <1>1 DEF Quiet, TestShape, ChildrenShape, Tests!Finish
<1>3. QuietStamps
  BY <1>1 DEF QuietStamps, TestShape, Tests!Finish
<1>4. ParentShape'
  BY <1>1 DEF ParentShape, TestShape, Tests!Finish
<1>5. /\ child' \in [1..Tests!Most -> States]
      /\ \A k \in 1..Tests!Most : child'[k] = IF k = i THEN "exited" ELSE child[k]
  BY <1>1 DEF TestShape, States, Tests!Finish
<1>6. QuietChildren
  BY <1>1, <1>5 DEF QuietChildren, ChildrenShape, TestShape, Tests!Finish
<1>7. ChildrenShape'
  BY <1>1, <1>5 DEF ChildrenShape, TestShape, Tests!Finish
<1> QED
  BY <1>2, <1>3, <1>4, <1>6, <1>7, QuietStep

LEMMA KilledKeeps ==
  ASSUME TestInv, NEW i \in 1..Tests!Most, Tests!Killed(i)
  PROVE  TestInv'
<1>1. /\ Tests!Most \in Nat \ {0} /\ num \in 1..Tests!Most /\ Tests!num_processes = num
      /\ TestShape /\ ChildrenShape /\ num' = num /\ MaxTime \in Nat
  BY MostBounds, TestsAssumption
     DEF TestInv, TestShape, num, Tests!num_processes, Tests!Killed
<1>2. Quiet
  BY <1>1 DEF Quiet, TestShape, ChildrenShape, Tests!Killed
<1>3. QuietStamps
  BY <1>1 DEF QuietStamps, TestShape, Tests!Killed
<1>4. ParentShape'
  BY <1>1 DEF ParentShape, TestShape, Tests!Killed
<1>5. /\ child' \in [1..Tests!Most -> States]
      /\ \A k \in 1..Tests!Most : child'[k] = IF k = i THEN "killed" ELSE child[k]
  BY <1>1 DEF TestShape, States, Tests!Killed
<1>6. QuietChildren
  BY <1>1, <1>5 DEF QuietChildren, ChildrenShape, TestShape, Tests!Killed
<1>7. ChildrenShape'
  BY <1>1, <1>5 DEF ChildrenShape, TestShape, Tests!Killed
<1> QED
  BY <1>2, <1>3, <1>4, <1>6, <1>7, QuietStep

LEMMA LogEndKeeps == ASSUME TestInv, Tests!LogEnd PROVE TestInv'
<1> DEFINE line == [event |-> "END", index |-> waited + 1, time |-> stamp[0]]
<1>1. /\ Tests!Most \in Nat \ {0} /\ num \in 1..Tests!Most /\ Tests!num_processes = num
      /\ TestShape /\ ChildrenShape /\ num' = num /\ MaxTime \in Nat
      /\ child' = child /\ stamp' = stamp /\ forked' = forked /\ now' = now
      /\ (Tests!Most)' = Tests!Most
  BY MostBounds, TestsAssumption
     DEF TestInv, TestShape, num, Tests!num_processes, Tests!LogEnd, Tests!Most
<1>2. /\ tpc = "end" /\ tpc' \in {"wait", "result"} /\ forked = num
      /\ waited \in 0..num /\ waited + 1 \in 1..num /\ waited' = waited + 1
      /\ child[waited + 1] = "exited" /\ stamp[0] \in 1..MaxTime /\ stamp[0] <= now
  BY <1>1 DEF TestShape, Tests!LogEnd, Tests!Waited
<1>3. TestShape'
  BY <1>1, <1>2 DEF TestShape, Tests!LogEnd, Tests!Waited
<1>4. ChildrenShape'
  BY <1>1, <1>2 DEF ChildrenShape
<1>5. line \in TimedLines(MaxTime) /\ log' = Append(log, line)
  BY <1>1, <1>2 DEF TimedLines, Tests!LogEnd, Tests!log_message
<1>6. line.event = "END" /\ line.index = waited + 1 /\ line.time = stamp[0]
  OBVIOUS
<1> HIDE DEF line
<1>7. /\ log' \in Seq(TimedLines(MaxTime))
      /\ Last \in Nat /\ Last' = Last + 1
      /\ log'[Last + 1] = line
      /\ \A j \in 1..Last : log'[j] = log[j]
      /\ \A j \in 1..Last + 1 : j \in 1..Last \/ j = Last + 1
  BY <1>5, OneMoreLine DEF TestInv, LogShape
<1>8. LogShape'
  <2>1. \A j \in 1..Last : log[j].time <= now
    BY TimesOfLines DEF TestInv
  <2> QED
    BY <1>1, <1>2, <1>6, <1>7, <2>1 DEF LogShape
<1>9. /\ \A j \in 1..Last : \A i : (IsStart(j, i)' <=> IsStart(j, i)) /\ (IsEnd(j, i)' <=> IsEnd(j, i))
      /\ \A j, i : j = Last + 1 => ~ IsStart(j, i)' /\ (IsEnd(j, i)' <=> i = waited + 1)
  BY <1>6, <1>7 DEF IsStart, IsEnd
<1>10. StartLines'
  <2>1. ASSUME NEW j \in 1..Last', log'[j].event = "START"
        PROVE  log'[j].index \in 1..forked' /\ child'[log'[j].index] \in {"run", "exited", "killed"}
    BY <1>1, <1>6, <1>7, <2>1 DEF TestInv, StartLines
  <2>2. \A j, k \in 1..Last' : \A i \in 1..Tests!Most : IsStart(j, i)' /\ IsStart(k, i)' => j = k
    BY <1>7, <1>9 DEF TestInv, StartLines
  <2>3. \A i \in 1..Tests!Most : child[i] \in {"run", "exited"} => \E j \in 1..Last' : IsStart(j, i)'
    BY <1>7, <1>9 DEF TestInv, StartLines
  <2> QED
    BY <1>1, <2>1, <2>2, <2>3 DEF StartLines
<1>11. EndLines'
  <2>1. ASSUME NEW j \in 1..Last', log'[j].event = "END"
        PROVE  log'[j].index \in 1..waited' /\ child'[log'[j].index] = "exited"
    <3>1. CASE j \in 1..Last
      <4>1. log[j].index \in 1..waited /\ child[log[j].index] = "exited" /\ log'[j] = log[j]
        BY <1>7, <2>1, <3>1 DEF TestInv, EndLines
      <4> QED
        BY <1>1, <1>2, <1>6, <4>1
    <3>2. CASE j = Last + 1
      BY <1>1, <1>2, <1>6, <1>7, <3>2
    <3> QED
      BY <1>7, <3>1, <3>2
  <2>2. \A j \in 1..Last : ~ IsEnd(j, waited + 1)
    BY <1>2 DEF TestInv, EndLines, IsEnd
  <2>3. \A j, k \in 1..Last' : \A i \in 1..Tests!Most : IsEnd(j, i)' /\ IsEnd(k, i)' => j = k
    BY <1>7, <1>9, <2>2 DEF TestInv, EndLines
  <2>4. ASSUME NEW i \in 1..waited', child[i] = "exited"
        PROVE  \E j \in 1..Last' : IsEnd(j, i)'
    <3>1. CASE i = waited + 1
      BY <1>7, <1>9, <3>1
    <3>2. CASE i \in 1..waited
      BY <1>7, <1>9, <2>4, <3>2 DEF TestInv, EndLines
    <3> QED
      BY <1>2, <3>1, <3>2
  <2> QED
    BY <1>1, <2>1, <2>3, <2>4 DEF EndLines
<1>12. InOrder'
  <2>1. ASSUME NEW j \in 1..Last', NEW k \in 1..Last', NEW i \in 1..Tests!Most,
               IsStart(j, i)', IsEnd(k, i)'
        PROVE  log'[j].time <= log'[k].time
    <3>1. j \in 1..Last /\ IsStart(j, i) /\ log'[j] = log[j]
      BY <1>7, <1>9, <2>1
    <3>2. CASE k \in 1..Last
      BY <1>7, <1>9, <2>1, <3>1, <3>2 DEF TestInv, InOrder
    <3>3. CASE k = Last + 1
      BY <1>2, <1>6, <1>7, <1>9, <2>1, <3>1, <3>3 DEF TestInv, InOrder
    <3> QED
      BY <1>7, <3>2, <3>3
  <2> QED
    BY <1>1, <1>2, <2>1 DEF InOrder
<1> QED
  BY <1>3, <1>4, <1>8, <1>10, <1>11, <1>12 DEF TestInv

LEMMA ResultKeeps == ASSUME TestInv, Tests!Result PROVE TestInv'
<1>1. /\ Tests!Most \in Nat \ {0} /\ num \in 1..Tests!Most
      /\ Len(Counts) \in Nat /\ TestShape /\ ChildrenShape
      /\ (Tests!Most)' = Tests!Most
  BY MostBounds DEF TestInv, TestShape, num, Tests!Most
<1>2. CASE test = Len(Counts)
  <2>1. /\ tpc = "result" /\ tpc' = "done"
        /\ <<test, forked, waited, child, log, stamp, now>>'
             = <<test, forked, waited, child, log, stamp, now>>
        /\ num' = num /\ Last' = Last
    BY <1>2 DEF Tests!Result, num, Last
  <2>2. TestShape' /\ ChildrenShape' /\ LogShape'
    BY <1>1, <2>1 DEF TestInv, TestShape, ChildrenShape, LogShape
  <2>3. StartLines' /\ EndLines' /\ InOrder'
    BY <1>1, <2>1 DEF TestInv, StartLines, EndLines, InOrder, IsStart, IsEnd
  <2> QED
    BY <2>2, <2>3 DEF TestInv
<1>3. CASE test # Len(Counts)
  <2>1. /\ test' = test + 1 /\ tpc' = "fork" /\ forked' = 0 /\ waited' = 0
        /\ child' = [i \in 1..Tests!Most |-> "none"]
        /\ log' = <<>> /\ stamp' = stamp /\ now' = now
    BY <1>3 DEF Tests!Result, Tests!None
  <2>2. log' \in Seq(TimedLines(MaxTime)) /\ 1..Last' = {}
    BY <2>1 DEF Last
  <2>3. test' \in 1..Len(Counts)
    BY <1>1, <1>3, <2>1 DEF TestShape
  <2>4. num' \in 1..Tests!Most
    BY <2>3, MostBounds DEF num
  <2>5. TestShape'
    BY <1>1, <2>1, <2>3, <2>4 DEF TestShape, States
  <2>6. ChildrenShape'
    BY <1>1, <2>1 DEF ChildrenShape
  <2>7. LogShape' /\ StartLines' /\ EndLines' /\ InOrder'
    BY <1>1, <2>1, <2>2 DEF LogShape, StartLines, EndLines, InOrder
  <2> QED
    BY <2>5, <2>6, <2>7 DEF TestInv
<1> QED
  BY <1>2, <1>3

LEMMA LogStartKeeps ==
  ASSUME TestInv, NEW c \in 1..Tests!Most, Tests!LogStart(c)
  PROVE  TestInv'
<1> DEFINE line == [event |-> "START", index |-> c, time |-> stamp[c]]
<1>1. /\ Tests!Most \in Nat \ {0} /\ num \in 1..Tests!Most
      /\ TestShape /\ ChildrenShape /\ num' = num /\ MaxTime \in Nat
      /\ waited' = waited /\ stamp' = stamp /\ forked' = forked /\ now' = now
      /\ test' = test /\ tpc' = tpc
      /\ (Tests!Most)' = Tests!Most
  BY MostBounds, TestsAssumption
     DEF TestInv, TestShape, num, Tests!LogStart, Tests!Most
<1>2. /\ child[c] = "stamp" /\ child' \in [1..Tests!Most -> States]
      /\ \A k \in 1..Tests!Most : child'[k] = IF k = c THEN "run" ELSE child[k]
  BY <1>1 DEF TestShape, States, Tests!LogStart
<1>3. /\ waited \in 0..num /\ forked \in 0..num /\ c \in 1..forked /\ c > waited
      /\ stamp[c] \in 1..MaxTime /\ stamp[c] <= now
      /\ tpc = "end" => waited + 1 \in 1..Tests!Most /\ waited + 1 # c
  BY <1>1, <1>2 DEF TestShape, ChildrenShape
<1>4. TestShape'
  BY <1>1, <1>2, <1>3 DEF TestShape
<1>5. ChildrenShape'
  BY <1>1, <1>2, <1>3 DEF ChildrenShape
<1>6. line \in TimedLines(MaxTime) /\ log' = Append(log, line)
  BY <1>1, <1>3 DEF TimedLines, Tests!LogStart, Tests!log_message
<1>7. line.event = "START" /\ line.index = c /\ line.time = stamp[c]
  OBVIOUS
<1> HIDE DEF line
<1>8. /\ log' \in Seq(TimedLines(MaxTime))
      /\ Last \in Nat /\ Last' = Last + 1
      /\ log'[Last + 1] = line
      /\ \A j \in 1..Last : log'[j] = log[j]
      /\ \A j \in 1..Last + 1 : j \in 1..Last \/ j = Last + 1
  BY <1>6, OneMoreLine DEF TestInv, LogShape
<1>9. LogShape'
  <2>1. \A j \in 1..Last : log[j].time <= now
    BY TimesOfLines DEF TestInv
  <2> QED
    BY <1>1, <1>3, <1>7, <1>8, <2>1 DEF LogShape
<1>10. /\ \A j \in 1..Last : \A i : (IsStart(j, i)' <=> IsStart(j, i)) /\ (IsEnd(j, i)' <=> IsEnd(j, i))
       /\ \A j, i : j = Last + 1 => ~ IsEnd(j, i)' /\ (IsStart(j, i)' <=> i = c)
  BY <1>7, <1>8 DEF IsStart, IsEnd
<1>11. \A j \in 1..Last : ~ IsStart(j, c) /\ ~ IsEnd(j, c)
  BY <1>2 DEF TestInv, StartLines, EndLines, IsStart, IsEnd
<1>12. StartLines'
  <2>1. ASSUME NEW j \in 1..Last', log'[j].event = "START"
        PROVE  log'[j].index \in 1..forked' /\ child'[log'[j].index] \in {"run", "exited", "killed"}
    <3>1. CASE j = Last + 1
      BY <1>1, <1>2, <1>3, <1>7, <1>8, <3>1
    <3>2. CASE j \in 1..Last
      <4>1. log[j].index \in 1..forked /\ child[log[j].index] \in {"run", "exited", "killed"}
        BY <1>8, <2>1, <3>2 DEF TestInv, StartLines
      <4>2. log[j].index \in 1..Tests!Most
        BY <1>1, <1>3, <4>1
      <4> QED
        BY <1>1, <1>2, <1>8, <3>2, <4>1, <4>2
    <3> QED
      BY <1>8, <3>1, <3>2
  <2>2. \A j, k \in 1..Last' : \A i \in 1..Tests!Most : IsStart(j, i)' /\ IsStart(k, i)' => j = k
    BY <1>8, <1>10, <1>11 DEF TestInv, StartLines
  <2>3. ASSUME NEW i \in 1..Tests!Most, child'[i] \in {"run", "exited"}
        PROVE  \E j \in 1..Last' : IsStart(j, i)'
    <3>1. CASE i = c
      BY <1>8, <1>10, <3>1
    <3>2. CASE i # c
      BY <1>2, <1>8, <1>10, <2>3, <3>2 DEF TestInv, StartLines
    <3> QED
      BY <3>1, <3>2
  <2> QED
    BY <1>1, <2>1, <2>2, <2>3 DEF StartLines
<1>13. EndLines'
  <2>1. ASSUME NEW j \in 1..Last', log'[j].event = "END"
        PROVE  log'[j].index \in 1..waited' /\ child'[log'[j].index] = "exited"
    <3>1. j \in 1..Last /\ log'[j] = log[j]
      BY <1>7, <1>8, <2>1
    <3>2. log[j].index \in 1..waited /\ child[log[j].index] = "exited"
      BY <2>1, <3>1 DEF TestInv, EndLines
    <3>3. log[j].index \in 1..Tests!Most /\ log[j].index # c
      BY <1>1, <1>2, <1>3, <3>2
    <3> QED
      BY <1>1, <1>2, <3>1, <3>2, <3>3
  <2>2. \A j, k \in 1..Last' : \A i \in 1..Tests!Most : IsEnd(j, i)' /\ IsEnd(k, i)' => j = k
    BY <1>8, <1>10 DEF TestInv, EndLines
  <2>3. ASSUME NEW i \in 1..waited, child'[i] = "exited"
        PROVE  \E j \in 1..Last' : IsEnd(j, i)'
    <3>1. i \in 1..Tests!Most /\ child[i] = "exited"
      BY <1>1, <1>2, <1>3, <2>3
    <3>2. PICK j \in 1..Last : IsEnd(j, i)
      BY <2>3, <3>1 DEF TestInv, EndLines
    <3>3. j \in 1..Last' /\ IsEnd(j, i)'
      BY <1>8, <1>10, <3>2
    <3> QED
      BY <3>3
  <2> QED
    BY <1>1, <2>1, <2>2, <2>3 DEF EndLines
<1>14. InOrder'
  <2>1. ASSUME NEW j \in 1..Last', NEW k \in 1..Last', NEW i \in 1..Tests!Most,
               IsStart(j, i)', IsEnd(k, i)'
        PROVE  log'[j].time <= log'[k].time
    <3>1. k \in 1..Last /\ IsEnd(k, i) /\ log'[k] = log[k] /\ i # c
      BY <1>8, <1>10, <1>11, <2>1
    <3>2. j \in 1..Last /\ IsStart(j, i) /\ log'[j] = log[j]
      BY <1>8, <1>10, <2>1, <3>1
    <3> QED
      BY <3>1, <3>2 DEF TestInv, InOrder
  <2>2. ASSUME tpc = "end", NEW j \in 1..Last', IsStart(j, waited + 1)'
        PROVE  log'[j].time <= stamp[0]
    <3>1. IsStart(j, waited + 1)' => j # Last + 1
      BY <1>1, <1>3, <1>10, <2>2
    <3>2. (waited + 1)' = waited + 1
      BY <1>1
    <3>3. j \in 1..Last /\ IsStart(j, waited + 1) /\ log'[j] = log[j]
      BY <1>8, <1>10, <2>2, <3>1, <3>2 DEF IsStart
    <3> QED
      BY <2>2, <3>3 DEF TestInv, InOrder
  <2> QED
    BY <1>1, <2>1, <2>2 DEF InOrder
<1> QED
  BY <1>4, <1>5, <1>9, <1>12, <1>13, <1>14 DEF TestInv

LEMMA TestKept ==
  ASSUME TestInv, [ProgramNext]_all
  PROVE  TestInv'
<1>1. CASE Tests!Next
  <2>1. \/ Tests!Fork \/ Tests!Wait \/ Tests!LogEnd \/ Tests!Result \/ Tests!Tick
        \/ \E i \in 1..Tests!Most :
             Tests!Stamp(i) \/ Tests!LogStart(i) \/ Tests!Finish(i) \/ Tests!Killed(i)
    BY <1>1 DEF Tests!Next
  <2> QED
    BY <2>1, ForkKeeps, WaitKeeps, LogEndKeeps, ResultKeeps, TickKeeps, StampKeeps,
       LogStartKeeps, FinishKeeps, KilledKeeps
<1>2. CASE UNCHANGED quality
  <2>1. /\ test' = test /\ tpc' = tpc /\ forked' = forked /\ waited' = waited
        /\ child' = child /\ stamp' = stamp /\ log' = log /\ now' = now
        /\ num' = num /\ Last' = Last /\ (Tests!Most)' = Tests!Most
    BY <1>2 DEF quality, num, Last, Tests!Most
  <2>2. TestShape' /\ ChildrenShape' /\ LogShape'
    BY <2>1 DEF TestInv, TestShape, ChildrenShape, LogShape
  <2>3. StartLines' /\ EndLines' /\ InOrder'
    BY <2>1 DEF TestInv, StartLines, EndLines, InOrder, IsStart, IsEnd
  <2> QED
    BY <2>2, <2>3 DEF TestInv
<1> QED
  BY <1>1, <1>2 DEF ProgramNext, all

LEMMA LogOfThisTest == TestInv => Tests!LogIsOfThisTest
<1> SUFFICES ASSUME TestInv, tpc = "result"
             PROVE  Tests!LogIsOfThisTest
  BY DEF Tests!LogIsOfThisTest
<1>1. /\ Tests!Most \in Nat \ {0} /\ num \in 1..Tests!Most /\ Tests!num_processes = num
      /\ forked = num /\ waited = num /\ Last \in Nat
  BY MostBounds, TimesOfLines DEF TestInv, TestShape, num, Tests!num_processes
<1>2. /\ Tests!Starts = {log[j] : j \in {j \in 1..Last : log[j].event = "START"}}
      /\ Tests!Ends = {log[j] : j \in {j \in 1..Last : log[j].event = "END"}}
  BY DEF Tests!Starts, Tests!Ends, Last
<1>3. \A l \in Tests!Starts \cup Tests!Ends : l.index \in 1..num
  BY <1>1, <1>2 DEF TestInv, StartLines, EndLines
<1>4. ASSUME NEW i \in 1..num
      PROVE  /\ child[i] \in {"exited", "killed"}
             /\ child[i] = "exited" => \E s \in Tests!Starts, e \in Tests!Ends :
                                          s.index = i /\ e.index = i /\ s.time <= e.time
             /\ child[i] = "killed" => \A e \in Tests!Ends : e.index # i
  <2>1. i \in 1..Tests!Most /\ child[i] \in {"exited", "killed"}
    BY <1>1 DEF TestInv, ChildrenShape
  <2>2. ASSUME child[i] = "exited"
        PROVE  \E s \in Tests!Starts, e \in Tests!Ends :
                  s.index = i /\ e.index = i /\ s.time <= e.time
    <3>1. PICK j \in 1..Last : IsStart(j, i)
      BY <2>1, <2>2 DEF TestInv, StartLines
    <3>2. PICK k \in 1..Last : IsEnd(k, i)
      BY <1>1, <2>2 DEF TestInv, EndLines
    <3>3. log[j].time <= log[k].time
      BY <2>1, <3>1, <3>2 DEF TestInv, InOrder
    <3>4. log[j] \in Tests!Starts /\ log[k] \in Tests!Ends
      BY <1>2, <3>1, <3>2 DEF IsStart, IsEnd
    <3> QED
      BY <3>1, <3>2, <3>3, <3>4 DEF IsStart, IsEnd
  <2>3. ASSUME child[i] = "killed"
        PROVE  \A e \in Tests!Ends : e.index # i
    BY <1>2, <2>3 DEF TestInv, EndLines
  <2> QED
    BY <2>1, <2>2, <2>3
<1> QED
  BY <1>1, <1>3, <1>4 DEF Tests!LogIsOfThisTest

(* The lines with different processes are as many as their processes.      *)
LEMMA IndexesCount ==
  ASSUME NEW T, IsFiniteSet(T), NEW X, X = {log[j].index : j \in T},
         \A j, k \in T : log[j].index = log[k].index => j = k
  PROVE  IsFiniteSet(X) /\ Cardinality(X) = Cardinality(T)
<1> DEFINE f == [j \in T |-> log[j].index]
<1>1. f \in Bijection(T, X)
  BY DEF Bijection, Injection, Surjection, IsInjective
<1>2. ExistsBijection(T, X)
  BY <1>1 DEF ExistsBijection
<1> QED
  BY <1>2, FS_Bijection

LEMMA EndsCount ==
  ASSUME TestInv, NEW v \in Nat
  PROVE  /\ IsFiniteSet({log[j].index : j \in EndsTo(log, Last, v)})
         /\ Cardinality({log[j].index : j \in EndsTo(log, Last, v)})
              = Cardinality(EndsTo(log, Last, v))
         /\ {log[j].index : j \in EndsTo(log, Last, v)} \subseteq 1..num
<1> DEFINE T == EndsTo(log, Last, v)
           X == {log[j].index : j \in T}
<1>1. Last \in Nat /\ num \in 1..Tests!Most /\ waited \in 0..num /\ Tests!Most \in Nat
  BY MostBounds, TimesOfLines DEF TestInv, TestShape, num
<1>2. \A j \in T : j \in 1..Last /\ log[j].event = "END" /\ log[j].index \in 1..num
  BY <1>1 DEF EndsTo, TestInv, EndLines
<1>3. \A j, k \in T : log[j].index = log[k].index => j = k
  BY <1>1, <1>2 DEF TestInv, EndLines, IsEnd
<1>4. IsFiniteSet(T)
  BY <1>1, LinesAreFinite
<1>5. X \subseteq 1..num
  BY <1>2
<1> HIDE DEF T
<1>6. IsFiniteSet(X) /\ Cardinality(X) = Cardinality(T)
  BY <1>3, <1>4, IndexesCount
<1> QED
  BY <1>5, <1>6 DEF T

LEMMA StartsCount ==
  ASSUME TestInv, NEW v \in Nat
  PROVE  /\ IsFiniteSet({log[j].index : j \in StartsFrom(log, Last, v)})
         /\ Cardinality({log[j].index : j \in StartsFrom(log, Last, v)})
              = Cardinality(StartsFrom(log, Last, v))
         /\ {log[j].index : j \in StartsFrom(log, Last, v)} \subseteq 1..num
<1> DEFINE T == StartsFrom(log, Last, v)
           X == {log[j].index : j \in T}
<1>1. Last \in Nat /\ num \in 1..Tests!Most /\ forked \in 0..num /\ Tests!Most \in Nat
  BY MostBounds, TimesOfLines DEF TestInv, TestShape, num
<1>2. \A j \in T : j \in 1..Last /\ log[j].event = "START" /\ log[j].index \in 1..num
  BY <1>1 DEF StartsFrom, TestInv, StartLines
<1>3. \A j, k \in T : log[j].index = log[k].index => j = k
  BY <1>1, <1>2 DEF TestInv, StartLines, IsStart
<1>4. IsFiniteSet(T)
  BY <1>1, LinesAreFinite
<1>5. X \subseteq 1..num
  BY <1>2
<1> HIDE DEF T
<1>6. IsFiniteSet(X) /\ Cardinality(X) = Cardinality(T)
  BY <1>3, <1>4, IndexesCount
<1> QED
  BY <1>5, <1>6 DEF T

LEMMA IntervalCount ==
  ASSUME NEW n \in Nat
  PROVE  /\ IsFiniteSet(1..n) /\ Cardinality(1..n) = n
         /\ IsFiniteSet(0..n - 1) /\ Cardinality(0..n - 1) = n
<1>1. 1 \in Int /\ n \in Int /\ 0 \in Int /\ n - 1 \in Int /\ (n - 1) - 0 + 1 = n /\ n - 1 + 1 = n
  OBVIOUS
<1>2. IsFiniteSet(1..n) /\ Cardinality(1..n) = IF 1 > n THEN 0 ELSE n - 1 + 1
  BY <1>1, FS_Interval
<1>3. IsFiniteSet(0..n - 1) /\ Cardinality(0..n - 1) = IF 0 > n - 1 THEN 0 ELSE (n - 1) - 0 + 1
  BY <1>1, FS_Interval
<1> QED
  BY <1>1, <1>2, <1>3

(* What the report is computed from.                                       *)
LEMMA ReportIsScanned ==
  ASSUME TestInv, NEW s, s = Tests!Scan(log, num)
  PROVE  /\ num \in Nat /\ Last \in Nat
         /\ Typed(s, num, MaxTime) /\ ReadFrom(s, log, Last, num) /\ Counted(s, log, Last, num)
         /\ s.count \in 0..num /\ s.starts \in [0..num -> 0..MaxTime]
<1>1. Last \in Nat /\ num \in Nat /\ MaxTime \in Nat
  BY MostBounds, TimesOfLines, TestsAssumption DEF TestInv, TestShape, num
<1>2. Cardinality(EndsTo(log, Last, MaxTime)) <= num
  <2> DEFINE X == {log[j].index : j \in EndsTo(log, Last, MaxTime)}
  <2>1. /\ X \subseteq 1..num
        /\ Cardinality(X) = Cardinality(EndsTo(log, Last, MaxTime))
    BY <1>1, EndsCount
  <2>2. IsFiniteSet(1..num) /\ Cardinality(1..num) = num
    BY <1>1, IntervalCount
  <2> HIDE DEF X
  <2>3. Cardinality(X) <= Cardinality(1..num)
    BY <2>1, <2>2, FS_Subset
  <2> QED
    BY <2>1, <2>2, <2>3
<1>3. log \in Seq(TimedLines(MaxTime))
  BY DEF TestInv, LogShape
<1>4. Typed(s, num, MaxTime) /\ ReadFrom(s, log, Last, num) /\ Counted(s, log, Last, num)
  BY <1>1, <1>2, <1>3, ScanIsSound DEF Last
<1>5. s.count \in 0..num /\ s.starts \in [0..num -> 0..MaxTime]
  BY <1>4, TypedFields
<1> QED
  BY <1>1, <1>4, <1>5

(* A report above 0 is the time between an END and a START of the log.     *)
LEMMA ReportIsAGap ==
  ASSUME TestInv, Tests!Report # 0
  PROVE  \E s, i, S, E :
           /\ s = Tests!Scan(log, num)
           /\ i \in 0..s.count - 2 /\ S \in 1..MaxTime /\ E \in 0..MaxTime
           /\ S - E \in Nat /\ Tests!Report = S - E
           /\ Cardinality(UpTo(s.ends, s.count, E)) > i
           /\ Cardinality(Below(s.starts, s.count, S)) <= i + 1
           /\ \E j \in 1..Last : log[j].event = "START" /\ log[j].time = S
           /\ \E j \in 1..Last : log[j].event = "END" /\ log[j].time = E
<1> DEFINE s == Tests!Scan(log, num)
           G == {0} \cup Tests!Gaps(Tests!Sorted(s.starts, s.count),
                                    Tests!Sorted(s.ends, s.count), s.count)
<1>1. Tests!Report = Tests!Max(G)
  BY DEF Tests!Report, Tests!calculate_starvation, Tests!num_processes, num
<1> HIDE DEF s
<1>2. /\ num \in Nat /\ Last \in Nat /\ MaxTime \in Nat
      /\ Typed(s, num, MaxTime) /\ ReadFrom(s, log, Last, num) /\ Counted(s, log, Last, num)
  BY ReportIsScanned, TestsAssumption DEF s
<1>3. /\ s.count \in 0..num
      /\ \A j \in 0..s.count - 1 : s.starts[j] \in 0..MaxTime /\ s.ends[j] \in 0..MaxTime
  <2>1. /\ s.count \in 0..num
        /\ s.starts \in [0..num -> 0..MaxTime] /\ s.ends \in [0..num -> 0..MaxTime]
    BY <1>2, TypedFields
  <2>2. \A j \in 0..s.count - 1 : j \in 0..num
    BY <1>2, <2>1
  <2> QED
    BY <2>1, <2>2
<1>4. \A i \in 0..s.count - 1 : \A v : v = Tests!Sorted(s.starts, s.count)[i] =>
        /\ \E k \in 0..s.count - 1 : v = s.starts[k]
        /\ Cardinality(UpTo(s.starts, s.count, v)) > i
        /\ Cardinality(Below(s.starts, s.count, v)) <= i
  <2>1. /\ MaxTime \in Nat /\ s.count \in Nat
        /\ \A j \in 0..s.count - 1 : s.starts[j] \in 0..MaxTime
    BY <1>2, <1>3
  <2> QED
    BY <2>1, SortedIsOrdered
<1>5. \A i \in 0..s.count - 1 : \A v : v = Tests!Sorted(s.ends, s.count)[i] =>
        /\ \E k \in 0..s.count - 1 : v = s.ends[k]
        /\ Cardinality(UpTo(s.ends, s.count, v)) > i
        /\ Cardinality(Below(s.ends, s.count, v)) <= i
  <2>1. /\ MaxTime \in Nat /\ s.count \in Nat
        /\ \A j \in 0..s.count - 1 : s.ends[j] \in 0..MaxTime
    BY <1>2, <1>3
  <2> QED
    BY <2>1, SortedIsOrdered
<1>6. ASSUME NEW i \in 0..s.count - 2
      PROVE  /\ Tests!Sorted(s.starts, s.count)[i + 1] \in 0..MaxTime
             /\ Tests!Sorted(s.ends, s.count)[i] \in 0..MaxTime
  <2>1. i \in 0..s.count - 1 /\ i + 1 \in 0..s.count - 1
    BY <1>3
  <2> QED
    BY <1>3, <1>4, <1>5, <2>1
<1>7. G \in SUBSET Nat /\ G # {} /\ \A x \in G : x <= MaxTime
  <2>1. \A x \in Tests!Gaps(Tests!Sorted(s.starts, s.count), Tests!Sorted(s.ends, s.count), s.count) :
          x \in Nat /\ x <= MaxTime
    BY <1>2, <1>6 DEF Tests!Gaps
  <2> QED
    BY <1>2, <2>1
<1>8. Tests!Report \in G
  <2> HIDE DEF G
  <2> QED
    BY <1>1, <1>2, <1>7, MaxIsLargest
<1>9. PICK i \in 0..s.count - 2 :
        /\ Tests!Report = Tests!Sorted(s.starts, s.count)[i + 1] - Tests!Sorted(s.ends, s.count)[i]
        /\ Tests!Report \in Nat
  BY <1>8 DEF Tests!Gaps
<1> DEFINE S == Tests!Sorted(s.starts, s.count)[i + 1]
           E == Tests!Sorted(s.ends, s.count)[i]
<1>10. i \in 0..s.count - 1 /\ i + 1 \in 0..s.count - 1
  BY <1>3
<1>11. /\ \E k \in 0..s.count - 1 : S = s.starts[k]
       /\ Cardinality(Below(s.starts, s.count, S)) <= i + 1
  BY <1>4, <1>10
<1>12. /\ \E k \in 0..s.count - 1 : E = s.ends[k]
       /\ Cardinality(UpTo(s.ends, s.count, E)) > i
  BY <1>5, <1>10
<1>13. S \in 0..MaxTime /\ E \in 0..MaxTime /\ Tests!Report = S - E /\ S - E \in Nat
  BY <1>6, <1>9
<1> HIDE DEF S, E
<1>14. S \in 1..MaxTime /\ S # 0
  BY <1>13, <1>2
<1>15. \E j \in 1..Last : log[j].event = "START" /\ log[j].time = S
  <2>1. PICK k \in 0..s.count - 1 : S = s.starts[k]
    BY <1>11
  <2>2. k \in 0..num
    BY <1>2, <1>3
  <2> QED
    BY <1>2, <1>14, <2>1, <2>2 DEF ReadFrom
<1>16. \E j \in 1..Last : log[j].event = "END" /\ log[j].time = E
  BY <1>2, <1>12 DEF ReadFrom
<1> QED
  BY <1>11, <1>12, <1>13, <1>14, <1>15, <1>16 DEF s

LEMMA NoneIsReported == TestInv => Tests!NoneWithoutLateStart
<1> SUFFICES ASSUME TestInv, Tests!Report # 0,
                    \A p \in Tests!Starts, e \in Tests!Ends : p.time <= e.time
             PROVE  FALSE
  BY DEF Tests!NoneWithoutLateStart
<1>1. PICK s, i, S, E :
           /\ S \in 1..MaxTime /\ E \in 0..MaxTime
           /\ S - E \in Nat /\ Tests!Report = S - E
           /\ \E j \in 1..Last : log[j].event = "START" /\ log[j].time = S
           /\ \E j \in 1..Last : log[j].event = "END" /\ log[j].time = E
  BY ReportIsAGap
<1>2. PICK j \in 1..Last : log[j].event = "START" /\ log[j].time = S
  BY <1>1
<1>3. PICK k \in 1..Last : log[k].event = "END" /\ log[k].time = E
  BY <1>1
<1>4. log[j] \in Tests!Starts /\ log[k] \in Tests!Ends
  BY <1>2, <1>3 DEF Tests!Starts, Tests!Ends, Last
<1>5. log[j].time <= log[k].time
  BY <1>4
<1>6. S <= E
  BY <1>2, <1>3, <1>5
<1> QED
  BY <1>1, <1>6, TestsAssumption

(* Every process ended by E or started at S or later.                      *)
LEMMA NobodyRuns ==
  ASSUME TestInv, \A i \in 1..num : \E k \in 1..Last : IsEnd(k, i),
         NEW s, s = Tests!Scan(log, num), NEW i \in 0..s.count - 2,
         NEW S \in 1..MaxTime, NEW E \in 0..MaxTime, E < S,
         Cardinality(UpTo(s.ends, s.count, E)) > i,
         Cardinality(Below(s.starts, s.count, S)) <= i + 1,
         NEW h \in 1..num
  PROVE  \/ \E k \in 1..Last : IsEnd(k, h) /\ log[k].time <= E
         \/ \E k \in 1..Last : IsStart(k, h) /\ S <= log[k].time
<1> DEFINE A == {log[j].index : j \in EndsTo(log, Last, E)}
           B == {log[j].index : j \in StartsFrom(log, Last, S)}
<1>1. /\ num \in Nat /\ Last \in Nat /\ MaxTime \in Nat
      /\ Typed(s, num, MaxTime) /\ Counted(s, log, Last, num)
      /\ s.count \in 0..num /\ s.starts \in [0..num -> 0..MaxTime]
      /\ S \in Nat /\ E \in Nat /\ S > 0
  BY ReportIsScanned, TestsAssumption
<1>2. s.count \in 0..num /\ s.starts \in [0..num -> 0..MaxTime] /\ i \in Nat
  BY <1>1
<1>3. s.count = num
  <2> DEFINE X == {log[j].index : j \in EndsTo(log, Last, MaxTime)}
  <2>1. /\ X \subseteq 1..num
        /\ Cardinality(X) = Cardinality(EndsTo(log, Last, MaxTime))
    BY <1>1, EndsCount
  <2>2. 1..num \subseteq X
    <3> SUFFICES ASSUME NEW g \in 1..num
                 PROVE  g \in X
      OBVIOUS
    <3>1. PICK k \in 1..Last : IsEnd(k, g)
      OBVIOUS
    <3>2. log[k].time <= MaxTime
      <4>1. log[k].time \in 1..MaxTime
        BY TimesOfLines DEF TestInv
      <4> QED
        BY <1>1, <4>1
    <3>3. k \in EndsTo(log, Last, MaxTime) /\ log[k].index = g
      BY <3>1, <3>2 DEF EndsTo, IsEnd
    <3> QED
      BY <3>3
  <2>3. Cardinality(1..num) = num
    BY <1>1, IntervalCount
  <2> HIDE DEF X
  <2>4. X = 1..num
    BY <2>1, <2>2
  <2>5. s.count = Cardinality(EndsTo(log, Last, MaxTime))
    BY <1>1, CountIsEnds
  <2> QED
    BY <2>1, <2>3, <2>4, <2>5
<1>4. /\ IsFiniteSet(A) /\ A \subseteq 1..num
      /\ Cardinality(A) = Cardinality(EndsTo(log, Last, E))
  BY <1>1, EndsCount
<1>5. /\ IsFiniteSet(B) /\ B \subseteq 1..num
      /\ Cardinality(B) = Cardinality(StartsFrom(log, Last, S))
  BY <1>1, StartsCount
<1>6. Cardinality(A) > i
  BY <1>1, <1>4 DEF Counted
<1>7. Cardinality(B) >= num - (i + 1)
  <2> DEFINE U == Below(s.starts, s.count, S)
             F == From(s.starts, num, S)
  <2>1. U \subseteq 0..num - 1 /\ IsFiniteSet(U) /\ Cardinality(U) \in Nat
    <3>1. U \subseteq 0..num - 1
      BY <1>3 DEF Below
    <3> HIDE DEF U
    <3>2. IsFiniteSet(U) /\ Cardinality(U) \in 0..num
      BY <1>1, <3>1, SomeAreFinite
    <3> QED
      BY <3>1, <3>2
  <2>2. IsFiniteSet(F) /\ Cardinality(F) \in Nat
    BY <1>1, FromIsFinite
  <2>3. 0..num - 1 \subseteq U \cup F
    <3> SUFFICES ASSUME NEW j \in 0..num - 1
                 PROVE  j \in U \/ j \in F
      OBVIOUS
    <3>1. s.starts[j] \in Nat /\ S \in Nat
      <4>1. j \in 0..num
        BY <1>1
      <4>2. s.starts[j] \in 0..MaxTime
        BY <1>1, <4>1
      <4> QED
        BY <1>1, <4>2
    <3>2. s.starts[j] < S \/ S <= s.starts[j]
      BY <3>1
    <3>3. j \in 0..s.count - 1 /\ j \in 0..num
      BY <1>1, <1>3
    <3> QED
      BY <3>2, <3>3 DEF Below, From
  <2>4. Cardinality(F) <= Cardinality(B)
    BY <1>1, <1>5 DEF Counted
  <2>5. Cardinality(0..num - 1) = num /\ IsFiniteSet(0..num - 1)
    BY <1>1, IntervalCount
  <2>6. Cardinality(U) <= i + 1
    OBVIOUS
  <2> HIDE DEF U, F
  <2>7. /\ IsFiniteSet(U \cup F) /\ IsFiniteSet(U \cap F)
        /\ Cardinality(U \cup F) = Cardinality(U) + Cardinality(F) - Cardinality(U \cap F)
    BY <2>1, <2>2, FS_Union, FS_Intersection
  <2>8. Cardinality(U \cap F) \in Nat /\ Cardinality(U \cup F) \in Nat
    BY <2>7, FS_CardinalityType
  <2>9. num <= Cardinality(U \cup F)
    BY <2>3, <2>5, <2>7, FS_Subset
  <2>10. Cardinality(B) \in Nat
    BY <1>5, FS_CardinalityType
  <2> QED
    BY <1>1, <1>2, <2>1, <2>2, <2>4, <2>6, <2>7, <2>8, <2>9, <2>10
<1>8. A \cap B = {}
  <2> SUFFICES ASSUME NEW g \in A, g \in B
               PROVE  FALSE
    OBVIOUS
  <2>1. PICK k \in EndsTo(log, Last, E) : log[k].index = g
    OBVIOUS
  <2>2. PICK j \in StartsFrom(log, Last, S) : log[j].index = g
    OBVIOUS
  <2>3. k \in 1..Last /\ IsEnd(k, g) /\ log[k].time <= E
    BY <2>1 DEF EndsTo, IsEnd
  <2>4. j \in 1..Last /\ IsStart(j, g) /\ S <= log[j].time
    BY <2>2 DEF StartsFrom, IsStart
  <2>5. g \in 1..Tests!Most
    <3>1. num \in 1..Tests!Most /\ Tests!Most \in Nat /\ g \in 1..num
      BY <1>4, MostBounds DEF TestInv, TestShape, num
    <3> QED
      BY <3>1
  <2>6. log[j].time <= log[k].time
    BY <2>3, <2>4, <2>5 DEF TestInv, InOrder
  <2>7. log[j].time \in Nat /\ log[k].time \in Nat
    BY <2>3, <2>4, TimesOfLines DEF TestInv
  <2>8. S \in Nat /\ E \in Nat
    BY <1>1
  <2> QED
    BY <2>3, <2>4, <2>6, <2>7, <2>8
<1> HIDE DEF A, B
<1>9. A \cup B = 1..num
  <2>1. /\ IsFiniteSet(1..num) /\ Cardinality(1..num) = num
    BY <1>1, IntervalCount
  <2>2. Cardinality({}) = 0 /\ Cardinality(A \cap B) = 0
    BY <1>8, FS_EmptySet, Zenon
  <2>3. /\ IsFiniteSet(A \cup B)
        /\ Cardinality(A \cup B) = Cardinality(A) + Cardinality(B) - Cardinality(A \cap B)
    BY <1>4, <1>5, FS_Union
  <2>4. Cardinality(A) \in Nat /\ Cardinality(B) \in Nat
    BY <1>4, <1>5, FS_CardinalityType
  <2>5. Cardinality(A \cup B) >= num
    <3>1. i \in Nat /\ num \in Nat
      BY <1>1, <1>2
    <3>2. Cardinality(A \cup B) = Cardinality(A) + Cardinality(B) - 0
      BY <2>2, <2>3
    <3> QED
      BY <1>6, <1>7, <2>4, <3>1, <3>2
  <2>6. A \cup B \in SUBSET (1..num)
    BY <1>4, <1>5
  <2>7. /\ Cardinality(A \cup B) <= Cardinality(1..num)
        /\ Cardinality(1..num) = Cardinality(A \cup B) => 1..num = A \cup B
    BY <2>1, <2>6, FS_Subset
  <2>8. Cardinality(A \cup B) \in Nat
    BY <2>3, FS_CardinalityType
  <2> QED
    <3>1. num \in Nat
      BY <1>1
    <3>2. Cardinality(A \cup B) = num
      BY <2>1, <2>5, <2>7, <2>8, <3>1
    <3> QED
      BY <2>1, <2>7, <3>2
<1>10. CASE h \in A
  <2>1. PICK k \in EndsTo(log, Last, E) : log[k].index = h
    BY <1>10 DEF A
  <2> QED
    BY <2>1 DEF EndsTo, IsEnd
<1>11. CASE h \in B
  <2>1. PICK k \in StartsFrom(log, Last, S) : log[k].index = h
    BY <1>11 DEF B
  <2> QED
    BY <2>1 DEF StartsFrom, IsStart
<1> QED
  BY <1>9, <1>10, <1>11

LEMMA ReportIsReal == TestInv => Tests!StarvationIsReal
<1> SUFFICES ASSUME TestInv, tpc = "result", \A i \in 1..num : child[i] = "exited",
                    Tests!Report > 0
             PROVE  \E e \in Tests!Ends, p \in Tests!Starts :
                       /\ p.time - e.time >= Tests!Report
                       /\ \A q \in Tests!Starts, r \in Tests!Ends :
                            q.index = r.index => q.time >= p.time \/ r.time <= e.time
  BY DEF Tests!StarvationIsReal, Tests!num_processes, num
<1>1. /\ num \in 1..Tests!Most /\ forked = num /\ waited = num /\ Last \in Nat
      /\ Tests!Most \in Nat /\ MaxTime \in Nat
      /\ \A j \in 1..Last : log[j].time \in 1..MaxTime
  BY MostBounds, TimesOfLines, TestsAssumption DEF TestInv, TestShape, num
<1>2. \A i \in 1..num : \E k \in 1..Last : IsEnd(k, i)
  BY <1>1 DEF TestInv, EndLines
<1>3. Tests!Report # 0
  OBVIOUS
<1>4. PICK s, i, S, E :
           /\ s = Tests!Scan(log, num)
           /\ i \in 0..s.count - 2 /\ S \in 1..MaxTime /\ E \in 0..MaxTime
           /\ S - E \in Nat /\ Tests!Report = S - E
           /\ Cardinality(UpTo(s.ends, s.count, E)) > i
           /\ Cardinality(Below(s.starts, s.count, S)) <= i + 1
           /\ \E j \in 1..Last : log[j].event = "START" /\ log[j].time = S
           /\ \E j \in 1..Last : log[j].event = "END" /\ log[j].time = E
  BY <1>3, ReportIsAGap
<1>5. E < S
  BY <1>1, <1>3, <1>4
<1>6. PICK j \in 1..Last : log[j].event = "START" /\ log[j].time = S
  BY <1>4
<1>7. PICK k \in 1..Last : log[k].event = "END" /\ log[k].time = E
  BY <1>4
<1>8. log[j] \in Tests!Starts /\ log[k] \in Tests!Ends
  BY <1>6, <1>7 DEF Tests!Starts, Tests!Ends, Last
<1>9. ASSUME NEW q \in Tests!Starts, NEW r \in Tests!Ends, q.index = r.index
      PROVE  q.time >= S \/ r.time <= E
  <2>1. PICK a \in 1..Last : q = log[a] /\ log[a].event = "START"
    BY DEF Tests!Starts, Last
  <2>2. PICK b \in 1..Last : r = log[b] /\ log[b].event = "END"
    BY DEF Tests!Ends, Last
  <2> DEFINE h == q.index
  <2>3. h \in 1..num /\ h \in 1..Tests!Most /\ IsStart(a, h) /\ IsEnd(b, h)
    BY <1>1, <1>9, <2>1, <2>2 DEF TestInv, StartLines, IsStart, IsEnd
  <2> HIDE DEF h
  <2>4. \/ \E c \in 1..Last : IsEnd(c, h) /\ log[c].time <= E
        \/ \E c \in 1..Last : IsStart(c, h) /\ S <= log[c].time
    BY <1>2, <1>4, <1>5, <2>3, NobodyRuns
  <2>5. \A c \in 1..Last : (IsEnd(c, h) => c = b) /\ (IsStart(c, h) => c = a)
    BY <2>3 DEF TestInv, StartLines, EndLines
  <2>6. log[b].time <= E \/ S <= log[a].time
    BY <2>4, <2>5
  <2>7. S \in Nat /\ log[a].time \in Nat
    BY <1>1, <1>4
  <2> QED
    BY <2>1, <2>2, <2>6, <2>7
<1>10. log[j].time - log[k].time >= Tests!Report
  BY <1>1, <1>4, <1>6, <1>7
<1> QED
  BY <1>6, <1>7, <1>8, <1>9, <1>10

-----------------------------------------------------------------------------
(* The log of a test is its own, a START and an END of each process.  In a *)
(* test without killed workloads a reported starvation happened: between   *)
(* an END and a START that far apart nobody ran, although the times are    *)
(* sorted apart from their processes; and a test in which nobody started   *)
(* after the first END reports none (scheduler_quality_test1.c:70-137).    *)
THEOREM ReportsAreTrue == ProgramSpec => []ReportIsTrue
<1>1. ProgramInit => TestInv
  BY TestInitial
<1>2. TestInv /\ [ProgramNext]_all => TestInv'
  BY TestKept
<1>3. TestInv => ReportIsTrue
  BY LogOfThisTest, NoneIsReported, ReportIsReal
     DEF ReportIsTrue, Tests!ReportIsTrue
<1> QED
  BY <1>1, <1>2, <1>3, PTL DEF ProgramSpec

-----------------------------------------------------------------------------
(* Fractions.  What Euclid's algorithm returns divides both numbers.       *)

Divides(g, c) == \E q \in Nat : c = g * q

IsGcd(f, b) ==
  f = [d \in 0..b |-> [c \in Nat |-> IF d = 0 THEN c ELSE f[c % d][d]]]

LEMMA EuclidIsDefined ==
  ASSUME NEW b \in Nat
  PROVE  \E f : IsGcd(f, b)
<1> DEFINE S == {k \in Nat : \E f : IsGcd(f, k)}
<1>1. 0 \in S
  <2>1. IsGcd([d \in 0..0 |-> [c \in Nat |-> c]], 0)
    BY DEF IsGcd
  <2> QED
    BY <2>1
<1>2. ASSUME NEW k \in Nat, k \in S
      PROVE  k + 1 \in S
  <2>1. PICK f : IsGcd(f, k)
    BY <1>2
  <2> DEFINE g == [d \in 0..k + 1 |-> IF d \in 0..k THEN f[d]
                                      ELSE [c \in Nat |-> f[c % d][d]]]
             G(d) == [c \in Nat |-> IF d = 0 THEN c ELSE g[c % d][d]]
  <2>2. ASSUME NEW d \in 0..k + 1
        PROVE  g[d] = G(d)
    <3>1. CASE d \in 0..k
      <4>1. g[d] = [c \in Nat |-> IF d = 0 THEN c ELSE f[c % d][d]]
        BY <2>1, <3>1 DEF IsGcd
      <4>2. ASSUME NEW c \in Nat, d # 0
            PROVE  f[c % d] = g[c % d]
        <5>1. c % d \in 0..d - 1
          BY <4>2, <3>1
        <5>2. c % d \in 0..k
          BY <5>1, <3>1
        <5> QED
          BY <5>2
      <4> HIDE DEF g
      <4> QED
        BY <4>1, <4>2
    <3>2. CASE d = k + 1
      <4>1. g[d] = [c \in Nat |-> f[c % d][d]] /\ d # 0
        BY <3>2
      <4>2. ASSUME NEW c \in Nat
            PROVE  f[c % d] = g[c % d]
        <5>1. c % d \in 0..d - 1
          BY <3>2
        <5>2. c % d \in 0..k
          BY <5>1, <3>2
        <5> QED
          BY <5>2
      <4> HIDE DEF g
      <4> QED
        BY <4>1, <4>2
    <3> QED
      BY <3>1, <3>2
  <2>3. g = [d \in 0..k + 1 |-> g[d]]
    OBVIOUS
  <2>4. g = [d \in 0..k + 1 |-> G(d)]
    <3> HIDE DEF g, G
    <3> QED
      BY <2>2, <2>3
  <2>5. IsGcd(g, k + 1)
    <3> HIDE DEF g
    <3> QED
      BY <2>4 DEF IsGcd
  <2> QED
    BY <2>5
<1>3. Nat \subseteq S
  <2> HIDE DEF S
  <2> QED
    BY <1>1, <1>2, Induction
<1> QED
  BY <1>3

LEMMA DivMod ==
  ASSUME NEW c \in Nat, NEW d \in Nat \ {0}
  PROVE  /\ c \div d \in Nat /\ c % d \in 0..d - 1
         /\ c = d * (c \div d) + (c % d)
OBVIOUS

LEMMA EuclidDivides ==
  ASSUME NEW b \in Nat, NEW f, IsGcd(f, b), NEW a \in Nat, a > 0 \/ b > 0
  PROVE  /\ f[b][a] \in Nat \ {0}
         /\ Divides(f[b][a], a) /\ Divides(f[b][a], b)
<1> DEFINE Right(d, c) == c > 0 \/ d > 0 =>
             f[d][c] \in Nat \ {0} /\ Divides(f[d][c], c) /\ Divides(f[d][c], d)
           T == {k \in Nat : \A d \in 0..k : d <= b => \A c \in Nat : Right(d, c)}
<1>0. \A d \in 0..b : \A c \in Nat : f[d][c] = IF d = 0 THEN c ELSE f[c % d][d]
  BY DEF IsGcd
<1>1. ASSUME NEW c \in Nat
      PROVE  Right(0, c)
  <2>1. f[0][c] = c
    BY <1>0
  <2>2. c = c * 1 /\ 0 = c * 0
    OBVIOUS
  <2> QED
    BY <2>1, <2>2 DEF Divides
<1>2. 0 \in T
  <2> HIDE DEF Right
  <2> QED
    BY <1>1
<1>3. ASSUME NEW k \in Nat, k \in T
      PROVE  k + 1 \in T
  <2> SUFFICES ASSUME k + 1 <= b, NEW c \in Nat
               PROVE  Right(k + 1, c)
    <3> HIDE DEF Right
    <3> QED
      BY <1>3
  <2> DEFINE d == k + 1
             r == c % d
             h == f[r][d]
  <2>1. r \in 0..k /\ r <= b /\ d \in 0..b /\ d \in Nat \ {0}
    OBVIOUS
  <2>2. f[d][c] = h
    BY <1>0, <2>1
  <2>3. h \in Nat \ {0} /\ Divides(h, d) /\ Divides(h, r)
    <3>1. Right(r, d)
      <4> HIDE DEF Right, d, r
      <4> QED
        BY <1>3, <2>1
    <3> QED
      BY <3>1, <2>1
  <2>4. c = d * (c \div d) + r /\ c \div d \in Nat
    <3> HIDE DEF d, h
    <3> QED
      BY <2>1, DivMod
  <2> HIDE DEF d, r, h
  <2>5. PICK q1 \in Nat : d = h * q1
    BY <2>3 DEF Divides
  <2>6. PICK q2 \in Nat : r = h * q2
    BY <2>3 DEF Divides
  <2>7. ASSUME NEW x \in Nat, c = d * x + r
        PROVE  c = h * (q1 * x + q2) /\ q1 * x + q2 \in Nat
    <3>1. c = (h * q1) * x + h * q2
      BY <2>5, <2>6, <2>7
    <3> QED
      BY <2>3, <3>1
  <2>8. Divides(h, c)
    BY <2>4, <2>7 DEF Divides
  <2> QED
    BY <2>2, <2>3, <2>8 DEF d
<1>4. Nat \subseteq T
  <2> HIDE DEF T
  <2> QED
    BY <1>2, <1>3, Induction
<1>5. Right(b, a)
  <2> HIDE DEF Right
  <2> QED
    BY <1>4
<1> QED
  BY <1>5

LEMMA GcdDivides ==
  ASSUME NEW a \in Nat, NEW b \in Nat \ {0}
  PROVE  /\ Ratios!Gcd(a, b) \in Nat \ {0}
         /\ Divides(Ratios!Gcd(a, b), a) /\ Divides(Ratios!Gcd(a, b), b)
<1> DEFINE gcd == CHOOSE f : IsGcd(f, b)
<1>1. IsGcd(gcd, b)
  BY EuclidIsDefined
<1>2. Ratios!Gcd(a, b) = gcd[b][a]
  BY DEF Ratios!Gcd, IsGcd
<1> HIDE DEF gcd
<1> QED
  BY <1>1, <1>2, EuclidDivides

LEMMA Quotient ==
  ASSUME NEW g \in Nat \ {0}, NEW c \in Int, Divides(g, Ratios!Abs(c))
  PROVE  /\ c \div g \in Int /\ c = g * (c \div g)
<1>1. PICK q \in Nat : Ratios!Abs(c) = g * q
  BY DEF Divides
<1>2. \E p \in Int : c = g * p
  <2>1. CASE c < 0
    <3>1. -c = g * q
      BY <1>1, <2>1 DEF Ratios!Abs
    <3>2. c = g * (-q) /\ -q \in Int
      BY <3>1
    <3> QED
      BY <3>2
  <2>2. CASE ~ (c < 0)
    BY <1>1, <2>2 DEF Ratios!Abs
  <2> QED
    BY <2>1, <2>2
<1>3. PICK p \in Int : c = g * p
  BY <1>2
<1>4. (g * p) \div g = p
  OBVIOUS
<1> QED
  BY <1>3, <1>4

LEMMA RatioIsSound ==
  ASSUME NEW n \in Int, NEW d \in Int \ {0}
  PROVE  /\ Ratios!Ratio(n, d) \in Ratios!Rational
         /\ Ratios!Ratio(n, d).n * d = n * Ratios!Ratio(n, d).d
<1> DEFINE g == Ratios!Gcd(Ratios!Abs(n), Ratios!Abs(d))
           s == IF d < 0 THEN -1 ELSE 1
           p == n \div g
           q == d \div g
<1>1. Ratios!Abs(n) \in Nat /\ Ratios!Abs(d) \in Nat \ {0}
  BY DEF Ratios!Abs
<1>2. g \in Nat \ {0} /\ Divides(g, Ratios!Abs(n)) /\ Divides(g, Ratios!Abs(d))
  BY <1>1, GcdDivides
<1>3. Ratios!Ratio(n, d) = [n |-> s * p, d |-> s * q]
  BY DEF Ratios!Ratio
<1> HIDE DEF g
<1>4. /\ p \in Int /\ n = g * p
      /\ q \in Int /\ d = g * q
  BY <1>2, Quotient
<1> HIDE DEF p, q
<1>5. d < 0 => q < 0
  BY <1>2, <1>4
<1>6. d > 0 => q > 0
  BY <1>2, <1>4
<1>7. s * p \in Int /\ s * q \in Nat \ {0}
  BY <1>4, <1>5, <1>6
<1>8. (s * p) * d = n * (s * q)
  <2>1. p * d = n * q
    BY <1>2, <1>4
  <2> QED
    BY <1>4, <2>1
<1> QED
  BY <1>3, <1>7, <1>8 DEF Ratios!Rational

LEMMA PlusIsSound ==
  ASSUME NEW a \in Ratios!Rational, NEW b \in Ratios!Rational
  PROVE  /\ Ratios!Plus(a, b) \in Ratios!Rational
         /\ Ratios!Plus(a, b).n * (a.d * b.d) = (a.n * b.d + b.n * a.d) * Ratios!Plus(a, b).d
<1>1. a.n \in Int /\ a.d \in Nat \ {0} /\ b.n \in Int /\ b.d \in Nat \ {0}
  BY DEF Ratios!Rational
<1> DEFINE n == a.n * b.d + b.n * a.d
           d == a.d * b.d
<1>2. n \in Int /\ d \in Int \ {0}
  BY <1>1
<1>3. Ratios!Plus(a, b) = Ratios!Ratio(n, d)
  BY DEF Ratios!Plus
<1> HIDE DEF n, d
<1>4. /\ Ratios!Plus(a, b) \in Ratios!Rational
      /\ Ratios!Plus(a, b).n * d = n * Ratios!Plus(a, b).d
  BY <1>2, <1>3, RatioIsSound
<1> QED
  BY <1>4 DEF n, d

-----------------------------------------------------------------------------
(* How far a fraction r is from x / Q, in units of 1 / (r.d * Q).          *)
Off(r, Q, x) == r.n * Q - x * r.d

LEMMA OffOfPlus ==
  ASSUME NEW a \in Ratios!Rational, NEW b \in Ratios!Rational,
         NEW Q \in Int, NEW x \in Int, NEW y \in Int
  PROVE  /\ Off(Ratios!Plus(a, b), Q, x + y) \in Int
         /\ Off(a, Q, x) >= 0 /\ Off(b, Q, y) >= 0 => Off(Ratios!Plus(a, b), Q, x + y) >= 0
         /\ Off(a, Q, x) <= 0 /\ Off(b, Q, y) <= 0 => Off(Ratios!Plus(a, b), Q, x + y) <= 0
<1>1. PICK p : p = Ratios!Plus(a, b)
  OBVIOUS
<1>2. /\ a.n \in Int /\ a.d \in Nat \ {0} /\ b.n \in Int /\ b.d \in Nat \ {0}
      /\ p.n \in Int /\ p.d \in Nat \ {0}
  BY <1>1, PlusIsSound DEF Ratios!Rational
<1>3. p.n * (a.d * b.d) = (a.n * b.d + b.n * a.d) * p.d
  BY <1>1, PlusIsSound
<1>4. PICK an \in Int, ad \in Nat \ {0}, bn \in Int, bd \in Nat \ {0},
            pn \in Int, pd \in Nat \ {0} :
        a.n = an /\ a.d = ad /\ b.n = bn /\ b.d = bd /\ p.n = pn /\ p.d = pd
  BY <1>2
<1>5. (pn * Q - (x + y) * pd) * (ad * bd)
        = pd * ((an * Q - x * ad) * bd + (bn * Q - y * bd) * ad)
  <2>1. pn * (ad * bd) = (an * bd + bn * ad) * pd
    BY <1>3, <1>4
  <2> QED
    BY <2>1
<1>6. PICK o \in Int, r \in Int, s \in Int, m \in Nat \ {0} :
        /\ o = pn * Q - (x + y) * pd /\ r = an * Q - x * ad /\ s = bn * Q - y * bd
        /\ m = ad * bd
  <2>1. /\ pn * Q - (x + y) * pd \in Int /\ an * Q - x * ad \in Int
        /\ bn * Q - y * bd \in Int /\ ad * bd \in Nat \ {0}
    OBVIOUS
  <2> QED
    BY <2>1, Zenon
<1>7. o * m = pd * (r * bd + s * ad)
  BY <1>5, <1>6
<1>8. r >= 0 /\ s >= 0 => r * bd + s * ad >= 0
  OBVIOUS
<1>9. r <= 0 /\ s <= 0 => r * bd + s * ad <= 0
  OBVIOUS
<1>10. r * bd + s * ad \in Int
  OBVIOUS
<1>11. \A t \in Int : o * m = pd * t => (t >= 0 => o >= 0) /\ (t <= 0 => o <= 0)
  OBVIOUS
<1>12. /\ r >= 0 /\ s >= 0 => o >= 0
       /\ r <= 0 /\ s <= 0 => o <= 0
  BY <1>7, <1>8, <1>9, <1>10, <1>11
<1> QED
  BY <1>1, <1>4, <1>6, <1>12 DEF Off

(* A fraction that is the quotient u / m of another one.                   *)
LEMMA OffOfRatio ==
  ASSUME NEW r \in Ratios!Rational, NEW u \in Int, NEW m \in Nat \ {0}, r.n * m = u * r.d,
         NEW Q \in Int, NEW x \in Int
  PROVE  /\ Off(r, Q, x) \in Int
         /\ u * Q - x * m >= 0 => Off(r, Q, x) >= 0
         /\ u * Q - x * m <= 0 => Off(r, Q, x) <= 0
<1>1. r.n \in Int /\ r.d \in Nat \ {0}
  BY DEF Ratios!Rational
<1>2. PICK n \in Int, d \in Nat \ {0} : n = r.n /\ d = r.d
  BY <1>1
<1>3. (n * Q - x * d) * m = d * (u * Q - x * m)
  <2>1. n * m = u * d
    BY <1>2
  <2> QED
    BY <2>1
<1>4. PICK o \in Int, t \in Int : o = n * Q - x * d /\ t = u * Q - x * m
  OBVIOUS
<1>5. o * m = d * t
  BY <1>3, <1>4
<1>6. (t >= 0 => o >= 0) /\ (t <= 0 => o <= 0)
  BY <1>5
<1> QED
  BY <1>2, <1>4, <1>6 DEF Off

-----------------------------------------------------------------------------
(* The weighted mean.                                                      *)
IsIteration(f, n, z, F) == f = [k \in 0..n |-> IF k = 0 THEN z ELSE F[k][f[k - 1]]]

LEMMA IterationExists ==
  ASSUME NEW n \in Nat, NEW S, NEW z \in S, NEW F \in [1..n -> [S -> S]]
  PROVE  \E f \in [0..n -> S] : IsIteration(f, n, z, F)
<1> DEFINE Upto(f, k) == /\ f \in [0..k -> S] /\ f[0] = z
                         /\ \A i \in 1..k : f[i] = F[i][f[i - 1]]
           T == {k \in Nat : k <= n => \E f : Upto(f, k)}
<1>1. 0 \in T
  <2>1. Upto([i \in 0..0 |-> z], 0)
    OBVIOUS
  <2> QED
    BY <2>1
<1>2. ASSUME NEW k \in Nat, k \in T
      PROVE  k + 1 \in T
  <2> SUFFICES ASSUME k + 1 <= n
               PROVE  \E f : Upto(f, k + 1)
    OBVIOUS
  <2>1. PICK f : Upto(f, k)
    <3> HIDE DEF Upto
    <3> QED
      BY <1>2
  <2> DEFINE y == F[k + 1][f[k]]
             g == [i \in 0..k + 1 |-> IF i <= k THEN f[i] ELSE y]
  <2>2. f[k] \in S /\ y \in S
    BY <2>1
  <2>3. g \in [0..k + 1 -> S] /\ g[0] = z
    <3> HIDE DEF y
    <3> QED
      BY <2>1, <2>2
  <2>4. ASSUME NEW i \in 1..k + 1
        PROVE  g[i] = F[i][g[i - 1]]
    <3>1. CASE i <= k
      BY <2>1, <3>1
    <3>2. CASE i = k + 1
      BY <3>2
    <3> QED
      BY <3>1, <3>2
  <2>5. Upto(g, k + 1)
    <3> HIDE DEF g
    <3> QED
      BY <2>3, <2>4
  <2> QED
    BY <2>5
<1>3. Nat \subseteq T
  <2> HIDE DEF T
  <2> QED
    BY <1>1, <1>2, Induction
<1>4. PICK f : Upto(f, n)
  <2> HIDE DEF Upto
  <2> QED
    BY <1>3
<1>5. f = [k \in 0..n |-> f[k]]
  BY <1>4
<1>6. \A k \in 0..n : f[k] = IF k = 0 THEN z ELSE F[k][f[k - 1]]
  BY <1>4
<1>7. IsIteration(f, n, z, F)
  BY <1>5, <1>6 DEF IsIteration
<1> QED
  BY <1>4, <1>7

LEMMA PowersOfTwo ==
  /\ Ratios!Power \in [0..WIDTH - 1 -> Nat \ {0}]
  /\ Ratios!Power[0] = 1
  /\ \A k \in 1..WIDTH - 1 : Ratios!Power[k] = 2 * Ratios!Power[k - 1]
<1> DEFINE n == WIDTH - 1
           F == [k \in 1..n |-> [x \in Nat \ {0} |-> 2 * x]]
           Ok(f) == f = [k \in 0..n |-> IF k = 0 THEN 1 ELSE 2 * f[k - 1]]
<1>1. n \in Nat
  BY RatiosAssumption
<1>2. F \in [1..n -> [Nat \ {0} -> Nat \ {0}]]
  OBVIOUS
<1>3. PICK f \in [0..n -> Nat \ {0}] : IsIteration(f, n, 1, F)
  <2>1. 1 \in Nat \ {0}
    OBVIOUS
  <2> HIDE DEF F, n
  <2> QED
    BY <1>1, <1>2, <2>1, IterationExists, Zenon
<1>4. ASSUME NEW k \in 1..n
      PROVE  F[k][f[k - 1]] = 2 * f[k - 1]
  <2> HIDE DEF n
  <2>1. f[k - 1] \in Nat \ {0}
    BY <1>1, <1>3
  <2> QED
    BY <2>1
<1>5. Ok(f)
  <2> HIDE DEF F, n
  <2> QED
    BY <1>1, <1>3, <1>4 DEF IsIteration
<1>6. Ok(Ratios!Power)
  BY <1>5 DEF Ratios!Power
<1>7. \A k \in 0..n : Ratios!Power[k] = IF k = 0 THEN 1 ELSE 2 * Ratios!Power[k - 1]
  BY <1>6
<1>8. \A k \in 0..n : f[k] = IF k = 0 THEN 1 ELSE 2 * f[k - 1]
  BY <1>5
<1> DEFINE T == {k \in Nat : k <= n => Ratios!Power[k] = f[k]}
<1>9. 0 \in T
  BY <1>1, <1>7, <1>8
<1>10. ASSUME NEW k \in Nat, k \in T
       PROVE  k + 1 \in T
  <2> HIDE DEF n
  <2> QED
    BY <1>1, <1>7, <1>8, <1>10
<1>11. Nat \subseteq T
  <2> HIDE DEF T
  <2> QED
    BY <1>9, <1>10, Induction
<1>12. Ratios!Power = [k \in 0..n |-> Ratios!Power[k]]
  BY <1>6
<1>13. \A k \in 0..n : Ratios!Power[k] = f[k]
  BY <1>1, <1>11
<1> HIDE DEF n
<1>14. Ratios!Power \in [0..n -> Nat \ {0}]
  BY <1>3, <1>12, <1>13
<1> QED
  BY <1>1, <1>7, <1>14 DEF n

LEMMA WeightsHalve ==
  ASSUME NEW m \in 1..WIDTH - 1
  PROVE  /\ Ratios!Weights(m) \in [1..m -> Nat \ {0}]
         /\ \A i \in 1..m - 1 : Ratios!Weights(m)[i] = 2 * Ratios!Weights(m)[i + 1]
<1>1. WIDTH \in Nat /\ m \in Nat
  BY RatiosAssumption
<1>2. ASSUME NEW i \in 1..m
      PROVE  Ratios!Weight(i - 1) = Ratios!Power[WIDTH - i]
  <2>1. (i - 1) % WIDTH = i - 1
    BY <1>1
  <2>2. i - 1 # WIDTH - 1 /\ WIDTH - 1 - (i - 1) = WIDTH - i
    BY <1>1
  <2> QED
    BY <2>1, <2>2 DEF Ratios!Weight
<1>3. Ratios!Weights(m) = [i \in 1..m |-> Ratios!Power[WIDTH - i]]
  BY <1>2 DEF Ratios!Weights
<1>4. \A i \in 1..m : WIDTH - i \in 0..WIDTH - 1
  BY <1>1
<1>5. ASSUME NEW i \in 1..m - 1
      PROVE  Ratios!Power[WIDTH - i] = 2 * Ratios!Power[WIDTH - (i + 1)]
  <2>1. WIDTH - i \in 1..WIDTH - 1 /\ (WIDTH - i) - 1 = WIDTH - (i + 1)
    BY <1>1
  <2> QED
    BY <2>1, PowersOfTwo
<1>6. \A i \in 1..m - 1 : i \in 1..m /\ i + 1 \in 1..m
  BY <1>1
<1> QED
  BY <1>3, <1>4, <1>5, <1>6, PowersOfTwo

(* The two sums of compute_weighted_ratios over the terms T with weights w *)
Weighted(T, w, k) == Ratios!Ratio(w[k] * T[k].n, T[k].d)
IsSum(f, T, w) ==
  f = [k \in 0..Len(T) |-> IF k = 0 THEN Ratios!Zero
                           ELSE Ratios!Plus(f[k - 1], Weighted(T, w, k))]
IsTotal(f, T, w) ==
  f = [k \in 0..Len(T) |-> IF k = 0 THEN 0 ELSE f[k - 1] + w[k]]

LEMMA TermsAreWeighted ==
  ASSUME NEW m \in Nat, NEW T \in [1..m -> Ratios!Rational],
         NEW w \in [1..m -> Nat \ {0}], NEW k \in 1..m
  PROVE  /\ Weighted(T, w, k) \in Ratios!Rational
         /\ Weighted(T, w, k).n * T[k].d = (w[k] * T[k].n) * Weighted(T, w, k).d
<1>1. T[k].n \in Int /\ T[k].d \in Int \ {0} /\ w[k] \in Int
  BY DEF Ratios!Rational
<1> DEFINE n == w[k] * T[k].n
<1>2. n \in Int
  BY <1>1
<1>3. Weighted(T, w, k) = Ratios!Ratio(n, T[k].d)
  BY DEF Weighted
<1> HIDE DEF n
<1>4. /\ Weighted(T, w, k) \in Ratios!Rational
      /\ Weighted(T, w, k).n * T[k].d = n * Weighted(T, w, k).d
  BY <1>1, <1>2, <1>3, RatioIsSound
<1> QED
  BY <1>4 DEF n

LEMMA ZeroIsRational == Ratios!Zero \in Ratios!Rational
BY DEF Ratios!Zero, Ratios!Whole, Ratios!Rational

LEMMA SumExists ==
  ASSUME NEW m \in Nat, NEW T \in [1..m -> Ratios!Rational], Len(T) = m,
         NEW w \in [1..m -> Nat \ {0}]
  PROVE  \E f : IsSum(f, T, w)
<1> DEFINE S == Ratios!Rational
           F == [k \in 1..m |-> [x \in S |-> Ratios!Plus(x, Weighted(T, w, k))]]
<1>1. ASSUME NEW k \in 1..m, NEW x \in S
      PROVE  Ratios!Plus(x, Weighted(T, w, k)) \in S
  BY TermsAreWeighted, PlusIsSound
<1> HIDE DEF S
<1>2. F \in [1..m -> [S -> S]]
  BY <1>1
<1>3. PICK f \in [0..m -> S] : IsIteration(f, m, Ratios!Zero, F)
  <2>1. Ratios!Zero \in S
    BY ZeroIsRational DEF S
  <2> HIDE DEF F
  <2> QED
    BY <1>2, <2>1, IterationExists, Zenon
<1>4. ASSUME NEW k \in 1..m
      PROVE  F[k][f[k - 1]] = Ratios!Plus(f[k - 1], Weighted(T, w, k))
  <2>1. f[k - 1] \in S
    BY <1>3
  <2> QED
    BY <2>1
<1>5. IsSum(f, T, w)
  <2> HIDE DEF F
  <2> QED
    <3>1. f = [k \in 0..m |-> IF k = 0 THEN Ratios!Zero ELSE F[k][f[k - 1]]]
      BY <1>3 DEF IsIteration
    <3>2. \A k \in 0..m : k # 0 => k \in 1..m
      OBVIOUS
    <3>3. \A k \in 0..m : k # 0 => F[k][f[k - 1]] = Ratios!Plus(f[k - 1], Weighted(T, w, k))
      BY <1>4, <3>2, Zenon
    <3>4. f = [k \in 0..m |-> IF k = 0 THEN Ratios!Zero
                             ELSE Ratios!Plus(f[k - 1], Weighted(T, w, k))]
      BY <3>1, <3>3, Zenon
    <3> QED
      BY <3>4 DEF IsSum
<1> QED
  BY <1>5

LEMMA SumSteps ==
  ASSUME NEW m \in Nat, NEW T \in [1..m -> Ratios!Rational], Len(T) = m,
         NEW w \in [1..m -> Nat \ {0}], NEW f, IsSum(f, T, w)
  PROVE  /\ f[0] = Ratios!Zero
         /\ \A k \in 1..m : f[k] = Ratios!Plus(f[k - 1], Weighted(T, w, k))
         /\ \A k \in 0..m : f[k] \in Ratios!Rational
<1>1. f[0] = Ratios!Zero
  BY DEF IsSum
<1>2. \A k \in 1..m : f[k] = Ratios!Plus(f[k - 1], Weighted(T, w, k))
  BY DEF IsSum
<1> DEFINE U == {k \in Nat : k <= m => f[k] \in Ratios!Rational}
<1>3. 0 \in U
  BY <1>1, ZeroIsRational
<1>4. ASSUME NEW k \in Nat, k \in U
      PROVE  k + 1 \in U
  <2> SUFFICES ASSUME k + 1 <= m
               PROVE  f[k + 1] \in Ratios!Rational
    OBVIOUS
  <2>1. k + 1 \in 1..m /\ (k + 1) - 1 = k /\ f[k] \in Ratios!Rational
    BY <1>4
  <2>2. f[k + 1] = Ratios!Plus(f[k], Weighted(T, w, k + 1))
    BY <1>2, <2>1
  <2>3. Weighted(T, w, k + 1) \in Ratios!Rational
    BY <2>1, TermsAreWeighted
  <2> QED
    BY <2>1, <2>2, <2>3, PlusIsSound
<1>5. Nat \subseteq U
  <2> HIDE DEF U
  <2> QED
    BY <1>3, <1>4, Induction
<1>6. \A k \in 0..m : f[k] \in Ratios!Rational
  BY <1>5
<1> QED
  BY <1>1, <1>2, <1>6

LEMMA TotalExists ==
  ASSUME NEW m \in Nat, NEW T, Len(T) = m, NEW w \in [1..m -> Nat \ {0}]
  PROVE  \E f : IsTotal(f, T, w)
<1> DEFINE F == [k \in 1..m |-> [x \in Nat |-> x + w[k]]]
<1>1. F \in [1..m -> [Nat -> Nat]]
  OBVIOUS
<1>2. PICK f \in [0..m -> Nat] : IsIteration(f, m, 0, F)
  <2>1. 0 \in Nat
    OBVIOUS
  <2> HIDE DEF F
  <2> QED
    BY <1>1, <2>1, IterationExists, Zenon
<1>3. ASSUME NEW k \in 1..m
      PROVE  F[k][f[k - 1]] = f[k - 1] + w[k]
  <2>1. f[k - 1] \in Nat
    BY <1>2
  <2> QED
    BY <2>1
<1>4. IsTotal(f, T, w)
  <2> HIDE DEF F
  <2> QED
    BY <1>2, <1>3 DEF IsIteration, IsTotal
<1> QED
  BY <1>4

(* Because the weights halve, their sum is twice the first less the last.  *)
LEMMA TotalIs ==
  ASSUME NEW m \in Nat \ {0}, NEW T, Len(T) = m, NEW w \in [1..m -> Nat \ {0}],
         \A i \in 1..m - 1 : w[i] = 2 * w[i + 1],
         NEW f, IsTotal(f, T, w)
  PROVE  /\ f[0] = 0
         /\ \A k \in 1..m : f[k] = f[k - 1] + w[k]
         /\ \A k \in 1..m : f[k] = 2 * w[1] - w[k] /\ f[k] \in Nat \ {0}
<1>1. f[0] = 0 /\ \A k \in 1..m : f[k] = f[k - 1] + w[k]
  BY DEF IsTotal
<1> DEFINE U == {k \in Nat : k + 1 <= m => /\ f[k + 1] = 2 * w[1] - w[k + 1]
                                           /\ f[k + 1] \in Nat \ {0}}
<1>2. 0 \in U
  BY <1>1
<1>3. ASSUME NEW k \in Nat, k \in U
      PROVE  k + 1 \in U
  <2> SUFFICES ASSUME k + 2 <= m
               PROVE  f[k + 2] = 2 * w[1] - w[k + 2] /\ f[k + 2] \in Nat \ {0}
    OBVIOUS
  <2>1. PICK i \in 1..m - 1, j \in 1..m : i = k + 1 /\ j = k + 2 /\ j = i + 1 /\ j - 1 = i
    OBVIOUS
  <2>2. f[i] = 2 * w[1] - w[i] /\ f[i] \in Nat \ {0}
    BY <1>3, <2>1
  <2> HIDE DEF U
  <2>3. f[j] = f[i] + w[j] /\ w[i] = 2 * w[j]
    BY <1>1, <2>1
  <2>4. w[j] \in Nat \ {0} /\ w[1] \in Nat
    BY <2>1
  <2>5. f[j] = 2 * w[1] - w[j] /\ f[j] \in Nat \ {0}
    <3>1. PICK x \in Nat, y \in Nat \ {0}, z \in Nat \ {0} : x = w[1] /\ y = w[j] /\ z = f[i]
      BY <2>2, <2>4
    <3>2. f[j] = z + y /\ z = 2 * x - 2 * y
      BY <2>2, <2>3, <3>1
    <3>3. z + y = 2 * x - y /\ z + y \in Nat \ {0}
      BY <3>2
    <3> QED
      BY <3>1, <3>2, <3>3
  <2> QED
    BY <2>1, <2>5
<1>4. Nat \subseteq U
  <2> HIDE DEF U
  <2> QED
    BY <1>2, <1>3, Induction
<1>5. ASSUME NEW k \in 1..m
      PROVE  f[k] = 2 * w[1] - w[k] /\ f[k] \in Nat \ {0}
  <2>1. k - 1 \in Nat /\ (k - 1) + 1 = k
    OBVIOUS
  <2>2. k - 1 \in U
    BY <1>4, <2>1
  <2> QED
    BY <2>1, <2>2
<1> QED
  BY <1>1, <1>5

LEMMA TermOff ==
  ASSUME NEW m \in Nat, NEW T \in [1..m -> Ratios!Rational],
         NEW w \in [1..m -> Nat \ {0}], NEW k \in 1..m, NEW Q \in Int, NEW c \in Int
  PROVE  /\ Off(T[k], Q, c) >= 0 => Off(Weighted(T, w, k), Q, w[k] * c) >= 0
         /\ Off(T[k], Q, c) <= 0 => Off(Weighted(T, w, k), Q, w[k] * c) <= 0
<1>1. PICK r \in Ratios!Rational, n \in Int, d \in Nat \ {0}, v \in Nat \ {0} :
        r = Weighted(T, w, k) /\ n = T[k].n /\ d = T[k].d /\ v = w[k]
  BY TermsAreWeighted DEF Ratios!Rational
<1>2. r.n * d = (v * n) * r.d
  BY <1>1, TermsAreWeighted
<1>3. PICK u \in Int, x \in Int : u = v * n /\ x = v * c
  BY <1>1
<1>4. /\ u * Q - x * d >= 0 => Off(r, Q, x) >= 0
      /\ u * Q - x * d <= 0 => Off(r, Q, x) <= 0
  BY <1>2, <1>3, OffOfRatio
<1>5. u * Q - x * d = v * (n * Q - c * d)
  BY <1>3
<1>6. PICK o \in Int : o = n * Q - c * d
  OBVIOUS
<1>7. (o >= 0 => v * o >= 0) /\ (o <= 0 => v * o <= 0)
  OBVIOUS
<1> QED
  BY <1>1, <1>3, <1>4, <1>5, <1>6, <1>7 DEF Off

(* The sum lies where its terms do: all beyond L / Q, and the p-th beyond  *)
(* A / Q, in the one direction or in the other.                            *)
LEMMA SumOff ==
  ASSUME NEW m \in Nat, NEW T \in [1..m -> Ratios!Rational], Len(T) = m,
         NEW w \in [1..m -> Nat \ {0}], NEW s, IsSum(s, T, w),
         NEW d, d[0] = 0, \A k \in 1..m : d[k] = d[k - 1] + w[k],
         \A k \in 0..m : d[k] \in Nat,
         NEW p \in 1..m, NEW Q \in Int, NEW A \in Int, NEW L \in Int
  PROVE  /\ (\A i \in 1..m : Off(T[i], Q, IF i = p THEN A ELSE L) >= 0)
              => Off(s[m], Q, d[m] * L + w[p] * (A - L)) >= 0
         /\ (\A i \in 1..m : Off(T[i], Q, IF i = p THEN A ELSE L) <= 0)
              => Off(s[m], Q, d[m] * L + w[p] * (A - L)) <= 0
<1>1. /\ s[0] = Ratios!Zero
      /\ \A k \in 1..m : s[k] = Ratios!Plus(s[k - 1], Weighted(T, w, k))
      /\ \A k \in 0..m : s[k] \in Ratios!Rational
  <2>1. s[0] = Ratios!Zero
    BY SumSteps
  <2>2. \A k \in 1..m : s[k] = Ratios!Plus(s[k - 1], Weighted(T, w, k))
    BY DEF IsSum
  <2>3. \A k \in 0..m : s[k] \in Ratios!Rational
    BY SumSteps
  <2> QED
    BY <2>1, <2>2, <2>3
<1> DEFINE C(i) == IF i = p THEN A ELSE L
           B == w[p] * (A - L)
           E(k) == d[k] * L + IF p <= k THEN B ELSE 0
           Above == \A i \in 1..m : Off(T[i], Q, C(i)) >= 0
           Under == \A i \in 1..m : Off(T[i], Q, C(i)) <= 0
           U == {k \in Nat : k <= m => /\ Above => Off(s[k], Q, E(k)) >= 0
                                       /\ Under => Off(s[k], Q, E(k)) <= 0}
<1>2. \A k \in 0..m : E(k) \in Int
  <2> SUFFICES ASSUME NEW k \in 0..m PROVE E(k) \in Int
    OBVIOUS
  <2>1. d[k] \in Int /\ w[p] \in Int
    OBVIOUS
  <2>2. d[k] * L \in Int /\ B \in Int
    BY <2>1
  <2> HIDE DEF B
  <2> QED
    BY <2>2
<1>3. E(0) = 0
  OBVIOUS
<1>4. ASSUME NEW k \in 1..m
      PROVE  E(k) = E(k - 1) + w[k] * C(k) /\ w[k] * C(k) \in Int /\ C(k) \in Int
  <2>1. PICK x \in Nat, y \in Nat, v \in Nat : x = d[k - 1] /\ y = d[k] /\ v = w[k]
    BY <1>4
  <2>2. y = x + v
    BY <2>1
  <2>3. y * L = x * L + v * L
    BY <2>2
  <2>4. CASE k = p
    <3>1. B = v * A - v * L
      BY <2>1, <2>4
    <3>2. E(k) = y * L + B /\ E(k - 1) = x * L + 0
      BY <2>1, <2>4
    <3>3. x * L \in Int /\ v * L \in Int /\ v * A \in Int /\ y * L \in Int
      OBVIOUS
    <3>4. C(k) = A /\ w[k] * C(k) = v * A
      BY <2>1, <2>4
    <3> HIDE DEF B, E, C
    <3>5. PICK xl \in Int, yl \in Int, vl \in Int, va \in Int :
            xl = x * L /\ yl = y * L /\ vl = v * L /\ va = v * A
      BY <3>3
    <3>6. /\ E(k) = yl + B /\ E(k - 1) = xl + 0 /\ B = va - vl
          /\ yl = xl + vl /\ w[k] * C(k) = va
      BY <2>3, <3>1, <3>2, <3>4, <3>5
    <3>7. E(k) = E(k - 1) + va
      BY <3>6
    <3> QED
      BY <3>4, <3>6, <3>7
  <2>5. CASE k # p
    <3>1. (p <= k) <=> (p <= k - 1)
      BY <2>5
    <3>2. PICK z \in Int : z = IF p <= k THEN B ELSE 0
      <4>1. w[p] \in Int
        OBVIOUS
      <4> QED
        BY <4>1
    <3>3. E(k) = y * L + z /\ E(k - 1) = x * L + z
      BY <2>1, <3>1, <3>2
    <3>4. C(k) = L /\ w[k] * C(k) = v * L
      BY <2>1, <2>5
    <3>5. x * L \in Int /\ v * L \in Int /\ y * L \in Int
      OBVIOUS
    <3> HIDE DEF B, E, C
    <3>6. PICK xl \in Int, yl \in Int, vl \in Int :
            xl = x * L /\ yl = y * L /\ vl = v * L
      BY <3>5
    <3>7. E(k) = yl + z /\ E(k - 1) = xl + z /\ yl = xl + vl /\ w[k] * C(k) = vl
      BY <2>3, <3>3, <3>4, <3>6
    <3>8. E(k) = E(k - 1) + vl
      BY <3>7
    <3> QED
      BY <3>4, <3>7, <3>8
  <2> QED
    BY <2>4, <2>5
<1> HIDE DEF B, E
<1>5. 0 \in U
  <2>1. Off(s[0], Q, 0) = 0
    BY <1>1 DEF Off, Ratios!Zero, Ratios!Whole
  <2> QED
    BY <1>3, <2>1
<1>6. ASSUME NEW j \in Nat, j \in U
      PROVE  j + 1 \in U
  <2> HIDE DEF Above, Under, C
  <2> SUFFICES ASSUME j + 1 <= m
               PROVE  /\ Above => Off(s[j + 1], Q, E(j + 1)) >= 0
                      /\ Under => Off(s[j + 1], Q, E(j + 1)) <= 0
    OBVIOUS
  <2>1. PICK k \in 1..m : k = j + 1 /\ k - 1 = j /\ j \in 0..m
    OBVIOUS
  <2>2. /\ Above => Off(s[j], Q, E(j)) >= 0
        /\ Under => Off(s[j], Q, E(j)) <= 0
    BY <1>6, <2>1
  <2>3. /\ Above => Off(Weighted(T, w, k), Q, w[k] * C(k)) >= 0
        /\ Under => Off(Weighted(T, w, k), Q, w[k] * C(k)) <= 0
    <3>1. C(k) \in Int
      BY <1>4
    <3>2. /\ Above => Off(T[k], Q, C(k)) >= 0
          /\ Under => Off(T[k], Q, C(k)) <= 0
      BY DEF Above, Under
    <3> QED
      BY <3>1, <3>2, TermOff
  <2>4. PICK x \in Int, y \in Int : x = E(j) /\ y = w[k] * C(k) /\ E(k) = x + y
    BY <1>2, <1>4, <2>1
  <2>5. s[k] = Ratios!Plus(s[j], Weighted(T, w, k)) /\ s[j] \in Ratios!Rational
        /\ Weighted(T, w, k) \in Ratios!Rational
    BY <1>1, <2>1, TermsAreWeighted
  <2> HIDE DEF U
  <2>6. /\ Above => Off(s[k], Q, x + y) >= 0
        /\ Under => Off(s[k], Q, x + y) <= 0
    BY <2>2, <2>3, <2>4, <2>5, OffOfPlus
  <2> QED
    BY <2>1, <2>4, <2>6
<1>7. Nat \subseteq U
  <2> HIDE DEF U
  <2> QED
    BY <1>5, <1>6, Induction
<1>8. /\ Above => Off(s[m], Q, E(m)) >= 0
      /\ Under => Off(s[m], Q, E(m)) <= 0
  <2> HIDE DEF Above, Under
  <2>1. m \in U
    <3> HIDE DEF U
    <3> QED
      BY <1>7
  <2> QED
    BY <2>1
<1>9. E(m) = d[m] * L + B
  BY DEF E
<1> QED
  BY <1>8, <1>9 DEF B
(* What the sum tells of the mean: with the total D of the weights, it is   *)
(* beyond (D * L + w[p] * (A - L)) / (Q * D).                               *)
Beyond(M, D, T, w, m) ==
  \A p \in 1..m, Q \in Int, A \in Int, L \in Int :
    /\ (\A i \in 1..m : Off(T[i], Q, IF i = p THEN A ELSE L) >= 0)
         => Off(M, Q * D, D * L + w[p] * (A - L)) >= 0
    /\ (\A i \in 1..m : Off(T[i], Q, IF i = p THEN A ELSE L) <= 0)
         => Off(M, Q * D, D * L + w[p] * (A - L)) <= 0

LEMMA BeyondAt ==
  ASSUME NEW M, NEW D, NEW T, NEW w, NEW m, Beyond(M, D, T, w, m),
         NEW p \in 1..m, NEW Q \in Int, NEW A \in Int, NEW L \in Int
  PROVE  /\ (\A i \in 1..m : Off(T[i], Q, IF i = p THEN A ELSE L) >= 0)
              => Off(M, Q * D, D * L + w[p] * (A - L)) >= 0
         /\ (\A i \in 1..m : Off(T[i], Q, IF i = p THEN A ELSE L) <= 0)
              => Off(M, Q * D, D * L + w[p] * (A - L)) <= 0
BY Zenon DEF Beyond

LEMMA QuotientIsBeyond ==
  ASSUME NEW m \in 1..WIDTH - 1, NEW T \in [1..m -> Ratios!Rational], Len(T) = m,
         NEW s, IsSum(s, T, Ratios!Weights(m)), NEW d, IsTotal(d, T, Ratios!Weights(m))
  PROVE  /\ Ratios!Ratio(s[m].n, s[m].d * d[m]) \in Ratios!Rational
         /\ d[m] = 2 * Ratios!Weights(m)[1] - Ratios!Weights(m)[m]
         /\ d[m] \in Nat \ {0}
         /\ Beyond(Ratios!Ratio(s[m].n, s[m].d * d[m]), d[m], T, Ratios!Weights(m), m)
<1>1. WIDTH \in Nat /\ m \in Nat \ {0}
  BY RatiosAssumption
<1>2. PICK w \in [1..m -> Nat \ {0}] : /\ w = Ratios!Weights(m)
                                       /\ \A i \in 1..m - 1 : w[i] = 2 * w[i + 1]
  BY WeightsHalve
<1>3. IsSum(s, T, w) /\ IsTotal(d, T, w)
  BY <1>2
<1>4. /\ d[0] = 0
      /\ \A k \in 1..m : d[k] = d[k - 1] + w[k]
      /\ \A k \in 1..m : d[k] = 2 * w[1] - w[k] /\ d[k] \in Nat \ {0}
  <2>1. \A i \in 1..m - 1 : w[i] = 2 * w[i + 1]
    BY <1>2
  <2>2. d[0] = 0
    BY <1>1, <1>3 DEF IsTotal
  <2>3. \A k \in 1..m : d[k] = d[k - 1] + w[k]
    BY <1>3 DEF IsTotal
  <2>4. \A k \in 1..m : d[k] = 2 * w[1] - w[k] /\ d[k] \in Nat \ {0}
    BY <1>1, <1>3, <2>1, TotalIs
  <2> QED
    BY <2>2, <2>3, <2>4
<1>5. \A k \in 0..m : d[k] \in Nat
  BY <1>1, <1>4
<1>6. s[m] \in Ratios!Rational
  BY <1>1, <1>3, SumSteps
<1>7. PICK n \in Int, q \in Nat \ {0}, D \in Nat \ {0} : n = s[m].n /\ q = s[m].d /\ D = d[m]
  <2>1. s[m].n \in Int /\ s[m].d \in Nat \ {0}
    BY <1>6 DEF Ratios!Rational
  <2>2. d[m] \in Nat \ {0}
    BY <1>1, <1>4
  <2> QED
    BY <2>1, <2>2
<1>8. q * D \in Nat \ {0}
  BY <1>7
<1>9. PICK M \in Ratios!Rational : M = Ratios!Ratio(n, q * D) /\ M.n * (q * D) = n * M.d
  BY <1>7, <1>8, RatioIsSound
<1>10. ASSUME NEW p \in 1..m, NEW Q \in Int, NEW A \in Int, NEW L \in Int
       PROVE  /\ (\A i \in 1..m : Off(T[i], Q, IF i = p THEN A ELSE L) >= 0)
                   => Off(M, Q * D, D * L + w[p] * (A - L)) >= 0
              /\ (\A i \in 1..m : Off(T[i], Q, IF i = p THEN A ELSE L) <= 0)
                   => Off(M, Q * D, D * L + w[p] * (A - L)) <= 0
  <2>1. PICK v \in Nat, x \in Int : v = w[p] /\ x = D * L + v * (A - L)
    BY <1>7
  <2>2. /\ (\A i \in 1..m : Off(T[i], Q, IF i = p THEN A ELSE L) >= 0)
             => Off(s[m], Q, d[m] * L + w[p] * (A - L)) >= 0
        /\ (\A i \in 1..m : Off(T[i], Q, IF i = p THEN A ELSE L) <= 0)
             => Off(s[m], Q, d[m] * L + w[p] * (A - L)) <= 0
    <3>1. d[0] = 0 /\ \A k \in 1..m : d[k] = d[k - 1] + w[k]
      BY <1>4
    <3>2. (\A i \in 1..m : Off(T[i], Q, IF i = p THEN A ELSE L) >= 0)
            => Off(s[m], Q, d[m] * L + w[p] * (A - L)) >= 0
      BY <1>1, <1>3, <1>5, <3>1, SumOff
    <3>3. (\A i \in 1..m : Off(T[i], Q, IF i = p THEN A ELSE L) <= 0)
            => Off(s[m], Q, d[m] * L + w[p] * (A - L)) <= 0
      BY <1>1, <1>3, <1>5, <3>1, SumOff
    <3> QED
      BY <3>2, <3>3
  <2>3. PICK o \in Int : o = n * Q - x * q
    BY <1>7
  <2>4. Off(s[m], Q, x) = o
    BY <1>7, <2>3 DEF Off
  <2>5. n * (Q * D) - x * (q * D) = D * o
    BY <2>3
  <2>6. (o >= 0 => D * o >= 0) /\ (o <= 0 => D * o <= 0)
    OBVIOUS
  <2>7. PICK y \in Int, z \in Nat \ {0} : y = Q * D /\ z = q * D
    BY <1>8
  <2>8. /\ o >= 0 => Off(M, y, x) >= 0
        /\ o <= 0 => Off(M, y, x) <= 0
    <3>1. M.n * z = n * M.d
      BY <1>9, <2>7
    <3>2. /\ n * y - x * z >= 0 => Off(M, y, x) >= 0
          /\ n * y - x * z <= 0 => Off(M, y, x) <= 0
      BY <3>1, OffOfRatio
    <3>3. n * y - x * z = D * o
      BY <2>5, <2>7
    <3> QED
      BY <2>6, <3>2, <3>3
  <2> QED
    BY <1>7, <2>1, <2>2, <2>4, <2>7, <2>8
<1>12. Beyond(M, D, T, w, m)
  BY <1>10 DEF Beyond
<1> QED
  BY <1>1, <1>2, <1>4, <1>7, <1>9, <1>12

(* compute_weighted_ratios returns a mean of its terms.                    *)
LEMMA MeanIsBeyond ==
  ASSUME NEW v, NEW h, NEW u, NEW b, NEW T, T = Ratios!Terms(v, h, u, b),
         NEW m \in 1..WIDTH - 1, T \in [1..m -> Ratios!Rational], Len(T) = m
  PROVE  /\ Ratios!WeightedMean(v, h, u, b) \in Ratios!Rational
         /\ Ratios!Weights(m) \in [1..m -> Nat \ {0}]
         /\ 2 * Ratios!Weights(m)[1] - Ratios!Weights(m)[m] \in Nat \ {0}
         /\ Beyond(Ratios!WeightedMean(v, h, u, b),
                   2 * Ratios!Weights(m)[1] - Ratios!Weights(m)[m], T, Ratios!Weights(m), m)
<1> DEFINE w == Ratios!Weights(m)
           s == CHOOSE f : IsSum(f, T, w)
           d == CHOOSE f : IsTotal(f, T, w)
<1>1. w \in [1..m -> Nat \ {0}]
  BY WeightsHalve
<1>2. Ratios!WeightedMean(v, h, u, b) = Ratios!Ratio(s[m].n, s[m].d * d[m])
  BY DEF Ratios!WeightedMean, IsSum, IsTotal, Weighted
<1>3. m \in Nat
  BY RatiosAssumption
<1> HIDE DEF w
<1>4. IsSum(s, T, w)
  BY <1>1, <1>3, SumExists
<1>5. IsTotal(d, T, w)
  BY <1>1, <1>3, TotalExists
<1> HIDE DEF s, d
<1>6. /\ Ratios!Ratio(s[m].n, s[m].d * d[m]) \in Ratios!Rational
      /\ d[m] = 2 * w[1] - w[m]
      /\ d[m] \in Nat \ {0}
      /\ Beyond(Ratios!Ratio(s[m].n, s[m].d * d[m]), d[m], T, w, m)
  <2> USE DEF w
  <2>1. IsSum(s, T, Ratios!Weights(m)) /\ IsTotal(d, T, Ratios!Weights(m))
    BY <1>4, <1>5
  <2> QED
    BY <2>1, QuotientIsBeyond
<1> QED
  BY <1>1, <1>2, <1>6 DEF w

LEMMA LeqIsOff ==
  ASSUME NEW x \in Ratios!Rational, NEW r \in Ratios!Rational
  PROVE  /\ Ratios!Leq(x, r) <=> Off(r, x.d, x.n) >= 0
         /\ Ratios!Leq(r, x) <=> Off(r, x.d, x.n) <= 0
         /\ Off(r, x.d, x.n) \in Int
<1>1. PICK a \in Int, b \in Int, c \in Int, d \in Int :
        a = x.n /\ b = x.d /\ c = r.n /\ d = r.d
  BY DEF Ratios!Rational
<1>2. PICK y \in Int, z \in Int : y = a * d /\ z = c * b
  BY <1>1
<1>3. (Ratios!Leq(x, r) <=> y <= z) /\ (Ratios!Leq(r, x) <=> z <= y)
  BY <1>1, <1>2 DEF Ratios!Leq
<1>4. Off(r, x.d, x.n) = z - y
  BY <1>1, <1>2 DEF Off
<1> QED
  BY <1>3, <1>4

(* The mean lies where all its terms do.                                   *)
LEMMA MeanBetween ==
  ASSUME NEW v, NEW h, NEW u, NEW b, NEW T, T = Ratios!Terms(v, h, u, b),
         NEW m \in 1..WIDTH - 1, T \in [1..m -> Ratios!Rational], Len(T) = m,
         NEW x \in Ratios!Rational
  PROVE  /\ (\A i \in 1..m : Ratios!Leq(x, T[i]))
              => Ratios!Leq(x, Ratios!WeightedMean(v, h, u, b))
         /\ (\A i \in 1..m : Ratios!Leq(T[i], x))
              => Ratios!Leq(Ratios!WeightedMean(v, h, u, b), x)
<1>1. m \in Nat /\ 1 \in 1..m /\ m \in 1..m
  BY RatiosAssumption
<1>2. PICK w : w = Ratios!Weights(m)
  OBVIOUS
<1>3. w \in [1..m -> Nat \ {0}]
  BY <1>2, MeanIsBeyond
<1>4. PICK M \in Ratios!Rational, D \in Nat \ {0} :
        /\ M = Ratios!WeightedMean(v, h, u, b)
        /\ Beyond(M, D, T, w, m)
  BY <1>2, MeanIsBeyond
<1>5. PICK L \in Int, Q \in Nat \ {0} : L = x.n /\ Q = x.d
  BY DEF Ratios!Rational
<1>6. PICK n \in Int, d \in Nat \ {0} : n = M.n /\ d = M.d
  BY DEF Ratios!Rational
<1>8. \A i \in 1..m : (IF i = 1 THEN L ELSE L) = L
  OBVIOUS
<1>9. /\ (\A i \in 1..m : Off(T[i], Q, L) >= 0) => Off(M, Q * D, D * L + w[1] * (L - L)) >= 0
      /\ (\A i \in 1..m : Off(T[i], Q, L) <= 0) => Off(M, Q * D, D * L + w[1] * (L - L)) <= 0
  <2>0. Q \in Int
    OBVIOUS
  <2>1. /\ (\A i \in 1..m : Off(T[i], Q, IF i = 1 THEN L ELSE L) >= 0)
            => Off(M, Q * D, D * L + w[1] * (L - L)) >= 0
        /\ (\A i \in 1..m : Off(T[i], Q, IF i = 1 THEN L ELSE L) <= 0)
            => Off(M, Q * D, D * L + w[1] * (L - L)) <= 0
    BY <1>1, <1>4, <2>0, BeyondAt, Zenon
  <2> QED
    BY <2>1
<1>10. D * L + w[1] * (L - L) = D * L
  <2>1. w[1] \in Nat
    BY <1>1, <1>3
  <2> QED
    BY <2>1
<1>11. PICK o \in Int : o = Off(M, Q, L)
  BY <1>5, LeqIsOff
<1>12. Off(M, Q * D, D * L) = D * o
  <2>1. Off(M, Q * D, D * L) = n * (Q * D) - (D * L) * d
    BY <1>6 DEF Off
  <2>2. o = n * Q - L * d
    BY <1>6, <1>11 DEF Off
  <2>3. n * (Q * D) - (D * L) * d = D * (n * Q - L * d)
    OBVIOUS
  <2> QED
    BY <2>1, <2>2, <2>3
<1>13. (D * o >= 0 => o >= 0) /\ (D * o <= 0 => o <= 0)
  OBVIOUS
<1>14. ASSUME NEW i \in 1..m
       PROVE  /\ Ratios!Leq(x, T[i]) <=> Off(T[i], Q, L) >= 0
              /\ Ratios!Leq(T[i], x) <=> Off(T[i], Q, L) <= 0
  BY <1>5, LeqIsOff
<1>15. /\ Ratios!Leq(x, M) <=> o >= 0
       /\ Ratios!Leq(M, x) <=> o <= 0
  BY <1>5, <1>11, LeqIsOff
<1>16. /\ (\A i \in 1..m : Ratios!Leq(x, T[i])) => D * o >= 0
       /\ (\A i \in 1..m : Ratios!Leq(T[i], x)) => D * o <= 0
  BY <1>9, <1>10, <1>12, <1>14
<1> QED
  BY <1>4, <1>13, <1>15, <1>16

LEMMA LeqOfOff ==
  ASSUME NEW a \in Ratios!Rational, NEW b \in Ratios!Rational,
         NEW Q \in Nat \ {0}, NEW u \in Int, a.n * Q = u * a.d
  PROVE  /\ Off(b, Q, u) >= 0 => Ratios!Leq(a, b)
         /\ Off(b, Q, u) <= 0 => Ratios!Leq(b, a)
<1>1. PICK n \in Int, d \in Nat \ {0}, e \in Int, f \in Nat \ {0} :
        n = a.n /\ d = a.d /\ e = b.n /\ f = b.d
  BY DEF Ratios!Rational
<1>2. PICK o \in Int : o = e * Q - u * f
  OBVIOUS
<1>3. Off(b, Q, u) = o
  BY <1>1, <1>2 DEF Off
<1>4. n * Q = u * d
  BY <1>1
<1>5. PICK x \in Int, y \in Int : x = n * f /\ y = e * d
  OBVIOUS
<1>6. Q * (y - x) = d * o
  <2>1. Q * (y - x) = e * d * Q - (n * Q) * f
    BY <1>5
  <2>2. Q * (y - x) = e * d * Q - (u * d) * f
    BY <1>4, <2>1
  <2> QED
    BY <1>2, <2>2
<1>7. PICK z \in Int : z = y - x
  OBVIOUS
<1>8. Q * z = d * o
  BY <1>6, <1>7
<1>9. /\ o >= 0 => z >= 0
      /\ o <= 0 => z <= 0
  <2>1. (o >= 0 => d * o >= 0) /\ (o <= 0 => d * o <= 0)
    OBVIOUS
  <2>2. (Q * z >= 0 => z >= 0) /\ (Q * z <= 0 => z <= 0)
    OBVIOUS
  <2> QED
    BY <1>8, <2>1, <2>2
<1>10. (Ratios!Leq(a, b) <=> x <= y) /\ (Ratios!Leq(b, a) <=> y <= x)
  BY <1>1, <1>5 DEF Ratios!Leq
<1> QED
  BY <1>3, <1>7, <1>9, <1>10

(* The newest sample weighs more than half of the total.                   *)
LEMMA FirstWeighsMost ==
  ASSUME NEW n \in Int, NEW d \in Nat \ {0}, NEW Q \in Int, NEW A \in Int, NEW L \in Int,
         NEW w \in Nat \ {0}, NEW z \in Nat \ {0}, NEW D \in Nat \ {0}, D = 2 * w - z,
         NEW o \in Int, o = n * (Q * D) - (D * L + w * (A - L)) * d
  PROVE  /\ o >= 0 /\ A >= L => (2 * n) * Q - (A + L) * d >= 0
         /\ o <= 0 /\ A <= L => (2 * n) * Q - (A + L) * d <= 0
<1>1. PICK k \in Int : k = (2 * n) * Q - (A + L) * d
  <2>1. PICK x \in Int, u \in Int : x = 2 * n /\ u = A + L
    OBVIOUS
  <2>2. x * Q - u * d \in Int
    OBVIOUS
  <2> QED
    BY <2>1, <2>2
<1>2. PICK y \in Int : y = z * ((A - L) * d)
  OBVIOUS
<1>3. D * k = 2 * o + y
  <2>1. D * k - 2 * o = (2 * w - D) * ((A - L) * d)
    BY <1>1
  <2>2. 2 * w - D = z
    OBVIOUS
  <2>3. D * k - 2 * o = y
    BY <1>2, <2>1, <2>2
  <2>4. D * k \in Int
    OBVIOUS
  <2> QED
    BY <2>3, <2>4
<1>4. (A >= L => y >= 0) /\ (A <= L => y <= 0)
  <2>1. PICK b \in Int : b = A - L
    OBVIOUS
  <2>2. PICK c \in Nat \ {0} : c = z * d
    OBVIOUS
  <2>3. y = c * b
    BY <1>2, <2>1, <2>2
  <2>4. (b >= 0 => c * b >= 0) /\ (b <= 0 => c * b <= 0)
    OBVIOUS
  <2> QED
    BY <2>1, <2>3, <2>4
<1>5. (D * k >= 0 => k >= 0) /\ (D * k <= 0 => k <= 0)
  OBVIOUS
<1> QED
  BY <1>1, <1>3, <1>4, <1>5

(* The mean is on the far side of half way from x to the newest sample.    *)
LEMMA MeanLeans ==
  ASSUME NEW v, NEW h, NEW u, NEW b, NEW T, T = Ratios!Terms(v, h, u, b),
         NEW m \in 1..WIDTH - 1, T \in [1..m -> Ratios!Rational], Len(T) = m,
         NEW x \in Ratios!Rational
  PROVE  /\ (\A i \in 1..m : Ratios!Leq(x, T[i]))
              => Ratios!Leq(Ratios!Plus(T[1], x), Ratios!Twice(Ratios!WeightedMean(v, h, u, b)))
         /\ (\A i \in 1..m : Ratios!Leq(T[i], x))
              => Ratios!Leq(Ratios!Twice(Ratios!WeightedMean(v, h, u, b)), Ratios!Plus(T[1], x))
<1>1. m \in Nat /\ 1 \in 1..m /\ m \in 1..m
  BY RatiosAssumption
<1>2. PICK w : w = Ratios!Weights(m)
  OBVIOUS
<1>3. w \in [1..m -> Nat \ {0}]
  BY <1>2, MeanIsBeyond
<1>4. PICK M \in Ratios!Rational, D \in Nat \ {0} :
        /\ M = Ratios!WeightedMean(v, h, u, b)
        /\ D = 2 * w[1] - w[m]
        /\ Beyond(M, D, T, w, m)
  BY <1>2, MeanIsBeyond
<1>5. T[1] \in Ratios!Rational
  BY <1>1
<1>6. PICK c \in Int, d \in Nat \ {0}, l \in Int, q \in Nat \ {0} :
        c = T[1].n /\ d = T[1].d /\ l = x.n /\ q = x.d
  BY <1>5 DEF Ratios!Rational
<1>7. PICK n \in Int, e \in Nat \ {0} : n = M.n /\ e = M.d
  BY DEF Ratios!Rational
<1>8. PICK Q \in Nat \ {0}, A \in Int, L \in Int : Q = d * q /\ A = c * q /\ L = l * d
  <2>1. d * q \in Nat \ {0} /\ c * q \in Int /\ l * d \in Int
    OBVIOUS
  <2> QED
    BY <2>1
<1>9. ASSUME NEW i \in 1..m
      PROVE  /\ Ratios!Leq(x, T[i]) => Off(T[i], Q, L) >= 0
             /\ Ratios!Leq(T[i], x) => Off(T[i], Q, L) <= 0
  <2>1. PICK f \in Int, g \in Nat \ {0} : f = T[i].n /\ g = T[i].d
    BY DEF Ratios!Rational
  <2>2. PICK o \in Int : o = f * q - l * g
    OBVIOUS
  <2>3. (Ratios!Leq(x, T[i]) <=> o >= 0) /\ (Ratios!Leq(T[i], x) <=> o <= 0)
    BY <1>6, <2>1, <2>2, LeqIsOff DEF Off
  <2>4. Off(T[i], Q, L) = f * (d * q) - (l * d) * g
    BY <1>8, <2>1 DEF Off
  <2>5. f * (d * q) - (l * d) * g = d * o
    BY <2>2
  <2>6. (o >= 0 => d * o >= 0) /\ (o <= 0 => d * o <= 0)
    OBVIOUS
  <2> QED
    BY <2>3, <2>4, <2>5, <2>6
<1>10. Off(T[1], Q, A) = 0
  <2>1. Off(T[1], Q, A) = c * (d * q) - (c * q) * d
    BY <1>6, <1>8 DEF Off
  <2>2. c * (d * q) - (c * q) * d = 0
    OBVIOUS
  <2> QED
    BY <2>1, <2>2
<1>11. (Ratios!Leq(x, T[1]) => A >= L) /\ (Ratios!Leq(T[1], x) => A <= L)
  BY <1>6, <1>8 DEF Ratios!Leq
<1>12. PICK y \in Nat \ {0}, z \in Nat \ {0} : y = w[1] /\ z = w[m]
  BY <1>1, <1>3
<1>13. Q \in Int
  OBVIOUS
<1>14. /\ (\A i \in 1..m : Off(T[i], Q, IF i = 1 THEN A ELSE L) >= 0)
             => Off(M, Q * D, D * L + w[1] * (A - L)) >= 0
       /\ (\A i \in 1..m : Off(T[i], Q, IF i = 1 THEN A ELSE L) <= 0)
             => Off(M, Q * D, D * L + w[1] * (A - L)) <= 0
  <2>1. Beyond(M, D, T, w, m)
    BY <1>4
  <2>2. 1 \in 1..m
    BY <1>1
  <2> QED
    BY <1>13, <2>1, <2>2, BeyondAt, Zenon
<1>15. PICK o \in Int : o = n * (Q * D) - (D * L + y * (A - L)) * e
  OBVIOUS
<1>16. Off(M, Q * D, D * L + w[1] * (A - L)) = o
  BY <1>7, <1>12, <1>15 DEF Off
<1>17. D = 2 * y - z
  BY <1>4, <1>12
<1>18. /\ o >= 0 /\ A >= L => (2 * n) * Q - (A + L) * e >= 0
       /\ o <= 0 /\ A <= L => (2 * n) * Q - (A + L) * e <= 0
  BY <1>15, <1>17, FirstWeighsMost
<1>19. PICK t \in Ratios!Rational : t = Ratios!Twice(M) /\ t.n * e = (2 * n) * t.d
  <2>1. PICK t \in Ratios!Rational : t = Ratios!Plus(M, M)
    BY PlusIsSound
  <2>2. PICK f \in Int, g \in Nat \ {0} : f = t.n /\ g = t.d
    BY DEF Ratios!Rational
  <2>3. f * (e * e) = (n * e + n * e) * g
    BY <1>7, <2>1, <2>2, PlusIsSound
  <2>4. e * (f * e) = e * ((2 * n) * g)
    BY <2>3
  <2>5. f * e = (2 * n) * g
    BY <2>4
  <2> QED
    BY <2>1, <2>2, <2>5 DEF Ratios!Twice
<1>20. PICK P \in Ratios!Rational : P = Ratios!Plus(T[1], x) /\ P.n * Q = (A + L) * P.d
  BY <1>5, <1>6, <1>8, PlusIsSound
<1>21. PICK k \in Int, r \in Int : k = 2 * n /\ r = A + L
  OBVIOUS
<1>22. /\ k * Q - r * e >= 0 => Off(t, Q, r) >= 0
       /\ k * Q - r * e <= 0 => Off(t, Q, r) <= 0
  BY <1>13, <1>19, <1>21, OffOfRatio
<1>23. /\ Off(t, Q, r) >= 0 => Ratios!Leq(P, t)
       /\ Off(t, Q, r) <= 0 => Ratios!Leq(t, P)
  BY <1>20, <1>21, LeqOfOff
<1>24. ASSUME \A i \in 1..m : Ratios!Leq(x, T[i])
       PROVE  Ratios!Leq(P, t)
  <2>1. A >= L
    BY <1>1, <1>11, <1>24
  <2>2. o >= 0
    BY <1>9, <1>10, <1>14, <1>16, <1>24
  <2> QED
    BY <1>18, <1>21, <1>22, <1>23, <2>1, <2>2
<1>25. ASSUME \A i \in 1..m : Ratios!Leq(T[i], x)
       PROVE  Ratios!Leq(t, P)
  <2>1. A <= L
    BY <1>1, <1>11, <1>25
  <2>2. o <= 0
    BY <1>9, <1>10, <1>14, <1>16, <1>25
  <2> QED
    BY <1>18, <1>21, <1>22, <1>23, <2>1, <2>2
<1> QED
  BY <1>4, <1>19, <1>20, <1>24, <1>25

LEMMA AbsTimes ==
  ASSUME NEW x \in Int, NEW y \in Nat
  PROVE  /\ Ratios!Abs(x) \in Nat
         /\ Ratios!Abs(x * y) = Ratios!Abs(x) * y
         /\ Ratios!Abs(y * x) = y * Ratios!Abs(x)
<1>1. PICK p \in Int : p = x * y
  OBVIOUS
<1>2. y * x = p
  BY <1>1
<1>3. CASE x < 0
  <2>1. PICK a \in Nat : a = -x
    BY <1>3
  <2>2. Ratios!Abs(x) = a
    BY <1>3, <2>1 DEF Ratios!Abs
  <2>3. p = -(a * y)
    BY <1>1, <2>1
  <2>4. a * y \in Nat
    OBVIOUS
  <2>5. Ratios!Abs(p) = a * y
    BY <2>3, <2>4 DEF Ratios!Abs
  <2> QED
    BY <1>1, <1>2, <2>2, <2>5
<1>4. CASE x >= 0
  <2>1. p >= 0
    BY <1>1, <1>4
  <2>2. Ratios!Abs(x) = x /\ Ratios!Abs(p) = p
    BY <1>4, <2>1 DEF Ratios!Abs
  <2> QED
    BY <1>1, <1>2, <1>4, <2>2
<1> QED
  BY <1>3, <1>4

(* Distance computes the distance of two ratios.                           *)
LEMMA DistanceIsSound ==
  ASSUME NEW a \in Ratios!Rational, NEW b \in Ratios!Rational
  PROVE  /\ Ratios!Distance(a, b) \in Ratios!Rational
         /\ Ratios!Distance(a, b).n \in Nat
         /\ Ratios!Distance(a, b).n * (a.d * b.d)
              = Ratios!Abs(a.n * b.d - b.n * a.d) * Ratios!Distance(a, b).d
<1>1. PICK m \in Int, p \in Nat \ {0}, n \in Int, q \in Nat \ {0} :
        m = a.n /\ p = a.d /\ n = b.n /\ q = b.d
  BY DEF Ratios!Rational
<1>2. PICK c \in Ratios!Rational : c = [b EXCEPT !.n = -@] /\ c.n = -n /\ c.d = q
  <2>1. b = [n |-> n, d |-> q]
    BY <1>1 DEF Ratios!Rational
  <2>2. [b EXCEPT !.n = -@] = [n |-> -n, d |-> q]
    BY <2>1
  <2>3. [n |-> -n, d |-> q] \in Ratios!Rational
    BY DEF Ratios!Rational
  <2> QED
    BY <2>2, <2>3
<1>3. PICK s \in Ratios!Rational : s = Ratios!Plus(a, c) /\ s.n * (p * q) = (m * q + (-n) * p) * s.d
  <2>1. Ratios!Plus(a, c) \in Ratios!Rational
    BY PlusIsSound
  <2>2. Ratios!Plus(a, c).n * (p * q) = (m * q + (-n) * p) * Ratios!Plus(a, c).d
    <3>1. PICK P : P = Ratios!Plus(a, c)
      OBVIOUS
    <3>2. P.n * (a.d * c.d) = (a.n * c.d + c.n * a.d) * P.d
      BY <3>1, PlusIsSound
    <3> QED
      BY <1>1, <1>2, <3>1, <3>2
  <2> QED
    BY <2>1, <2>2
<1>4. PICK x \in Int, y \in Nat \ {0} : x = s.n /\ y = s.d
  BY DEF Ratios!Rational
<1>5. Ratios!Distance(a, b) = [s EXCEPT !.n = Ratios!Abs(@)]
  BY <1>2, <1>3 DEF Ratios!Distance
<1>6. Ratios!Abs(x) \in Nat
  BY DEF Ratios!Abs
<1>7. PICK r \in Ratios!Rational : r = Ratios!Distance(a, b) /\ r.n = Ratios!Abs(x) /\ r.d = y
  BY <1>4, <1>5, <1>6 DEF Ratios!Rational
<1>8. PICK k \in Nat, z \in Int : k = p * q /\ z = m * q - n * p
  OBVIOUS
<1>9. x * k = z * y
  <2>1. (m * q + (-n) * p) = z
    BY <1>8
  <2> QED
    BY <1>3, <1>4, <1>8, <2>1
<1>10. Ratios!Abs(x) * k = Ratios!Abs(z) * y
  <2>1. Ratios!Abs(x * k) = Ratios!Abs(x) * k
    BY AbsTimes
  <2>2. Ratios!Abs(z * y) = Ratios!Abs(z) * y
    BY AbsTimes
  <2> QED
    BY <1>9, <2>1, <2>2
<1> QED
  BY <1>1, <1>6, <1>7, <1>8, <1>10

(* With two terms or more before it, the last one weighs at most a seventh *)
(* of the total.                                                           *)
LEMMA LastWeighsLeast ==
  ASSUME NEW m \in 3..WIDTH - 1
  PROVE  /\ Ratios!Weights(m) \in [1..m -> Nat \ {0}]
         /\ 4 * Ratios!Weights(m)[m] <= Ratios!Weights(m)[1]
<1>1. WIDTH \in Nat /\ m \in Nat /\ m \in 1..WIDTH - 1 /\ m >= 3
  BY RatiosAssumption
<1>2. PICK w \in [1..m -> Nat \ {0}] : /\ w = Ratios!Weights(m)
                                       /\ \A i \in 1..m - 1 : w[i] = 2 * w[i + 1]
  BY <1>1, WeightsHalve
<1> DEFINE U == {k \in Nat : k + 3 <= m => 4 * w[k + 3] <= w[1]}
<1>3. 0 \in U
  <2>1. w[1] = 2 * w[2] /\ w[2] = 2 * w[3] /\ w[3] \in Nat /\ w[2] \in Nat
    <3>1. 1 \in 1..m - 1 /\ 2 \in 1..m - 1 /\ 2 \in 1..m /\ 3 \in 1..m
      BY <1>1
    <3>2. w[1] = 2 * w[1 + 1] /\ w[2] = 2 * w[2 + 1]
      BY <1>2, <3>1
    <3> QED
      BY <3>1, <3>2
  <2>2. 4 * w[3] <= w[1]
    BY <2>1
  <2> QED
    BY <2>2
<1>4. ASSUME NEW k \in Nat, k \in U
      PROVE  k + 1 \in U
  <2> SUFFICES ASSUME k + 4 <= m
               PROVE  4 * w[k + 4] <= w[1]
    OBVIOUS
  <2>1. 4 * w[k + 3] <= w[1]
    BY <1>4
  <2>2. PICK i \in 1..m - 1, j \in 1..m : i = k + 3 /\ j = i + 1 /\ j = k + 4
    BY <1>1
  <2>3. w[i] = 2 * w[j] /\ w[j] \in Nat /\ 1 \in 1..m
    BY <1>1, <1>2, <2>2
  <2>4. w[1] \in Nat
    BY <2>3
  <2>5. 4 * w[j] <= w[1]
    BY <2>1, <2>2, <2>3, <2>4
  <2> QED
    BY <2>2, <2>5
<1>5. Nat \subseteq U
  <2> HIDE DEF U
  <2> QED
    BY <1>3, <1>4, Induction
<1>7. 4 * w[m] <= w[1]
  <2>1. PICK k \in Nat : k + 3 = m
    <3>1. m - 3 \in Nat /\ (m - 3) + 3 = m
      BY <1>1
    <3> QED
      BY <3>1
  <2>2. k \in U
    <3> HIDE DEF U
    <3> QED
      BY <1>5
  <2> QED
    BY <2>1, <2>2
<1> QED
  BY <1>2, <1>7

LEMMA DistanceOrder ==
  ASSUME NEW a \in Ratios!Rational, NEW b \in Ratios!Rational, NEW c \in Ratios!Rational,
         7 * Ratios!Abs(a.n * (c.d * b.d) - (c.n * b.d) * a.d)
           <= Ratios!Abs(b.n * c.d - c.n * b.d) * a.d
  PROVE  Ratios!Leq([Ratios!Distance(a, c) EXCEPT !.n = 7 * @], Ratios!Distance(b, c))
<1>1. PICK m \in Int, p \in Nat \ {0}, n \in Int, q \in Nat \ {0}, k \in Int, r \in Nat \ {0} :
        m = a.n /\ p = a.d /\ n = b.n /\ q = b.d /\ k = c.n /\ r = c.d
  BY DEF Ratios!Rational
<1>2. PICK s \in Ratios!Rational : s = Ratios!Distance(a, c)
  BY DistanceIsSound
<1>3. PICK t \in Ratios!Rational : t = Ratios!Distance(b, c)
  BY DistanceIsSound
<1>4. PICK e \in Nat, f \in Nat \ {0}, g \in Nat, i \in Nat \ {0} :
        e = s.n /\ f = s.d /\ g = t.n /\ i = t.d
  BY <1>2, <1>3, DistanceIsSound DEF Ratios!Rational
<1>5. PICK x \in Int, y \in Int : x = m * r - k * p /\ y = n * r - k * q
  OBVIOUS
<1>6. PICK u \in Nat, z \in Nat : u = Ratios!Abs(x) /\ z = Ratios!Abs(y)
  BY DEF Ratios!Abs
<1>7. e * (p * r) = u * f
  BY <1>1, <1>2, <1>4, <1>5, <1>6, DistanceIsSound
<1>8. g * (q * r) = z * i
  BY <1>1, <1>3, <1>4, <1>5, <1>6, DistanceIsSound
<1>9. m * (r * q) - (k * q) * p = x * q
  BY <1>5
<1>10. Ratios!Abs(x * q) = u * q
  BY <1>6, AbsTimes
<1>11. 7 * (u * q) <= z * p
  BY <1>1, <1>5, <1>6, <1>9, <1>10
<1>12. PICK l \in Nat, o \in Nat : l = 7 * (e * i) /\ o = g * f
  OBVIOUS
<1>13. PICK w \in Nat \ {0} : w = (p * r) * (q * r)
  <2>1. p * r \in Nat \ {0} /\ q * r \in Nat \ {0}
    OBVIOUS
  <2> QED
    BY <2>1
<1>14. l * w = (7 * (u * q)) * (f * i * r)
  <2>1. l * w = 7 * (e * (p * r)) * i * (q * r)
    BY <1>12, <1>13
  <2>2. l * w = 7 * (u * f) * i * (q * r)
    BY <1>7, <2>1
  <2> QED
    BY <2>2
<1>15. o * w = (z * p) * (f * i * r)
  <2>1. o * w = (g * (q * r)) * f * (p * r)
    BY <1>12, <1>13
  <2>2. o * w = (z * i) * f * (p * r)
    BY <1>8, <2>1
  <2> QED
    BY <2>2
<1>16. l * w <= o * w
  <2>1. PICK j \in Nat : j = f * i * r
    OBVIOUS
  <2>2. PICK v \in Nat, h \in Nat : v = 7 * (u * q) /\ h = z * p
    OBVIOUS
  <2>3. v * j <= h * j
    BY <1>11, <2>2
  <2> QED
    BY <1>14, <1>15, <2>1, <2>2, <2>3
<1>17. l <= o
  BY <1>16
<1>18. [s EXCEPT !.n = 7 * @] = [n |-> 7 * e, d |-> f]
  BY <1>4 DEF Ratios!Rational
<1>19. (7 * e) * i <= g * f
  BY <1>12, <1>17
<1> QED
  BY <1>2, <1>3, <1>4, <1>18, <1>19 DEF Ratios!Leq

LEMMA FadesByASeventh ==
  ASSUME NEW n \in Int, NEW e \in Nat \ {0}, NEW Q \in Int, NEW A \in Int, NEW L \in Int,
         NEW D \in Nat \ {0}, NEW z \in Nat, 7 * z <= D,
         n * (Q * D) - (D * L + z * (A - L)) * e = 0
  PROVE  7 * Ratios!Abs(n * Q - L * e) <= Ratios!Abs(A - L) * e
<1>1. PICK x \in Int, y \in Int : x = n * Q - L * e /\ y = A - L
  OBVIOUS
<1>2. x * D = y * (z * e)
  BY <1>1
<1>3. PICK g \in Nat, h \in Nat : g = Ratios!Abs(x) /\ h = Ratios!Abs(y)
  BY <1>1, AbsTimes
<1>4. PICK k \in Nat : k = z * e
  OBVIOUS
<1>5. g * D = h * k
  <2>1. Ratios!Abs(x * D) = g * D
    BY <1>3, AbsTimes
  <2>2. Ratios!Abs(y * k) = h * k
    BY <1>3, AbsTimes
  <2>3. x * D = y * k
    BY <1>2, <1>4
  <2> QED
    BY <2>1, <2>2, <2>3
<1>6. PICK l \in Nat, o \in Nat : l = 7 * g /\ o = h * e
  OBVIOUS
<1>7. l * D = o * (7 * z)
  BY <1>4, <1>5, <1>6
<1>8. o * (7 * z) <= o * D
  <2>1. PICK u \in Nat : u = 7 * z
    OBVIOUS
  <2>2. u <= D
    BY <2>1
  <2>3. o * u <= o * D
    BY <2>2
  <2> QED
    BY <2>1, <2>3
<1>9. l * D <= o * D
  BY <1>7, <1>8
<1>10. l <= o
  BY <1>9
<1> QED
  BY <1>1, <1>3, <1>6, <1>10

(* The last term is left with at most a seventh of its distance.           *)
LEMMA MeanFades ==
  ASSUME NEW v, NEW h, NEW u, NEW b, NEW T, T = Ratios!Terms(v, h, u, b),
         NEW m \in 3..WIDTH - 1, T \in [1..m -> Ratios!Rational], Len(T) = m,
         NEW c \in Ratios!Rational, NEW x \in Ratios!Rational,
         \A i \in 1..m - 1 : T[i] = c, T[m] = x
  PROVE  Ratios!Leq([Ratios!Distance(Ratios!WeightedMean(v, h, u, b), c) EXCEPT !.n = 7 * @],
                    Ratios!Distance(x, c))
<1>1. WIDTH \in Nat /\ m \in Nat /\ m \in 1..WIDTH - 1 /\ 1 \in 1..m /\ m \in 1..m
  BY RatiosAssumption
<1>2. PICK w : w = Ratios!Weights(m)
  OBVIOUS
<1>3. w \in [1..m -> Nat \ {0}] /\ 4 * w[m] <= w[1]
  BY <1>2, LastWeighsLeast
<1>4. PICK M \in Ratios!Rational, D \in Nat \ {0} :
        /\ M = Ratios!WeightedMean(v, h, u, b)
        /\ D = 2 * w[1] - w[m]
        /\ Beyond(M, D, T, w, m)
  BY <1>1, <1>2, MeanIsBeyond
<1>5. PICK k \in Int, r \in Nat \ {0}, n \in Int, q \in Nat \ {0}, j \in Int, p \in Nat \ {0} :
        k = c.n /\ r = c.d /\ n = x.n /\ q = x.d /\ j = M.n /\ p = M.d
  BY DEF Ratios!Rational
<1>6. PICK Q \in Int, A \in Int, L \in Int : Q = r * q /\ A = n * r /\ L = k * q
  OBVIOUS
<1>7. ASSUME NEW i \in 1..m
      PROVE  Off(T[i], Q, IF i = m THEN A ELSE L) = 0
  <2>1. CASE i = m
    <3>1. Off(x, Q, A) = n * (r * q) - (n * r) * q
      BY <1>5, <1>6 DEF Off
    <3>2. n * (r * q) - (n * r) * q = 0
      OBVIOUS
    <3> QED
      BY <2>1, <3>1, <3>2
  <2>2. CASE i # m
    <3>1. Off(c, Q, L) = k * (r * q) - (k * q) * r
      BY <1>5, <1>6 DEF Off
    <3>2. k * (r * q) - (k * q) * r = 0
      OBVIOUS
    <3>3. T[i] = c
      BY <1>1, <2>2
    <3> QED
      BY <2>2, <3>1, <3>2, <3>3
  <2> QED
    BY <2>1, <2>2
<1>8. /\ (\A i \in 1..m : Off(T[i], Q, IF i = m THEN A ELSE L) >= 0)
            => Off(M, Q * D, D * L + w[m] * (A - L)) >= 0
      /\ (\A i \in 1..m : Off(T[i], Q, IF i = m THEN A ELSE L) <= 0)
            => Off(M, Q * D, D * L + w[m] * (A - L)) <= 0
  <2>1. Beyond(M, D, T, w, m)
    BY <1>4
  <2>2. m \in 1..m
    BY <1>1
  <2> QED
    BY <2>1, <2>2, BeyondAt, Zenon
<1>9. PICK y \in Nat, z \in Nat : y = w[1] /\ z = w[m]
  BY <1>1, <1>3
<1>10. PICK o \in Int : o = j * (Q * D) - (D * L + z * (A - L)) * p
  OBVIOUS
<1>11. Off(M, Q * D, D * L + w[m] * (A - L)) = o
  BY <1>5, <1>9, <1>10 DEF Off
<1>12. o = 0
  <2>1. \A i \in 1..m : Off(T[i], Q, IF i = m THEN A ELSE L) >= 0
    BY <1>7
  <2>2. \A i \in 1..m : Off(T[i], Q, IF i = m THEN A ELSE L) <= 0
    BY <1>7
  <2> QED
    BY <1>8, <1>11, <2>1, <2>2
<1>13. 7 * z <= D
  BY <1>3, <1>4, <1>9
<1>14. j * (Q * D) - (D * L + z * (A - L)) * p = 0
  BY <1>10, <1>12
<1>15. 7 * Ratios!Abs(j * Q - L * p) <= Ratios!Abs(A - L) * p
  BY <1>13, <1>14, FadesByASeventh
<1>16. 7 * Ratios!Abs(M.n * (c.d * x.d) - (c.n * x.d) * M.d)
         <= Ratios!Abs(x.n * c.d - c.n * x.d) * M.d
  BY <1>5, <1>6, <1>15
<1> QED
  BY <1>4, <1>16, DistanceOrder

LEMMA LeqIsTotal ==
  ASSUME NEW a \in Ratios!Rational, NEW b \in Ratios!Rational
  PROVE  Ratios!Leq(a, b) \/ Ratios!Leq(b, a)
<1>1. PICK m \in Int, p \in Nat \ {0}, n \in Int, q \in Nat \ {0} :
        m = a.n /\ p = a.d /\ n = b.n /\ q = b.d
  BY DEF Ratios!Rational
<1>2. PICK x \in Int, y \in Int : x = m * q /\ y = n * p
  OBVIOUS
<1>3. x <= y \/ y <= x
  OBVIOUS
<1> QED
  BY <1>1, <1>2, <1>3 DEF Ratios!Leq

LEMMA LeqIsTransitive ==
  ASSUME NEW a \in Ratios!Rational, NEW b \in Ratios!Rational, NEW c \in Ratios!Rational,
         Ratios!Leq(a, b), Ratios!Leq(b, c)
  PROVE  Ratios!Leq(a, c)
<1>1. PICK m \in Int, p \in Nat \ {0}, n \in Int, q \in Nat \ {0}, k \in Int, r \in Nat \ {0} :
        m = a.n /\ p = a.d /\ n = b.n /\ q = b.d /\ k = c.n /\ r = c.d
  BY DEF Ratios!Rational
<1>2. m * q <= n * p /\ n * r <= k * q
  BY <1>1 DEF Ratios!Leq
<1>3. (m * q) * r <= (n * p) * r
  <2>1. PICK x \in Int, y \in Int : x = m * q /\ y = n * p
    OBVIOUS
  <2>2. x <= y
    BY <1>2, <2>1
  <2>3. x * r <= y * r
    BY <2>2
  <2> QED
    BY <2>1, <2>3
<1>4. (n * r) * p <= (k * q) * p
  <2>1. PICK x \in Int, y \in Int : x = n * r /\ y = k * q
    OBVIOUS
  <2>2. x <= y
    BY <1>2, <2>1
  <2>3. x * p <= y * p
    BY <2>2
  <2> QED
    BY <2>1, <2>3
<1>5. PICK x \in Int, y \in Int : x = m * r /\ y = k * p
  OBVIOUS
<1>6. q * x <= q * y
  <2>1. q * x = (m * q) * r /\ q * y = (k * q) * p
    BY <1>5
  <2>2. (n * p) * r = (n * r) * p
    OBVIOUS
  <2>3. PICK e \in Int, f \in Int, g \in Int, h \in Int :
          e = (m * q) * r /\ f = (n * p) * r /\ g = (n * r) * p /\ h = (k * q) * p
    OBVIOUS
  <2>4. e <= f /\ f = g /\ g <= h
    BY <1>3, <1>4, <2>2, <2>3
  <2>5. e <= h
    BY <2>4
  <2> QED
    BY <2>1, <2>3, <2>5
<1>7. x <= y
  BY <1>6
<1> QED
  BY <1>1, <1>5, <1>7 DEF Ratios!Leq

(* Among finitely many ratios there are a least and a greatest.            *)
LEMMA LeastAndGreatest ==
  ASSUME NEW m \in Nat \ {0}, NEW T \in [1..m -> Ratios!Rational]
  PROVE  /\ \E j \in 1..m : \A i \in 1..m : Ratios!Leq(T[j], T[i])
         /\ \E j \in 1..m : \A i \in 1..m : Ratios!Leq(T[i], T[j])
<1> DEFINE U == {k \in Nat : k + 1 <= m =>
             /\ \E j \in 1..k + 1 : \A i \in 1..k + 1 : Ratios!Leq(T[j], T[i])
             /\ \E j \in 1..k + 1 : \A i \in 1..k + 1 : Ratios!Leq(T[i], T[j])}
<1>1. \A i \in 1..m : Ratios!Leq(T[i], T[i])
  BY LeqIsTotal
<1>2. 0 \in U
  <2>1. 1..0 + 1 = {1} /\ 1 \in 1..m
    OBVIOUS
  <2> QED
    BY <1>1, <2>1
<1>3. ASSUME NEW k \in Nat, k \in U
      PROVE  k + 1 \in U
  <2> SUFFICES ASSUME k + 2 <= m
               PROVE  /\ \E j \in 1..k + 2 : \A i \in 1..k + 2 : Ratios!Leq(T[j], T[i])
                      /\ \E j \in 1..k + 2 : \A i \in 1..k + 2 : Ratios!Leq(T[i], T[j])
    OBVIOUS
  <2>1. PICK j \in 1..k + 1 : \A i \in 1..k + 1 : Ratios!Leq(T[j], T[i])
    BY <1>3
  <2>2. PICK l \in 1..k + 1 : \A i \in 1..k + 1 : Ratios!Leq(T[i], T[l])
    BY <1>3
  <2>3. PICK z \in 1..m : z = k + 2
    OBVIOUS
  <2>4. j \in 1..m /\ l \in 1..m /\ 1..k + 2 = (1..k + 1) \cup {z} /\ 1..k + 1 \subseteq 1..m
    BY <2>3
  <2> HIDE DEF U
  <2>5. \E o \in 1..k + 2 : \A i \in 1..k + 2 : Ratios!Leq(T[o], T[i])
    <3>1. CASE Ratios!Leq(T[j], T[z])
      <4>1. \A i \in 1..k + 2 : Ratios!Leq(T[j], T[i])
        BY <2>1, <2>4, <3>1
      <4> QED
        BY <2>4, <4>1
    <3>2. CASE Ratios!Leq(T[z], T[j])
      <4>1. ASSUME NEW i \in 1..k + 1
            PROVE  Ratios!Leq(T[z], T[i])
        <5>1. T[z] \in Ratios!Rational /\ T[j] \in Ratios!Rational /\ T[i] \in Ratios!Rational
          BY <2>4
        <5>2. Ratios!Leq(T[j], T[i])
          BY <2>1
        <5> QED
          BY <3>2, <5>1, <5>2, LeqIsTransitive
      <4>2. \A i \in 1..k + 2 : Ratios!Leq(T[z], T[i])
        BY <1>1, <2>4, <4>1
      <4> QED
        BY <2>4, <4>2
    <3> QED
      BY <2>4, <3>1, <3>2, LeqIsTotal
  <2>6. \E o \in 1..k + 2 : \A i \in 1..k + 2 : Ratios!Leq(T[i], T[o])
    <3>1. CASE Ratios!Leq(T[z], T[l])
      <4>1. \A i \in 1..k + 2 : Ratios!Leq(T[i], T[l])
        BY <2>2, <2>4, <3>1
      <4> QED
        BY <2>4, <4>1
    <3>2. CASE Ratios!Leq(T[l], T[z])
      <4>1. ASSUME NEW i \in 1..k + 1
            PROVE  Ratios!Leq(T[i], T[z])
        <5>1. T[z] \in Ratios!Rational /\ T[l] \in Ratios!Rational /\ T[i] \in Ratios!Rational
          BY <2>4
        <5>2. Ratios!Leq(T[i], T[l])
          BY <2>2
        <5> QED
          BY <3>2, <5>1, <5>2, LeqIsTransitive
      <4>2. \A i \in 1..k + 2 : Ratios!Leq(T[i], T[z])
        BY <1>1, <2>4, <4>1
      <4> QED
        BY <2>4, <4>2
    <3> QED
      BY <2>4, <3>1, <3>2, LeqIsTotal
  <2> QED
    BY <2>5, <2>6
<1>4. Nat \subseteq U
  <2> HIDE DEF U
  <2> QED
    BY <1>2, <1>3, Induction
<1>5. PICK k \in Nat : k + 1 = m
  <2>1. m - 1 \in Nat /\ (m - 1) + 1 = m
    OBVIOUS
  <2> QED
    BY <2>1
<1>6. k \in U
  <2> HIDE DEF U
  <2> QED
    BY <1>4
<1>7. k + 1 <= m
  BY <1>5
<1>8. /\ \E j \in 1..k + 1 : \A i \in 1..k + 1 : Ratios!Leq(T[j], T[i])
      /\ \E j \in 1..k + 1 : \A i \in 1..k + 1 : Ratios!Leq(T[i], T[j])
  BY <1>6, <1>7
<1> HIDE DEF U
<1>9. 1..k + 1 = 1..m
  BY <1>5
<1> QED
  BY <1>8, <1>9

LEMMA FiniteIsBounded ==
  ASSUME NEW S \in SUBSET Nat, IsFiniteSet(S)
  PROVE  \E b \in Nat : \A x \in S : x <= b
<1>7. PICK n \in Nat : ExistsSurjection(1..n, S)
  BY FS_NatSurjection
<1>1. PICK f : f \in Surjection(1..n, S)
  BY <1>7 DEF ExistsSurjection
<1>2. \A x \in S : \E i \in 1..n : f[i] = x
  BY <1>1 DEF Surjection
<1>0. ASSUME NEW i \in 1..n
      PROVE  f[i] \in Nat
  <2>1. f \in [1..n -> S]
    BY <1>1 DEF Surjection
  <2> QED
    BY <2>1
<1> DEFINE U == {k \in Nat : k <= n => \E b \in Nat : \A i \in 1..k : f[i] <= b}
<1>3. 0 \in U
  OBVIOUS
<1>4. ASSUME NEW k \in Nat, k \in U
      PROVE  k + 1 \in U
  <2> SUFFICES ASSUME k + 1 <= n
               PROVE  \E b \in Nat : \A i \in 1..k + 1 : f[i] <= b
    OBVIOUS
  <2>1. PICK b \in Nat : \A i \in 1..k : f[i] <= b
    BY <1>4
  <2>2. f[k + 1] \in Nat
    BY <1>0
  <2>3. PICK c \in Nat : c = b + f[k + 1]
    BY <2>2
  <2>4. ASSUME NEW i \in 1..k + 1
        PROVE  f[i] <= c
    <3>1. f[i] \in Nat
      BY <1>0
    <3> QED
      BY <2>1, <2>2, <2>3, <3>1
  <2> QED
    BY <2>4
<1>5. Nat \subseteq U
  <2> HIDE DEF U
  <2> QED
    BY <1>3, <1>4, Induction
<1>6. \E b \in Nat : \A i \in 1..n : f[i] <= b
  <2>1. n \in U
    <3> HIDE DEF U
    <3> QED
      BY <1>5
  <2> QED
    BY <2>1
<1> QED
  BY <1>2, <1>6

LEMMA SamplesBounds ==
  /\ Ratios!Min(Samples) \in Nat /\ Ratios!Max(Samples) \in Nat
  /\ \A x \in Samples : Ratios!Min(Samples) <= x /\ x <= Ratios!Max(Samples)
<1>1. Ratios!Min(Samples) = Tests!Min(Samples) /\ Ratios!Max(Samples) = Tests!Max(Samples)
  BY Zenon DEF Ratios!Min, Tests!Min, Ratios!Max, Tests!Max
<1>2. Samples \in SUBSET Nat /\ Samples # {} /\ IsFiniteSet(Samples)
  BY RatiosAssumption
<1>3. PICK b \in Nat : \A x \in Samples : x <= b
  BY <1>2, FiniteIsBounded
<1>4. Tests!Min(Samples) \in Samples /\ \A y \in Samples : Tests!Min(Samples) <= y
  BY <1>2, MinIsLeast
<1>5. Tests!Max(Samples) \in Samples /\ \A y \in Samples : y <= Tests!Max(Samples)
  BY <1>2, <1>3, MaxIsLargest
<1> QED
  BY <1>1, <1>2, <1>4, <1>5

-----------------------------------------------------------------------------
(* The state between two passes.                                           *)

Sampled == [n : Samples, d : {1}]     \* an entry of `history`
Low(c) == IF c THEN 0 ELSE Ratios!Min(Samples)
InRange(v, c) == /\ v \in Ratios!Rational
                 /\ Ratios!Leq(Ratios!Whole(Low(c)), v)
                 /\ Ratios!Leq(v, Ratios!Whole(Ratios!Max(Samples)))

RatiosInv ==
  /\ known \in BOOLEAN /\ has_last_used \in BOOLEAN /\ cleared \in BOOLEAN
  /\ received \in 0..MaxReceived
  /\ current_data \in Ratios!Rational /\ last_used \in Ratios!Rational
  /\ history \in Seq(Sampled) /\ Len(history) <= MaxSamples
  /\ known => InRange(current_data, cleared)
  /\ has_last_used => InRange(last_used, cleared)
  /\ has_last_used /\ history = <<>> => current_data = last_used

LEMMA WholeSample ==
  ASSUME NEW x \in Samples, NEW c \in BOOLEAN
  PROVE  /\ Ratios!Whole(x) \in Sampled
         /\ InRange(Ratios!Whole(x), c)
<1>1. x \in Nat /\ Ratios!Min(Samples) \in Nat /\ Ratios!Max(Samples) \in Nat
  BY SamplesBounds, RatiosAssumption
<1>2. Ratios!Min(Samples) <= x /\ x <= Ratios!Max(Samples)
  BY SamplesBounds
<1>3. Ratios!Whole(x) = [n |-> x, d |-> 1]
  BY DEF Ratios!Whole
<1>4. Ratios!Whole(x) \in Ratios!Rational
  BY <1>1, <1>3 DEF Ratios!Rational
<1>5. Low(c) \in Nat /\ Low(c) <= x
  BY <1>1, <1>2 DEF Low
<1>6. Ratios!Leq(Ratios!Whole(Low(c)), Ratios!Whole(x))
  BY <1>1, <1>5 DEF Ratios!Leq, Ratios!Whole
<1>7. Ratios!Leq(Ratios!Whole(x), Ratios!Whole(Ratios!Max(Samples)))
  BY <1>1, <1>2 DEF Ratios!Leq, Ratios!Whole
<1> QED
  BY <1>3, <1>4, <1>6, <1>7 DEF InRange, Sampled

LEMMA ZeroInRange == InRange(Ratios!Zero, TRUE) /\ Ratios!Zero \in Ratios!Rational
<1>1. Ratios!Max(Samples) \in Nat
  BY SamplesBounds
<1>2. Ratios!Leq(Ratios!Zero, Ratios!Whole(Ratios!Max(Samples)))
  BY <1>1 DEF Ratios!Leq, Ratios!Whole, Ratios!Zero
<1>3. Ratios!Leq(Ratios!Whole(0), Ratios!Zero)
  BY DEF Ratios!Leq, Ratios!Whole, Ratios!Zero
<1> QED
  BY <1>2, <1>3, ZeroIsRational DEF InRange, Low

(* The terms of a pass: few enough for the shifts, the newest sample       *)
(* first, the last mean at the end, and each within the range.             *)
LEMMA TermsOfPass ==
  ASSUME RatiosInv, NEW T, T = Ratios!Terms(current_data, history, last_used, has_last_used)
  PROVE  /\ Len(T) = Len(history) + IF has_last_used THEN 2 ELSE 1
         /\ Len(T) \in 1..WIDTH - 1
         /\ T \in [1..Len(T) -> Ratios!Rational]
         /\ T[1] = current_data
         /\ \A i \in 1..Len(history) : T[i + 1] = history[i]
         /\ has_last_used => T[Len(T)] = last_used
<1> DEFINE E == IF has_last_used THEN <<last_used>> ELSE <<>>
           S == <<current_data>> \o history
           R == Ratios!Rational
<1>1. Samples \subseteq Nat /\ MaxSamples \in Nat /\ WIDTH \in Nat /\ MaxSamples + 3 <= WIDTH
  BY RatiosAssumption
<1>2. history \in Seq(R)
  <2>1. history \in Seq(Sampled)
    BY DEF RatiosInv
  <2>2. ASSUME NEW i \in 1..Len(history)
        PROVE  history[i] \in R
    <3>1. history[i] \in Sampled
      BY <2>1
    <3>2. PICK x \in Samples : history[i] = [n |-> x, d |-> 1]
      BY <3>1 DEF Sampled
    <3>3. x \in Int /\ 1 \in Nat \ {0}
      BY <1>1
    <3>4. [n |-> x, d |-> 1] \in R
      BY <3>3 DEF Ratios!Rational
    <3> QED
      BY <3>2, <3>4
  <2> HIDE DEF R
  <2>3. Len(history) \in Nat /\ history = [i \in 1..Len(history) |-> history[i]]
    BY <2>1
  <2>4. history \in [1..Len(history) -> R]
    BY <2>2, <2>3
  <2> QED
    BY <2>3, <2>4, SeqDef
<1>3. current_data \in R /\ last_used \in R /\ Len(history) <= MaxSamples
      /\ Len(history) \in Nat
  BY <1>2 DEF RatiosInv
<1> HIDE DEF R
<1>4. E \in Seq(R) /\ Len(E) = (IF has_last_used THEN 1 ELSE 0)
      /\ (has_last_used => E[1] = last_used)
  BY <1>3
<1>5. S \in Seq(R) /\ Len(S) = Len(history) + 1 /\ S[1] = current_data
      /\ \A i \in 1..Len(history) : S[i + 1] = history[i]
  BY <1>2, <1>3
<1>6. T = S \o E
  BY DEF Ratios!Terms
<1> HIDE DEF E, S
<1>7. T \in Seq(R) /\ Len(T) = Len(S) + Len(E)
      /\ (\A i \in 1..Len(S) : T[i] = S[i])
      /\ (\A i \in 1..Len(E) : T[Len(S) + i] = E[i])
  BY <1>4, <1>5, <1>6
<1>8. Len(T) = Len(history) + IF has_last_used THEN 2 ELSE 1
  BY <1>3, <1>4, <1>5, <1>7
<1>9. Len(T) \in 1..WIDTH - 1
  BY <1>1, <1>3, <1>8
<1>10. T \in [1..Len(T) -> R]
  BY <1>7
<1>11. T[1] = current_data
  BY <1>3, <1>5, <1>7
<1>12. \A i \in 1..Len(history) : T[i + 1] = history[i]
  BY <1>3, <1>5, <1>7
<1>13. ASSUME has_last_used
       PROVE  T[Len(T)] = last_used
  <2>1. Len(E) = 1 /\ E[1] = last_used
    BY <1>4, <1>13
  <2>2. T[Len(S) + 1] = last_used /\ Len(T) = Len(S) + 1
    BY <1>7, <2>1
  <2> QED
    BY <2>2
<1> QED
  BY <1>8, <1>9, <1>10, <1>11, <1>12, <1>13 DEF R

LEMMA EachTerm ==
  ASSUME RatiosInv, NEW T, T = Ratios!Terms(current_data, history, last_used, has_last_used),
         NEW i \in 1..Len(T)
  PROVE  \/ i = 1 /\ T[i] = current_data
         \/ \E j \in 1..Len(history) : i = j + 1 /\ T[i] = history[j]
         \/ has_last_used /\ i = Len(T) /\ T[i] = last_used
<1>1. /\ Len(T) = Len(history) + IF has_last_used THEN 2 ELSE 1
      /\ T[1] = current_data
      /\ \A k \in 1..Len(history) : T[k + 1] = history[k]
      /\ has_last_used => T[Len(T)] = last_used
  BY TermsOfPass
<1>2. Len(history) \in Nat /\ has_last_used \in BOOLEAN
  BY DEF RatiosInv
<1>3. CASE i = 1
  BY <1>1, <1>3
<1>4. CASE i # 1 /\ i <= Len(history) + 1
  <2>1. i - 1 \in 1..Len(history) /\ i = (i - 1) + 1
    BY <1>2, <1>4
  <2>2. T[(i - 1) + 1] = history[i - 1]
    BY <1>1, <2>1
  <2> QED
    BY <2>1, <2>2
<1>5. CASE i > Len(history) + 1
  <2>1. has_last_used /\ i = Len(T)
    BY <1>1, <1>2, <1>5
  <2> QED
    BY <1>1, <2>1
<1> QED
  BY <1>2, <1>3, <1>4, <1>5

(* A pass that computes a mean: it stays within the range, it leans on the *)
(* newest sample, it does not move without new ones, and the past fades.   *)
LEMMA MeanInRange ==
  ASSUME RatiosInv, known
  PROVE  InRange(Ratios!WeightedMean(current_data, history, last_used, has_last_used), cleared)
<1>1. PICK T : T = Ratios!Terms(current_data, history, last_used, has_last_used)
  OBVIOUS
<1>2. PICK m : m = Len(T) /\ m \in 1..WIDTH - 1 /\ T \in [1..m -> Ratios!Rational]
  BY <1>1, TermsOfPass
<1>3. PICK M : M = Ratios!WeightedMean(current_data, history, last_used, has_last_used)
  OBVIOUS
<1>4. M \in Ratios!Rational
  BY <1>1, <1>2, <1>3, MeanIsBeyond
<1>5. ASSUME NEW i \in 1..m
      PROVE  InRange(T[i], cleared)
  <2>1. InRange(current_data, cleared) /\ (has_last_used => InRange(last_used, cleared))
    BY DEF RatiosInv
  <2>2. ASSUME NEW j \in 1..Len(history)
        PROVE  InRange(history[j], cleared)
    <3>1. history[j] \in Sampled /\ cleared \in BOOLEAN
      BY DEF RatiosInv
    <3>2. PICK x \in Samples : history[j] = Ratios!Whole(x)
      BY <3>1 DEF Ratios!Whole, Sampled
    <3> QED
      BY <3>1, <3>2, WholeSample
  <2> QED
    BY <1>1, <1>2, <2>1, <2>2, EachTerm
<1>6. Ratios!Whole(Low(cleared)) \in Ratios!Rational
      /\ Ratios!Whole(Ratios!Max(Samples)) \in Ratios!Rational
  BY SamplesBounds DEF Low, Ratios!Whole, Ratios!Rational
<1>7. Ratios!Leq(Ratios!Whole(Low(cleared)), M)
  <2>1. PICK x \in Ratios!Rational : x = Ratios!Whole(Low(cleared))
    BY <1>6
  <2>2. \A i \in 1..m : Ratios!Leq(x, T[i])
    BY <1>5, <2>1 DEF InRange
  <2>3. Ratios!Leq(x, M)
    BY <1>1, <1>2, <1>3, <2>2, MeanBetween
  <2> QED
    BY <2>1, <2>3
<1>8. Ratios!Leq(M, Ratios!Whole(Ratios!Max(Samples)))
  <2>1. PICK x \in Ratios!Rational : x = Ratios!Whole(Ratios!Max(Samples))
    BY <1>6
  <2>2. \A i \in 1..m : Ratios!Leq(T[i], x)
    BY <1>5, <2>1 DEF InRange
  <2>3. Ratios!Leq(M, x)
    BY <1>1, <1>2, <1>3, <2>2, MeanBetween
  <2> QED
    BY <2>1, <2>3
<1> QED
  BY <1>3, <1>4, <1>7, <1>8 DEF InRange

LEMMA RatiosInitial == Ratios!Init => RatiosInv
<1> SUFFICES ASSUME Ratios!Init
             PROVE  RatiosInv
  OBVIOUS
<1>1. MaxReceived \in Nat /\ MaxSamples \in Nat
  BY RatiosAssumption
<1>2. Ratios!Zero \in Ratios!Rational
  BY ZeroIsRational
<1>3. <<>> \in Seq(Sampled) /\ Len(<<>>) = 0
  OBVIOUS
<1>4. /\ ~ known /\ ~ has_last_used /\ cleared = FALSE /\ received = 0
      /\ current_data = Ratios!Zero /\ last_used = Ratios!Zero /\ history = <<>>
  BY DEF Ratios!Init
<1>5. known \in BOOLEAN /\ has_last_used \in BOOLEAN /\ cleared \in BOOLEAN
  BY DEF Ratios!Init
<1>6. received \in 0..MaxReceived
  BY <1>1, <1>4
<1>7. history \in Seq(Sampled) /\ Len(history) <= MaxSamples
  BY <1>1, <1>3, <1>4
<1> QED
  BY <1>2, <1>4, <1>5, <1>6, <1>7, Zenon DEF RatiosInv

LEMMA SampleKeeps ==
  ASSUME RatiosInv, NEW x \in Samples, Ratios!Sample(x)
  PROVE  RatiosInv'
<1>1. MaxReceived \in Nat /\ MaxSamples \in Nat /\ cleared \in BOOLEAN
  BY RatiosAssumption DEF RatiosInv
<1>2. PICK v : v = Ratios!Whole(x) /\ v \in Sampled /\ InRange(v, cleared)
  BY <1>1, WholeSample
<1>3. /\ known' = TRUE /\ history' = Append(history, v) /\ current_data' = v
      /\ received' = received + 1 /\ received < MaxReceived /\ Len(history) < MaxSamples
      /\ last_used' = last_used /\ has_last_used' = has_last_used /\ cleared' = cleared
  BY <1>2 DEF Ratios!Sample
<1>4. v \in Ratios!Rational
  BY <1>2 DEF InRange
<1>5. /\ history' \in Seq(Sampled) /\ Len(history') = Len(history) + 1
      /\ Len(history) \in Nat /\ history' # <<>>
  BY <1>2, <1>3 DEF RatiosInv
<1>6. Len(history') <= MaxSamples /\ received' \in 0..MaxReceived
  BY <1>1, <1>3, <1>5 DEF RatiosInv
<1>7. known' \in BOOLEAN /\ InRange(current_data', cleared')
      /\ current_data' \in Ratios!Rational
  BY <1>2, <1>3, <1>4
<1>8. /\ has_last_used' \in BOOLEAN /\ cleared' \in BOOLEAN /\ last_used' \in Ratios!Rational
      /\ has_last_used' => InRange(last_used', cleared')
  BY <1>3 DEF RatiosInv
<1> QED
  BY <1>5, <1>6, <1>7, <1>8 DEF RatiosInv, InRange, Low

LEMMA UseKeeps ==
  ASSUME RatiosInv, NEW v, Ratios!Use(v), cleared' \in BOOLEAN, InRange(v, cleared')
  PROVE  RatiosInv'
<1>1. MaxReceived \in Nat /\ MaxSamples \in Nat
  BY RatiosAssumption
<1>2. /\ known /\ current_data' = v /\ last_used' = v /\ has_last_used' = TRUE
      /\ history' = <<>> /\ known' = known /\ received' = received
  BY DEF Ratios!Use
<1>3. v \in Ratios!Rational
  BY DEF InRange
<1>4. history' \in Seq(Sampled) /\ Len(history') <= MaxSamples
  BY <1>1, <1>2
<1>5. /\ known' \in BOOLEAN /\ received' \in 0..MaxReceived /\ has_last_used' \in BOOLEAN
      /\ current_data' \in Ratios!Rational /\ last_used' \in Ratios!Rational
      /\ current_data' = last_used'
  BY <1>2, <1>3 DEF RatiosInv
<1>6. InRange(current_data', cleared') /\ InRange(last_used', cleared')
  BY <1>2
<1> QED
  BY <1>4, <1>5, <1>6 DEF RatiosInv, InRange, Low

LEMMA RatiosStep == RatiosInv /\ [Ratios!Next]_ratios => RatiosInv'
<1> SUFFICES ASSUME RatiosInv, [Ratios!Next]_ratios
             PROVE  RatiosInv'
  OBVIOUS
<1>1. ASSUME NEW x \in Samples, Ratios!Sample(x)
      PROVE  RatiosInv'
  BY <1>1, SampleKeeps
<1>2. CASE Ratios!PassWeighted
  <2>1. known /\ cleared' = cleared
    BY <1>2 DEF Ratios!PassWeighted, Ratios!Use
  <2>2. PICK v : /\ Ratios!Use(v)
                 /\ v \in {Ratios!WeightedMean(current_data, history, last_used, has_last_used),
                           current_data}
    BY <1>2 DEF Ratios!PassWeighted
  <2>3. InRange(v, cleared)
    BY <2>1, <2>2, MeanInRange DEF RatiosInv
  <2>4. InRange(v, cleared') /\ cleared' \in BOOLEAN
    BY <2>1, <2>3 DEF RatiosInv
  <2> QED
    BY <2>2, <2>4, UseKeeps
<1>3. CASE Ratios!PassSkipped
  <2>1. known /\ cleared' = cleared /\ Ratios!Use(current_data)
    BY <1>3 DEF Ratios!PassSkipped, Ratios!Use
  <2>2. InRange(current_data, cleared') /\ cleared' \in BOOLEAN
    BY <2>1 DEF RatiosInv
  <2> QED
    BY <2>1, <2>2, UseKeeps
<1>4. CASE Ratios!PassCleared
  <2>1. cleared' = TRUE /\ Ratios!Use(Ratios!Zero)
    BY <1>4 DEF Ratios!PassCleared
  <2>2. InRange(Ratios!Zero, cleared') /\ cleared' \in BOOLEAN
    BY <2>1, ZeroInRange
  <2> QED
    BY <2>1, <2>2, UseKeeps
<1>5. CASE Ratios!PassDead
  <2>1. MaxReceived \in Nat /\ MaxSamples \in Nat
    BY RatiosAssumption
  <2>2. /\ known' = FALSE /\ has_last_used' = FALSE /\ cleared' = FALSE /\ received' = 0
        /\ current_data' = Ratios!Zero /\ last_used' = Ratios!Zero /\ history' = <<>>
    BY <1>5 DEF Ratios!PassDead, Ratios!Forget
  <2>3. Ratios!Zero \in Ratios!Rational
    BY ZeroIsRational
  <2>4. <<>> \in Seq(Sampled) /\ Len(<<>>) = 0
    OBVIOUS
  <2>5. received' \in 0..MaxReceived
    BY <2>1, <2>2
  <2>6. history' \in Seq(Sampled) /\ Len(history') <= MaxSamples
    BY <2>1, <2>2, <2>4
  <2>7. known' \in BOOLEAN /\ has_last_used' \in BOOLEAN /\ cleared' \in BOOLEAN
    BY <2>2
  <2>8. ~ known' /\ ~ has_last_used'
    BY <2>2
  <2> QED
    BY <2>2, <2>3, <2>5, <2>6, <2>7, <2>8, Zenon DEF RatiosInv
<1>6. CASE UNCHANGED ratios
  BY <1>6 DEF ratios, RatiosInv, InRange, Low
<1> QED
  BY <1>1, <1>2, <1>3, <1>4, <1>5, <1>6 DEF Ratios!Next

Sources == {history[i] : i \in 1..Len(history)}
             \cup {current_data, IF has_last_used THEN last_used ELSE current_data}

LEMMA LeansOnNewest ==
  ASSUME RatiosInv, Ratios!PassWeighted
  PROVE  \E a, b \in Sources :
           /\ Ratios!Leq(Ratios!Plus(current_data, a), Ratios!Twice(current_data'))
           /\ Ratios!Leq(Ratios!Twice(current_data'), Ratios!Plus(current_data, b))
<1>1. current_data \in Sources /\ current_data \in Ratios!Rational
  BY DEF Sources, RatiosInv
<1>2. CASE history # <<>> \/ has_last_used
  <2>1. PICK T : T = Ratios!Terms(current_data, history, last_used, has_last_used)
    OBVIOUS
  <2>2. PICK m : m = Len(T) /\ m \in 1..WIDTH - 1 /\ T \in [1..m -> Ratios!Rational]
                 /\ T[1] = current_data
    BY <2>1, TermsOfPass
  <2>3. PICK M : M = Ratios!WeightedMean(current_data, history, last_used, has_last_used)
    OBVIOUS
  <2>4. current_data' = M
    BY <1>2, <2>3 DEF Ratios!PassWeighted, Ratios!Use
  <2>5. \A i \in 1..m : T[i] \in Sources
    BY <2>1, <2>2, EachTerm DEF Sources
  <2>6. m \in Nat \ {0}
    BY <2>2, RatiosAssumption
  <2>7. PICK j \in 1..m : \A i \in 1..m : Ratios!Leq(T[j], T[i])
    BY <2>2, <2>6, LeastAndGreatest
  <2>8. PICK k \in 1..m : \A i \in 1..m : Ratios!Leq(T[i], T[k])
    BY <2>2, <2>6, LeastAndGreatest
  <2>9. T[j] \in Ratios!Rational /\ T[k] \in Ratios!Rational
    BY <2>2
  <2>10. Ratios!Leq(Ratios!Plus(T[1], T[j]), Ratios!Twice(M))
    BY <2>1, <2>2, <2>3, <2>7, <2>9, MeanLeans
  <2>11. Ratios!Leq(Ratios!Twice(M), Ratios!Plus(T[1], T[k]))
    BY <2>1, <2>2, <2>3, <2>8, <2>9, MeanLeans
  <2> QED
    BY <2>2, <2>4, <2>5, <2>10, <2>11
<1>3. CASE ~ (history # <<>> \/ has_last_used)
  <2>1. current_data' = current_data
    BY <1>3 DEF Ratios!PassWeighted, Ratios!Use
  <2>2. PICK x \in Ratios!Rational : x = Ratios!Plus(current_data, current_data)
    BY <1>1, PlusIsSound
  <2>3. Ratios!Leq(x, x)
    BY LeqIsTotal
  <2> QED
    BY <1>1, <2>1, <2>2, <2>3 DEF Ratios!Twice
<1> QED
  BY <1>2, <1>3

LEMMA IdleKeeps ==
  ASSUME RatiosInv, Ratios!PassWeighted, history = <<>>
  PROVE  Ratios!Same(current_data', current_data)
<1>1. current_data \in Ratios!Rational /\ has_last_used \in BOOLEAN
  BY DEF RatiosInv
<1>2. Ratios!Leq(current_data, current_data)
  BY <1>1, LeqIsTotal
<1>3. CASE has_last_used
  <2>1. PICK T : T = Ratios!Terms(current_data, history, last_used, has_last_used)
    OBVIOUS
  <2>2. PICK m : m = Len(T) /\ m \in 1..WIDTH - 1 /\ T \in [1..m -> Ratios!Rational]
    BY <2>1, TermsOfPass
  <2>3. PICK M : M = Ratios!WeightedMean(current_data, history, last_used, has_last_used)
    OBVIOUS
  <2>4. current_data' = M
    BY <1>3, <2>3 DEF Ratios!PassWeighted, Ratios!Use
  <2>5. current_data = last_used
    BY <1>3 DEF RatiosInv
  <2>6. ASSUME NEW i \in 1..m
        PROVE  T[i] = current_data
    <3>1. Len(history) = 0
      OBVIOUS
    <3> QED
      BY <2>1, <2>2, <2>5, <3>1, EachTerm
  <2>7. (\A i \in 1..m : Ratios!Leq(current_data, T[i]))
        /\ (\A i \in 1..m : Ratios!Leq(T[i], current_data))
    BY <1>2, <2>6
  <2>8. Ratios!Leq(current_data, M)
    BY <1>1, <2>1, <2>2, <2>3, <2>7, MeanBetween
  <2>9. Ratios!Leq(M, current_data)
    BY <1>1, <2>1, <2>2, <2>3, <2>7, MeanBetween
  <2> QED
    BY <2>4, <2>8, <2>9 DEF Ratios!Same
<1>4. CASE ~ has_last_used
  <2>1. current_data' = current_data
    BY <1>4 DEF Ratios!PassWeighted, Ratios!Use
  <2> QED
    BY <1>2, <2>1 DEF Ratios!Same
<1> QED
  BY <1>1, <1>3, <1>4

LEMMA PastKeepsFading ==
  ASSUME RatiosInv, Ratios!PassWeighted, has_last_used, history # <<>>,
         \A i \in 1..Len(history) : history[i] = current_data
  PROVE  Ratios!Leq([Ratios!Distance(current_data', current_data) EXCEPT !.n = 7 * @],
                    Ratios!Distance(last_used, current_data))
<1>1. PICK T : T = Ratios!Terms(current_data, history, last_used, has_last_used)
  OBVIOUS
<1>2. PICK m : m = Len(T) /\ m \in 1..WIDTH - 1 /\ T \in [1..m -> Ratios!Rational]
               /\ m = Len(history) + 2 /\ T[m] = last_used
  BY <1>1, TermsOfPass
<1>3. current_data' = Ratios!WeightedMean(current_data, history, last_used, has_last_used)
  BY DEF Ratios!PassWeighted, Ratios!Use
<1>4. Len(history) \in Nat /\ Len(history) >= 1
  <2>1. history \in Seq(Sampled)
    BY DEF RatiosInv
  <2> QED
    BY <2>1
<1>5. m \in 3..WIDTH - 1 /\ WIDTH \in Nat
  BY <1>2, <1>4, RatiosAssumption
<1>6. current_data \in Ratios!Rational /\ last_used \in Ratios!Rational
  BY DEF RatiosInv
<1>7. ASSUME NEW i \in 1..m - 1
      PROVE  T[i] = current_data
  <2>1. i \in 1..Len(T) /\ i # Len(T)
    BY <1>2, <1>5
  <2> QED
    BY <1>1, <2>1, EachTerm
<1>8. PICK v \in Ratios!Rational, x \in Ratios!Rational : v = current_data /\ x = last_used
  BY <1>6
<1>9. T[m] = x /\ \A i \in 1..m - 1 : T[i] = v
  BY <1>2, <1>7, <1>8
<1>10. Ratios!Leq([Ratios!Distance(Ratios!WeightedMean(current_data, history, last_used, has_last_used),
                                   v) EXCEPT !.n = 7 * @],
                  Ratios!Distance(x, v))
  <2>1. T \in [1..m -> Ratios!Rational] /\ Len(T) = m
    BY <1>2
  <2> QED
    BY <1>1, <1>5, <1>9, <2>1, MeanFades
<1> QED
  BY <1>3, <1>8, <1>10

(* The ratios a pass decides on follow the samples, over any number of     *)
(* passes, deaths and PIDs that are taken over in between: they stay       *)
(* within the range of what was sent, the newest sample counts more than   *)
(* all before it, an idle pass moves nothing, and the past fades           *)
(* (scheduler.c:1025-1095, 1264-1269, 1317-1321).                          *)
THEOREM RatiosFollow == ProgramSpec => RatiosFollowTheSamples
<1>1. ProgramInit => RatiosInv
  BY RatiosInitial DEF ProgramInit
<1>2. [ProgramNext]_all => [Ratios!Next]_ratios
  BY DEF ProgramNext, all, ratios
<1>3. RatiosInv /\ RatiosInv' /\ [Ratios!Next]_ratios
        => [known' => LET low == IF cleared' THEN 0 ELSE Ratios!Min(Samples)
                      IN  /\ Ratios!Leq(Ratios!Whole(low), current_data')
                          /\ Ratios!Leq(current_data', Ratios!Whole(Ratios!Max(Samples)))]_Ratios!vars
  BY DEF RatiosInv, InRange, Low
<1>4. RatiosInv /\ RatiosInv' /\ [Ratios!Next]_ratios
        => [Ratios!PassWeighted =>
             \E a, b \in {history[i] : i \in 1..Len(history)}
                           \cup {current_data, IF has_last_used THEN last_used ELSE current_data} :
               /\ Ratios!Leq(Ratios!Plus(current_data, a), Ratios!Twice(current_data'))
               /\ Ratios!Leq(Ratios!Twice(current_data'), Ratios!Plus(current_data, b))]_Ratios!vars
  BY LeansOnNewest DEF Sources
<1>5. RatiosInv /\ RatiosInv' /\ [Ratios!Next]_ratios
        => [Ratios!PassWeighted /\ history = <<>>
              => Ratios!Same(current_data', current_data)]_Ratios!vars
  BY IdleKeeps
<1>6. RatiosInv /\ RatiosInv' /\ [Ratios!Next]_ratios
        => [Ratios!PassWeighted /\ has_last_used /\ history # <<>>
              /\ (\A i \in 1..Len(history) : history[i] = current_data)
              => LET left == Ratios!Distance(current_data', current_data)
                 IN  Ratios!Leq([left EXCEPT !.n = 7 * @],
                                Ratios!Distance(last_used, current_data))]_Ratios!vars
  BY PastKeepsFading
<1> QED
  BY <1>1, <1>2, <1>3, <1>4, <1>5, <1>6, RatiosStep, PTL
     DEF ProgramSpec, RatiosFollowTheSamples, Ratios!RatiosFollowTheSamples,
         Ratios!MeanWithinSamples, Ratios!PassLeansOnNewest, Ratios!IdlePassKeepsRatios,
         Ratios!PastFades
=============================================================================
