--------------------------- MODULE SortAsortProofs ---------------------------
(***************************************************************************)
(* The sortasort dictionary, for any values, any size of the directory and *)
(* any distance between sorts: it finds exactly what is in it, stays in    *)
(* its storage, and implements a bounded set.                              *)
(***************************************************************************)
EXTENDS SortAsort, Recursion

-----------------------------------------------------------------------------
(* The order of byte strings.                                              *)

\* m is the first byte in which a and b differ.
Differ(a, b, m) ==
  /\ m \in (1..Len(a)) \cap (1..Len(b)) /\ a[m] # b[m]
  /\ \A i \in 1..(m - 1) : a[i] = b[i]

(* The least element of a nonempty set of natural numbers.                 *)
LEMMA MinFacts ==
  ASSUME NEW T, T \in SUBSET Nat, T # {}
  PROVE  Min(T) \in T /\ \A y \in T : Min(T) <= y
BY LeastNumber DEF Min

(* A value is a string of bytes, and no other value begins with it.        *)
LEMMA ValueFacts ==
  ASSUME NEW a \in Values
  PROVE  /\ a \in Seq(Nat) /\ Len(a) \in Nat \ {0} /\ DOMAIN a = 1..Len(a)
         /\ \A i \in 1..Len(a) : a[i] \in Nat
<1>1. a \in Seq(Nat) /\ a # << >>
  BY SortAsortAssumption
<1> QED
  BY <1>1

LEMMA PrefixFacts ==
  ASSUME NEW a \in Values, NEW b \in Values, Len(a) <= Len(b),
         \A i \in 1..Len(a) : a[i] = b[i]
  PROVE  a = b
<1>1. /\ a \in Seq(Nat) /\ b \in Seq(Nat) /\ Len(a) \in Nat /\ Len(b) \in Nat
  BY ValueFacts
<1>2. SubSeq(a, 1, Len(a)) = SubSeq(b, 1, Len(a))
  BY <1>1
<1>3. IsPrefix(a, b)
  BY <1>2 DEF IsPrefix
<1> QED
  BY <1>3, SortAsortAssumption

(* Two values differ in some byte that both have, and there is a first.    *)
LEMMA FirstDifference ==
  ASSUME NEW a \in Values, NEW b \in Values, a # b
  PROVE  \E m \in Nat : Differ(a, b, m)
<1> DEFINE D == {i \in (1..Len(a)) \cap (1..Len(b)) : a[i] # b[i]}
<1>1. /\ Len(a) \in Nat /\ Len(b) \in Nat
  BY ValueFacts
<1>2. D # {}
  <2> SUFFICES ASSUME D = {} PROVE FALSE
    OBVIOUS
  <2>1. \A i \in (1..Len(a)) \cap (1..Len(b)) : a[i] = b[i]
    OBVIOUS
  <2>2. CASE Len(a) <= Len(b)
    <3>1. \A i \in 1..Len(a) : a[i] = b[i]
      BY <1>1, <2>1, <2>2
    <3> QED
      BY <2>2, <3>1, PrefixFacts
  <2>3. CASE Len(b) <= Len(a)
    <3>1. \A i \in 1..Len(b) : b[i] = a[i]
      BY <1>1, <2>1, <2>3
    <3> QED
      BY <2>3, <3>1, PrefixFacts
  <2> QED
    BY <1>1, <2>2, <2>3
<1>3. D \in SUBSET Nat
  BY <1>1
<1> HIDE DEF D
<1>4. PICK m \in D : \A k \in D : m <= k
  BY <1>2, <1>3, LeastNumber
<1>5. m \in Nat /\ m \in (1..Len(a)) \cap (1..Len(b)) /\ a[m] # b[m]
  BY <1>3, <1>4 DEF D
<1>6. ASSUME NEW i \in 1..(m - 1) PROVE a[i] = b[i]
  <2>1. i \in (1..Len(a)) \cap (1..Len(b)) /\ ~(m <= i)
    BY <1>1, <1>5
  <2> QED
    BY <1>4, <2>1 DEF D
<1> QED
  BY <1>5, <1>6 DEF Differ

(* memcmp with either length finds that byte, or that the values are the   *)
(* same.                                                                   *)
LEMMA MemcmpFacts ==
  ASSUME NEW a \in Values, NEW b \in Values, NEW n, n = Len(a) \/ n = Len(b)
  PROVE  /\ Memcmp(a, b, n) \in Int
         /\ Memcmp(a, b, n) = 0 <=> a = b
         /\ \A m : Differ(a, b, m) => Memcmp(a, b, n) = a[m] - b[m]
<1> DEFINE D == {i \in 1..n \cap (DOMAIN a) \cap (DOMAIN b) : a[i] # b[i]}
<1>1. /\ Len(a) \in Nat /\ Len(b) \in Nat /\ DOMAIN a = 1..Len(a) /\ DOMAIN b = 1..Len(b)
      /\ \A i \in 1..Len(a) : a[i] \in Nat
      /\ \A i \in 1..Len(b) : b[i] \in Nat
  BY ValueFacts
<1>2. D = {i \in (1..Len(a)) \cap (1..Len(b)) : a[i] # b[i]}
  BY <1>1
<1>3. Memcmp(a, b, n) = IF D = {} THEN 0 ELSE a[Min(D)] - b[Min(D)]
  BY DEF Memcmp
<1> HIDE DEF D
<1>4. CASE a = b
  <2>1. D = {}
    BY <1>2, <1>4
  <2> QED
    BY <1>3, <1>4, <2>1 DEF Differ
<1>5. CASE a # b
  <2>1. ASSUME NEW m, Differ(a, b, m)
        PROVE  Memcmp(a, b, n) = a[m] - b[m] /\ a[m] - b[m] \in Int /\ a[m] - b[m] # 0
    <3>1. m \in D /\ m \in Nat /\ a[m] \in Nat /\ b[m] \in Nat /\ a[m] # b[m]
      BY <1>1, <1>2, <2>1 DEF Differ
    <3>2. \A y \in D : m <= y /\ y \in Nat
      BY <1>1, <1>2, <2>1, <3>1 DEF Differ
    <3>3. Min(D) = m
      <4>1. D \in SUBSET Nat /\ D # {}
        BY <3>1, <3>2
      <4>2. \E k \in D : k = Min(D) /\ k <= m
        BY <3>1, <4>1, MinFacts
      <4>3. \A k \in D : k <= m => k = m
        BY <3>1, <3>2
      <4> QED
        BY <4>2, <4>3
    <3> QED
      BY <1>3, <3>1, <3>3
  <2>2. PICK m \in Nat : Differ(a, b, m)
    BY <1>5, FirstDifference
  <2> QED
    BY <1>5, <2>1, <2>2
<1> QED
  BY <1>4, <1>5

(* sorta_cmp is a strict order in which any two values are comparable.     *)
LEMMA LessIs ==
  ASSUME NEW a \in Values, NEW b \in Values
  PROVE  SortaLess(a, b) <=> \E m \in Nat : Differ(a, b, m) /\ a[m] < b[m]
<1>1. CASE a = b
  BY <1>1, MemcmpFacts DEF SortaLess, Differ
<1>2. CASE a # b
  <2>1. PICK m \in Nat : Differ(a, b, m)
    BY <1>2, FirstDifference
  <2>2. a[m] \in Nat /\ b[m] \in Nat
    BY <2>1, ValueFacts DEF Differ
  <2>3. \A k \in Nat : Differ(a, b, k) => Memcmp(a, b, Len(a)) = a[k] - b[k]
    BY MemcmpFacts
  <2>4. \A k \in Nat : Differ(a, b, k) => a[k] \in Nat /\ b[k] \in Nat
    BY ValueFacts DEF Differ
  <2> QED
    BY <2>1, <2>2, <2>3, <2>4 DEF SortaLess
<1> QED
  BY <1>1, <1>2

LEMMA LessOrders ==
  /\ \A a, b \in Values : SortaLess(a, b) => a # b /\ ~SortaLess(b, a)
  /\ \A a, b \in Values : a = b \/ SortaLess(a, b) \/ SortaLess(b, a)
  /\ \A a, b, c \in Values : SortaLess(a, b) /\ SortaLess(b, c) => SortaLess(a, c)
<1>1. ASSUME NEW a \in Values, NEW b \in Values, SortaLess(a, b)
      PROVE  a # b /\ ~SortaLess(b, a)
  <2>1. PICK m \in Nat : Differ(a, b, m) /\ a[m] < b[m]
    BY <1>1, LessIs
  <2>2. Differ(b, a, m) /\ a[m] \in Nat /\ b[m] \in Nat
    BY <2>1, ValueFacts DEF Differ
  <2>3. a # b
    BY <2>1 DEF Differ
  <2>4. Memcmp(b, a, Len(b)) = b[m] - a[m]
    BY <2>2, MemcmpFacts
  <2> QED
    BY <2>1, <2>2, <2>3, <2>4 DEF SortaLess
<1>2. ASSUME NEW a \in Values, NEW b \in Values, a # b
      PROVE  SortaLess(a, b) \/ SortaLess(b, a)
  <2>1. PICK m \in Nat : Differ(a, b, m)
    BY <1>2, FirstDifference
  <2>2. /\ Differ(b, a, m) /\ a[m] \in Nat /\ b[m] \in Nat /\ a[m] # b[m]
    BY <2>1, ValueFacts DEF Differ
  <2>3. a[m] < b[m] \/ b[m] < a[m]
    BY <2>2
  <2> QED
    BY <2>1, <2>2, <2>3, LessIs
<1>3. ASSUME NEW a \in Values, NEW b \in Values, NEW c \in Values,
             SortaLess(a, b), SortaLess(b, c)
      PROVE  SortaLess(a, c)
  <2>1. PICK m \in Nat : Differ(a, b, m) /\ a[m] < b[m]
    BY <1>3, LessIs
  <2>2. PICK l \in Nat : Differ(b, c, l) /\ b[l] < c[l]
    BY <1>3, LessIs
  <2> DEFINE k == IF m <= l THEN m ELSE l
  <2>3. /\ Len(a) \in Nat /\ Len(b) \in Nat /\ Len(c) \in Nat
        /\ \A i \in 1..Len(a) : a[i] \in Nat
        /\ \A i \in 1..Len(b) : b[i] \in Nat
        /\ \A i \in 1..Len(c) : c[i] \in Nat
    BY ValueFacts
  <2>4. k \in Nat /\ k \in (1..Len(a)) \cap (1..Len(c))
    BY <2>1, <2>2, <2>3 DEF Differ
  <2>5. a[k] < c[k]
    <3>1. CASE m < l
      BY <2>1, <2>2, <2>3, <3>1 DEF Differ
    <3>2. CASE m = l
      BY <2>1, <2>2, <2>3, <3>2 DEF Differ
    <3>3. CASE l < m
      BY <2>1, <2>2, <2>3, <3>3 DEF Differ
    <3> QED
      BY <3>1, <3>2, <3>3
  <2>6. \A i \in 1..(k - 1) : a[i] = c[i]
    BY <2>1, <2>2 DEF Differ
  <2>7. a[k] # c[k]
    BY <2>3, <2>4, <2>5
  <2> HIDE DEF k
  <2> QED
    BY <2>4, <2>5, <2>6, <2>7, LessIs DEF Differ
<1> QED
  BY <1>1, <1>2, <1>3

-----------------------------------------------------------------------------
(* The directory after a sort.                                             *)

\* No value is stored twice.
Distinct(d) == \A i, j \in 1..Len(d) : d[i] = d[j] => i = j

\* The first n values are in ascending order.
Ascends(d, n) == \A i, j \in 1..n : i < j => SortaLess(d[i], d[j])

\* What is less than the i-th value.
Below(d, i) == {j \in 1..Len(d) : SortaLess(d[j], d[i])}

(* The number of values below one is its place: these numbers are those    *)
(* from 0 to Len(d) - 1, each once, and in the order of the values.        *)
LEMMA BelowOrders ==
  ASSUME NEW d \in Seq(Values), NEW i \in 1..Len(d), NEW j \in 1..Len(d),
         SortaLess(d[i], d[j])
  PROVE  Cardinality(Below(d, i)) < Cardinality(Below(d, j))
<1>1. d[i] \in Values /\ d[j] \in Values /\ \A k \in 1..Len(d) : d[k] \in Values
  OBVIOUS
<1>2. Below(d, i) \subseteq Below(d, j)
  BY <1>1, LessOrders DEF Below
<1>3. i \in Below(d, j) /\ i \notin Below(d, i)
  BY <1>1, LessOrders DEF Below
<1>4. IsFiniteSet(1..Len(d))
  BY FS_Interval
<1>5. IsFiniteSet(Below(d, i)) /\ IsFiniteSet(Below(d, j))
  BY <1>4, FS_Subset DEF Below
<1>6. /\ Cardinality(Below(d, i)) \in Nat /\ Cardinality(Below(d, j)) \in Nat
      /\ Cardinality(Below(d, i)) <= Cardinality(Below(d, j))
      /\ Cardinality(Below(d, i)) # Cardinality(Below(d, j))
  BY <1>2, <1>3, <1>5, FS_Subset, FS_CardinalityType
<1> QED
  BY <1>6

LEMMA BelowCounts ==
  ASSUME NEW d \in Seq(Values), NEW i \in 1..Len(d)
  PROVE  Cardinality(Below(d, i)) \in 0..(Len(d) - 1)
<1>1. Len(d) \in Nat /\ i \in Nat /\ 1 <= i /\ i <= Len(d) /\ d[i] \in Values
  OBVIOUS
<1>2. IsFiniteSet(1..Len(d)) /\ Cardinality(1..Len(d)) = Len(d)
  BY <1>1, FS_Interval
<1>3. Below(d, i) \in SUBSET (1..Len(d)) /\ i \notin Below(d, i)
  BY <1>1, LessOrders DEF Below
<1>4. IsFiniteSet(Below(d, i)) /\ Cardinality(Below(d, i)) <= Len(d)
      /\ Cardinality(Below(d, i)) # Len(d)
  BY <1>2, <1>3, FS_Subset
<1>5. Cardinality(Below(d, i)) \in Nat
  BY <1>4, FS_CardinalityType
<1> QED
  BY <1>1, <1>4, <1>5

LEMMA BelowMeets ==
  ASSUME NEW d \in Seq(Values), Distinct(d), NEW k \in 1..Len(d)
  PROVE  \E i \in 1..Len(d) : Cardinality(Below(d, i)) = k - 1
<1> DEFINE S == 1..Len(d)
           f == [i \in S |-> Cardinality(Below(d, i)) + 1]
           T == {f[i] : i \in S}
<1>1. Len(d) \in Nat /\ \A i \in S : d[i] \in Values
  OBVIOUS
<1>2. IsFiniteSet(S) /\ Cardinality(S) = Len(d)
  BY <1>1, FS_Interval
<1>3. \A i \in S : f[i] \in S /\ f[i] = Cardinality(Below(d, i)) + 1
                   /\ Cardinality(Below(d, i)) \in Nat
  BY <1>1, BelowCounts
<1>4. ASSUME NEW i \in S, NEW j \in S, f[i] = f[j]
      PROVE  i = j
  <2>1. Cardinality(Below(d, i)) = Cardinality(Below(d, j))
        /\ Cardinality(Below(d, i)) \in Nat
    BY <1>3, <1>4
  <2>2. ~SortaLess(d[i], d[j]) /\ ~SortaLess(d[j], d[i])
    BY <2>1, BelowOrders
  <2>3. d[i] = d[j]
    BY <1>1, <2>2, LessOrders
  <2> QED
    BY <2>3 DEF Distinct
<1>5. f \in [S -> T] /\ T \in SUBSET S /\ \A t \in T : \E i \in S : f[i] = t
  BY <1>3
<1> HIDE DEF f, T
<1>6. Cardinality(T) = Cardinality(S)
  BY <1>2, <1>4, <1>5, SameCardinality
<1>7. S = T
  BY <1>2, <1>5, <1>6, FS_Subset
<1>8. PICK i \in S : f[i] = k
  BY <1>5, <1>7
<1> QED
  BY <1>3, <1>8

(* qsort_arg leaves the same values, ascending.                            *)
LEMMA SortedFacts ==
  ASSUME NEW d \in Seq(Values), Distinct(d)
  PROVE  /\ Sorted(d) \in Seq(Values) /\ Len(Sorted(d)) = Len(d)
         /\ Distinct(Sorted(d)) /\ Ascends(Sorted(d), Len(d))
         /\ ToSet(Sorted(d)) = ToSet(d)
<1> DEFINE n == Len(d)
           Before(i) == {j \in DOMAIN d : \/ SortaLess(d[j], d[i])
                                         \/ (~SortaLess(d[i], d[j]) /\ j < i)}
           pos == [k \in DOMAIN d |-> CHOOSE i \in DOMAIN d : Cardinality(Before(i)) = k - 1]
           s == Sorted(d)
<1>1. n \in Nat /\ DOMAIN d = 1..n /\ \A i \in 1..n : d[i] \in Values
  OBVIOUS
<1>2. \A i \in 1..n : Before(i) = Below(d, i)
  BY <1>1, LessOrders DEF Below, Distinct
<1>3. s = [k \in DOMAIN d |-> d[pos[k]]]
  BY DEF Sorted
<1> HIDE DEF Before
<1>4. \A k \in 1..n : pos[k] \in 1..n /\ Cardinality(Below(d, pos[k])) = k - 1
  <2> SUFFICES ASSUME NEW k \in 1..n
               PROVE  pos[k] \in 1..n /\ Cardinality(Below(d, pos[k])) = k - 1
    OBVIOUS
  <2>1. \E i \in DOMAIN d : Cardinality(Before(i)) = k - 1
    BY <1>1, <1>2, BelowMeets
  <2>2. pos[k] \in DOMAIN d /\ Cardinality(Before(pos[k])) = k - 1
    BY <1>1, <2>1
  <2> QED
    BY <1>1, <1>2, <2>2
<1> HIDE DEF pos, s
<1>5. s = [k \in 1..n |-> d[pos[k]]]
  BY <1>1, <1>3
<1>6. s \in Seq(Values) /\ Len(s) = n /\ \A k \in 1..n : s[k] = d[pos[k]]
  <2>1. s \in [1..n -> Values]
    BY <1>1, <1>4, <1>5
  <2> QED
    BY <1>1, <1>5, <2>1
<1>7. Ascends(s, n)
  <2> SUFFICES ASSUME NEW k \in 1..n, NEW l \in 1..n, k < l
               PROVE  SortaLess(s[k], s[l])
    BY DEF Ascends
  <2>1. /\ pos[k] \in 1..n /\ pos[l] \in 1..n
        /\ Cardinality(Below(d, pos[k])) = k - 1 /\ Cardinality(Below(d, pos[l])) = l - 1
    BY <1>4
  <2>2. ~(l - 1 < k - 1) /\ k - 1 # l - 1
    OBVIOUS
  <2>3. ~SortaLess(d[pos[l]], d[pos[k]])
    BY <2>1, <2>2, BelowOrders
  <2>4. pos[k] # pos[l]
    BY <2>1, <2>2
  <2>5. d[pos[k]] # d[pos[l]]
    BY <2>1, <2>4 DEF Distinct
  <2>6. SortaLess(d[pos[k]], d[pos[l]])
    BY <1>1, <2>1, <2>3, <2>5, LessOrders
  <2> QED
    BY <1>6, <2>6
<1>8. Distinct(s)
  <2> SUFFICES ASSUME NEW k \in 1..n, NEW l \in 1..n, k # l
               PROVE  s[k] # s[l]
    BY <1>6 DEF Distinct
  <2>1. k < l \/ l < k
    OBVIOUS
  <2>2. SortaLess(s[k], s[l]) \/ SortaLess(s[l], s[k])
    BY <1>7, <2>1 DEF Ascends
  <2>3. s[k] \in Values /\ s[l] \in Values
    BY <1>6
  <2> QED
    BY <2>2, <2>3, LessOrders
<1>9. ToSet(s) = ToSet(d)
  <2>1. \A k \in 1..n : s[k] = d[pos[k]] /\ pos[k] \in 1..n
    BY <1>4, <1>6
  <2>2. ASSUME NEW i \in 1..n
        PROVE  \E k \in 1..n : s[k] = d[i]
    <3> DEFINE k == Cardinality(Below(d, i)) + 1
    <3>1. k \in 1..n /\ Cardinality(Below(d, i)) = k - 1
      BY <1>1, BelowCounts
    <3> HIDE DEF k
    <3>2. /\ pos[k] \in 1..n /\ Cardinality(Below(d, pos[k])) = k - 1
      BY <1>4, <3>1
    <3>3. ~(k - 1 < k - 1)
      BY <3>1
    <3>4. ~SortaLess(d[pos[k]], d[i]) /\ ~SortaLess(d[i], d[pos[k]])
      BY <3>1, <3>2, <3>3, BelowOrders
    <3>5. d[pos[k]] = d[i]
      BY <1>1, <3>2, <3>4, LessOrders
    <3> QED
      BY <1>6, <3>1, <3>5
  <2>3. ToSet(s) = {s[k] : k \in 1..n} /\ ToSet(d) = {d[i] : i \in 1..n}
    BY <1>1, <1>6 DEF ToSet
  <2>4. {s[k] : k \in 1..n} \subseteq {d[i] : i \in 1..n}
    BY <2>1
  <2>5. {d[i] : i \in 1..n} \subseteq {s[k] : k \in 1..n}
    BY <2>2
  <2> QED
    BY <2>3, <2>4, <2>5
<1> QED
  BY <1>6, <1>7, <1>8, <1>9 DEF s

-----------------------------------------------------------------------------
(* sortasort_find.                                                         *)

(* The front is none of the directory or at least three values, and grows  *)
(* to the whole of it at the inserts that sort.                            *)
LEMMA HiFacts ==
  ASSUME NEW d, Len(d) \in Nat
  PROVE  /\ Hi(d) \in 0..Len(d) /\ (Hi(d) = 0 \/ Hi(d) >= 3)
         /\ \A e : /\ Len(e) = Len(d) + 1 /\ Len(e) % SLOP = 0 => Hi(e) = Len(e)
                   /\ Len(e) = Len(d) + 1 /\ Len(e) % SLOP # 0 => Hi(e) = Hi(d)
<1> DEFINE q == Len(d) \div SLOP
           r == Len(d) % SLOP
<1>1. SLOP \in Nat /\ SLOP >= 3
  BY SortAsortAssumption
<1>2. /\ q \in Nat /\ r \in 0..(SLOP - 1) /\ Len(d) = SLOP * q + r
      /\ SLOP * q \in Nat
  BY <1>1, SMTT(30)
<1>3. Hi(d) = SLOP * q
  BY <1>1, <1>2 DEF Hi
<1>4. q = 0 \/ SLOP * q >= SLOP
  BY <1>1, <1>2, SMTT(30)
<1>5. ASSUME NEW e, Len(e) = Len(d) + 1
      PROVE  /\ Len(e) % SLOP = 0 => Hi(e) = Len(e)
             /\ Len(e) % SLOP # 0 => Hi(e) = Hi(d)
  <2> DEFINE p == Len(e) \div SLOP
             t == Len(e) % SLOP
  <2>1. /\ p \in Nat /\ t \in 0..(SLOP - 1) /\ Len(e) = SLOP * p + t
        /\ SLOP * p \in Nat
    BY <1>1, <1>5, SMTT(30)
  <2>2. Hi(e) = SLOP * p
    BY <1>1, <2>1 DEF Hi
  <2> HIDE DEF p, t, q, r
  <2>3. ASSUME t # 0 PROVE SLOP * p = SLOP * q
    <3>1. SLOP * p + t = SLOP * q + r + 1
      BY <1>2, <1>5, <2>1
    <3>2. p <= q
      <4>1. SUFFICES ASSUME p >= q + 1 PROVE FALSE
        BY <1>2, <2>1
      <4>2. SLOP * p >= SLOP * q + SLOP
        BY <1>1, <1>2, <2>1, <4>1, SMTT(30)
      <4> QED
        BY <1>1, <1>2, <2>1, <2>3, <3>1, <4>2
    <3>3. q <= p
      <4>1. SUFFICES ASSUME q >= p + 1 PROVE FALSE
        BY <1>2, <2>1
      <4>2. SLOP * q >= SLOP * p + SLOP
        BY <1>1, <1>2, <2>1, <4>1, SMTT(30)
      <4> QED
        BY <1>1, <1>2, <2>1, <2>3, <3>1, <4>2
    <3> QED
      BY <1>2, <2>1, <3>2, <3>3
  <2> QED
    BY <1>3, <2>1, <2>2, <2>3 DEF t
<1> HIDE DEF q, r
<1> QED
  BY <1>1, <1>2, <1>3, <1>4, <1>5

(* memcmp over the length of the value looked for.                         *)
LEMMA MemcmpIsLess ==
  ASSUME NEW a \in Values, NEW v \in Values
  PROVE  /\ Memcmp(a, v, Len(v)) \in Int
         /\ Memcmp(a, v, Len(v)) = 0 <=> a = v
         /\ Memcmp(a, v, Len(v)) < 0 <=> SortaLess(a, v)
<1>1. CASE a = v
  BY <1>1, MemcmpFacts DEF SortaLess
<1>2. CASE a # v
  <2>1. PICK m \in Nat : Differ(a, v, m)
    BY <1>2, FirstDifference
  <2>2. Memcmp(a, v, Len(v)) = a[m] - v[m] /\ Memcmp(a, v, Len(a)) = a[m] - v[m]
    BY <2>1, MemcmpFacts
  <2> QED
    BY <2>2, MemcmpFacts DEF SortaLess
<1> QED
  BY <1>1, <1>2

\* One turn of the loop.
SearchStates == [min: Int, max: Int, guess: Int]
Ended(d, v, s) == s.min >= s.max - 1 \/ Memcmp(d[s.guess], v, Len(v)) = 0
Turn(d, v, s) ==
  IF Ended(d, v, s) THEN s
  ELSE IF Memcmp(d[s.guess], v, Len(v)) < 0
    THEN [min |-> s.guess, max |-> s.max, guess |-> s.guess + Half(s.max - s.guess)]
    ELSE [min |-> s.min, max |-> s.guess, guess |-> s.guess - Half(s.guess - s.min)]

(* The loop makes one turn after another.                                  *)
LEMMA TurnsIterate ==
  ASSUME NEW d, NEW v, Hi(d) \in Nat
  PROVE  /\ Turns(d, v)[0] = [min |-> 1, max |-> Hi(d), guess |-> Hi(d) \div 2 + 1]
         /\ \A k \in Nat : Turns(d, v)[k + 1] = Turn(d, v, Turns(d, v)[k])
<1> DEFINE Goes(s) == Turn(d, v, s)
           V == SearchStates
           base == [min |-> 1, max |-> Hi(d), guess |-> Hi(d) \div 2 + 1]
           step == [p \in Nat \X V |-> Goes(p[2])]
           F == Turns(d, v)
<1>1. \A n \in Int : Half(n) \in Int
  BY DEF Half
<1>2. ASSUME NEW s \in V PROVE Goes(s) \in V
  <2>1. s.min \in Int /\ s.max \in Int /\ s.guess \in Int
    BY DEF SearchStates
  <2>2. Half(s.max - s.guess) \in Int /\ Half(s.guess - s.min) \in Int
    BY <1>1, <2>1
  <2> QED
    BY <2>1, <2>2 DEF SearchStates, Turn
<1>3. base \in V
  BY DEF SearchStates
<1>4. F = CHOOSE f : f = [k \in Nat |-> IF k = 0 THEN base ELSE Goes(f[k - 1])]
  BY DEF Turns, Turn, Ended
<1> HIDE DEF Goes
<1>5. step \in [Nat \X V -> V] /\ \A k \in Nat, s \in V : step[<<k, s>>] = Goes(s)
  BY <1>2
<1> HIDE DEF step, V, base, F
<1>6. PICK f : Iterates(f, V, base, step)
  BY <1>3, <1>5, NatRecursion
<1>7. f \in [Nat -> V] /\ \A k \in Nat : f[k] = IF k = 0 THEN base ELSE step[<<k - 1, f[k - 1]>>]
  BY <1>6 DEF Iterates
<1>8. \A k \in Nat : f[k] = IF k = 0 THEN base ELSE Goes(f[k - 1])
  <2> SUFFICES ASSUME NEW k \in Nat, k # 0 PROVE f[k] = Goes(f[k - 1])
    BY <1>7
  <2>1. k - 1 \in Nat /\ f[k - 1] \in V
    BY <1>7
  <2> QED
    BY <1>5, <1>7, <2>1
<1>9. f = [k \in Nat |-> IF k = 0 THEN base ELSE Goes(f[k - 1])]
  BY <1>7, <1>8
<1>10. F = [k \in Nat |-> IF k = 0 THEN base ELSE Goes(F[k - 1])]
  BY <1>4, <1>9
<1>11. F[0] = base
  BY <1>10
<1>12. ASSUME NEW k \in Nat PROVE F[k + 1] = Goes(F[k])
  <2>1. k + 1 \in Nat /\ k + 1 # 0 /\ (k + 1) - 1 = k
    OBVIOUS
  <2> QED
    BY <1>10, <2>1
<1> QED
  BY <1>11, <1>12 DEF F, Goes, base

\* What the loop knows: the guess is in the range, strictly so until two places
\* are left, and the value is nowhere else; of two places it is at the guess.
Within(d, v, s) ==
  /\ s \in SearchStates
  /\ 1 <= s.min /\ s.min < s.max /\ s.max <= Hi(d)
  /\ s.min <= s.guess /\ s.guess <= s.max
  /\ s.max > s.min + 1 => s.min < s.guess /\ s.guess < s.max
  /\ \A j \in 1..Hi(d) : d[j] = v =>
       /\ s.min <= j /\ j <= s.max
       /\ s.max = s.min + 1 => j = s.guess

\* A directory with a sorted front, and a value to look for.
Searched(d, v) ==
  /\ d \in Seq(Values) /\ v \in Values /\ Ascends(d, Hi(d)) /\ Hi(d) >= 3

LEMMA HalfFacts ==
  ASSUME NEW n \in Nat, n >= 1
  PROVE  Half(n) \in Nat /\ 1 <= Half(n) /\ Half(n) <= n /\ (n >= 2 => Half(n) < n)
BY DEF Half

(* A turn keeps this, and narrows the range unless the loop has ended.     *)
LEMMA TurnNarrows ==
  ASSUME NEW d, NEW v, Searched(d, v), NEW s, Within(d, v, s)
  PROVE  LET t == Turn(d, v, s)
         IN /\ Within(d, v, t)
            /\ Ended(d, v, s) => t = s
            /\ ~Ended(d, v, s) => t.max - t.min <= s.max - s.min - 1
<1> DEFINE t == Turn(d, v, s)
           n == Hi(d)
<1>1. n \in Nat /\ n <= Len(d) /\ d \in Seq(Values) /\ v \in Values /\ Len(d) \in Nat
  BY HiFacts DEF Searched
<1>2. CASE Ended(d, v, s)
  BY <1>2 DEF Turn
<1>3. CASE ~Ended(d, v, s)
  <2>1. /\ s.min \in Nat /\ s.max \in Nat /\ s.guess \in Nat
        /\ 1 <= s.min /\ s.max <= n
        /\ s.min < s.guess /\ s.guess < s.max
        /\ s.guess \in 1..n /\ d[s.guess] \in Values
    BY <1>1, <1>3 DEF Ended, Within, SearchStates
  <2>2. Memcmp(d[s.guess], v, Len(v)) \in Int /\ Memcmp(d[s.guess], v, Len(v)) # 0
    BY <1>1, <1>3, <2>1, MemcmpIsLess DEF Ended
  <2>3. \A j \in 1..n : d[j] \in Values
    BY <1>1
  <2>4. CASE Memcmp(d[s.guess], v, Len(v)) < 0
    <3> DEFINE h == Half(s.max - s.guess)
    <3>1. t = [min |-> s.guess, max |-> s.max, guess |-> s.guess + h]
      BY <1>3, <2>4 DEF Turn
    <3>2. h \in Nat /\ 1 <= h /\ h <= s.max - s.guess
          /\ (s.max - s.guess >= 2 => h < s.max - s.guess)
      BY <2>1, HalfFacts
    <3>3. SortaLess(d[s.guess], v)
      BY <1>1, <2>1, <2>4, MemcmpIsLess
    <3>4. ASSUME NEW j \in 1..n, d[j] = v
          PROVE  s.guess < j /\ j <= s.max
      <4>1. j <= s.max
        BY <3>4 DEF Within
      <4>2. j # s.guess
        BY <1>1, <3>3, <3>4, LessOrders
      <4>3. ~(j < s.guess)
        <5>1. SUFFICES ASSUME j < s.guess PROVE FALSE
          OBVIOUS
        <5>2. SortaLess(d[j], d[s.guess])
          BY <2>1, <5>1 DEF Searched, Ascends
        <5> QED
          BY <1>1, <2>1, <3>3, <3>4, <5>2, LessOrders
      <4> QED
        BY <2>1, <4>1, <4>2, <4>3
    <3> HIDE DEF h, t, n
    <3>5. /\ t \in SearchStates /\ t.min = s.guess /\ t.max = s.max /\ t.guess = s.guess + h
      BY <2>1, <3>1, <3>2 DEF SearchStates
    <3>6. Within(d, v, t)
      <4>1. \A j \in 1..n : d[j] = v =>
              /\ t.min <= j /\ j <= t.max
              /\ t.max = t.min + 1 => j = t.guess
        <5> SUFFICES ASSUME NEW j \in 1..n, d[j] = v
                     PROVE  /\ t.min <= j /\ j <= t.max
                            /\ t.max = t.min + 1 => j = t.guess
          OBVIOUS
        <5>1. j \in Int
          BY <1>1
        <5> QED
          BY <2>1, <3>2, <3>4, <3>5, <5>1
      <4> QED
        BY <2>1, <3>2, <3>5, <4>1 DEF Within, n
    <3> QED
      BY <1>3, <2>1, <3>5, <3>6 DEF t
  <2>5. CASE ~(Memcmp(d[s.guess], v, Len(v)) < 0)
    <3> DEFINE h == Half(s.guess - s.min)
    <3>1. t = [min |-> s.min, max |-> s.guess, guess |-> s.guess - h]
      BY <1>3, <2>5 DEF Turn
    <3>2. h \in Nat /\ 1 <= h /\ h <= s.guess - s.min
          /\ (s.guess - s.min >= 2 => h < s.guess - s.min)
      BY <2>1, HalfFacts
    <3>3. SortaLess(v, d[s.guess])
      <4>1. d[s.guess] # v /\ ~SortaLess(d[s.guess], v)
        BY <1>1, <2>1, <2>2, <2>5, MemcmpIsLess
      <4> QED
        BY <1>1, <2>1, <4>1, LessOrders
    <3>4. ASSUME NEW j \in 1..n, d[j] = v
          PROVE  s.min <= j /\ j < s.guess
      <4>1. s.min <= j
        BY <3>4 DEF Within
      <4>2. j # s.guess
        BY <1>1, <3>3, <3>4, LessOrders
      <4>3. ~(s.guess < j)
        <5>1. SUFFICES ASSUME s.guess < j PROVE FALSE
          OBVIOUS
        <5>2. SortaLess(d[s.guess], d[j])
          BY <2>1, <5>1 DEF Searched, Ascends
        <5> QED
          BY <1>1, <2>1, <3>3, <3>4, <5>2, LessOrders
      <4> QED
        BY <2>1, <4>1, <4>2, <4>3
    <3> HIDE DEF h, t, n
    <3>5. /\ t \in SearchStates /\ t.min = s.min /\ t.max = s.guess /\ t.guess = s.guess - h
      BY <2>1, <3>1, <3>2 DEF SearchStates
    <3>6. Within(d, v, t)
      <4>1. \A j \in 1..n : d[j] = v =>
              /\ t.min <= j /\ j <= t.max
              /\ t.max = t.min + 1 => j = t.guess
        <5> SUFFICES ASSUME NEW j \in 1..n, d[j] = v
                     PROVE  /\ t.min <= j /\ j <= t.max
                            /\ t.max = t.min + 1 => j = t.guess
          OBVIOUS
        <5>1. j \in Int
          BY <1>1
        <5> QED
          BY <2>1, <3>2, <3>4, <3>5, <5>1
      <4> QED
        BY <2>1, <3>2, <3>5, <4>1 DEF Within, n
    <3> QED
      BY <1>3, <2>1, <3>5, <3>6 DEF t
  <2> QED
    BY <2>4, <2>5
<1> QED
  BY <1>2, <1>3

(* After as many turns as the front has values the loop has ended.         *)
LEMMA TurnsEnd ==
  ASSUME NEW d, NEW v, Searched(d, v)
  PROVE  /\ Within(d, v, Turns(d, v)[Hi(d)])
         /\ Ended(d, v, Turns(d, v)[Hi(d)])
<1> DEFINE F == Turns(d, v)
           n == Hi(d)
           Good(k) == /\ Within(d, v, F[k])
                      /\ Ended(d, v, F[k]) \/ F[k].max - F[k].min <= n - 1 - k
           Bad == {k \in Nat : ~Good(k)}
<1>1. n \in Nat /\ n >= 3 /\ d \in Seq(Values) /\ n <= Len(d) /\ Len(d) \in Nat
  BY HiFacts DEF Searched
<1>2. /\ F[0] = [min |-> 1, max |-> n, guess |-> n \div 2 + 1]
      /\ \A k \in Nat : F[k + 1] = Turn(d, v, F[k])
  BY <1>1, TurnsIterate
<1> HIDE DEF F, n
<1>3. Good(0)
  <2>1. n \div 2 \in Nat /\ 1 <= n \div 2 /\ n \div 2 + 1 < n
    BY <1>1
  <2>2. F[0] \in SearchStates /\ F[0].min = 1 /\ F[0].max = n /\ F[0].guess = n \div 2 + 1
    BY <1>1, <1>2, <2>1 DEF SearchStates
  <2>3. Within(d, v, F[0])
    BY <1>1, <2>1, <2>2 DEF Within, n
  <2> QED
    BY <1>1, <2>2, <2>3
<1>4. ASSUME NEW k \in Nat, Good(k)
      PROVE  Good(k + 1)
  <2>1. /\ Within(d, v, F[k + 1])
        /\ Ended(d, v, F[k]) => F[k + 1] = F[k]
        /\ ~Ended(d, v, F[k]) => F[k + 1].max - F[k + 1].min <= F[k].max - F[k].min - 1
    BY <1>2, <1>4, TurnNarrows
  <2>2. /\ F[k].max \in Int /\ F[k].min \in Int
        /\ F[k + 1].max \in Int /\ F[k + 1].min \in Int
    BY <1>4, <2>1 DEF Within, SearchStates
  <2>3. CASE Ended(d, v, F[k])
    <3>1. Ended(d, v, F[k + 1])
      BY <2>1, <2>3
    <3> QED
      BY <2>1, <3>1
  <2>4. CASE ~Ended(d, v, F[k])
    <3>1. F[k].max - F[k].min <= n - 1 - k
      BY <1>4, <2>4
    <3>2. F[k + 1].max - F[k + 1].min <= n - 1 - (k + 1)
      <4> DEFINE a == F[k].max - F[k].min
                 b == F[k + 1].max - F[k + 1].min
      <4>1. a \in Int /\ b \in Int
        BY <2>2
      <4>2. b <= a - 1 /\ a <= n - 1 - k
        BY <2>1, <2>4, <3>1
      <4> HIDE DEF a, b
      <4>3. b <= n - 1 - (k + 1)
        BY <1>1, <4>1, <4>2
      <4> QED
        BY <4>3 DEF b
    <3> QED
      BY <2>1, <3>2
  <2> QED
    BY <2>3, <2>4
<1>5. \A k \in Nat : Good(k)
  <2>1. SUFFICES ASSUME Bad # {} PROVE FALSE
    OBVIOUS
  <2>2. Bad \in SUBSET Nat
    OBVIOUS
  <2>3. PICK k \in Bad : \A j \in Bad : k <= j
    <3> HIDE DEF Bad
    <3> QED
      BY <2>1, <2>2, LeastNumber
  <2>4. k \in Nat /\ ~Good(k)
    OBVIOUS
  <2> HIDE DEF Good
  <2>5. k # 0
    BY <1>3, <2>4
  <2>6. k - 1 \in Nat /\ ~(k <= k - 1) /\ (k - 1) + 1 = k
    BY <2>4, <2>5
  <2>7. Good(k - 1)
    BY <2>3, <2>6
  <2>8. Good((k - 1) + 1)
    BY <1>4, <2>6, <2>7
  <2> QED
    BY <2>4, <2>6, <2>8
<1>6. Good(n)
  BY <1>1, <1>5
<1>7. F[n].max \in Int /\ F[n].min \in Int /\ F[n].min < F[n].max
  BY <1>6 DEF Within, SearchStates
<1> QED
  BY <1>1, <1>6, <1>7 DEF F, n

(* The search on the front finds the place of a value in it, and nothing   *)
(* of a value that is not.                                                 *)
LEMMA FrontSearchFacts ==
  ASSUME NEW d \in Seq(Values), NEW v \in Values, Ascends(d, Hi(d))
  PROVE  /\ FrontSearch(d, v) # NotFound =>
              FrontSearch(d, v) \in 1..Hi(d) /\ d[FrontSearch(d, v)] = v
         /\ FrontSearch(d, v) = NotFound => \A j \in 1..Hi(d) : d[j] # v
<1> DEFINE s == Turns(d, v)[Hi(d)]
<1>1. Len(d) \in Nat /\ Hi(d) \in 0..Len(d) /\ (Hi(d) = 0 \/ Hi(d) >= 3)
  BY HiFacts
<1>2. CASE Hi(d) = 0
  <2>1. s = [min |-> 1, max |-> 0, guess |-> 0 \div 2 + 1]
    BY <1>2, TurnsIterate
  <2>2. ~(s.min < s.max)
    BY <2>1
  <2> QED
    BY <1>2, <2>2 DEF FrontSearch
<1>3. CASE Hi(d) >= 3
  <2>1. Within(d, v, s) /\ Ended(d, v, s)
    BY <1>3, TurnsEnd DEF Searched
  <2> HIDE DEF s
  <2>2. /\ s.min \in Int /\ s.max \in Int /\ s.guess \in Int
        /\ s.min < s.max /\ s.guess \in 1..Hi(d)
    BY <1>1, <2>1 DEF Within, SearchStates
  <2>3. d[s.guess] \in Values
    BY <1>1, <2>2
  <2>4. Memcmp(d[s.guess], v, Len(v)) = 0 <=> d[s.guess] = v
    BY <2>3, MemcmpIsLess
  <2>5. FrontSearch(d, v) = IF d[s.guess] = v THEN s.guess ELSE NotFound
    BY <2>2, <2>4 DEF FrontSearch, s
  <2>6. ASSUME d[s.guess] # v, NEW j \in 1..Hi(d) PROVE d[j] # v
    <3>1. s.max = s.min + 1
      BY <2>1, <2>2, <2>4, <2>6 DEF Ended
    <3> QED
      BY <2>1, <2>6, <3>1 DEF Within
  <2> QED
    BY <2>2, <2>5, <2>6 DEF NotFound
<1> QED
  BY <1>1, <1>2, <1>3

(* sortasort_find is exact.                                                *)
LEMMA FindFacts ==
  ASSUME NEW d \in Seq(Values), NEW v \in Values, Ascends(d, Hi(d))
  PROVE  IF v \in ToSet(d) THEN Find(d, v) \in DOMAIN d /\ d[Find(d, v)] = v
                           ELSE Find(d, v) = NotFound
<1> DEFINE T == {i \in Hi(d) + 1 .. Len(d) : Memcmp(d[i], v, Len(v)) = 0}
<1>1. /\ Len(d) \in Nat /\ Hi(d) \in 0..Len(d) /\ DOMAIN d = 1..Len(d)
      /\ \A i \in 1..Len(d) : d[i] \in Values
  BY HiFacts
<1>2. \A i \in 1..Len(d) : Memcmp(d[i], v, Len(v)) = 0 <=> d[i] = v
  BY <1>1, MemcmpIsLess
<1>3. T = {i \in Hi(d) + 1 .. Len(d) : d[i] = v} /\ T \in SUBSET Nat
  BY <1>1, <1>2
<1>4. Find(d, v) = IF FrontSearch(d, v) # NotFound THEN FrontSearch(d, v)
                   ELSE IF T # {} THEN Min(T) ELSE NotFound
  BY DEF Find
<1> HIDE DEF T
<1>5. CASE FrontSearch(d, v) # NotFound
  <2>1. Find(d, v) \in 1..Len(d) /\ d[Find(d, v)] = v
    BY <1>1, <1>4, <1>5, FrontSearchFacts
  <2> QED
    BY <1>1, <2>1 DEF ToSet
<1>6. CASE FrontSearch(d, v) = NotFound /\ T # {}
  <2>1. Min(T) \in T
    BY <1>3, <1>6, MinFacts
  <2>2. Min(T) \in 1..Len(d) /\ d[Min(T)] = v
    BY <1>1, <1>3, <2>1
  <2> QED
    BY <1>1, <1>4, <1>6, <2>2 DEF ToSet
<1>7. CASE FrontSearch(d, v) = NotFound /\ T = {}
  <2>1. \A j \in 1..Hi(d) : d[j] # v
    BY <1>7, FrontSearchFacts
  <2>2. \A j \in 1..Len(d) : d[j] # v
    BY <1>1, <1>3, <1>7, <2>1
  <2> QED
    BY <1>1, <1>4, <1>7, <2>2 DEF ToSet
<1> QED
  BY <1>5, <1>6, <1>7

-----------------------------------------------------------------------------
(* The inductive invariant: no value twice, the front sorted, and the      *)
(* bytes of the values in the storage.                                     *)
Inv ==
  /\ TypeOK
  /\ Distinct(dir) /\ Ascends(dir, Hi(dir))
  /\ num_vals <= Capacity
  /\ storage_cur = SumOn([v \in Members |-> Len(v)], Members)
  /\ storage_cur < storage_sz

(* A directory without repetitions has as many values as places.           *)
LEMMA CountOf ==
  ASSUME NEW d \in Seq(Values), Distinct(d)
  PROVE  IsFiniteSet(ToSet(d)) /\ Cardinality(ToSet(d)) = Len(d)
<1> DEFINE S == 1..Len(d)
           T == ToSet(d)
<1>1. Len(d) \in Nat /\ DOMAIN d = S /\ d \in [S -> T]
  BY DEF ToSet
<1>2. IsFiniteSet(S) /\ Cardinality(S) = Len(d)
  BY <1>1, FS_Interval
<1>3. \A t \in T : \E x \in S : d[x] = t
  BY <1>1 DEF ToSet
<1>4. \A x, y \in S : d[x] = d[y] => x = y
  BY DEF Distinct
<1> HIDE DEF S, T
<1>5. IsFiniteSet(T) /\ Cardinality(T) = Cardinality(S)
  <2>1. PICK f \in [S -> T] : f = d
    BY <1>1
  <2>2. ASSUME NEW x \in S, NEW y \in S, f[x] = f[y] PROVE x = y
    BY <1>4, <2>1, <2>2
  <2>3. \A t \in T : \E x \in S : f[x] = t
    BY <1>3, <2>1
  <2> QED
    BY <1>2, <2>2, <2>3, SameCardinality
<1> QED
  BY <1>2, <1>5 DEF T

LEMMA InitInv == Init => Inv
<1> SUFFICES ASSUME Init PROVE Inv
  OBVIOUS
<1>1. dir = << >> /\ storage_cur = 0 /\ storage_sz \in Nat \ {0}
  BY SortAsortAssumption DEF Init
<1>2. Len(dir) = 0 /\ dir \in Seq(Values) /\ Members = {}
  BY <1>1 DEF Members, ToSet
<1>3. Hi(dir) = 0
  BY <1>2, HiFacts
<1>4. SumOn([v \in Members |-> Len(v)], Members) = 0
  BY <1>2, SumOfNone
<1> QED
  BY <1>1, <1>2, <1>3, <1>4, SortAsortAssumption
     DEF Inv, TypeOK, Distinct, Ascends, num_vals

(* An insert of a new value.                                               *)
LEMMA PlaceFacts ==
  ASSUME Inv, NEW v \in Values, Find(dir, v) = NotFound, Place(v)
  PROVE  /\ dir' \in Seq(Values) /\ Len(dir') = Len(dir) + 1
         /\ Distinct(dir') /\ Ascends(dir', Hi(dir'))
         /\ v \notin Members /\ Members' = Members \cup {v}
         /\ IsFiniteSet(Members) /\ Members \subseteq Values
<1> DEFINE d == Append(dir, v)
<1>1. /\ dir \in Seq(Values) /\ Len(dir) \in Nat /\ DOMAIN dir = 1..Len(dir)
      /\ Distinct(dir) /\ Ascends(dir, Hi(dir))
  BY DEF Inv, TypeOK
<1>2. v \notin Members
  <2>1. NotFound \notin DOMAIN dir
    BY <1>1 DEF NotFound
  <2> QED
    BY <1>1, <2>1, FindFacts DEF Members
<1>3. \A i \in 1..Len(dir) : dir[i] # v
  BY <1>1, <1>2 DEF Members, ToSet
<1>4. /\ d \in Seq(Values) /\ Len(d) = Len(dir) + 1 /\ DOMAIN d = 1..(Len(dir) + 1)
      /\ \A i \in 1..Len(dir) : d[i] = dir[i]
      /\ d[Len(dir) + 1] = v
  BY <1>1
<1>5. Distinct(d)
  <2> SUFFICES ASSUME NEW i \in 1..(Len(dir) + 1), NEW j \in 1..(Len(dir) + 1), d[i] = d[j]
               PROVE  i = j
    BY <1>4 DEF Distinct
  <2>1. CASE i \in 1..Len(dir) /\ j \in 1..Len(dir)
    BY <1>1, <1>4, <2>1 DEF Distinct
  <2>2. CASE i = Len(dir) + 1 /\ j \in 1..Len(dir)
    BY <1>3, <1>4, <2>2
  <2>3. CASE j = Len(dir) + 1 /\ i \in 1..Len(dir)
    BY <1>3, <1>4, <2>3
  <2>4. \/ i \in 1..Len(dir) \/ i = Len(dir) + 1
    BY <1>1
  <2>5. \/ j \in 1..Len(dir) \/ j = Len(dir) + 1
    BY <1>1
  <2> QED
    BY <2>1, <2>2, <2>3, <2>4, <2>5
<1>6. ToSet(d) = Members \cup {v}
  <2>1. ToSet(d) = {d[i] : i \in 1..(Len(dir) + 1)}
    BY <1>4 DEF ToSet
  <2>2. Members = {dir[i] : i \in 1..Len(dir)}
    BY <1>1 DEF Members, ToSet
  <2>3. 1..(Len(dir) + 1) = 1..Len(dir) \cup {Len(dir) + 1}
    BY <1>1
  <2> HIDE DEF d
  <2>4. \A x : x \in ToSet(d) => x \in Members \cup {v}
    BY <1>4, <2>1, <2>2, <2>3
  <2>5. \A x : x \in Members \cup {v} => x \in ToSet(d)
    BY <1>4, <2>1, <2>2, <2>3
  <2> QED
    BY <2>4, <2>5
<1>7. dir' = IF Len(d) % SLOP = 0 THEN Sorted(d) ELSE d
  BY DEF Place
<1> HIDE DEF d
<1>8. IsFiniteSet(Members) /\ Members \subseteq Values
  BY <1>1, CountOf DEF Members, ToSet
<1>9. CASE Len(d) % SLOP = 0
  <2>1. /\ dir' \in Seq(Values) /\ Len(dir') = Len(d)
        /\ Distinct(dir') /\ Ascends(dir', Len(d)) /\ ToSet(dir') = ToSet(d)
    BY <1>4, <1>5, <1>7, <1>9, SortedFacts
  <2>2. Hi(dir') = Len(d)
    BY <1>1, <1>4, <1>9, <2>1, HiFacts
  <2> QED
    BY <1>2, <1>4, <1>6, <1>8, <2>1, <2>2 DEF Members
<1>10. CASE Len(d) % SLOP # 0
  <2>1. dir' = d /\ Hi(d) = Hi(dir) /\ Hi(dir) \in 0..Len(dir)
    BY <1>1, <1>4, <1>7, <1>10, HiFacts
  <2>2. Ascends(d, Hi(d))
    BY <1>1, <1>4, <2>1 DEF Ascends
  <2> QED
    BY <1>2, <1>4, <1>5, <1>6, <1>8, <2>1, <2>2 DEF Members
<1> QED
  BY <1>9, <1>10

(* Its bytes are added to those in the storage.                            *)
LEMMA StorageAdds ==
  ASSUME NEW S, IsFiniteSet(S), S \subseteq Values, NEW v \in Values, v \notin S
  PROVE  /\ SumOn([x \in S \cup {v} |-> Len(x)], S \cup {v})
              = SumOn([x \in S |-> Len(x)], S) + Len(v)
         /\ SumOn([x \in S |-> Len(x)], S) \in Nat /\ Len(v) \in Nat
<1> DEFINE T == S \cup {v}
           f == [x \in T |-> Len(x)]
           e == [x \in S |-> Len(x)]
<1>1. IsFiniteSet(T) /\ S \in SUBSET T /\ v \in T /\ \A x \in T : Len(x) \in Nat
  BY FS_AddElement, ValueFacts
<1>2. /\ \A x \in T : f[x] \in Nat
      /\ \A x \in S : e[x] = f[x] /\ f[x] \in Nat
      /\ f[v] = Len(v)
  BY <1>1
<1> HIDE DEF T, f, e
<1>3. Counts(f, T) /\ Counts(f, S) /\ Counts(e, S) /\ Agree(e, f, S)
  BY <1>2 DEF Counts, Agree
<1>4. SumOn(f, S \cup {v}) = f[v] + SumOn(f, S)
  BY <1>1, <1>3, SumAdd
<1>5. SumOn(e, S) = SumOn(f, S)
  BY <1>3, SumSame
<1>6. SumOn(e, S) \in Nat
  BY <1>3, SumIsNat
<1> QED
  BY <1>1, <1>2, <1>4, <1>5, <1>6 DEF T, e, f

LEMMA NextInv == Inv /\ [Next]_vars => Inv'
<1> SUFFICES ASSUME Inv, [Next]_vars PROVE Inv'
  OBVIOUS
<1>1. CASE UNCHANGED vars
  BY <1>1 DEF vars, Inv, TypeOK, num_vals, Members
<1>2. ASSUME NEW v \in Values, InsertFits(v) \/ InsertGrows(v)
      PROVE  Inv'
  <2>1. /\ Find(dir, v) = NotFound /\ Place(v) /\ Len(dir) < Capacity
        /\ storage_cur' = storage_cur + Len(v)
    BY <1>2 DEF InsertFits, InsertGrows, Place, num_vals
  <2>2. /\ dir' \in Seq(Values) /\ Len(dir') = Len(dir) + 1
        /\ Distinct(dir') /\ Ascends(dir', Hi(dir'))
        /\ v \notin Members /\ Members' = Members \cup {v}
        /\ IsFiniteSet(Members) /\ Members \subseteq Values
    BY <2>1, PlaceFacts
  <2>3. /\ SumOn([x \in Members \cup {v} |-> Len(x)], Members \cup {v})
             = SumOn([x \in Members |-> Len(x)], Members) + Len(v)
        /\ Len(v) \in Nat
    BY <2>2, StorageAdds
  <2>4. /\ Len(dir) \in Nat /\ storage_cur \in Nat /\ storage_sz \in Nat
        /\ storage_cur < storage_sz /\ Capacity \in Nat
        /\ storage_cur = SumOn([x \in Members |-> Len(x)], Members)
    BY SortAsortAssumption DEF Inv, TypeOK
  <2>5. storage_cur' = SumOn([x \in Members |-> Len(x)], Members)'
    BY <2>1, <2>2, <2>3, <2>4
  <2>6. storage_sz' \in Nat /\ storage_cur' < storage_sz' /\ storage_cur' \in Nat
    <3>1. CASE InsertFits(v)
      BY <2>1, <2>3, <2>4, <3>1 DEF InsertFits
    <3>2. CASE InsertGrows(v)
      BY <2>1, <2>3, <2>4, <3>2 DEF InsertGrows
    <3> QED
      BY <1>2, <3>1, <3>2
  <2>7. Len(dir') <= Capacity
    BY <2>1, <2>2, <2>4
  <2> QED
    BY <2>2, <2>5, <2>6, <2>7 DEF Inv, TypeOK, num_vals
<1> QED
  BY <1>1, <1>2 DEF Next, InsertKnown

-----------------------------------------------------------------------------
(* The invariant holds, for any values, size and distance between sorts.   *)
THEOREM Invariant == Spec => []Inv
BY InitInv, NextInv, PTL DEF Spec

(* sortasort_find tells exactly the stored values, and where each one is:  *)
(* the binary search passes over no value of the sorted front, and the     *)
(* rest is searched one by one.                                            *)
THEOREM FindsExactly == Spec => []FindIsExact
<1>1. Inv => FindIsExact
  <2> SUFFICES ASSUME Inv, NEW v \in Values
               PROVE  IF v \in Members THEN Find(dir, v) \in DOMAIN dir /\ dir[Find(dir, v)] = v
                                       ELSE Find(dir, v) = NotFound
    BY DEF FindIsExact
  <2> QED
    BY FindFacts DEF Inv, TypeOK, Members
<1> QED
  BY <1>1, Invariant, PTL

(* The bytes of the stored values are in the storage area, once each, and  *)
(* never reach its end: sortasort_try_insert refuses or is given more.     *)
THEOREM StorageSuffices == Spec => []StorageHolds
<1>1. Inv => StorageHolds
  BY DEF Inv, StorageHolds, SumOn
<1> QED
  BY <1>1, Invariant, PTL

(* A sortasort behaves as the bounded set of its values, that knows how    *)
(* many it holds.                                                          *)
THEOREM ImplementsDictionary == Spec => IsDictionary
<1>1. Init => Abstract!Init
  BY DEF Init, Abstract!Init, Members, num_vals, ToSet
<1>2. Inv /\ [Next]_vars => [Abstract!Next]_(Abstract!vars)
  <2> SUFFICES ASSUME Inv, [Next]_vars PROVE [Abstract!Next]_(Abstract!vars)
    OBVIOUS
  <2>1. CASE UNCHANGED vars
    BY <2>1 DEF vars, Abstract!vars, Members, num_vals
  <2>2. ASSUME NEW v \in Values, InsertFits(v) \/ InsertGrows(v)
        PROVE  Abstract!Insert(v)
    <3>1. /\ Find(dir, v) = NotFound /\ Place(v) /\ Len(dir) < Capacity
      BY <2>2 DEF InsertFits, InsertGrows, num_vals
    <3>2. /\ dir' \in Seq(Values) /\ Len(dir') = Len(dir) + 1 /\ Distinct(dir')
          /\ Members' = Members \cup {v}
      BY <3>1, PlaceFacts
    <3>3. Cardinality(ToSet(dir')) = Len(dir')
      BY <3>2, CountOf
    <3>4. Cardinality(Members \cup {v}) = Len(dir) + 1
      BY <3>2, <3>3 DEF Members
    <3>5. Len(dir) + 1 <= Capacity
      BY <3>1, SortAsortAssumption DEF Inv, TypeOK
    <3>6. \A S : Abstract!Cardinality(S) = Cardinality(S)
      BY DEF Abstract!Cardinality, Cardinality
    <3> QED
      BY <3>2, <3>4, <3>5, <3>6 DEF Abstract!Insert, num_vals
  <2> QED
    BY <2>1, <2>2 DEF Next, InsertKnown, Abstract!Next
<1> QED
  BY <1>1, <1>2, Invariant, PTL DEF Spec, IsDictionary, Abstract!Spec
=============================================================================
