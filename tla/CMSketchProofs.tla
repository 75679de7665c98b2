----------------------------- MODULE CMSketchProofs -----------------------------
(***************************************************************************)
(* The cmsketch aggregate and the queries on it, for integers of any       *)
(* number of bits from three on, any segments, rows, hash and size of the  *)
(* sketch.  The recursion of __find_ranges is solved first: its dyads have *)
(* each integer of the range, once.  Then what each counter holds at any   *)
(* moment is found by the rows that were read, and a query by both.        *)
(***************************************************************************)
EXTENDS CMSketch, Recursion, SequenceTheorems

-----------------------------------------------------------------------------
(* Powers of two.                                                          *)
LEMMA PowerStep ==
  /\ TwoTo[0] = 1
  /\ \A k \in Nat : TwoTo[k] \in Nat /\ TwoTo[k + 1] = 2 * TwoTo[k]
<1>4. PICK f : f = [k \in Nat |-> IF k = 0 THEN 1 ELSE 2 * f[k - 1]]
  BY PowersExist
<1>5. TwoTo = [k \in Nat |-> IF k = 0 THEN 1 ELSE 2 * TwoTo[k - 1]]
  <2> DEFINE F(g) == g = [k \in Nat |-> IF k = 0 THEN 1 ELSE 2 * g[k - 1]]
  <2>1. F(CHOOSE g : F(g))
    <3>1. F(f)
      BY <1>4
    <3> HIDE DEF F
    <3> QED
      BY <3>1
  <2> QED
    BY <2>1 DEF TwoTo
<1>6. TwoTo[0] = 1 /\ \A k \in Nat : TwoTo[k + 1] = 2 * TwoTo[k]
  <2>1. TwoTo[0] = 1
    BY <1>5
  <2>2. ASSUME NEW k \in Nat PROVE TwoTo[k + 1] = 2 * TwoTo[k]
    <3>1. k + 1 \in Nat /\ k + 1 # 0 /\ (k + 1) - 1 = k
      OBVIOUS
    <3> QED
      BY <1>5, <3>1
  <2> QED
    BY <2>1, <2>2
<1>7. \A k \in Nat : TwoTo[k] \in Nat
  <2> DEFINE T == {k \in Nat : TwoTo[k] \notin Nat}
  <2> SUFFICES ASSUME T # {} PROVE FALSE
    OBVIOUS
  <2>1. PICK m \in T : \A k \in T : m <= k
    <3>1. T \in SUBSET Nat
      OBVIOUS
    <3> HIDE DEF T
    <3> QED
      BY <3>1, LeastNumber
  <2>2. m # 0
    BY <1>6
  <2>3. m - 1 \in Nat /\ m - 1 \notin T
    BY <2>1, <2>2
  <2>4. TwoTo[m - 1] \in Nat /\ TwoTo[m] = 2 * TwoTo[m - 1]
    BY <1>6, <2>3
  <2> QED
    BY <2>4
<1> QED
  BY <1>6, <1>7

\* No power of two is less than one.
LEMMA PowerFacts ==
  ASSUME NEW k \in Nat
  PROVE  TwoTo[k] \in Nat /\ TwoTo[k] >= 1
<1> DEFINE S == {n \in Nat : TwoTo[n] >= 1}
<1>1. 0 \in S /\ \A n \in Nat : n \in S => n + 1 \in S
  BY PowerStep
<1> HIDE DEF S
<1>2. Nat \subseteq S
  BY <1>1, NatInduct
<1> QED
  BY <1>2, PowerStep DEF S

(* The larger power is a multiple of the smaller one.                      *)
LEMMA PowerDivides ==
  ASSUME NEW k \in Nat, NEW m \in Nat, k <= m
  PROVE  \E q \in Nat : q >= 1 /\ TwoTo[m] = q * TwoTo[k]
<1> DEFINE S == {n \in Nat : \E q \in Nat : q >= 1 /\ TwoTo[k + n] = q * TwoTo[k]}
<1>1. 0 \in S
  <2>1. TwoTo[k + 0] = 1 * TwoTo[k]
    BY PowerFacts
  <2> QED
    BY <2>1
<1>2. ASSUME NEW n \in Nat, n \in S PROVE n + 1 \in S
  <2>1. PICK q \in Nat : q >= 1 /\ TwoTo[k + n] = q * TwoTo[k]
    BY <1>2
  <2>2. TwoTo[k + (n + 1)] = 2 * TwoTo[k + n]
    <3>1. k + n \in Nat /\ k + (n + 1) = (k + n) + 1
      OBVIOUS
    <3> QED
      BY <3>1, PowerStep
  <2> DEFINE P == TwoTo[k]
  <2>3. P \in Nat
    BY PowerFacts
  <2> HIDE DEF P
  <2>4. 2 * (q * P) = (2 * q) * P
    BY <2>3
  <2>5. TwoTo[k + (n + 1)] = (2 * q) * TwoTo[k] /\ 2 * q \in Nat /\ 2 * q >= 1
    BY <2>1, <2>2, <2>4 DEF P
  <2> QED
    BY <2>5
<1> HIDE DEF S
<1>3. Nat \subseteq S
  BY <1>1, <1>2, NatInduct
<1>4. m - k \in Nat /\ k + (m - k) = m
  OBVIOUS
<1> QED
  BY <1>3, <1>4 DEF S

\* A larger exponent, a larger power.
LEMMA PowerGrows ==
  ASSUME NEW k \in Nat, NEW m \in Nat, k <= m
  PROVE  TwoTo[k] <= TwoTo[m]
<1>1. PICK q \in Nat : q >= 1 /\ TwoTo[m] = q * TwoTo[k]
  BY PowerDivides
<1>2. TwoTo[k] \in Nat
  BY PowerFacts
<1> DEFINE P == TwoTo[k]
<1> HIDE DEF P
<1>3. P \in Nat => P <= q * P
  BY <1>1
<1> QED
  BY <1>1, <1>2, <1>3 DEF P

\* The least power of two that is none of the integers, and its half.
M == TwoTo[W - 1]
H == TwoTo[W - 2]

\* Both ends of the type, by the powers of two.
LEMMA EndFacts ==
  /\ M \in Nat /\ H \in Nat /\ H >= 2 /\ M = 2 * H
  /\ MaxInt = M - 1 /\ MinInt = 1 - M
<1>1. W \in Nat /\ W >= 3
  BY WAssumption
<1>2. W - 1 \in Nat /\ W - 2 \in Nat /\ W - 3 \in Nat
  BY <1>1
<1>3. TwoTo[(W - 2) + 1] = 2 * TwoTo[W - 2] /\ TwoTo[(W - 3) + 1] = 2 * TwoTo[W - 3]
  BY <1>2, PowerStep
<1>4. (W - 2) + 1 = W - 1 /\ (W - 3) + 1 = W - 2
  BY <1>1
<1>5. TwoTo[W - 3] \in Nat /\ TwoTo[W - 3] >= 1 /\ H \in Nat /\ M \in Nat
  BY <1>2, PowerFacts DEF H, M
<1>6. M = 2 * H /\ H = 2 * TwoTo[W - 3]
  BY <1>3, <1>4 DEF H, M
<1>7. MaxInt = M - 1 /\ MinInt = -(M - 1)
  BY DEF MaxInt, MinInt, M
<1>8. H >= 2 /\ -(M - 1) = 1 - M
  BY <1>5, <1>6
<1> QED
  BY <1>5, <1>6, <1>7, <1>8

\* d is the logarithm of x, rounded down.
IsLog(x, d) == d \in Nat /\ TwoTo[d] <= x /\ x < TwoTo[d + 1]

\* Each positive integer lies between two powers of two,
LEMMA LogExists ==
  ASSUME NEW n \in Nat, NEW x \in Nat, 1 <= x, x < TwoTo[n]
  PROVE  \E d \in 0..(n - 1) : IsLog(x, d)
<1> DEFINE S == {m \in Nat : x < TwoTo[m] => \E d \in 0..(m - 1) : IsLog(x, d)}
<1>1. 0 \in S
  BY PowerStep
<1>2. ASSUME NEW m \in Nat, m \in S PROVE m + 1 \in S
  <2> SUFFICES ASSUME x < TwoTo[m + 1] PROVE \E d \in 0..((m + 1) - 1) : IsLog(x, d)
    OBVIOUS
  <2>1. TwoTo[m] \in Nat
    BY PowerFacts
  <2>2. CASE x < TwoTo[m]
    <3>1. PICK d \in 0..(m - 1) : IsLog(x, d)
      BY <1>2, <2>2
    <3>2. d \in 0..((m + 1) - 1)
      OBVIOUS
    <3> QED
      BY <3>1, <3>2
  <2>3. CASE TwoTo[m] <= x
    <3>1. IsLog(x, m) /\ m \in 0..((m + 1) - 1)
      BY <2>3 DEF IsLog
    <3> QED
      BY <3>1
  <2> QED
    BY <2>1, <2>2, <2>3
<1> HIDE DEF S
<1>3. n \in S
  BY <1>1, <1>2, NatInduct
<1> QED
  BY <1>3 DEF S

\* and between no others.
LEMMA LogUnique ==
  ASSUME NEW x \in Nat, NEW d, NEW e, IsLog(x, d), IsLog(x, e)
  PROVE  d = e
<1>1. d \in Nat /\ e \in Nat /\ TwoTo[d] <= x /\ x < TwoTo[d + 1] /\ TwoTo[e] <= x /\ x < TwoTo[e + 1]
  BY DEF IsLog
<1>2. TwoTo[d] \in Nat /\ TwoTo[d + 1] \in Nat /\ TwoTo[e] \in Nat /\ TwoTo[e + 1] \in Nat
  BY <1>1, PowerFacts
<1>3. CASE d < e
  <2>1. TwoTo[d + 1] <= TwoTo[e]
    BY <1>1, <1>3, PowerGrows
  <2> QED
    BY <1>1, <1>2, <2>1
<1>4. CASE e < d
  <2>1. TwoTo[e + 1] <= TwoTo[d]
    BY <1>1, <1>4, PowerGrows
  <2> QED
    BY <1>1, <1>2, <2>1
<1> QED
  BY <1>1, <1>3, <1>4

\* intlog2 finds them.
LEMMA LogFacts ==
  ASSUME NEW x \in Nat, 1 <= x, x <= M + 1
  PROVE  /\ IsLog(x, Intlog2(x)) /\ Intlog2(x) \in 0..(W - 1)
         /\ Intlog2(x) <= W - 2 <=> x < M
         /\ \A d : IsLog(x, d) => Intlog2(x) = d
<1>1. W \in Nat /\ W >= 3 /\ (W - 1) + 1 = W /\ W - 1 \in Nat /\ W - 2 \in Nat /\ (W - 2) + 1 = W - 1
  BY WAssumption
<1>2. TwoTo[W] = 2 * M
  BY <1>1, PowerStep DEF M
<1>3. x < TwoTo[W]
  BY <1>2, EndFacts
<1>4. PICK d \in 0..(W - 1) : IsLog(x, d)
  BY <1>1, <1>3, LogExists
<1>5. d \in 0..2*W
  BY <1>1
<1>6. Intlog2(x) = d
  <2> DEFINE Q(i) == TwoTo[i] <= x /\ x < TwoTo[i + 1]
  <2>1. Q(d)
    BY <1>4 DEF IsLog
  <2>2. \A i \in 0..2*W : Q(i) => i = d
    <3> TAKE i \in 0..2*W
    <3>1. Q(i) => IsLog(x, i)
      BY <1>1 DEF IsLog
    <3> QED
      BY <1>4, <3>1, LogUnique
  <2> HIDE DEF Q
  <2>3. (CHOOSE i \in 0..2*W : Q(i)) = d
    BY <1>5, <2>1, <2>2
  <2> QED
    BY <2>3 DEF Intlog2, Q
<1>7. d <= W - 2 <=> x < M
  <2>1. TwoTo[d] <= x /\ x < TwoTo[d + 1] /\ TwoTo[d] \in Nat /\ TwoTo[d + 1] \in Nat
    BY <1>4, PowerFacts DEF IsLog
  <2>2. CASE d <= W - 2
    <3>1. d + 1 \in Nat /\ d + 1 <= W - 1
      BY <1>1, <2>2
    <3>2. TwoTo[d + 1] <= M
      BY <1>1, <3>1, PowerGrows DEF M
    <3> QED
      BY <2>1, <2>2, <3>2, EndFacts
  <2>3. CASE ~(d <= W - 2)
    <3>1. d = W - 1
      BY <1>1, <2>3
    <3> QED
      BY <2>1, <2>3, <3>1, EndFacts DEF M
  <2> QED
    BY <2>2, <2>3
<1> QED
  BY <1>4, <1>6, <1>7, LogUnique

-----------------------------------------------------------------------------
\* x is a multiple of 2 ** k.
Aligned(x, k) == \E q \in Int : x = q * TwoTo[k]

\* The test of __find_ranges for a multiple.
LEMMA AlignedMod ==
  ASSUME NEW x \in Int, NEW k \in Nat
  PROVE  Aligned(x, k) <=> x % TwoTo[k] = 0
<1> DEFINE P == TwoTo[k]
<1>1. P \in Nat /\ P >= 1
  BY PowerFacts
<1> HIDE DEF P
<1>2. x \div P \in Int /\ x % P \in Int /\ x = P * (x \div P) + (x % P) /\ 0 <= x % P /\ x % P < P
  BY <1>1, Division
<1>3. ASSUME x % P = 0 PROVE \E q \in Int : x = q * P
  <2>1. x = (x \div P) * P
    BY <1>1, <1>2, <1>3
  <2> QED
    BY <1>2, <2>1
<1>4. ASSUME NEW q \in Int, x = q * P PROVE x % P = 0
  <2>1. q * P <= x /\ x < q * P + P
    BY <1>1, <1>4
  <2>2. x \div P = q
    BY <1>1, <2>1, QuotientIs
  <2>3. P * q = q * P
    BY <1>1
  <2> QED
    BY <1>1, <1>2, <1>4, <2>2, <2>3
<1> QED
  BY <1>3, <1>4 DEF Aligned, P

\* A multiple of a power of two is one of the smaller powers.
LEMMA AlignedLess ==
  ASSUME NEW x \in Int, NEW k \in Nat, NEW j \in Nat, j <= k, Aligned(x, k)
  PROVE  Aligned(x, j)
<1>1. PICK q \in Int : x = q * TwoTo[k]
  BY DEF Aligned
<1>2. PICK r \in Nat : r >= 1 /\ TwoTo[k] = r * TwoTo[j]
  BY PowerDivides
<1> DEFINE P == TwoTo[j]
<1>3. P \in Nat
  BY PowerFacts
<1> HIDE DEF P
<1>4. q * (r * P) = (q * r) * P /\ q * r \in Int
  BY <1>3
<1>5. x = (q * r) * P
  BY <1>1, <1>2, <1>4 DEF P
<1> QED
  BY <1>4, <1>5 DEF Aligned, P

\* Sums and differences of multiples.
LEMMA AlignedSum ==
  ASSUME NEW x \in Int, NEW y \in Int, NEW k \in Nat, Aligned(x, k), Aligned(y, k)
  PROVE  Aligned(x + y, k) /\ Aligned(x - y, k) /\ Aligned(-x, k)
<1>1. PICK q \in Int : x = q * TwoTo[k]
  BY DEF Aligned
<1>2. PICK r \in Int : y = r * TwoTo[k]
  BY DEF Aligned
<1> DEFINE P == TwoTo[k]
<1>3. P \in Nat
  BY PowerFacts
<1> HIDE DEF P
<1>4. q * P + r * P = (q + r) * P /\ q * P - r * P = (q - r) * P /\ -(q * P) = (-q) * P
  BY <1>3
<1>5. x + y = (q + r) * P /\ x - y = (q - r) * P /\ -x = (-q) * P
  BY <1>1, <1>2, <1>4 DEF P
<1>6. q + r \in Int /\ q - r \in Int /\ -q \in Int
  OBVIOUS
<1> QED
  BY <1>5, <1>6 DEF Aligned, P

\* Zero and the larger powers are multiples.
LEMMA AlignedPowers ==
  ASSUME NEW k \in Nat
  PROVE  /\ Aligned(TwoTo[k], k) /\ Aligned(0, k)
         /\ k <= W - 1 => Aligned(M, k) /\ Aligned(-M, k)
         /\ k <= W - 2 => Aligned(H, k) /\ Aligned(-H, k)
<1>1. TwoTo[k] \in Nat /\ W - 1 \in Nat /\ W - 2 \in Nat /\ M \in Nat /\ H \in Nat
  BY PowerFacts, EndFacts, WAssumption
<1>2. \A n \in Nat : Aligned(TwoTo[n], n)
  <2> TAKE n \in Nat
  <2>1. TwoTo[n] \in Nat
    BY PowerFacts
  <2>2. TwoTo[n] = 1 * TwoTo[n]
    BY <2>1
  <2> QED
    BY <2>2 DEF Aligned
<1>3. Aligned(0, k)
  <2>1. 0 = 0 * TwoTo[k]
    BY <1>1
  <2> QED
    BY <2>1 DEF Aligned
<1>4. ASSUME k <= W - 1 PROVE Aligned(M, k) /\ Aligned(-M, k)
  <2>1. Aligned(M, k)
    BY <1>1, <1>2, <1>4, AlignedLess DEF M
  <2> QED
    BY <1>1, <2>1, AlignedSum
<1>5. ASSUME k <= W - 2 PROVE Aligned(H, k) /\ Aligned(-H, k)
  <2>1. Aligned(H, k)
    BY <1>1, <1>2, <1>5, AlignedLess DEF H
  <2> QED
    BY <1>1, <2>1, AlignedSum
<1> QED
  BY <1>2, <1>3, <1>4, <1>5

(* __min_int64 is odd.                                                     *)
LEMMA MinIntUnaligned ==
  ASSUME NEW k \in Nat, k <= W - 1, Aligned(MinInt, k) \/ Aligned(MaxInt, k)
  PROVE  k = 0
<1>1. Aligned(M, k) /\ M \in Int /\ MinInt \in Int /\ MinInt + M = 1 /\ MaxInt \in Int /\ M - MaxInt = 1
  BY AlignedPowers, EndFacts
<1>2. Aligned(1, k)
  BY <1>1, AlignedSum
<1>3. PICK q \in Int : 1 = q * TwoTo[k]
  BY <1>2 DEF Aligned
<1>4. SUFFICES ASSUME k # 0 PROVE FALSE
  OBVIOUS
<1>5. k - 1 \in Nat /\ (k - 1) + 1 = k
  BY <1>4
<1>6. TwoTo[k] = 2 * TwoTo[k - 1] /\ TwoTo[k - 1] \in Nat
  BY <1>5, PowerStep
<1> DEFINE P == TwoTo[k - 1]
<1> HIDE DEF P
<1>7. P \in Nat /\ 1 = q * (2 * P)
  BY <1>3, <1>6 DEF P
<1>8. q * (2 * P) = 2 * (q * P) /\ q * P \in Int
  BY <1>7
<1> QED
  BY <1>7, <1>8

-----------------------------------------------------------------------------
(* One call of __find_ranges_recursive, case by case.                      *)

\* The least integer a range stands for, the type's own if it begins at __min_int64.
Lo(b) == IF b = MinInt THEN -M ELSE b

\* Both ends of a range of integers of the same sign.
OneSign(b, t) ==
  /\ b \in MinInt..MaxInt /\ t \in MinInt..MaxInt /\ b < t
  /\ b >= 0 \/ t < 0

\* The width of a range, by the least integer it stands for.
LEMMA WidthIs ==
  ASSUME NEW b, NEW t, OneSign(b, t)
  PROVE  /\ b \in Int /\ t \in Int /\ Lo(b) \in Int
         /\ Width(b, t) \in Nat /\ 2 <= Width(b, t) /\ Width(b, t) <= M + 1
         /\ t = MaxInt => Width(b, t) = M - b + 1 /\ Lo(b) = b /\ b # MinInt
         /\ t # MaxInt => Width(b, t) = t + 1 - Lo(b) /\ t < MaxInt /\ Lo(b) <= b
<1>1. M \in Nat /\ M >= 4 /\ MaxInt = M - 1 /\ MinInt = 1 - M
  BY EndFacts
<1>2. b \in Int /\ t \in Int /\ 1 - M <= b /\ t <= M - 1 /\ b < t
  BY <1>1 DEF OneSign
<1>3. CASE t = MaxInt
  <2>1. b >= 0 /\ b # MinInt
    BY <1>1, <1>3 DEF OneSign
  <2>2. Width(b, t) = t - b + 1 + 1
    BY <1>3 DEF Width
  <2> QED
    BY <1>1, <1>2, <1>3, <2>1, <2>2 DEF Lo
<1>4. CASE t # MaxInt /\ b = MinInt
  <2>1. t < 0
    BY <1>1, <1>4 DEF OneSign
  <2>2. Width(b, t) = t - b + 1 + 1
    BY <1>4 DEF Width
  <2> QED
    BY <1>1, <1>2, <1>4, <2>1, <2>2 DEF Lo
<1>5. CASE t # MaxInt /\ b # MinInt
  <2>1. Width(b, t) = t - b + 1 + 0
    BY <1>5 DEF Width
  <2>2. Width(b, t) = t - b + 1
    BY <1>2, <2>1
  <2>3. t - b <= M - 1
    BY <1>1, <1>2 DEF OneSign
  <2> QED
    BY <1>1, <1>2, <1>5, <2>2, <2>3 DEF Lo
<1> QED
  BY <1>3, <1>4, <1>5

\* A range that has a dyad of 2 ** e, the largest that is less than its width,
\* and whose width is less than half of all integers.
Piece(b, t, d, e) ==
  /\ OneSign(b, t)
  /\ d \in Nat /\ d <= W - 2 /\ IsLog(Width(b, t), d)
  /\ e \in Nat /\ e = IF TwoTo[d] = Width(b, t) THEN d - 1 ELSE d

\* A range has a logarithm, and a largest dyad that may fit.
LEMMA PieceExists ==
  ASSUME NEW b, NEW t, OneSign(b, t), Width(b, t) < M
  PROVE  \E d, e : Piece(b, t, d, e)
<1> DEFINE x == Width(b, t)
<1>1. x \in Nat /\ 2 <= x /\ x <= M + 1 /\ x < M
  BY WidthIs
<1> HIDE DEF x
<1>2. W \in Nat /\ W >= 3 /\ M \in Nat
  BY WAssumption, EndFacts
<1>3. W - 1 \in Nat
  BY <1>2
<1>4. PICK d \in 0..((W - 1) - 1) : IsLog(x, d)
  <2>1. 1 <= x /\ x < TwoTo[W - 1]
    BY <1>1 DEF M
  <2> QED
    BY <1>1, <1>3, <2>1, LogExists
<1>5. d \in Nat /\ d <= W - 2
  BY <1>2, <1>4
<1>6. d # 0
  <2>1. TwoTo[0] = 1 /\ TwoTo[0 + 1] = 2 * TwoTo[0]
    BY PowerStep
  <2>2. TwoTo[0 + 1] = 2
    BY <2>1
  <2>3. d = 0 => x < 2
    BY <1>4, <2>2 DEF IsLog
  <2> QED
    BY <1>1, <2>3
<1>7. Piece(b, t, d, IF TwoTo[d] = x THEN d - 1 ELSE d)
  BY <1>4, <1>5, <1>6 DEF Piece, x
<1> QED
  BY <1>7

\* How the dyad compares with the range.
LEMMA PieceFacts ==
  ASSUME NEW b, NEW t, NEW d, NEW e, Piece(b, t, d, e)
  PROVE  /\ Intlog2(Width(b, t)) = d /\ Dyad(b, t) = TwoTo[e]
         /\ TwoTo[e] \in Nat /\ TwoTo[e] >= 1
         /\ TwoTo[e] < Width(b, t) /\ Width(b, t) <= 2 * TwoTo[e]
         /\ TwoTo[d] = Width(b, t) => e = d - 1 /\ Width(b, t) = 2 * TwoTo[e]
         /\ TwoTo[d] # Width(b, t) => e = d /\ Width(b, t) < 2 * TwoTo[e]
         /\ e <= d /\ e <= W - 2 /\ d <= e + 1
<1> DEFINE x == Width(b, t)
<1>1. x \in Nat /\ 2 <= x /\ x <= M + 1
  BY WidthIs DEF Piece
<1> HIDE DEF x
<1>2. d \in Nat /\ d <= W - 2 /\ IsLog(x, d) /\ e \in Nat /\ W \in Nat
      /\ e = IF TwoTo[d] = x THEN d - 1 ELSE d
  BY WAssumption DEF Piece, x
<1>3. Intlog2(x) = d
  <2>1. 1 <= x
    BY <1>1
  <2> QED
    BY <1>1, <1>2, <2>1, LogFacts
<1>4. TwoTo[d] \in Nat /\ TwoTo[d + 1] = 2 * TwoTo[d] /\ TwoTo[e] \in Nat /\ TwoTo[e] >= 1
      /\ TwoTo[e + 1] = 2 * TwoTo[e]
  BY <1>2, PowerStep, PowerFacts
<1>5. TwoTo[d] <= x /\ x < 2 * TwoTo[d]
  BY <1>2, <1>4 DEF IsLog
<1>6. CASE TwoTo[d] = x
  <2>1. e = d - 1 /\ e + 1 = d
    BY <1>2, <1>6
  <2>2. Dyad(b, t) = TwoTo[Intlog2(x) - 1]
    BY <1>3, <1>6 DEF Dyad, x
  <2>3. x = 2 * TwoTo[e] /\ TwoTo[e] < x
    BY <1>4, <1>6, <2>1
  <2> QED
    BY <1>2, <1>3, <1>4, <1>6, <2>1, <2>2, <2>3 DEF x
<1>7. CASE TwoTo[d] # x
  <2>1. e = d
    BY <1>2, <1>7
  <2>2. Dyad(b, t) = TwoTo[Intlog2(x)]
    BY <1>3, <1>7 DEF Dyad, x
  <2>3. TwoTo[e] < x /\ x < 2 * TwoTo[e]
    BY <1>1, <1>4, <1>5, <1>7, <2>1
  <2> QED
    BY <1>1, <1>2, <1>3, <1>4, <1>7, <2>1, <2>2, <2>3 DEF x
<1> QED
  BY <1>6, <1>7

\* The early returns of a call: an empty range or no power left,
LEMMA CutNone ==
  ASSUME NEW rec, NEW b, NEW t, NEW p, t < b \/ p < 0
  PROVE  Cut(rec, b, t, p) = << >>
BY Zenon DEF Cut

\* a single integer,
LEMMA CutOne ==
  ASSUME NEW rec, NEW b \in Int, NEW p \in Nat
  PROVE  Cut(rec, b, b, p) = << <<b, b>> >>
<1>1. ~(b < b \/ p < 0)
  OBVIOUS
<1> QED
  BY <1>1, Zenon DEF Cut

\* a range with both signs,
LEMMA CutZero ==
  ASSUME NEW rec, NEW b \in Int, NEW t \in Int, NEW p \in Nat, b < 0, t >= 0
  PROVE  Cut(rec, b, t, p) = rec[<<b, -1, p - 1>>] \o rec[<<0, t, p - 1>>]
<1>1. ~(t < b \/ p < 0) /\ t # b /\ (t >= 0 /\ b < 0)
  OBVIOUS
<1> QED
  BY <1>1, Zenon DEF Cut

\* and one that is wider than a quarter of the integers.
LEMMA CutHalves ==
  ASSUME NEW rec, NEW b, NEW t, NEW p \in Nat, OneSign(b, t), Width(b, t) >= M
  PROVE  /\ t < 0 => /\ b = MinInt /\ t = -1
                     /\ Cut(rec, b, t, p) = rec[<<b, -H - 1, W - 2>>] \o rec[<<-H, t, W - 2>>]
         /\ t >= 0 => /\ b \in {0, 1} /\ t = MaxInt
                      /\ Cut(rec, b, t, p) = rec[<<b, H - 1, W - 2>>] \o rec[<<H, t, W - 2>>]
<1> DEFINE x == Width(b, t)
<1>1. /\ b \in Int /\ t \in Int /\ x \in Nat /\ 2 <= x /\ x <= M + 1 /\ x >= M
      /\ t = MaxInt => x = M - b + 1
      /\ t # MaxInt => x = t + 1 - Lo(b) /\ t < MaxInt
  BY WidthIs
<1>2. M \in Nat /\ M >= 4 /\ MaxInt = M - 1 /\ MinInt = 1 - M /\ H \in Nat
  BY EndFacts
<1>3. b < t /\ (b >= 0 \/ t < 0)
  BY DEF OneSign
<1> HIDE DEF x
<1>4. Intlog2(x) > W - 2
  <2>1. 1 <= x /\ ~(x < M)
    BY <1>1, <1>2
  <2>2. ~(Intlog2(x) <= W - 2) /\ Intlog2(x) \in 0..(W - 1)
    BY <1>1, <2>1, LogFacts
  <2> QED
    BY <2>2, WAssumption
<1>5. ~(t < b \/ p < 0) /\ t # b /\ ~(t >= 0 /\ b < 0)
  BY <1>1, <1>3
<1>6. ASSUME t < 0 PROVE b = MinInt /\ t = -1
  <2>1. t # MaxInt
    BY <1>2, <1>6
  <2>2. b = MinInt
    <3>1. 1 - M <= b
      BY <1>2 DEF OneSign
    <3>2. b # MinInt => x = t + 1 - b
      BY <1>1, <2>1 DEF Lo
    <3> QED
      BY <1>1, <1>2, <1>6, <3>1, <3>2
  <2> QED
    BY <1>1, <1>2, <1>6, <2>1, <2>2 DEF Lo
<1>7. ASSUME t >= 0 PROVE b \in {0, 1} /\ t = MaxInt
  <2>1. b >= 0
    BY <1>1, <1>3, <1>7
  <2>2. b # MinInt
    BY <1>2, <2>1
  <2>3. t = MaxInt
    BY <1>1, <1>2, <2>1, <2>2 DEF Lo
  <2> QED
    BY <1>1, <1>2, <2>1, <2>3
<1> DEFINE h == TwoTo[W - 2] * (IF t < 0 THEN -1 ELSE 1)
<1>8. (t < 0 => h = -H) /\ (t >= 0 => h = H)
  <2>1. CASE t < 0
    <3>1. h = H * (-1)
      BY <2>1 DEF H
    <3> QED
      BY <1>1, <1>2, <2>1, <3>1
  <2>2. CASE t >= 0
    <3>1. ~(t < 0)
      BY <1>1, <2>2
    <3>2. h = H * 1
      BY <3>1 DEF H
    <3> QED
      BY <1>1, <1>2, <2>2, <3>1, <3>2
  <2> QED
    BY <1>1, <2>1, <2>2
<1>9. Cut(rec, b, t, p) = rec[<<b, h - 1, W - 2>>] \o rec[<<h, t, W - 2>>]
  BY <1>4, <1>5, Zenon DEF Cut, x
<1> HIDE DEF h
<1> QED
  BY <1>6, <1>7, <1>8, <1>9

\* What is left of the definition for a piece of width x, of which pd is the
\* power of two that is not above x and pow the one that is below it.
CutOf(rec, b, t, p, x, pd, pow) ==
  IF pd = x /\ b % pd = 0 THEN << <<b, t>> >>
  ELSE IF b = MinInt \/ b % pow = 0
    THEN IF t = MaxInt THEN << <<b, MaxInt>> >>
         ELSE << <<b, b + pow - 1 - (IF b = MinInt THEN 1 ELSE 0)>> >>
              \o rec[<<(b + pow - 1 - (IF b = MinInt THEN 1 ELSE 0)) + 1, t, p - 1>>]
  ELSE IF t = MaxInt \/ (t + 1) % pow = 0
    THEN << <<t - pow + 1 + (IF t = MaxInt THEN 1 ELSE 0), t>> >>
         \o rec[<<b, (t - pow + 1 + (IF t = MaxInt THEN 1 ELSE 0)) - 1, p - 1>>]
  ELSE rec[<<b, pow * (t \div pow) - 1, p - 1>>]
       \o rec[<<pow * (t \div pow), t, p - 1>>]

\* The other cases, by the dyad.
LEMMA CutPiece ==
  ASSUME NEW rec, NEW b, NEW t, NEW d, NEW e, NEW p \in Nat, Piece(b, t, d, e)
  PROVE  Cut(rec, b, t, p) = CutOf(rec, b, t, p, Width(b, t), TwoTo[d], TwoTo[e])
<1>1. Intlog2(Width(b, t)) = d /\ Dyad(b, t) = TwoTo[e]
  BY PieceFacts
<1>2. b \in Int /\ t \in Int /\ b < t /\ (b >= 0 \/ t < 0)
  BY WidthIs DEF Piece, OneSign
<1>3. ~(t < b \/ p < 0) /\ t # b /\ ~(t >= 0 /\ b < 0)
  BY <1>2
<1>4. ~(d > W - 2)
  BY WAssumption DEF Piece
<1>5. ~(Intlog2(Width(b, t)) > W - 2)
  BY <1>1, <1>4
<1>6. Cut(rec, b, t, p)
      = CutOf(rec, b, t, p, Width(b, t), TwoTo[Intlog2(Width(b, t))], Dyad(b, t))
  BY <1>3, <1>5, Zenon DEF Cut, CutOf
<1> QED
  BY <1>1, <1>6, Zenon

\* One is a multiple of no larger power.
LEMMA OneUnaligned ==
  ASSUME NEW k \in Nat, k <= W - 1, Aligned(1, k)
  PROVE  k = 0
<1>1. Aligned(M, k) /\ M \in Int /\ MaxInt = M - 1
  BY AlignedPowers, EndFacts
<1>2. Aligned(M - 1, k)
  BY <1>1, AlignedSum
<1>3. Aligned(MaxInt, k)
  BY <1>1, <1>2
<1> QED
  BY <1>3, MinIntUnaligned

\* A range that has a dyad of its own.
Whole(b, t, d) == TwoTo[d] = Width(b, t) /\ Aligned(b, d)

\* A range that is a dyad.
LEMMA CutWhole ==
  ASSUME NEW rec, NEW b, NEW t, NEW d, NEW e, NEW p \in Nat, Piece(b, t, d, e), Whole(b, t, d)
  PROVE  /\ Cut(rec, b, t, p) = << <<b, t>> >>
         /\ t # MaxInt /\ b # MinInt /\ d >= 1
<1>0. Cut(rec, b, t, p) = CutOf(rec, b, t, p, Width(b, t), TwoTo[d], TwoTo[e])
  BY CutPiece
<1>1. b \in Int /\ t \in Int /\ d \in Nat /\ d <= W - 2 /\ e \in Nat /\ W \in Nat
  BY WidthIs, WAssumption DEF Piece
<1>2. TwoTo[d] = Width(b, t) /\ b % TwoTo[d] = 0
  BY <1>1, AlignedMod DEF Whole
<1>3. e = d - 1
  BY <1>2, PieceFacts
<1>4. d >= 1 /\ d <= W - 1
  BY <1>1, <1>3
<1>5. b # MinInt
  <2>1. SUFFICES ASSUME b = MinInt PROVE FALSE
    OBVIOUS
  <2>2. Aligned(MinInt, d)
    BY <2>1 DEF Whole
  <2> QED
    BY <1>1, <1>4, <2>2, MinIntUnaligned
<1>6. t # MaxInt
  <2>1. SUFFICES ASSUME t = MaxInt PROVE FALSE
    OBVIOUS
  <2>2. TwoTo[d] = M - b + 1
    BY <1>2, <2>1, WidthIs DEF Piece
  <2>3. TwoTo[d] \in Int /\ M \in Int
    BY <1>1, EndFacts, PowerFacts
  <2>4. Aligned(TwoTo[d], d) /\ Aligned(M, d) /\ Aligned(b, d)
    BY <1>1, <1>4, AlignedPowers DEF Whole
  <2> DEFINE P == TwoTo[d]
  <2> HIDE DEF P
  <2>5. Aligned(P + b, d) /\ P + b \in Int
    <3>1. P \in Int /\ b \in Int /\ d \in Nat /\ Aligned(P, d) /\ Aligned(b, d)
      BY <1>1, <2>3, <2>4 DEF P
    <3>2. Aligned(P + b, d)
      BY <3>1, AlignedSum
    <3> QED
      BY <3>1, <3>2
  <2>6. Aligned((P + b) - M, d)
    BY <1>1, <2>3, <2>4, <2>5, AlignedSum
  <2>7. (P + b) - M = 1
    BY <1>1, <2>2, <2>3 DEF P
  <2>8. Aligned(1, d)
    BY <2>6, <2>7
  <2> QED
    BY <1>1, <1>4, <2>8, OneUnaligned
<1>7. Cut(rec, b, t, p) = << <<b, t>> >>
  BY <1>2, <1>0, Zenon DEF CutOf
<1> QED
  BY <1>4, <1>5, <1>6, <1>7

\* Where the dyad that is cut off ends or begins.
LowEnd(b, e) == Lo(b) + TwoTo[e] - 1
HighStart(t, e) == t + 1 - TwoTo[e]
Boundary(t, e) == TwoTo[e] * (t \div TwoTo[e])
TopStart(e) == M + 1 - TwoTo[e]

\* A dyad before the ranges of a call.
Before(x, y, ranges) == << <<x, y>> >> \o ranges

\* A piece that begins where a dyad does.
LEMMA CutLow ==
  ASSUME NEW rec, NEW b, NEW t, NEW d, NEW e, NEW p \in Nat, Piece(b, t, d, e),
         ~Whole(b, t, d), t # MaxInt, Aligned(Lo(b), e)
  PROVE  /\ LowEnd(b, e) \in Int /\ b <= LowEnd(b, e) /\ LowEnd(b, e) < t
         /\ Cut(rec, b, t, p)
              = Before(b, LowEnd(b, e), rec[<<LowEnd(b, e) + 1, t, p - 1>>])
<1>0. Cut(rec, b, t, p) = CutOf(rec, b, t, p, Width(b, t), TwoTo[d], TwoTo[e])
  BY CutPiece
<1>1. /\ b \in Int /\ t \in Int /\ Lo(b) \in Int /\ d \in Nat /\ e \in Nat /\ b < t
      /\ Width(b, t) = t + 1 - Lo(b)
  BY WidthIs DEF Piece, OneSign
<1> DEFINE pow == TwoTo[e]
<1>2. pow \in Nat /\ pow >= 1 /\ pow < Width(b, t) /\ Width(b, t) <= 2 * pow
  BY PieceFacts
<1>3. ~(TwoTo[d] = Width(b, t) /\ b % TwoTo[d] = 0)
  BY <1>1, AlignedMod DEF Whole
<1>4. b = MinInt \/ b % pow = 0
  BY <1>1, AlignedMod DEF Lo
<1> DEFINE n == b + pow - 1 - (IF b = MinInt THEN 1 ELSE 0)
<1>5. Cut(rec, b, t, p) = Before(b, n, rec[<<n + 1, t, p - 1>>])
  BY <1>3, <1>4, <1>0, Zenon DEF CutOf, Before
<1>6. n = Lo(b) + pow - 1 /\ b <= n
  <2> HIDE DEF pow
  <2>1. CASE b = MinInt
    <3>1. b = 1 - M /\ Lo(b) = -M /\ M \in Nat
      BY <2>1, EndFacts DEF Lo
    <3>2. pow >= 2
      BY <1>1, <1>2, <3>1
    <3>3. n = b + (pow - 1 - 1)
      BY <1>1, <1>2, <2>1
    <3> QED
      BY <1>1, <1>2, <3>1, <3>2, <3>3
  <2>2. CASE b # MinInt
    <3>1. n = b + (pow - 1 - 0) /\ Lo(b) = b
      BY <1>1, <1>2, <2>2 DEF Lo
    <3> QED
      BY <1>1, <1>2, <3>1
  <2> QED
    BY <2>1, <2>2
<1> HIDE DEF n, pow
<1>7. n \in Int /\ n < t
  BY <1>1, <1>2, <1>6
<1>8. n = LowEnd(b, e)
  BY <1>6 DEF pow, LowEnd
<1> QED
  BY <1>5, <1>6, <1>7, <1>8

\* One that ends where a dyad does.
LEMMA CutHigh ==
  ASSUME NEW rec, NEW b, NEW t, NEW d, NEW e, NEW p \in Nat, Piece(b, t, d, e),
         t # MaxInt, ~Aligned(Lo(b), e), Aligned(t + 1, e)
  PROVE  /\ b # MinInt
         /\ HighStart(t, e) \in Int /\ b < HighStart(t, e) /\ HighStart(t, e) <= t
         /\ Cut(rec, b, t, p)
              = Before(HighStart(t, e), t, rec[<<b, HighStart(t, e) - 1, p - 1>>])
<1>0. Cut(rec, b, t, p) = CutOf(rec, b, t, p, Width(b, t), TwoTo[d], TwoTo[e])
  BY CutPiece
<1>1. /\ b \in Int /\ t \in Int /\ Lo(b) \in Int /\ d \in Nat /\ e \in Nat /\ b < t
      /\ Width(b, t) = t + 1 - Lo(b)
  BY WidthIs DEF Piece, OneSign
<1> DEFINE pow == TwoTo[e]
<1>2. pow \in Nat /\ pow >= 1 /\ pow < Width(b, t) /\ e <= d /\ e <= W - 1
  BY <1>1, PieceFacts, WAssumption
<1>3. b # MinInt /\ Lo(b) = b
  BY <1>1, <1>2, AlignedPowers DEF Lo
<1>4. ~(b % pow = 0) /\ (t + 1) % pow = 0
  BY <1>1, <1>3, AlignedMod
<1>5. ~(TwoTo[d] = Width(b, t) /\ b % TwoTo[d] = 0)
  BY <1>1, <1>2, <1>3, AlignedMod, AlignedLess
<1> DEFINE n == t - pow + 1 + (IF t = MaxInt THEN 1 ELSE 0)
<1>6. Cut(rec, b, t, p) = Before(n, t, rec[<<b, n - 1, p - 1>>])
  BY <1>3, <1>4, <1>5, <1>0, Zenon DEF CutOf, Before
<1>7. n = t + 1 - pow
  <2> HIDE DEF pow
  <2>1. n = (t - pow) + (1 + 0)
    BY <1>1, <1>2
  <2> QED
    BY <1>1, <1>2, <2>1
<1> HIDE DEF n, pow
<1>8. n \in Int /\ b < n /\ n <= t
  BY <1>1, <1>2, <1>3, <1>7
<1>9. n = HighStart(t, e)
  BY <1>7 DEF pow, HighStart
<1> QED
  BY <1>3, <1>6, <1>8, <1>9

\* One that does neither is cut at a dyad's boundary.
LEMMA CutBoundary ==
  ASSUME NEW rec, NEW b, NEW t, NEW d, NEW e, NEW p \in Nat, Piece(b, t, d, e),
         t # MaxInt, ~Aligned(Lo(b), e), ~Aligned(t + 1, e)
  PROVE  /\ b # MinInt
         /\ Boundary(t, e) \in Int /\ Aligned(Boundary(t, e), e)
         /\ b < Boundary(t, e) /\ Boundary(t, e) <= t /\ t - Boundary(t, e) < TwoTo[e]
         /\ Cut(rec, b, t, p) = rec[<<b, Boundary(t, e) - 1, p - 1>>]
                                \o rec[<<Boundary(t, e), t, p - 1>>]
<1>0. Cut(rec, b, t, p) = CutOf(rec, b, t, p, Width(b, t), TwoTo[d], TwoTo[e])
  BY CutPiece
<1>1. /\ b \in Int /\ t \in Int /\ Lo(b) \in Int /\ d \in Nat /\ e \in Nat /\ b < t
      /\ Width(b, t) = t + 1 - Lo(b)
  BY WidthIs DEF Piece, OneSign
<1> DEFINE pow == TwoTo[e]
<1>2. pow \in Nat /\ pow >= 1 /\ pow < Width(b, t) /\ e <= d /\ e <= W - 1
  BY <1>1, PieceFacts, WAssumption
<1>3. b # MinInt /\ Lo(b) = b
  BY <1>1, <1>2, AlignedPowers DEF Lo
<1>4. ~(b % pow = 0) /\ ~((t + 1) % pow = 0)
  BY <1>1, <1>3, AlignedMod
<1>5. ~(TwoTo[d] = Width(b, t) /\ b % TwoTo[d] = 0)
  BY <1>1, <1>2, <1>3, AlignedMod, AlignedLess
<1> DEFINE g == pow * (t \div pow)
<1>6. Cut(rec, b, t, p) = rec[<<b, g - 1, p - 1>>] \o rec[<<g, t, p - 1>>]
  BY <1>3, <1>4, <1>5, <1>0, Zenon DEF CutOf
<1>7. g \in Int /\ Aligned(g, e) /\ g <= t /\ t - g < pow
  <2>1. t \div pow \in Int /\ t = g + (t % pow) /\ t % pow \in Int /\ 0 <= t % pow /\ t % pow < pow
    <3> HIDE DEF pow
    <3> QED
      BY <1>1, <1>2, Division
  <2>2. g = (t \div pow) * pow
    <3> HIDE DEF pow
    <3> QED
      BY <1>1, <1>2, <2>1
  <2>3. Aligned(g, e)
    BY <2>1, <2>2 DEF Aligned
  <2>4. g \in Int
    <3> HIDE DEF pow
    <3> QED
      BY <1>1, <1>2, <2>1
  <2> HIDE DEF g, pow
  <2> QED
    BY <1>1, <1>2, <2>1, <2>3, <2>4
<1>8. b < g
  <2> HIDE DEF g, pow
  <2> QED
    BY <1>1, <1>2, <1>3, <1>7
<1>9. g = Boundary(t, e)
  BY DEF Boundary
<1> HIDE DEF g
<1> QED
  BY <1>3, <1>6, <1>7, <1>8, <1>9

\* One that ends with the largest integer.
LEMMA CutTop ==
  ASSUME NEW rec, NEW b, NEW d, NEW e, NEW p \in Nat, Piece(b, MaxInt, d, e)
  PROVE  /\ Aligned(b, e) => /\ Cut(rec, b, MaxInt, p) = << <<b, MaxInt>> >>
                             /\ b + TwoTo[e] = M
         /\ ~Aligned(b, e) =>
              /\ TopStart(e) \in Int /\ b < TopStart(e) /\ TopStart(e) <= MaxInt
              /\ Cut(rec, b, MaxInt, p) =
                   Before(TopStart(e), MaxInt, rec[<<b, TopStart(e) - 1, p - 1>>])
         /\ b # MinInt /\ TwoTo[e] >= 2 /\ b >= 0
<1>0. Cut(rec, b, MaxInt, p) = CutOf(rec, b, MaxInt, p, Width(b, MaxInt), TwoTo[d], TwoTo[e])
  BY CutPiece
<1>1. /\ b \in Int /\ d \in Nat /\ e \in Nat /\ b < MaxInt /\ b # MinInt
      /\ Width(b, MaxInt) = M - b + 1 /\ e <= W - 1
  BY WidthIs, PieceFacts, WAssumption DEF Piece, OneSign
<1>2. M \in Nat /\ MaxInt = M - 1 /\ MinInt = 1 - M /\ M >= 4
  BY EndFacts
<1>3. b >= 0
  BY <1>1, <1>2 DEF Piece, OneSign
<1> DEFINE pow == TwoTo[e]
<1>4. pow \in Nat /\ pow >= 1 /\ pow < Width(b, MaxInt) /\ Width(b, MaxInt) <= 2 * pow
      /\ e <= d /\ d \in Nat
  BY <1>1, PieceFacts
<1>5. ~(TwoTo[d] = Width(b, MaxInt) /\ b % TwoTo[d] = 0)
  <2>1. ~Whole(b, MaxInt, d)
    BY CutWhole
  <2> QED
    BY <1>1, <2>1, AlignedMod DEF Whole
<1>6. pow >= 2
  <2> HIDE DEF pow
  <2> QED
    BY <1>1, <1>2, <1>4
<1>7. ASSUME Aligned(b, e)
      PROVE  Cut(rec, b, MaxInt, p) = << <<b, MaxInt>> >> /\ b + pow = M
  <2>1. b % pow = 0
    BY <1>1, <1>7, AlignedMod
  <2>2. Cut(rec, b, MaxInt, p) = << <<b, MaxInt>> >>
    BY <1>5, <2>1, <1>0, Zenon DEF CutOf
  <2>3. Aligned(M - b, e)
    BY <1>1, <1>2, <1>7, AlignedPowers, AlignedSum
  <2>4. PICK q \in Int : M - b = q * pow
    BY <2>3 DEF Aligned
  <2> HIDE DEF pow
  <2>5. q = 1
    <3>1. M - b >= pow /\ M - b < 2 * pow
      BY <1>1, <1>2, <1>4
    <3>2. q * pow \in Int
      BY <1>4
    <3>3. CASE q < 1
      <4>1. q * pow + pow <= 1 * pow
        BY <1>4, <3>3, TimesGrows
      <4>2. 1 * pow = pow
        BY <1>4
      <4> QED
        BY <1>4, <2>4, <3>1, <3>2, <4>1, <4>2
    <3>4. CASE 1 < q
      <4>1. 1 * pow + pow <= q * pow
        BY <1>4, <3>4, TimesGrows
      <4>2. 1 * pow = pow
        BY <1>4
      <4> QED
        BY <1>4, <2>4, <3>1, <3>2, <4>1, <4>2
    <3> QED
      BY <3>3, <3>4
  <2>6. M - b = pow
    BY <1>4, <2>4, <2>5
  <2> QED
    BY <1>1, <1>2, <1>4, <2>2, <2>6
<1>8. ASSUME ~Aligned(b, e)
      PROVE  /\ TopStart(e) \in Int /\ b < TopStart(e) /\ TopStart(e) <= MaxInt
             /\ Cut(rec, b, MaxInt, p) =
                  Before(TopStart(e), MaxInt, rec[<<b, TopStart(e) - 1, p - 1>>])
  <2>1. ~(b % pow = 0)
    BY <1>1, <1>8, AlignedMod
  <2> DEFINE n == MaxInt - pow + 1 + (IF MaxInt = MaxInt THEN 1 ELSE 0)
  <2>2. Cut(rec, b, MaxInt, p) = Before(n, MaxInt, rec[<<b, n - 1, p - 1>>])
    BY <1>1, <1>5, <2>1, <1>0, Zenon DEF CutOf, Before
  <2>3. n = M + 1 - pow
    <3> HIDE DEF pow
    <3>1. n = (MaxInt - pow) + (1 + 1)
      BY <1>2, <1>4
    <3> QED
      BY <1>2, <1>4, <3>1
  <2> HIDE DEF n, pow
  <2>4. n \in Int /\ b < n /\ n <= MaxInt
    BY <1>1, <1>2, <1>4, <1>6, <2>3
  <2>5. n = TopStart(e)
    BY <2>3 DEF pow, TopStart
  <2> QED
    BY <2>2, <2>4, <2>5
<1> QED
  BY <1>1, <1>3, <1>6, <1>7, <1>8

-----------------------------------------------------------------------------
(* The recursion ends: each call is for a narrower range.                  *)

Lists == Seq(Int \X Int)
Narrower(b, t) == {c \in Calls : c[2] - c[1] < t - b}
SameCalls(f, g, b, t) == \A c \in Narrower(b, t) : f[c] = g[c]

\* A call for a range that is narrower.
LEMMA IsNarrower ==
  ASSUME NEW b \in MinInt..MaxInt, NEW t \in MinInt..MaxInt, NEW p \in Int,
         NEW b1 \in MinInt..MaxInt, NEW t1 \in MinInt..MaxInt, t1 - b1 < t - b
  PROVE  <<b1, t1, p>> \in Narrower(b, t)
BY DEF Narrower, Calls

\* Two lists joined in the same way,
LEMMA SameTwo ==
  ASSUME NEW b, NEW t, NEW f \in [Calls -> Lists], NEW g, SameCalls(f, g, b, t),
         NEW c1 \in Narrower(b, t), NEW c2 \in Narrower(b, t)
  PROVE  f[c1] \o f[c2] = g[c1] \o g[c2] /\ f[c1] \o f[c2] \in Lists
<1>1. f[c1] = g[c1] /\ f[c2] = g[c2] /\ f[c1] \in Lists /\ f[c2] \in Lists
  BY DEF SameCalls, Narrower
<1> QED
  BY <1>1, ConcatProperties DEF Lists

\* or one after another range.
LEMMA SameOne ==
  ASSUME NEW b, NEW t, NEW f \in [Calls -> Lists], NEW g, SameCalls(f, g, b, t),
         NEW x \in Int, NEW y \in Int, NEW c \in Narrower(b, t)
  PROVE  Before(x, y, f[c]) = Before(x, y, g[c]) /\ Before(x, y, f[c]) \in Lists
<1>1. f[c] = g[c] /\ f[c] \in Lists
  BY DEF SameCalls, Narrower
<1>2. << <<x, y>> >> \in Lists
  BY DEF Lists
<1> QED
  BY <1>1, <1>2, ConcatProperties DEF Lists, Before

\* The result of a call depends on those for narrower ranges.
LEMMA CutLocal ==
  ASSUME NEW b \in MinInt..MaxInt, NEW t \in MinInt..MaxInt, NEW p \in Int,
         NEW f \in [Calls -> Lists], NEW g, SameCalls(f, g, b, t)
  PROVE  Cut(f, b, t, p) = Cut(g, b, t, p) /\ Cut(f, b, t, p) \in Lists
<1>1. M \in Nat /\ H \in Nat /\ M = 2 * H /\ H >= 2 /\ MaxInt = M - 1 /\ MinInt = 1 - M
  BY EndFacts
<1>2. b \in Int /\ t \in Int /\ MinInt \in Int /\ MaxInt \in Int /\ W - 2 \in Int /\ p - 1 \in Int
  BY <1>1, WAssumption
<1>3. CASE t < b \/ p < 0
  <2>1. Cut(f, b, t, p) = << >> /\ Cut(g, b, t, p) = << >>
    BY <1>3, CutNone
  <2>2. << >> \in Lists
    BY DEF Lists
  <2> QED
    BY <2>1, <2>2
<1>4. CASE t = b /\ ~(p < 0)
  <2>1. p \in Nat
    BY <1>4
  <2>2. Cut(f, b, b, p) = << <<b, b>> >> /\ Cut(g, b, b, p) = << <<b, b>> >>
    BY <1>2, <2>1, CutOne
  <2>3. << <<b, b>> >> \in Lists
    BY <1>2 DEF Lists
  <2> QED
    BY <1>4, <2>2, <2>3
<1>5. CASE b < 0 /\ t >= 0 /\ ~(p < 0)
  <2>1. p \in Nat
    BY <1>5
  <2> DEFINE c1 == <<b, -1, p - 1>>  c2 == <<0, t, p - 1>>
  <2>2. Cut(f, b, t, p) = f[c1] \o f[c2] /\ Cut(g, b, t, p) = g[c1] \o g[c2]
    BY <1>2, <1>5, <2>1, CutZero
  <2>3. c1 \in Narrower(b, t)
    <3>1. -1 \in MinInt..MaxInt /\ -1 - b < t - b
      BY <1>1, <1>2, <1>5
    <3> QED
      BY <1>2, <3>1, IsNarrower
  <2>4. c2 \in Narrower(b, t)
    <3>1. 0 \in MinInt..MaxInt /\ t - 0 < t - b
      BY <1>1, <1>2, <1>5
    <3> QED
      BY <1>2, <3>1, IsNarrower
  <2> HIDE DEF c1, c2
  <2>9. f[c1] \o f[c2] = g[c1] \o g[c2] /\ f[c1] \o f[c2] \in Lists
    BY <2>2, <2>3, <2>4, SameTwo
  <2> QED
    BY <2>2, <2>3, <2>4, <2>9, Zenon
<1>6. ASSUME OneSign(b, t), p \in Nat, Width(b, t) >= M
      PROVE  Cut(f, b, t, p) = Cut(g, b, t, p) /\ Cut(f, b, t, p) \in Lists
  <2>1. CASE t < 0
    <3>1. b = MinInt /\ t = -1
      BY <1>6, <2>1, CutHalves
    <3> DEFINE c1 == <<b, -H - 1, W - 2>>  c2 == <<-H, t, W - 2>>
    <3>2. Cut(f, b, t, p) = f[c1] \o f[c2] /\ Cut(g, b, t, p) = g[c1] \o g[c2]
      BY <1>6, <2>1, CutHalves
    <3>3. c1 \in Narrower(b, t)
      <4>1. -H - 1 \in MinInt..MaxInt /\ (-H - 1) - b < t - b
        BY <1>1, <1>2, <3>1
      <4> QED
        BY <1>2, <4>1, IsNarrower
    <3>4. c2 \in Narrower(b, t)
      <4>1. -H \in MinInt..MaxInt /\ t - (-H) < t - b
        BY <1>1, <1>2, <3>1
      <4> QED
        BY <1>2, <4>1, IsNarrower
    <3> HIDE DEF c1, c2
    <3>9. f[c1] \o f[c2] = g[c1] \o g[c2] /\ f[c1] \o f[c2] \in Lists
      BY <3>2, <3>3, <3>4, SameTwo
    <3> QED
      BY <3>2, <3>3, <3>4, <3>9, Zenon
  <2>2. CASE t >= 0
    <3> DEFINE c1 == <<b, H - 1, W - 2>>  c2 == <<H, t, W - 2>>
    <3>1. b \in {0, 1} /\ t = MaxInt /\ Cut(f, b, t, p) = f[c1] \o f[c2]
      BY <1>6, <2>2, CutHalves
    <3>2. Cut(f, b, t, p) = f[c1] \o f[c2] /\ Cut(g, b, t, p) = g[c1] \o g[c2]
      BY <1>6, <2>2, CutHalves
    <3>3. c1 \in Narrower(b, t)
      <4>1. H - 1 \in MinInt..MaxInt /\ (H - 1) - b < t - b
        BY <1>1, <1>2, <3>1
      <4> QED
        BY <1>2, <4>1, IsNarrower
    <3>4. c2 \in Narrower(b, t)
      <4>1. H \in MinInt..MaxInt /\ t - H < t - b
        BY <1>1, <1>2, <3>1
      <4> QED
        BY <1>2, <4>1, IsNarrower
    <3> HIDE DEF c1, c2
    <3>9. f[c1] \o f[c2] = g[c1] \o g[c2] /\ f[c1] \o f[c2] \in Lists
      BY <3>2, <3>3, <3>4, SameTwo
    <3> QED
      BY <3>2, <3>3, <3>4, <3>9, Zenon
  <2> QED
    BY <1>2, <2>1, <2>2
<1>7. ASSUME OneSign(b, t), p \in Nat, NEW d, NEW e, Piece(b, t, d, e)
      PROVE  Cut(f, b, t, p) = Cut(g, b, t, p) /\ Cut(f, b, t, p) \in Lists
  <2>0. b < t
    BY <1>7 DEF OneSign
  <2>1. CASE Whole(b, t, d)
    <3>1. Cut(f, b, t, p) = << <<b, t>> >> /\ Cut(g, b, t, p) = << <<b, t>> >>
      BY <1>7, <2>1, CutWhole
    <3>2. << <<b, t>> >> \in Lists
      BY <1>2 DEF Lists
    <3> QED
      BY <3>1, <3>2
  <2>2. CASE ~Whole(b, t, d) /\ t # MaxInt /\ Aligned(Lo(b), e)
    <3> DEFINE n == LowEnd(b, e)
    <3>1. /\ n \in Int /\ b <= n /\ n < t
          /\ Cut(f, b, t, p) = Before(b, n, f[<<n + 1, t, p - 1>>])
      BY <1>7, <2>2, CutLow
    <3>2. Cut(g, b, t, p) = Before(b, n, g[<<n + 1, t, p - 1>>])
      BY <1>7, <2>2, CutLow
    <3> HIDE DEF n
    <3> DEFINE c == <<n + 1, t, p - 1>>
    <3>3. c \in Narrower(b, t)
      <4>1. n + 1 \in MinInt..MaxInt /\ t - (n + 1) < t - b
        BY <1>1, <1>2, <3>1
      <4> QED
        BY <1>2, <4>1, IsNarrower
    <3>4. Cut(f, b, t, p) = Before(b, n, f[c]) /\ Cut(g, b, t, p) = Before(b, n, g[c])
      BY <3>1, <3>2
    <3> HIDE DEF c
    <3>5. Before(b, n, f[c]) = Before(b, n, g[c]) /\ Before(b, n, f[c]) \in Lists
      BY <1>2, <3>1, <3>3, SameOne
    <3> QED
      BY <3>4, <3>5, Zenon
  <2>3. CASE t # MaxInt /\ ~Aligned(Lo(b), e) /\ Aligned(t + 1, e)
    <3> DEFINE n == HighStart(t, e)
    <3>1. /\ n \in Int /\ b < n /\ n <= t
          /\ Cut(f, b, t, p) = Before(n, t, f[<<b, n - 1, p - 1>>])
      BY <1>7, <2>3, CutHigh
    <3>2. Cut(g, b, t, p) = Before(n, t, g[<<b, n - 1, p - 1>>])
      BY <1>7, <2>3, CutHigh
    <3> HIDE DEF n
    <3> DEFINE c == <<b, n - 1, p - 1>>
    <3>3. c \in Narrower(b, t)
      <4>1. n - 1 \in MinInt..MaxInt /\ (n - 1) - b < t - b
        BY <1>1, <1>2, <3>1
      <4> QED
        BY <1>2, <4>1, IsNarrower
    <3>4. Cut(f, b, t, p) = Before(n, t, f[c]) /\ Cut(g, b, t, p) = Before(n, t, g[c])
      BY <3>1, <3>2
    <3> HIDE DEF c
    <3>5. Before(n, t, f[c]) = Before(n, t, g[c]) /\ Before(n, t, f[c]) \in Lists
      BY <1>2, <3>1, <3>3, SameOne
    <3> QED
      BY <3>4, <3>5, Zenon
  <2>4. CASE t # MaxInt /\ ~Aligned(Lo(b), e) /\ ~Aligned(t + 1, e)
    <3> DEFINE n == Boundary(t, e)
    <3>1. /\ n \in Int /\ b < n /\ n <= t
          /\ Cut(f, b, t, p) = f[<<b, n - 1, p - 1>>] \o f[<<n, t, p - 1>>]
      BY <1>7, <2>4, CutBoundary
    <3>2. Cut(g, b, t, p) = g[<<b, n - 1, p - 1>>] \o g[<<n, t, p - 1>>]
      BY <1>7, <2>4, CutBoundary
    <3> HIDE DEF n
    <3> DEFINE c1 == <<b, n - 1, p - 1>>  c2 == <<n, t, p - 1>>
    <3>3. c1 \in Narrower(b, t)
      <4>1. n - 1 \in MinInt..MaxInt /\ (n - 1) - b < t - b
        BY <1>1, <1>2, <3>1
      <4> QED
        BY <1>2, <4>1, IsNarrower
    <3>4. c2 \in Narrower(b, t)
      <4>1. n \in MinInt..MaxInt /\ t - n < t - b
        BY <1>1, <1>2, <3>1
      <4> QED
        BY <1>2, <4>1, IsNarrower
    <3>5. Cut(f, b, t, p) = f[c1] \o f[c2] /\ Cut(g, b, t, p) = g[c1] \o g[c2]
      BY <3>1, <3>2
    <3> HIDE DEF c1, c2
    <3>9. f[c1] \o f[c2] = g[c1] \o g[c2] /\ f[c1] \o f[c2] \in Lists
      BY <3>3, <3>4, <3>5, SameTwo
    <3> QED
      BY <3>3, <3>4, <3>5, <3>9, Zenon
  <2>5. CASE t = MaxInt /\ Aligned(b, e)
    <3>1. Cut(f, b, t, p) = << <<b, t>> >> /\ Cut(g, b, t, p) = << <<b, t>> >>
      BY <1>7, <2>5, CutTop
    <3>2. << <<b, t>> >> \in Lists
      BY <1>2 DEF Lists
    <3> QED
      BY <3>1, <3>2
  <2>6. CASE t = MaxInt /\ ~Aligned(b, e)
    <3> DEFINE n == TopStart(e)
    <3>0. Piece(b, MaxInt, d, e)
      BY <1>7, <2>6
    <3>1. /\ n \in Int /\ b < n /\ n <= t
          /\ Cut(f, b, t, p) = Before(n, t, f[<<b, n - 1, p - 1>>])
      BY <1>7, <2>6, <3>0, CutTop
    <3>2. Cut(g, b, t, p) = Before(n, t, g[<<b, n - 1, p - 1>>])
      BY <1>7, <2>6, <3>0, CutTop
    <3> HIDE DEF n
    <3> DEFINE c == <<b, n - 1, p - 1>>
    <3>3. c \in Narrower(b, t)
      <4>1. n - 1 \in MinInt..MaxInt /\ (n - 1) - b < t - b
        BY <1>1, <1>2, <3>1
      <4> QED
        BY <1>2, <4>1, IsNarrower
    <3>4. Cut(f, b, t, p) = Before(n, t, f[c]) /\ Cut(g, b, t, p) = Before(n, t, g[c])
      BY <3>1, <3>2
    <3> HIDE DEF c
    <3>5. Before(n, t, f[c]) = Before(n, t, g[c]) /\ Before(n, t, f[c]) \in Lists
      BY <1>2, <3>1, <3>3, SameOne
    <3> QED
      BY <3>4, <3>5, Zenon
  <2> QED
    BY <2>1, <2>2, <2>3, <2>4, <2>5, <2>6
<1>8. ASSUME ~(t < b \/ p < 0), t # b, ~(b < 0 /\ t >= 0)
      PROVE  OneSign(b, t) /\ p \in Nat /\ (Width(b, t) >= M \/ \E d, e : Piece(b, t, d, e))
  <2>1. OneSign(b, t) /\ p \in Nat
    BY <1>2, <1>8 DEF OneSign
  <2>2. Width(b, t) \in Int
    BY <2>1, WidthIs
  <2> QED
    BY <1>1, <2>1, <2>2, PieceExists
<1> QED
  BY <1>3, <1>4, <1>5, <1>6, <1>7, <1>8

\* rec has the ranges of each call.
Solves(rec) == rec = [call \in Calls |-> Cut(rec, call[1], call[2], call[3])]

\* There is a function with the ranges of each call,
LEMMA SolutionExists == \E rec \in [Calls -> Lists] : Solves(rec)
<1> DEFINE V == [Calls -> Lists]
           base == [c \in Calls |-> << >>]
           step == [q \in Nat \X V |-> [c \in Calls |-> Cut(q[2], c[1], c[2], c[3])]]
<1>0. ASSUME NEW f \in V PROVE [c \in Calls |-> Cut(f, c[1], c[2], c[3])] \in V
  <2>1. ASSUME NEW c \in Calls PROVE Cut(f, c[1], c[2], c[3]) \in Lists
    <3> DEFINE b == c[1]  t == c[2]  p == c[3]
    <3>1. b \in MinInt..MaxInt /\ t \in MinInt..MaxInt /\ p \in Int
      BY DEF Calls
    <3>2. SameCalls(f, f, b, t)
      BY DEF SameCalls
    <3> HIDE DEF b, t, p
    <3>3. Cut(f, b, t, p) \in Lists
      BY <3>1, <3>2, CutLocal
    <3> QED
      BY <3>3 DEF b, t, p
  <2> QED
    BY <2>1
<1>1. base \in V /\ step \in [Nat \X V -> V]
  <2>1. << >> \in Lists
    BY DEF Lists
  <2>2. base \in V
    BY <2>1
  <2>3. \A q \in Nat \X V : [c \in Calls |-> Cut(q[2], c[1], c[2], c[3])] \in V
    BY <1>0
  <2> HIDE DEF V
  <2> QED
    BY <2>2, <2>3
<1>2. \A n \in Nat, f \in V : step[<<n, f>>] = [c \in Calls |-> Cut(f, c[1], c[2], c[3])]
  <2> HIDE DEF V
  <2> QED
    OBVIOUS
<1>3. base = [c \in Calls |-> << >>]
  OBVIOUS
<1> HIDE DEF step, base
<1>4. PICK it : Iterates(it, V, base, step)
  <2> HIDE DEF V
  <2> QED
    BY <1>1, NatRecursion
<1>5. /\ it[0] = base
      /\ \A n \in Nat : /\ it[n] \in V
                        /\ it[n + 1] = [c \in Calls |-> Cut(it[n], c[1], c[2], c[3])]
  <2>1. it[0] = base
    BY <1>4 DEF Iterates
  <2>2. ASSUME NEW n \in Nat
        PROVE  it[n] \in V /\ it[n + 1] = [c \in Calls |-> Cut(it[n], c[1], c[2], c[3])]
    <3> HIDE DEF V
    <3>1. it[n] \in V
      BY <1>4 DEF Iterates
    <3>2. n + 1 \in Nat /\ n + 1 # 0 /\ (n + 1) - 1 = n
      OBVIOUS
    <3>3. it[n + 1] = step[<<n, it[n]>>]
      BY <1>4, <3>2 DEF Iterates
    <3> QED
      BY <1>2, <3>1, <3>3
  <2> QED
    BY <2>1, <2>2
<1>6. \A n \in Nat : \A c \in Calls : it[n + 1][c] = Cut(it[n], c[1], c[2], c[3])
  BY <1>5
<1> DEFINE S == {n \in Nat : \A c \in Calls : c[2] - c[1] < n => it[n][c] = it[n + 1][c]}
<1>7. 0 \in S
  <2>1. ASSUME NEW c \in Calls, c[2] - c[1] < 0 PROVE it[0][c] = it[0 + 1][c]
    <3>1. it[0 + 1][c] = Cut(it[0], c[1], c[2], c[3])
      BY <1>6
    <3>2. c[1] \in Int /\ c[2] \in Int
      BY EndFacts DEF Calls
    <3>3. c[2] < c[1]
      BY <2>1, <3>2
    <3>4. Cut(it[0], c[1], c[2], c[3]) = << >>
      BY <3>3, CutNone
    <3>5. it[0][c] = << >>
      BY <1>3, <1>5
    <3> QED
      BY <3>1, <3>4, <3>5
  <2> QED
    BY <2>1
<1>8. ASSUME NEW n \in Nat, n \in S PROVE n + 1 \in S
  <2>1. ASSUME NEW c \in Calls, c[2] - c[1] < n + 1
        PROVE  it[n + 1][c] = it[(n + 1) + 1][c]
    <3> DEFINE b == c[1]  t == c[2]  p == c[3]  f == it[n]  g == it[n + 1]
    <3>1. g[c] = Cut(f, b, t, p) /\ it[(n + 1) + 1][c] = Cut(g, b, t, p)
      BY <1>6
    <3>2. b \in MinInt..MaxInt /\ t \in MinInt..MaxInt /\ p \in Int /\ b \in Int /\ t \in Int
      BY EndFacts DEF Calls
    <3>3. f \in [Calls -> Lists]
      BY <1>5
    <3>4. SameCalls(f, g, b, t)
      <4>1. ASSUME NEW c1 \in Narrower(b, t) PROVE f[c1] = g[c1]
        <5>1. c1 \in Calls /\ c1[2] - c1[1] < t - b
          BY DEF Narrower
        <5>2. c1[1] \in Int /\ c1[2] \in Int
          BY <5>1, EndFacts DEF Calls
        <5>3. c1[2] - c1[1] < n
          <6> HIDE DEF b, t
          <6>1. t - b < n + 1
            BY <2>1 DEF b, t
          <6> QED
            BY <3>2, <5>1, <5>2, <6>1
        <5> QED
          BY <1>8, <5>1, <5>3
      <4> QED
        BY <4>1 DEF SameCalls
    <3> HIDE DEF b, t, p, f, g
    <3>5. Cut(f, b, t, p) = Cut(g, b, t, p)
      BY <3>2, <3>3, <3>4, CutLocal
    <3> QED
      BY <3>1, <3>5 DEF g
  <2> QED
    BY <2>1
<1>9. Nat \subseteq S
  <2> HIDE DEF S
  <2> QED
    BY <1>7, <1>8, NatInduct
<1> DEFINE K == 2 * M
<1>10. K \in Nat /\ \A c \in Calls : c[2] - c[1] < K
  BY EndFacts DEF Calls
<1>11. it[K] \in V /\ \A c \in Calls : it[K][c] = Cut(it[K], c[1], c[2], c[3])
  <2> HIDE DEF K
  <2>1. K \in S
    BY <1>9, <1>10
  <2> QED
    BY <1>5, <1>6, <1>10, <2>1
<1>12. Solves(it[K])
  <2> HIDE DEF K
  <2> DEFINE F == it[K]
  <2>1. F \in V /\ \A c \in Calls : F[c] = Cut(F, c[1], c[2], c[3])
    BY <1>11
  <2> HIDE DEF F
  <2>2. F = [c \in Calls |-> Cut(F, c[1], c[2], c[3])]
    BY <2>1
  <2> QED
    BY <2>2 DEF Solves, F
<1> QED
  BY <1>11, <1>12

\* there is no other,
LEMMA SolutionUnique ==
  ASSUME NEW f \in [Calls -> Lists], Solves(f), NEW g, Solves(g)
  PROVE  f = g
<1>1. /\ \A c \in Calls : f[c] = Cut(f, c[1], c[2], c[3])
      /\ \A c \in Calls : g[c] = Cut(g, c[1], c[2], c[3])
  <2>1. \A c \in Calls : f[c] = Cut(f, c[1], c[2], c[3])
    BY DEF Solves
  <2>2. \A c \in Calls : g[c] = Cut(g, c[1], c[2], c[3])
    BY DEF Solves
  <2> QED
    BY <2>1, <2>2
<1> DEFINE S == {n \in Nat : \A c \in Calls : c[2] - c[1] < n => f[c] = g[c]}
<1>2. 0 \in S
  <2>1. ASSUME NEW c \in Calls, c[2] - c[1] < 0 PROVE f[c] = g[c]
    <3>1. c[1] \in Int /\ c[2] \in Int
      BY EndFacts DEF Calls
    <3>2. c[2] < c[1]
      BY <2>1, <3>1
    <3>3. Cut(f, c[1], c[2], c[3]) = << >> /\ Cut(g, c[1], c[2], c[3]) = << >>
      BY <3>2, CutNone
    <3> QED
      BY <1>1, <3>3
  <2> QED
    BY <2>1
<1>3. ASSUME NEW n \in Nat, n \in S PROVE n + 1 \in S
  <2>1. ASSUME NEW c \in Calls, c[2] - c[1] < n + 1 PROVE f[c] = g[c]
    <3> DEFINE b == c[1]  t == c[2]  p == c[3]
    <3>1. f[c] = Cut(f, b, t, p) /\ g[c] = Cut(g, b, t, p)
      BY <1>1
    <3>2. b \in MinInt..MaxInt /\ t \in MinInt..MaxInt /\ p \in Int /\ b \in Int /\ t \in Int
      BY EndFacts DEF Calls
    <3>3. SameCalls(f, g, b, t)
      <4>1. ASSUME NEW c1 \in Narrower(b, t) PROVE f[c1] = g[c1]
        <5>1. c1 \in Calls /\ c1[2] - c1[1] < t - b
          BY DEF Narrower
        <5>2. c1[1] \in Int /\ c1[2] \in Int
          BY <5>1, EndFacts DEF Calls
        <5>3. c1[2] - c1[1] < n
          <6> HIDE DEF b, t
          <6>1. t - b < n + 1
            BY <2>1 DEF b, t
          <6> QED
            BY <3>2, <5>1, <5>2, <6>1
        <5> QED
          BY <1>3, <5>1, <5>3
      <4> QED
        BY <4>1 DEF SameCalls
    <3> HIDE DEF b, t, p
    <3>4. Cut(f, b, t, p) = Cut(g, b, t, p)
      BY <3>2, <3>3, CutLocal
    <3> QED
      BY <3>1, <3>4
  <2> QED
    BY <2>1
<1>4. Nat \subseteq S
  <2> HIDE DEF S
  <2> QED
    BY <1>2, <1>3, NatInduct
<1> DEFINE K == 2 * M
<1>5. K \in Nat /\ \A c \in Calls : c[2] - c[1] < K
  BY EndFacts DEF Calls
<1>6. \A c \in Calls : f[c] = g[c]
  BY <1>4, <1>5
<1>7. DOMAIN f = Calls /\ DOMAIN g = Calls
  BY DEF Solves
<1>8. f = [c \in Calls |-> f[c]] /\ g = [c \in Calls |-> g[c]]
  BY <1>7 DEF Solves
<1> QED
  BY <1>6, <1>8

\* and it is what the recursion computes.
LEMMA FindRangesFromIs ==
  /\ FindRangesFrom \in [Calls -> Lists]
  /\ \A b, t \in MinInt..MaxInt, p \in Int :
       FindRangesFrom[<<b, t, p>>] = Cut(FindRangesFrom, b, t, p)
<1>1. PICK f \in [Calls -> Lists] : Solves(f)
  BY SolutionExists
<1>2. Solves(FindRangesFrom)
  <2>1. Solves(CHOOSE g : Solves(g))
    BY <1>1
  <2>2. FindRangesFrom = CHOOSE g : Solves(g)
    BY DEF FindRangesFrom, Solves
  <2> QED
    BY <2>1, <2>2
<1>3. f = FindRangesFrom
  BY <1>1, <1>2, SolutionUnique
<1>4. ASSUME NEW b \in MinInt..MaxInt, NEW t \in MinInt..MaxInt, NEW p \in Int
      PROVE  FindRangesFrom[<<b, t, p>>] = Cut(FindRangesFrom, b, t, p)
  <2>1. <<b, t, p>> \in Calls
    BY DEF Calls
  <2>2. \A c \in Calls : f[c] = Cut(f, c[1], c[2], c[3])
    BY <1>1 DEF Solves
  <2>3. f[<<b, t, p>>] = Cut(f, b, t, p)
    BY <2>1, <2>2
  <2> QED
    BY <1>3, <2>3
<1> QED
  BY <1>1, <1>3, <1>4

-----------------------------------------------------------------------------
(* What the ranges of a list stand for.                                    *)

\* The integers that are counted where the range r is looked up.
Cell(r) == {x \in Int64 : x \div TwoTo[Level(r)] = Prefix(r)}
Named(r) == Level(r) \in Levels /\ Prefix(r) \in Int64

\* The integers from bot to top; the type's least one comes with __min_int64.
Span(b, t) == {x \in Int64 : Lo(b) <= x /\ x <= t}

\* Each member of S is in a cell; it is in one only, and nothing else is.
Covers(R, S) ==
  /\ \A k \in 1..Len(R) : Named(R[k])
  /\ \A x \in S : \E k \in 1..Len(R) : x \in Cell(R[k])
Apart(R) == \A j, k \in 1..Len(R) : j # k => Cell(R[j]) \cap Cell(R[k]) = {}
Within(R, S) == \A k \in 1..Len(R) : Cell(R[k]) \subseteq S
Tiles(R, S) == Covers(R, S) /\ Apart(R) /\ Within(R, S)

\* The ranges of both halves cover both,
LEMMA CoversJoin ==
  ASSUME NEW R1 \in Lists, NEW R2 \in Lists, NEW S1, NEW S2, Covers(R1, S1), Covers(R2, S2)
  PROVE  Covers(R1 \o R2, S1 \cup S2)
<1> DEFINE R == R1 \o R2  m == Len(R1)  n == Len(R2)
<1>1. m \in Nat /\ n \in Nat
  BY DEF Lists
<1>2. /\ Len(R) = m + n
      /\ \A k \in 1..(m + n) : R[k] = IF k <= m THEN R1[k] ELSE R2[k - m]
  BY ConcatProperties DEF Lists
<1> HIDE DEF R, m, n
<1>3. ASSUME NEW k \in 1..(m + n) PROVE Named(R[k])
  <2>1. CASE k <= m
    <3>1. k \in 1..m /\ R[k] = R1[k]
      BY <1>1, <1>2, <2>1
    <3> QED
      BY <3>1 DEF Covers, m
  <2>2. CASE ~(k <= m)
    <3>1. k - m \in 1..n /\ R[k] = R2[k - m]
      BY <1>1, <1>2, <2>2
    <3> QED
      BY <3>1 DEF Covers, n
  <2> QED
    BY <2>1, <2>2
<1>4. ASSUME NEW x \in S1 \cup S2 PROVE \E k \in 1..(m + n) : x \in Cell(R[k])
  <2>1. CASE x \in S1
    <3>1. PICK k \in 1..m : x \in Cell(R1[k])
      BY <2>1 DEF Covers, m
    <3>2. k \in 1..(m + n) /\ R[k] = R1[k]
      BY <1>1, <1>2
    <3> QED
      BY <3>1, <3>2
  <2>2. CASE x \in S2
    <3>1. PICK k \in 1..n : x \in Cell(R2[k])
      BY <2>2 DEF Covers, n
    <3>2. k + m \in 1..(m + n) /\ ~(k + m <= m) /\ (k + m) - m = k
      BY <1>1
    <3>3. R[k + m] = R2[k]
      BY <1>2, <3>2
    <3> QED
      BY <3>1, <3>2, <3>3
  <2> QED
    BY <2>1, <2>2
<1> QED
  BY <1>2, <1>3, <1>4 DEF Covers, R

\* and tile them if the halves are apart.
LEMMA TilesJoin ==
  ASSUME NEW R1 \in Lists, NEW R2 \in Lists, NEW S1, NEW S2, Tiles(R1, S1), Tiles(R2, S2),
         S1 \cap S2 = {}
  PROVE  Tiles(R1 \o R2, S1 \cup S2)
<1> DEFINE R == R1 \o R2  m == Len(R1)  n == Len(R2)
<1>1. m \in Nat /\ n \in Nat
  BY DEF Lists
<1>2. /\ Len(R) = m + n
      /\ \A k \in 1..(m + n) : R[k] = IF k <= m THEN R1[k] ELSE R2[k - m]
  BY ConcatProperties DEF Lists
<1>3. Covers(R, S1 \cup S2)
  BY CoversJoin DEF Tiles
<1> HIDE DEF R, m, n
<1>4. ASSUME NEW k \in 1..(m + n)
      PROVE  \/ k <= m /\ k \in 1..m /\ R[k] = R1[k] /\ Cell(R[k]) \subseteq S1
             \/ ~(k <= m) /\ k - m \in 1..n /\ R[k] = R2[k - m] /\ Cell(R[k]) \subseteq S2
  <2>1. CASE k <= m
    <3>1. k \in 1..m /\ R[k] = R1[k]
      BY <1>1, <1>2, <2>1
    <3> QED
      BY <2>1, <3>1 DEF Tiles, Within, m
  <2>2. CASE ~(k <= m)
    <3>1. k - m \in 1..n /\ R[k] = R2[k - m]
      BY <1>1, <1>2, <2>2
    <3> QED
      BY <2>2, <3>1 DEF Tiles, Within, n
  <2> QED
    BY <2>1, <2>2
<1>5. ASSUME NEW j \in 1..(m + n), NEW k \in 1..(m + n), j # k
      PROVE  Cell(R[j]) \cap Cell(R[k]) = {}
  <2>1. CASE j <= m /\ k <= m
    <3>1. j \in 1..m /\ k \in 1..m /\ R[j] = R1[j] /\ R[k] = R1[k]
      BY <1>4, <2>1
    <3> QED
      BY <1>5, <3>1 DEF Tiles, Apart, m
  <2>2. CASE ~(j <= m) /\ ~(k <= m)
    <3>1. j - m \in 1..n /\ k - m \in 1..n /\ R[j] = R2[j - m] /\ R[k] = R2[k - m]
      BY <1>4, <2>2
    <3>2. j - m # k - m
      BY <1>1, <1>5
    <3> QED
      BY <3>1, <3>2 DEF Tiles, Apart, n
  <2>3. CASE (j <= m) # (k <= m)
    <3>1. \/ Cell(R[j]) \subseteq S1 /\ Cell(R[k]) \subseteq S2
          \/ Cell(R[j]) \subseteq S2 /\ Cell(R[k]) \subseteq S1
      BY <1>4, <2>3
    <3> QED
      BY <3>1
  <2> QED
    BY <2>1, <2>2, <2>3
<1>6. Apart(R)
  BY <1>2, <1>5 DEF Apart
<1>7. Within(R, S1 \cup S2)
  BY <1>2, <1>4 DEF Within
<1> QED
  BY <1>3, <1>6, <1>7 DEF Tiles, R

\* A list of one range.
LEMMA SingleIs ==
  ASSUME NEW b \in Int, NEW t \in Int
  PROVE  /\ << <<b, t>> >> \in Lists
         /\ Named(<<b, t>>) /\ Cell(<<b, t>>) = Span(b, t) => Tiles(<< <<b, t>> >>, Span(b, t))
         /\ Named(<<b, t>>) /\ Span(b, t) \subseteq Cell(<<b, t>>) => Covers(<< <<b, t>> >>, Span(b, t))
<1> DEFINE r == <<b, t>>  R == <<r>>
<1>1. r \in Int \X Int
  OBVIOUS
<1> HIDE DEF r
<1>2. R \in Lists /\ Len(R) = 1 /\ R[1] = r
  BY <1>1 DEF Lists
<1> HIDE DEF R
<1>3. 1 \in 1..Len(R) /\ \A k \in 1..Len(R) : k = 1
  BY <1>2
<1>4. ASSUME Named(r), Span(b, t) \subseteq Cell(r) PROVE Covers(R, Span(b, t))
  BY <1>2, <1>3, <1>4 DEF Covers
<1>5. ASSUME Named(r), Span(b, t) = Cell(r) PROVE Tiles(R, Span(b, t))
  <2>1. Covers(R, Span(b, t))
    BY <1>4, <1>5
  <2>2. Apart(R)
    BY <1>3 DEF Apart
  <2>3. Within(R, Span(b, t))
    BY <1>2, <1>3, <1>5 DEF Within
  <2> QED
    BY <2>1, <2>2, <2>3 DEF Tiles
<1> QED
  BY <1>2, <1>4, <1>5 DEF R, r

\* A range is cut in two anywhere.
LEMMA SpanSplit ==
  ASSUME NEW b \in MinInt..MaxInt, NEW t \in MinInt..MaxInt, NEW n \in Int, b <= n, n < t
  PROVE  /\ Span(b, t) = Span(b, n) \cup Span(n + 1, t)
         /\ Span(b, n) \cap Span(n + 1, t) = {}
<1>1. b \in Int /\ t \in Int /\ MinInt \in Int /\ MinInt <= b /\ M \in Nat /\ MinInt = 1 - M
  BY EndFacts
<1>2. n + 1 # MinInt /\ Lo(n + 1) = n + 1 /\ Lo(b) \in Int /\ Lo(b) <= b
  BY <1>1 DEF Lo
<1>3. \A x \in Int64 : x \in Int
  BY EndFacts DEF Int64
<1>4. ASSUME NEW x \in Int64
      PROVE  /\ x \in Span(b, t) <=> Lo(b) <= x /\ x <= t
             /\ x \in Span(b, n) <=> Lo(b) <= x /\ x <= n
             /\ x \in Span(n + 1, t) <=> n + 1 <= x /\ x <= t
  BY <1>2 DEF Span
<1>5. \A x \in Int64 : /\ x \in Span(b, t) <=> x \in Span(b, n) \/ x \in Span(n + 1, t)
                       /\ ~(x \in Span(b, n) /\ x \in Span(n + 1, t))
  <2> TAKE x \in Int64
  <2> QED
    BY <1>1, <1>2, <1>3, <1>4
<1>6. Span(b, t) \subseteq Int64 /\ Span(b, n) \subseteq Int64 /\ Span(n + 1, t) \subseteq Int64
  BY DEF Span
<1> QED
  BY <1>5, <1>6

\* The integers of the type.
LEMMA Int64Is == Int64 = -M..(M - 1) /\ M \in Nat /\ \A x \in Int64 : x \in Int
<1>1. M \in Nat /\ MaxInt = M - 1 /\ MinInt = 1 - M
  BY EndFacts
<1>2. MinInt - 1 = -M
  BY <1>1
<1> QED
  BY <1>1, <1>2 DEF Int64

\* A value that is shifted right still has the type.
LEMMA QuotientInRange ==
  ASSUME NEW x \in Int64, NEW k \in Nat
  PROVE  x \div TwoTo[k] \in Int64
<1> DEFINE P == TwoTo[k]  q == x \div P
<1>1. P \in Nat /\ P >= 1
  BY PowerFacts
<1>2. x \in Int /\ M \in Nat /\ -M <= x /\ x < M
  BY Int64Is
<1>3. q \in Int
  <2> HIDE DEF P
  <2> QED
    BY <1>1, <1>2, Division
<1>4. q * P <= x /\ x < q * P + P
  <2> HIDE DEF P
  <2> QED
    BY <1>1, <1>2, <1>3, QuotientIs
<1> HIDE DEF P, q
<1> DEFINE a == q * P  c == M * P  u == (-M) * P
<1>5. a \in Int /\ c \in Int /\ u \in Int
  BY <1>1, <1>2, <1>3
<1>6. c >= M /\ u <= -M
  <2>1. M * P = M + M * (P - 1) /\ (-M) * P = -M - M * (P - 1)
    BY <1>1, <1>2
  <2>2. M * (P - 1) \in Nat
    BY <1>1, <1>2
  <2> DEFINE v == M * (P - 1)
  <2>3. v \in Nat /\ c = M + v /\ u = -M - v
    BY <2>1, <2>2
  <2> HIDE DEF v, c, u
  <2> QED
    BY <1>2, <2>3
<1>7. q < M
  <2>1. CASE q > M
    <3>1. c + P <= a
      BY <1>1, <1>2, <1>3, <2>1, TimesGrows
    <3> HIDE DEF a, c, u
    <3> QED
      BY <1>1, <1>2, <1>4, <1>5, <1>6, <3>1 DEF a
  <2>2. CASE q = M
    <3>1. c = a
      BY <2>2
    <3> HIDE DEF c, u
    <3> QED
      BY <1>1, <1>2, <1>4, <1>5, <1>6, <3>1
  <2> QED
    BY <1>2, <1>3, <2>1, <2>2
<1>8. -M <= q
  <2>1. CASE q < -M
    <3>1. a + P <= u
      BY <1>1, <1>2, <1>3, <2>1, TimesGrows
    <3>2. x < a + P
      BY <1>4
    <3> HIDE DEF a, c, u
    <3> QED
      BY <1>1, <1>2, <1>5, <1>6, <3>1, <3>2
  <2> QED
    BY <1>2, <1>3, <2>1
<1> QED
  BY <1>2, <1>3, <1>7, <1>8, Int64Is DEF P, q

\* The cell of a range that begins in the dyad of s.
LEMMA CellIs ==
  ASSUME NEW b \in Int64, NEW t, NEW l \in Levels, NEW s \in Int, Aligned(s, l),
         Level(<<b, t>>) = l, Prefix(<<b, t>>) = b \div TwoTo[l],
         s <= b, b < s + TwoTo[l]
  PROVE  /\ Named(<<b, t>>)
         /\ Cell(<<b, t>>) = {x \in Int64 : s <= x /\ x < s + TwoTo[l]}
<1>1. l \in Nat /\ b \in Int
  BY Int64Is, WAssumption DEF Levels
<1> DEFINE P == TwoTo[l]
<1>2. P \in Nat /\ P >= 1
  BY <1>1, PowerFacts
<1>3. PICK q \in Int : s = q * P
  BY DEF Aligned
<1>4. b \div P \in Int64
  BY <1>1, QuotientInRange
<1> HIDE DEF P
<1>5. \A x \in Int : x \div P = q <=> s <= x /\ x < s + P
  BY <1>2, <1>3, QuotientIs
<1>6. b \div P = q
  BY <1>1, <1>5 DEF P
<1>7. Named(<<b, t>>)
  BY <1>4 DEF Named, P
<1>8. Cell(<<b, t>>) = {x \in Int64 : x \div P = q}
  BY <1>6 DEF Cell, P
<1>9. \A x \in Int64 : x \div P = q <=> s <= x /\ x < s + P
  BY <1>5, Int64Is
<1> QED
  BY <1>7, <1>8, <1>9 DEF P

\* The level of a range that is none of the two halves of all integers.
LEMMA LevelIs ==
  ASSUME NEW b \in MinInt..MaxInt, NEW t \in MinInt..MaxInt, NEW l \in Nat, l <= W - 2,
         NEW w \in Nat,
         w = t - b + 1 + (IF b = MinInt THEN 1 ELSE 0) + (IF t = MaxInt THEN 1 ELSE 0),
         IsLog(w, l)
  PROVE  l \in Levels /\ Level(<<b, t>>) = l /\ Prefix(<<b, t>>) = b \div TwoTo[l]
<1>1. /\ M \in Nat /\ H \in Nat /\ M = 2 * H /\ H >= 2 /\ MaxInt = M - 1 /\ MinInt = 1 - M
      /\ W \in Nat /\ b \in Int /\ t \in Int
  BY EndFacts, WAssumption
<1>2. l \in Levels
  BY <1>1 DEF Levels
<1>3. w >= 1 /\ w < M
  <2>1. TwoTo[l] \in Nat /\ TwoTo[l] >= 1 /\ TwoTo[l] <= w /\ w < TwoTo[l + 1]
    BY PowerFacts DEF IsLog
  <2>2. l + 1 \in Nat /\ W - 1 \in Nat /\ l + 1 <= W - 1
    BY <1>1
  <2>3. TwoTo[l + 1] <= M
    BY <2>2, PowerGrows DEF M
  <2>4. TwoTo[l + 1] \in Nat
    BY <2>2, PowerFacts
  <2> QED
    BY <1>1, <2>1, <2>3, <2>4
<1>4. Intlog2(w) = l
  BY <1>1, <1>3, LogFacts
<1>5. ~(b = MinInt /\ t = -1)
  <2>1. SUFFICES ASSUME b = MinInt, t = -1 PROVE FALSE
    OBVIOUS
  <2>2. t # MaxInt
    BY <1>1, <2>1
  <2>3. w = t - b + 1 + 1 + 0
    BY <2>1, <2>2
  <2> QED
    BY <1>1, <1>3, <2>1, <2>3
<1>6. ~(b = 0 /\ t = MaxInt)
  <2>1. SUFFICES ASSUME b = 0, t = MaxInt PROVE FALSE
    OBVIOUS
  <2>2. b # MinInt
    BY <1>1, <2>1
  <2>3. w = t - b + 1 + 0 + 1
    BY <2>1, <2>2
  <2> QED
    BY <1>1, <1>3, <2>1, <2>3
<1> DEFINE r == <<b, t>>
<1>7. r[1] = b /\ r[2] = t /\ r # <<MinInt, -1>> /\ r # <<0, MaxInt>>
  BY <1>5, <1>6
<1> HIDE DEF r
<1>8. Level(r) = Intlog2(w)
  <2>1. Level(r) = Intlog2(r[2] - r[1] + 1 + (IF r[1] = MinInt THEN 1 ELSE 0)
                               + (IF r[2] = MaxInt THEN 1 ELSE 0))
    BY <1>7, Zenon DEF Level
  <2> QED
    BY <1>7, <2>1
<1>9. Prefix(r) = b \div TwoTo[Level(r)]
  BY <1>7, Zenon DEF Prefix
<1> QED
  BY <1>2, <1>4, <1>8, <1>9 DEF r

\* A range that is a dyad stands for its own integers.
LEMMA DyadTiles ==
  ASSUME NEW b \in MinInt..MaxInt, NEW n \in MinInt..MaxInt, n < MaxInt,
         NEW e \in Nat, e <= W - 2, Aligned(Lo(b), e), n + 1 = Lo(b) + TwoTo[e]
  PROVE  Tiles(<< <<b, n>> >>, Span(b, n))
<1>1. /\ M \in Nat /\ H \in Nat /\ M = 2 * H /\ H >= 2 /\ MaxInt = M - 1 /\ MinInt = 1 - M
      /\ b \in Int /\ n \in Int /\ 1 - M <= b /\ n # MaxInt /\ 1 - M <= n
  BY EndFacts
<1>2. Lo(b) \in Int /\ b \in Int64
  BY <1>1, Int64Is DEF Lo
<1> DEFINE P == TwoTo[e]
<1>3. P \in Nat /\ P >= 1 /\ TwoTo[e + 1] = 2 * P
  BY PowerFacts, PowerStep
<1> DEFINE w == n - b + 1 + (IF b = MinInt THEN 1 ELSE 0) + (IF n = MaxInt THEN 1 ELSE 0)
<1>4. w = P
  <2> HIDE DEF P
  <2>0. n + 1 = Lo(b) + P
    BY DEF P
  <2>1. CASE b = MinInt
    <3>1. w = n - b + 1 + 1 + 0 /\ Lo(b) = -M /\ b = 1 - M
      BY <1>1, <2>1 DEF Lo
    <3> HIDE DEF w
    <3> QED
      BY <1>1, <1>3, <2>0, <3>1
  <2>2. CASE b # MinInt
    <3>1. w = n - b + 1 + 0 + 0 /\ Lo(b) = b
      BY <1>1, <2>2 DEF Lo
    <3> HIDE DEF w
    <3> QED
      BY <1>1, <1>3, <2>0, <3>1
  <2> QED
    BY <2>1, <2>2
<1>5. w \in Nat /\ IsLog(w, e)
  <2> HIDE DEF w
  <2> QED
    BY <1>3, <1>4 DEF IsLog
<1>6. e \in Levels /\ Level(<<b, n>>) = e /\ Prefix(<<b, n>>) = b \div TwoTo[e]
  BY <1>5, LevelIs
<1>7. Lo(b) <= b /\ b < Lo(b) + P
  <2> HIDE DEF P
  <2>0. n + 1 = Lo(b) + P
    BY DEF P
  <2>1. CASE b = MinInt
    <3>1. Lo(b) = -M /\ b = 1 - M
      BY <1>1, <2>1 DEF Lo
    <3> QED
      BY <1>1, <1>3, <2>0, <3>1
  <2>2. CASE b # MinInt
    <3>1. Lo(b) = b
      BY <1>1, <2>2 DEF Lo
    <3> QED
      BY <1>1, <1>3, <3>1
  <2> QED
    BY <2>1, <2>2
<1> HIDE DEF w
<1>8. /\ Named(<<b, n>>)
      /\ Cell(<<b, n>>) = {x \in Int64 : Lo(b) <= x /\ x < Lo(b) + TwoTo[e]}
  BY <1>2, <1>6, <1>7, CellIs
<1>9. Cell(<<b, n>>) = Span(b, n)
  <2>1. \A x \in Int64 : x < Lo(b) + TwoTo[e] <=> x <= n
    <3> TAKE x \in Int64
    <3>1. x \in Int
      BY Int64Is
    <3> QED
      BY <1>1, <3>1
  <2> QED
    BY <1>8, <2>1 DEF Span
<1> QED
  BY <1>1, <1>8, <1>9, SingleIs

\* The dyads at the top.
LEMMA TopTiles ==
  ASSUME NEW b \in MinInt..MaxInt, NEW e \in Nat, e >= 1, e <= W - 2, b + TwoTo[e] = M
  PROVE  Tiles(<< <<b, MaxInt>> >>, Span(b, MaxInt))
<1>1. /\ M \in Nat /\ H \in Nat /\ M = 2 * H /\ H >= 2 /\ MaxInt = M - 1 /\ MinInt = 1 - M
      /\ b \in Int /\ MaxInt \in MinInt..MaxInt /\ W \in Nat /\ W >= 3
  BY EndFacts, WAssumption
<1> DEFINE P == TwoTo[e]
<1>2. P \in Nat /\ P >= 2 /\ P <= H /\ TwoTo[e + 1] = 2 * P
  <2>1. e - 1 \in Nat /\ (e - 1) + 1 = e /\ W - 2 \in Nat
    BY <1>1
  <2>2. TwoTo[e] = 2 * TwoTo[e - 1] /\ TwoTo[e - 1] \in Nat /\ TwoTo[e - 1] >= 1
    BY <2>1, PowerStep, PowerFacts
  <2>3. TwoTo[e] <= H
    BY <2>1, PowerGrows DEF H
  <2> QED
    BY <2>2, <2>3, PowerStep
<1>3. Aligned(b, e)
  <2>1. Aligned(M, e) /\ Aligned(P, e)
    BY <1>1, AlignedPowers
  <2>2. b = M - P
    BY <1>1, <1>2
  <2> HIDE DEF P
  <2> QED
    BY <1>1, <1>2, <2>1, <2>2, AlignedSum
<1>4. b >= H /\ b # MinInt /\ Lo(b) = b
  BY <1>1, <1>2 DEF Lo
<1> DEFINE w == MaxInt - b + 1 + (IF b = MinInt THEN 1 ELSE 0) + (IF MaxInt = MaxInt THEN 1 ELSE 0)
<1>5. w = P + 1
  <2>1. w = MaxInt - b + 1 + 0 + 1
    BY <1>4
  <2> HIDE DEF w
  <2> QED
    BY <1>1, <1>2, <2>1
<1>6. w \in Nat /\ IsLog(w, e)
  <2> HIDE DEF w
  <2> QED
    BY <1>2, <1>5 DEF IsLog
<1>7. e \in Levels /\ Level(<<b, MaxInt>>) = e /\ Prefix(<<b, MaxInt>>) = b \div TwoTo[e]
  BY <1>1, <1>6, LevelIs
<1> HIDE DEF w
<1>8. b \in Int64
  BY <1>1, <1>4, Int64Is
<1>9. /\ Named(<<b, MaxInt>>)
      /\ Cell(<<b, MaxInt>>) = {x \in Int64 : b <= x /\ x < b + TwoTo[e]}
  BY <1>1, <1>2, <1>3, <1>7, <1>8, CellIs
<1>10. Cell(<<b, MaxInt>>) = Span(b, MaxInt)
  <2>1. \A x \in Int64 : x < b + TwoTo[e] <=> x <= MaxInt
    <3> TAKE x \in Int64
    <3>1. x \in Int
      BY Int64Is
    <3> QED
      BY <1>1, <3>1
  <2> QED
    BY <1>4, <1>9, <2>1 DEF Span
<1> QED
  BY <1>1, <1>9, <1>10, SingleIs

\* A range up to the largest integer, looked up at one level.
LEMMA TopCovers ==
  ASSUME NEW b \in MinInt..MaxInt, NEW e \in Nat, e >= 1, e <= W - 2, b + TwoTo[e] = M + 1
  PROVE  Covers(<< <<b, MaxInt>> >>, Span(b, MaxInt))
<1>1. /\ M \in Nat /\ H \in Nat /\ M = 2 * H /\ H >= 2 /\ MaxInt = M - 1 /\ MinInt = 1 - M
      /\ b \in Int /\ MaxInt \in MinInt..MaxInt /\ W \in Nat /\ W >= 3
  BY EndFacts, WAssumption
<1> DEFINE P == TwoTo[e]
<1>2. P \in Nat /\ P >= 2 /\ P <= H /\ TwoTo[e + 1] = 2 * P
  <2>1. e - 1 \in Nat /\ (e - 1) + 1 = e /\ W - 2 \in Nat
    BY <1>1
  <2>2. TwoTo[e] = 2 * TwoTo[e - 1] /\ TwoTo[e - 1] \in Nat /\ TwoTo[e - 1] >= 1
    BY <2>1, PowerStep, PowerFacts
  <2>3. TwoTo[e] <= H
    BY <2>1, PowerGrows DEF H
  <2> QED
    BY <2>2, <2>3, PowerStep
<1> DEFINE s == b - 1
<1>3. Aligned(s, e)
  <2>1. Aligned(M, e) /\ Aligned(P, e)
    BY <1>1, AlignedPowers
  <2>2. s = M - P
    BY <1>1, <1>2
  <2> HIDE DEF P, s
  <2> QED
    BY <1>1, <1>2, <2>1, <2>2, AlignedSum
<1>4. b >= H /\ b # MinInt /\ Lo(b) = b
  BY <1>1, <1>2 DEF Lo
<1> DEFINE w == MaxInt - b + 1 + (IF b = MinInt THEN 1 ELSE 0) + (IF MaxInt = MaxInt THEN 1 ELSE 0)
<1>5. w = P
  <2>1. w = MaxInt - b + 1 + 0 + 1
    BY <1>4
  <2> HIDE DEF w
  <2> QED
    BY <1>1, <1>2, <2>1
<1>6. w \in Nat /\ IsLog(w, e)
  <2> HIDE DEF w
  <2> QED
    BY <1>2, <1>5 DEF IsLog
<1>7. e \in Levels /\ Level(<<b, MaxInt>>) = e /\ Prefix(<<b, MaxInt>>) = b \div TwoTo[e]
  BY <1>1, <1>6, LevelIs
<1> HIDE DEF w
<1>8. b \in Int64 /\ s \in Int /\ s <= b /\ b < s + P
  BY <1>1, <1>2, <1>4, Int64Is
<1> HIDE DEF s
<1>9. /\ Named(<<b, MaxInt>>)
      /\ Cell(<<b, MaxInt>>) = {x \in Int64 : s <= x /\ x < s + TwoTo[e]}
  BY <1>1, <1>2, <1>3, <1>7, <1>8, CellIs
<1>10. Span(b, MaxInt) \subseteq Cell(<<b, MaxInt>>)
  <2>1. \A x \in Int64 : b <= x => s <= x /\ x < s + TwoTo[e]
    <3> TAKE x \in Int64
    <3>1. x \in Int /\ x < M
      BY Int64Is
    <3>2. s = b - 1
      BY DEF s
    <3> QED
      BY <1>1, <1>2, <3>1, <3>2
  <2> QED
    BY <1>4, <1>9, <2>1 DEF Span
<1> QED
  BY <1>1, <1>9, <1>10, SingleIs

-----------------------------------------------------------------------------
(* What __find_ranges finds.                                               *)

\* The ranges of a call.
Found(b, t, p) == FindRangesFrom[<<b, t, p>>]
TilesSpan(b, t, p) == Tiles(Found(b, t, p), Span(b, t))

\* The ranges of a call are those of Cut.
LEMMA FoundIs ==
  ASSUME NEW b \in MinInt..MaxInt, NEW t \in MinInt..MaxInt, NEW p \in Int
  PROVE  Found(b, t, p) = Cut(FindRangesFrom, b, t, p) /\ Found(b, t, p) \in Lists
<1>1. <<b, t, p>> \in Calls
  BY DEF Calls
<1> QED
  BY <1>1, FindRangesFromIs DEF Found

\* A single integer is a range of its own.
LEMMA OneTiles ==
  ASSUME NEW b \in MinInt..MaxInt, b # MaxInt, NEW p \in Nat
  PROVE  TilesSpan(b, b, p)
<1>1. /\ M \in Nat /\ MaxInt = M - 1 /\ MinInt = 1 - M /\ M >= 4 /\ b \in Int /\ b < MaxInt
      /\ W \in Nat /\ W >= 3
  BY EndFacts, WAssumption
<1>2. TwoTo[0] = 1 /\ TwoTo[0 + 1] = 2 * TwoTo[0] /\ 0 + 1 = 1
  BY PowerStep
<1>3. TwoTo[1] = 2
  BY <1>2
<1>4. Tiles(<< <<b, b>> >>, Span(b, b))
  <2>1. CASE b = MinInt
    <3>1. Lo(b) = -M /\ b + 1 = Lo(b) + TwoTo[1]
      BY <1>1, <1>3, <2>1 DEF Lo
    <3>2. Aligned(-M, 1)
      BY <1>1, AlignedPowers
    <3>3. Aligned(Lo(b), 1) /\ 1 <= W - 2 /\ 1 \in Nat
      BY <1>1, <3>1, <3>2
    <3> QED
      BY <1>1, <3>1, <3>3, DyadTiles
  <2>2. CASE b # MinInt
    <3>1. Lo(b) = b /\ b + 1 = Lo(b) + TwoTo[0]
      BY <1>1, <1>2, <2>2 DEF Lo
    <3>2. b = b * TwoTo[0]
      BY <1>1, <1>2
    <3>3. Aligned(Lo(b), 0) /\ 0 <= W - 2 /\ 0 \in Nat
      BY <1>1, <3>1, <3>2 DEF Aligned
    <3> QED
      BY <1>1, <3>1, <3>3, DyadTiles
  <2> QED
    BY <2>1, <2>2
<1>5. Found(b, b, p) = Cut(FindRangesFrom, b, b, p)
  BY <1>1, FoundIs
<1>6. Cut(FindRangesFrom, b, b, p) = << <<b, b>> >>
  BY <1>1, CutOne
<1> QED
  BY <1>4, <1>5, <1>6, Zenon DEF TilesSpan

\* Two halves side by side.
LEMMA JoinTiles ==
  ASSUME NEW b \in MinInt..MaxInt, NEW t \in MinInt..MaxInt, NEW p \in Int,
         NEW n \in Int, b <= n, n < t, NEW q \in Int,
         Found(b, t, p) = Found(b, n, q) \o Found(n + 1, t, q)
  PROVE  /\ TilesSpan(b, n, q) /\ TilesSpan(n + 1, t, q) => TilesSpan(b, t, p)
         /\ Covers(Found(b, n, q), Span(b, n)) /\ Covers(Found(n + 1, t, q), Span(n + 1, t))
            => Covers(Found(b, t, p), Span(b, t))
<1>1. MinInt \in Int /\ MaxInt \in Int
  BY EndFacts
<1>2. n \in MinInt..MaxInt /\ n + 1 \in MinInt..MaxInt
  BY <1>1
<1> DEFINE R1 == Found(b, n, q)  R2 == Found(n + 1, t, q)  S1 == Span(b, n)  S2 == Span(n + 1, t)
<1>3. R1 \in Lists /\ R2 \in Lists
  BY <1>2, FoundIs
<1>4. Span(b, t) = S1 \cup S2 /\ S1 \cap S2 = {}
  BY SpanSplit
<1>5. Found(b, t, p) = R1 \o R2
  OBVIOUS
<1> HIDE DEF R1, R2, S1, S2
<1>6. Tiles(R1, S1) /\ Tiles(R2, S2) => Tiles(R1 \o R2, S1 \cup S2)
  BY <1>3, <1>4, TilesJoin
<1>7. Covers(R1, S1) /\ Covers(R2, S2) => Covers(R1 \o R2, S1 \cup S2)
  BY <1>3, CoversJoin
<1> QED
  BY <1>4, <1>5, <1>6, <1>7, Zenon DEF TilesSpan, R1, R2, S1, S2

\* A dyad cut off at the lower end, and the rest.
LEMMA LowTiles ==
  ASSUME NEW b, NEW t, NEW d, NEW e, NEW p \in Nat, Piece(b, t, d, e),
         ~Whole(b, t, d), t # MaxInt, Aligned(Lo(b), e),
         TilesSpan(LowEnd(b, e) + 1, t, p - 1)
  PROVE  TilesSpan(b, t, p)
<1> DEFINE n == LowEnd(b, e)
<1>1. /\ n \in Int /\ b <= n /\ n < t
      /\ Cut(FindRangesFrom, b, t, p) = Before(b, n, Found(n + 1, t, p - 1))
  BY CutLow DEF Found
<1>2. n + 1 = Lo(b) + TwoTo[e]
  <2>1. Lo(b) \in Int /\ TwoTo[e] \in Int
    BY WidthIs, PieceFacts DEF Piece
  <2> QED
    BY <2>1 DEF LowEnd
<1> HIDE DEF n
<1>3. /\ b \in MinInt..MaxInt /\ t \in MinInt..MaxInt /\ b \in Int /\ t \in Int
      /\ e \in Nat /\ e <= W - 2 /\ MinInt \in Int /\ MaxInt \in Int
  BY PieceFacts, EndFacts DEF Piece, OneSign
<1>4. n \in MinInt..MaxInt /\ n + 1 \in MinInt..MaxInt /\ n < MaxInt
  BY <1>1, <1>3
<1> DEFINE R1 == << <<b, n>> >>  R2 == Found(n + 1, t, p - 1)  S1 == Span(b, n)  S2 == Span(n + 1, t)
<1>5. R1 \in Lists /\ R2 \in Lists
  BY <1>1, <1>3, <1>4, SingleIs, FoundIs
<1>6. Tiles(R1, S1)
  BY <1>2, <1>3, <1>4, DyadTiles
<1>7. Tiles(R2, S2)
  BY DEF TilesSpan, n
<1>8. Span(b, t) = S1 \cup S2 /\ S1 \cap S2 = {}
  BY <1>1, <1>3, SpanSplit
<1>9. Found(b, t, p) = R1 \o R2
  <2>1. Found(b, t, p) = Cut(FindRangesFrom, b, t, p)
    BY <1>3, FoundIs
  <2> QED
    BY <1>1, <2>1, Zenon DEF Before
<1> HIDE DEF R1, R2, S1, S2
<1>10. Tiles(R1 \o R2, S1 \cup S2)
  BY <1>5, <1>6, <1>7, <1>8, TilesJoin
<1> QED
  BY <1>8, <1>9, <1>10 DEF TilesSpan

\* One cut off at the upper end.
LEMMA HighTiles ==
  ASSUME NEW b, NEW t, NEW d, NEW e, NEW p \in Nat, Piece(b, t, d, e),
         t # MaxInt, ~Aligned(Lo(b), e), Aligned(t + 1, e),
         TilesSpan(b, HighStart(t, e) - 1, p - 1)
  PROVE  TilesSpan(b, t, p)
<1> DEFINE g == HighStart(t, e)
<1>1. /\ g \in Int /\ b < g /\ g <= t
      /\ Cut(FindRangesFrom, b, t, p) = Before(g, t, Found(b, g - 1, p - 1))
  BY CutHigh DEF Found
<1>3. /\ b \in MinInt..MaxInt /\ t \in MinInt..MaxInt /\ b \in Int /\ t \in Int /\ t < MaxInt
      /\ e \in Nat /\ e <= W - 2 /\ MinInt \in Int /\ MaxInt \in Int
  BY PieceFacts, EndFacts DEF Piece, OneSign
<1>2. g # MinInt /\ Lo(g) = g /\ t + 1 = g + TwoTo[e] /\ Aligned(g, e)
  <2>1. TwoTo[e] \in Int
    BY PieceFacts
  <2>2. g # MinInt
    BY <1>1, <1>3
  <2>3. g = t + 1 - TwoTo[e]
    BY DEF HighStart
  <2>4. Aligned(TwoTo[e], e)
    BY <1>3, AlignedPowers
  <2> DEFINE P == TwoTo[e]  u == t + 1
  <2> HIDE DEF P
  <2>5. u \in Int /\ Aligned(u, e) /\ P \in Int /\ Aligned(P, e)
    BY <1>3, <2>1, <2>4 DEF P
  <2> HIDE DEF u
  <2>6. Aligned(u - P, e)
    BY <1>3, <2>5, AlignedSum
  <2>7. g = u - P
    <3>1. t + 1 - P = (t + 1) - P
      BY <1>3, <2>5
    <3> QED
      BY <2>3, <3>1 DEF u, P
  <2>8. u = g + P
    BY <1>1, <2>5, <2>7
  <2> HIDE DEF g
  <2> QED
    BY <2>2, <2>6, <2>7, <2>8 DEF Lo, u, P
<1> HIDE DEF g
<1>4. g \in MinInt..MaxInt /\ g - 1 \in MinInt..MaxInt /\ b <= g - 1 /\ g - 1 < t /\ (g - 1) + 1 = g
  BY <1>1, <1>3
<1> DEFINE R1 == << <<g, t>> >>  R2 == Found(b, g - 1, p - 1)  S1 == Span(g, t)  S2 == Span(b, g - 1)
<1>5. R1 \in Lists /\ R2 \in Lists
  BY <1>1, <1>3, <1>4, SingleIs, FoundIs
<1>6. Tiles(R1, S1)
  BY <1>2, <1>3, <1>4, DyadTiles
<1>7. Tiles(R2, S2)
  BY DEF TilesSpan, g
<1>8. Span(b, t) = S1 \cup S2 /\ S1 \cap S2 = {}
  <2>1. Span(b, t) = Span(b, g - 1) \cup Span((g - 1) + 1, t)
        /\ Span(b, g - 1) \cap Span((g - 1) + 1, t) = {}
    BY <1>1, <1>3, <1>4, SpanSplit
  <2> QED
    BY <1>4, <2>1
<1>9. Found(b, t, p) = R1 \o R2
  <2>1. Found(b, t, p) = Cut(FindRangesFrom, b, t, p)
    BY <1>3, FoundIs
  <2> QED
    BY <1>1, <2>1, Zenon DEF Before
<1> HIDE DEF R1, R2, S1, S2
<1>10. Tiles(R1 \o R2, S1 \cup S2)
  BY <1>5, <1>6, <1>7, <1>8, TilesJoin
<1> QED
  BY <1>8, <1>9, <1>10 DEF TilesSpan

\* Less than 2 ** (k + 1) integers, with a dyad of 2 ** k at one end.
FromDyad(b, t, k) ==
  /\ b \in MinInt..MaxInt /\ t \in MinInt..MaxInt /\ b <= t /\ t # MaxInt
  /\ b >= 0 \/ t < 0
  /\ t + 1 - Lo(b) < TwoTo[k + 1]
  /\ Aligned(Lo(b), k) \/ Aligned(t + 1, k)

\* Each turn of the recursion cuts off the next power of two.
LEMMA FromDyadTiles ==
  ASSUME NEW k \in Nat, k <= W - 2
  PROVE  \A b, t, p : FromDyad(b, t, k) /\ p \in Nat /\ p >= k => TilesSpan(b, t, p)
<1> DEFINE Claim(i) == \A b, t, p : FromDyad(b, t, i) /\ p \in Nat /\ p >= i => TilesSpan(b, t, p)
           S == {i \in Nat : i <= W - 2 => Claim(i)}
<1>0. W \in Nat /\ W >= 3 /\ MinInt \in Int /\ MaxInt \in Int /\ M \in Nat
  BY WAssumption, EndFacts
<1>1. 0 \in S
  <2>1. ASSUME NEW b, NEW t, NEW p \in Nat, FromDyad(b, t, 0) PROVE TilesSpan(b, t, p)
    <3>1. b = t
      <4>1. SUFFICES ASSUME b # t PROVE FALSE
        OBVIOUS
      <4>2. b \in Int /\ t \in Int /\ b < t
        BY <1>0, <2>1, <4>1 DEF FromDyad
      <4>3. OneSign(b, t)
        BY <2>1, <4>2 DEF FromDyad, OneSign
      <4>4. 2 <= t + 1 - Lo(b) /\ Lo(b) \in Int
        BY <2>1, <4>3, WidthIs DEF FromDyad
      <4>5. TwoTo[0 + 1] = 2
        BY PowerStep
      <4> QED
        BY <2>1, <4>2, <4>4, <4>5 DEF FromDyad
    <3> QED
      BY <2>1, <3>1, OneTiles DEF FromDyad
  <2> QED
    BY <2>1
<1>2. ASSUME NEW i \in Nat, i \in S PROVE i + 1 \in S
  <2> DEFINE j == i + 1  Q == TwoTo[i]  P == TwoTo[j]
  <2> SUFFICES ASSUME j <= W - 2 PROVE Claim(j)
    OBVIOUS
  <2>0. /\ j \in Nat /\ Q \in Nat /\ Q >= 1 /\ P = 2 * Q /\ TwoTo[j + 1] = 2 * P /\ P \in Nat
        /\ i <= j /\ i <= W - 2
    BY <1>0, PowerStep, PowerFacts
  <2>1. Claim(i)
    BY <1>2, <2>0
  <2>2. SUFFICES ASSUME NEW b, NEW t, NEW p \in Nat, FromDyad(b, t, j), p >= j
                 PROVE  TilesSpan(b, t, p)
    OBVIOUS
  <2> HIDE DEF Claim, j, P, Q
  <2>3. /\ b \in MinInt..MaxInt /\ t \in MinInt..MaxInt /\ b <= t /\ t # MaxInt
        /\ b >= 0 \/ t < 0
        /\ t + 1 - Lo(b) < 2 * P
        /\ Aligned(Lo(b), j) \/ Aligned(t + 1, j)
        /\ b \in Int /\ t \in Int /\ Lo(b) \in Int
    BY <1>0, <2>0, <2>2 DEF FromDyad, Lo
  <2>4. p - 1 \in Nat /\ p - 1 >= i
    BY <2>0, <2>2 DEF j
  \* Ranges that have a dyad of 2 ** i at one end.
  <2>5. ASSUME NEW b1 \in MinInt..MaxInt, NEW t1 \in MinInt..MaxInt, b1 <= t1, t1 # MaxInt,
               b1 >= 0 \/ t1 < 0, t1 + 1 - Lo(b1) < P,
               Aligned(Lo(b1), j) \/ Aligned(t1 + 1, j)
                 \/ Aligned(Lo(b1), i) \/ Aligned(t1 + 1, i),
               NEW q \in Nat, q >= i
        PROVE  TilesSpan(b1, t1, q)
    <3>1. Lo(b1) \in Int /\ t1 + 1 \in Int
      BY <1>0 DEF Lo
    <3>2. Aligned(Lo(b1), i) \/ Aligned(t1 + 1, i)
      BY <2>0, <2>5, <3>1, AlignedLess
    <3>3. FromDyad(b1, t1, i)
      BY <2>5, <3>2 DEF FromDyad, P, j
    <3> QED
      BY <2>1, <2>5, <3>3 DEF Claim
  <2>6. CASE t + 1 - Lo(b) < P
    <3>1. p >= i
      BY <2>2, <2>4
    <3> QED
      BY <2>3, <2>5, <2>6, <3>1
  <2>7. CASE b = t
    BY <2>3, <2>7, OneTiles
  <2>8. CASE ~(t + 1 - Lo(b) < P) /\ b # t
    <3> DEFINE x == Width(b, t)
    <3>1. OneSign(b, t)
      BY <2>3, <2>8 DEF OneSign
    <3>2. x = t + 1 - Lo(b) /\ x \in Nat /\ P <= x /\ x < 2 * P
      BY <2>0, <2>3, <2>8, <3>1, WidthIs
    <3>3. IsLog(x, j)
      BY <2>0, <3>2 DEF IsLog, P
    <3> DEFINE e == IF TwoTo[j] = x THEN j - 1 ELSE j
    <3>4. Piece(b, t, j, e)
      BY <2>0, <3>1, <3>3 DEF Piece, j
    <3>5. e = IF P = x THEN i ELSE j
      BY DEF P, j
    <3> HIDE DEF e, x
    <3>6. e \in Nat /\ e <= W - 2 /\ TwoTo[e] = (IF P = x THEN Q ELSE P)
      BY <2>0, <3>5 DEF P, Q
    <3>7. CASE Whole(b, t, j)
      <4>1. b # MinInt /\ Cut(FindRangesFrom, b, t, p) = << <<b, t>> >>
        BY <3>4, <3>7, CutWhole
      <4>2. P = x /\ Lo(b) = b /\ Aligned(Lo(b), j)
        BY <3>7, <4>1 DEF Whole, P, x, Lo
      <4>3. t + 1 = Lo(b) + TwoTo[j] /\ t < MaxInt
        BY <1>0, <2>3, <3>2, <4>2 DEF P
      <4>4. Tiles(<< <<b, t>> >>, Span(b, t))
        BY <2>0, <2>3, <4>2, <4>3, DyadTiles
      <4>5. Found(b, t, p) = << <<b, t>> >>
        BY <2>3, <4>1, FoundIs
      <4> QED
        BY <4>4, <4>5, Zenon DEF TilesSpan
    <3>8. CASE ~Whole(b, t, j) /\ Aligned(Lo(b), e)
      <4> DEFINE n == LowEnd(b, e)
      <4>1. n \in Int /\ b <= n /\ n < t
        <5>1. /\ n \in Int /\ b <= n /\ n < t
              /\ Cut(FindRangesFrom, b, t, p)
                   = Before(b, n, FindRangesFrom[<<n + 1, t, p - 1>>])
          BY <2>3, <3>4, <3>8, CutLow
        <5> QED
          BY <5>1
      <4>2. n + 1 = Lo(b) + TwoTo[e]
        BY <2>3, <3>6, PowerFacts DEF LowEnd
      <4>3. n + 1 \in MinInt..MaxInt /\ n + 1 # MinInt /\ Lo(n + 1) = n + 1
        BY <1>0, <2>3, <4>1 DEF Lo
      <4>4. t + 1 - Lo(n + 1) < P
        <5> HIDE DEF n
        <5> QED
          BY <2>0, <2>3, <3>2, <3>6, <4>1, <4>2, <4>3
      <4>5. Aligned(Lo(n + 1), j) \/ Aligned(Lo(n + 1), i)
        <5>1. Aligned(TwoTo[e], e) /\ TwoTo[e] \in Int
          BY <3>6, AlignedPowers, PowerFacts
        <5>2. Aligned(Lo(b) + TwoTo[e], e)
          <6> DEFINE u == Lo(b)  v == TwoTo[e]
          <6>1. u \in Int /\ v \in Int /\ Aligned(u, e) /\ Aligned(v, e)
            BY <2>3, <3>8, <5>1
          <6> HIDE DEF u, v
          <6>2. Aligned(u + v, e)
            BY <3>6, <6>1, AlignedSum
          <6> QED
            BY <6>2 DEF u, v
        <5>3. Aligned(Lo(n + 1), e)
          BY <4>2, <4>3, <5>2
        <5> QED
          BY <3>5, <5>3
      <4>6. n + 1 >= 0 \/ t < 0
        BY <2>3, <4>1
      <4>7. n + 1 <= t
        BY <2>3, <4>1
      <4> HIDE DEF n
      <4>8. TilesSpan(n + 1, t, p - 1)
        BY <2>3, <2>4, <2>5, <4>3, <4>4, <4>5, <4>6, <4>7
      <4> QED
        BY <2>3, <3>4, <3>8, <4>8, LowTiles DEF n
    <3>9. CASE ~Whole(b, t, j) /\ ~Aligned(Lo(b), e)
      <4>1. Aligned(t + 1, e)
        <5>1. CASE P = x
          <6>1. e = i /\ t + 1 = Lo(b) + P
            BY <2>3, <3>2, <3>5, <5>1
          <6>2. ~Aligned(Lo(b), j)
            BY <2>0, <2>3, <3>9, <6>1, AlignedLess
          <6>3. Aligned(t + 1, j) /\ t + 1 \in Int
            BY <2>3, <6>2
          <6> QED
            BY <2>0, <6>1, <6>3, AlignedLess
        <5>2. CASE P # x
          BY <2>3, <3>5, <3>9, <5>2
        <5> QED
          BY <5>1, <5>2
      <4> DEFINE g == HighStart(t, e)
      <4>2. b # MinInt /\ g \in Int /\ b < g /\ g <= t
        BY <2>3, <3>4, <3>9, <4>1, CutHigh
      <4>3. g = t + 1 - TwoTo[e] /\ TwoTo[e] \in Int
        BY <3>6, PowerFacts DEF HighStart
      <4>4. Lo(b) = b /\ g - 1 \in MinInt..MaxInt /\ b <= g - 1 /\ g - 1 # MaxInt
            /\ (g - 1) + 1 = g
        BY <1>0, <2>3, <4>2 DEF Lo
      <4>5. (g - 1) + 1 - Lo(b) < P
        <5> HIDE DEF g
        <5> QED
          BY <2>0, <2>3, <3>2, <3>6, <4>2, <4>3, <4>4
      <4>6. Aligned((g - 1) + 1, j) \/ Aligned((g - 1) + 1, i)
        <5>1. Aligned(TwoTo[e], e)
          BY <3>6, AlignedPowers
        <5>2. Aligned(t + 1 - TwoTo[e], e)
          <6> DEFINE u == t + 1  v == TwoTo[e]
          <6>1. u \in Int /\ v \in Int /\ Aligned(u, e) /\ Aligned(v, e)
            BY <2>3, <4>1, <4>3, <5>1
          <6> HIDE DEF u, v
          <6>2. Aligned(u - v, e)
            BY <3>6, <6>1, AlignedSum
          <6>3. t + 1 - TwoTo[e] = u - v
            BY <2>3, <4>3 DEF u, v
          <6> QED
            BY <6>2, <6>3
        <5>3. Aligned((g - 1) + 1, e)
          BY <4>3, <4>4, <5>2
        <5> QED
          BY <3>5, <5>3
      <4>7. b >= 0 \/ g - 1 < 0
        BY <2>3, <4>2
      <4> HIDE DEF g
      <4>8. TilesSpan(b, g - 1, p - 1)
        BY <2>3, <2>4, <2>5, <4>4, <4>5, <4>6, <4>7
      <4> QED
        BY <2>3, <3>4, <3>9, <4>1, <4>8, HighTiles DEF g
    <3> QED
      BY <3>7, <3>8, <3>9
  <2> QED
    BY <2>6, <2>7, <2>8
<1> HIDE DEF S
<1>3. k \in S
  BY <1>1, <1>2, NatInduct
<1> QED
  BY <1>3 DEF S

\* A range of integers of one sign is cut up within as many turns as its width
\* has binary places.
LEMMA RangeTiles ==
  ASSUME NEW b \in MinInt..MaxInt, NEW t \in MinInt..MaxInt, b <= t, t # MaxInt,
         b >= 0 \/ t < 0, t + 1 - Lo(b) < M, NEW p \in Nat, t + 1 - Lo(b) <= TwoTo[p]
  PROVE  TilesSpan(b, t, p)
<1>0. /\ W \in Nat /\ W >= 3 /\ MinInt \in Int /\ MaxInt \in Int /\ M \in Nat
      /\ b \in Int /\ t \in Int /\ Lo(b) \in Int /\ t < MaxInt
  BY WAssumption, EndFacts DEF Lo
<1>1. CASE b = t
  BY <1>0, <1>1, OneTiles
<1>2. CASE b # t
  <2> DEFINE x == Width(b, t)
  <2>1. OneSign(b, t)
    BY <1>0, <1>2 DEF OneSign
  <2>2. x = t + 1 - Lo(b) /\ x \in Nat /\ x < M
    BY <2>1, WidthIs
  <2>3. PICK d, e : Piece(b, t, d, e)
    BY <2>1, <2>2, PieceExists
  <2> DEFINE P == TwoTo[e]
  <2>4. /\ P \in Nat /\ P >= 1 /\ P < x /\ x <= 2 * P
        /\ e <= W - 2 /\ e \in Nat /\ d \in Nat /\ d <= W - 2 /\ e <= d
    BY <2>3, PieceFacts DEF Piece
  <2>5. TwoTo[e + 1] = 2 * P /\ Aligned(P, e)
    BY <2>4, PowerStep, AlignedPowers
  <2>6. p - 1 \in Nat /\ p - 1 >= e
    <3>1. CASE p <= e
      <4>1. TwoTo[p] <= P /\ TwoTo[p] \in Nat
        BY <2>4, <3>1, PowerGrows, PowerFacts
      <4> QED
        BY <2>2, <2>4, <4>1
    <3>2. CASE e < p
      BY <2>4, <3>2
    <3> QED
      BY <2>4, <3>1, <3>2
  <2> HIDE DEF P
  <2>7. ASSUME NEW b1 \in MinInt..MaxInt, NEW t1 \in MinInt..MaxInt, b1 <= t1, t1 # MaxInt,
               b1 >= 0 \/ t1 < 0, t1 + 1 - Lo(b1) < 2 * P,
               Aligned(Lo(b1), e) \/ Aligned(t1 + 1, e)
        PROVE  TilesSpan(b1, t1, p - 1)
    <3>1. FromDyad(b1, t1, e)
      BY <2>5, <2>7 DEF FromDyad
    <3> QED
      BY <2>4, <2>6, <3>1, FromDyadTiles
  <2> HIDE DEF x
  <2>8. CASE Whole(b, t, d)
    <3>1. b # MinInt /\ Cut(FindRangesFrom, b, t, p) = << <<b, t>> >>
      BY <2>3, <2>8, CutWhole
    <3>2. TwoTo[d] = x /\ Lo(b) = b /\ Aligned(Lo(b), d)
      BY <2>8, <3>1 DEF Whole, x, Lo
    <3>3. t + 1 = Lo(b) + TwoTo[d]
      BY <1>0, <2>2, <3>2
    <3>4. Tiles(<< <<b, t>> >>, Span(b, t))
      BY <1>0, <2>4, <3>2, <3>3, DyadTiles
    <3>5. Found(b, t, p) = << <<b, t>> >>
      BY <3>1, FoundIs
    <3> QED
      BY <3>4, <3>5, Zenon DEF TilesSpan
  <2>9. CASE ~Whole(b, t, d) /\ Aligned(Lo(b), e)
    <3> DEFINE n == LowEnd(b, e)
    <3>1. n \in Int /\ b <= n /\ n < t
      <4>1. /\ n \in Int /\ b <= n /\ n < t
            /\ Cut(FindRangesFrom, b, t, p)
                 = Before(b, n, FindRangesFrom[<<n + 1, t, p - 1>>])
        BY <2>3, <2>9, CutLow
      <4> QED
        BY <4>1
    <3>2. n + 1 = Lo(b) + P
      BY <1>0, <2>4 DEF LowEnd, P
    <3>3. n + 1 \in MinInt..MaxInt /\ n + 1 # MinInt /\ Lo(n + 1) = n + 1
      BY <1>0, <3>1 DEF Lo
    <3> HIDE DEF n
    <3>4. t + 1 - Lo(n + 1) < 2 * P
      BY <1>0, <2>2, <2>4, <3>1, <3>2, <3>3
    <3>5. Aligned(Lo(n + 1), e)
      <4> DEFINE u == Lo(b)
      <4>1. u \in Int /\ P \in Int /\ Aligned(u, e) /\ Aligned(P, e)
        BY <1>0, <2>4, <2>5, <2>9
      <4> HIDE DEF u
      <4>2. Aligned(u + P, e)
        BY <2>4, <4>1, AlignedSum
      <4> QED
        BY <3>2, <3>3, <4>2 DEF u
    <3>6. (n + 1 >= 0 \/ t < 0) /\ n + 1 <= t
      BY <1>0, <3>1
    <3>7. TilesSpan(n + 1, t, p - 1)
      BY <2>7, <3>3, <3>4, <3>5, <3>6
    <3> QED
      BY <2>3, <2>9, <3>7, LowTiles DEF n
  <2>10. CASE ~Aligned(Lo(b), e) /\ Aligned(t + 1, e)
    <3> DEFINE g == HighStart(t, e)
    <3>1. b # MinInt /\ g \in Int /\ b < g /\ g <= t
      BY <2>3, <2>10, CutHigh
    <3>2. g = t + 1 - P
      BY DEF HighStart, P
    <3>3. Lo(b) = b /\ g - 1 \in MinInt..MaxInt /\ b <= g - 1 /\ g - 1 # MaxInt
          /\ (g - 1) + 1 = g
      BY <1>0, <3>1 DEF Lo
    <3> HIDE DEF g
    <3>4. (g - 1) + 1 - Lo(b) < 2 * P
      BY <1>0, <2>2, <2>4, <3>1, <3>2, <3>3
    <3>5. Aligned((g - 1) + 1, e)
      <4> DEFINE u == t + 1
      <4>1. u \in Int /\ P \in Int /\ Aligned(u, e) /\ Aligned(P, e)
        BY <1>0, <2>4, <2>5, <2>10
      <4>2. u - P = g
        BY <1>0, <2>4, <3>1, <3>2
      <4> HIDE DEF u
      <4>3. Aligned(u - P, e)
        BY <2>4, <4>1, AlignedSum
      <4> QED
        BY <3>3, <4>2, <4>3
    <3>6. b >= 0 \/ g - 1 < 0
      BY <1>0, <3>1
    <3>7. TilesSpan(b, g - 1, p - 1)
      BY <2>7, <3>3, <3>4, <3>5, <3>6
    <3> QED
      BY <1>0, <2>3, <2>10, <3>7, HighTiles DEF g
  <2>11. CASE ~Aligned(Lo(b), e) /\ ~Aligned(t + 1, e)
    <3> DEFINE g == Boundary(t, e)
    <3>1. /\ b # MinInt /\ g \in Int /\ Aligned(g, e) /\ b < g /\ g <= t /\ t - g < P
          /\ Cut(FindRangesFrom, b, t, p) = Found(b, g - 1, p - 1) \o Found(g, t, p - 1)
      <4>1. /\ b # MinInt
            /\ Boundary(t, e) \in Int /\ Aligned(Boundary(t, e), e)
            /\ b < Boundary(t, e) /\ Boundary(t, e) <= t /\ t - Boundary(t, e) < TwoTo[e]
            /\ Cut(FindRangesFrom, b, t, p)
                 = FindRangesFrom[<<b, Boundary(t, e) - 1, p - 1>>]
                   \o FindRangesFrom[<<Boundary(t, e), t, p - 1>>]
        BY <2>3, <2>11, CutBoundary, Zenon
      <4>2. g = Boundary(t, e)
        OBVIOUS
      <4> HIDE DEF g
      <4> QED
        BY <4>1, <4>2 DEF Found, P
    <3> HIDE DEF g
    <3>2. Found(b, t, p) = Found(b, g - 1, p - 1) \o Found((g - 1) + 1, t, p - 1)
      <4>1. (g - 1) + 1 = g
        BY <3>1
      <4> QED
        BY <3>1, <4>1, FoundIs
    <3>3. Lo(b) = b /\ g - 1 \in MinInt..MaxInt /\ b <= g - 1 /\ g - 1 # MaxInt
          /\ (g - 1) + 1 = g /\ g \in MinInt..MaxInt /\ g # MinInt /\ Lo(g) = g
      BY <1>0, <3>1 DEF Lo
    <3>4. TilesSpan(b, g - 1, p - 1)
      <4>1. (g - 1) + 1 - Lo(b) < 2 * P
        BY <1>0, <2>2, <2>4, <3>1, <3>3
      <4>2. b >= 0 \/ g - 1 < 0
        BY <1>0, <3>1
      <4>3. Aligned((g - 1) + 1, e)
        BY <3>1, <3>3
      <4> QED
        BY <2>7, <3>3, <4>1, <4>2, <4>3
    <3>5. TilesSpan(g, t, p - 1)
      <4>1. t + 1 - Lo(g) < 2 * P
        BY <1>0, <2>4, <3>1, <3>3
      <4>2. g >= 0 \/ t < 0
        BY <1>0, <3>1
      <4>3. Aligned(Lo(g), e)
        BY <3>1, <3>3
      <4> QED
        BY <2>7, <3>1, <3>3, <4>1, <4>2, <4>3
    <3>6. TilesSpan((g - 1) + 1, t, p - 1) /\ g - 1 < t /\ g - 1 \in Int /\ p - 1 \in Int
      BY <1>0, <2>6, <3>1, <3>3, <3>5
    <3> DEFINE n == g - 1  q == p - 1
    <3>7. /\ n \in Int /\ b <= n /\ n < t /\ q \in Int
          /\ Found(b, t, p) = Found(b, n, q) \o Found(n + 1, t, q)
          /\ TilesSpan(b, n, q) /\ TilesSpan(n + 1, t, q)
      BY <3>2, <3>3, <3>4, <3>6
    <3> HIDE DEF n, q
    <3>8. b \in MinInt..MaxInt /\ t \in MinInt..MaxInt /\ p \in Int
      OBVIOUS
    <3> QED
      BY <3>7, <3>8, JoinTiles, Zenon
  <2> QED
    BY <2>8, <2>9, <2>10, <2>11
<1> QED
  BY <1>1, <1>2

\* All negative integers.
LEMMA NegativeTiles ==
  ASSUME NEW p \in Nat
  PROVE  TilesSpan(MinInt, -1, p)
<1>1. /\ M \in Nat /\ H \in Nat /\ H >= 2 /\ M = 2 * H /\ MaxInt = M - 1 /\ MinInt = 1 - M
      /\ W - 2 \in Nat /\ TwoTo[W - 2] = H
  BY EndFacts, WAssumption DEF H
<1>2. /\ MinInt \in MinInt..MaxInt /\ -1 \in MinInt..MaxInt /\ -1 # MaxInt
      /\ -H \in MinInt..MaxInt /\ -H - 1 \in MinInt..MaxInt /\ -H - 1 # MaxInt
      /\ -H # MinInt /\ Lo(MinInt) = -M /\ Lo(-H) = -H
  BY <1>1 DEF Lo
<1>3. OneSign(MinInt, -1) /\ Width(MinInt, -1) = M
  <2>1. OneSign(MinInt, -1)
    BY <1>1, <1>2 DEF OneSign
  <2> QED
    BY <1>1, <1>2, <2>1, WidthIs
<1> DEFINE n == -H - 1  q == W - 2  t == -1
<1>4. Found(MinInt, t, p) = Found(MinInt, n, q) \o Found(n + 1, t, q)
  <2>1. /\ t < 0 /\ Cut(FindRangesFrom, MinInt, t, p)
           = FindRangesFrom[<<MinInt, -H - 1, W - 2>>] \o FindRangesFrom[<<-H, t, W - 2>>]
    <3>1. Width(MinInt, t) >= M /\ t < 0 /\ OneSign(MinInt, t)
      BY <1>1, <1>3
    <3> HIDE DEF t
    <3> QED
      BY <3>1, CutHalves
  <2>2. n + 1 = -H
    BY <1>1
  <2>3. Found(MinInt, t, p) = Cut(FindRangesFrom, MinInt, t, p)
    BY <1>2, FoundIs
  <2> HIDE DEF t
  <2> QED
    BY <2>1, <2>2, <2>3 DEF Found
<1>5. TilesSpan(MinInt, n, q)
  <2>1. /\ n \in MinInt..MaxInt /\ MinInt <= n /\ n # MaxInt /\ n < 0
        /\ n + 1 - Lo(MinInt) = H /\ H < M /\ H <= TwoTo[q] /\ q \in Nat
        /\ MinInt \in MinInt..MaxInt
    BY <1>1, <1>2
  <2> HIDE DEF n, q
  <2> QED
    BY <2>1, RangeTiles
<1>6. TilesSpan(n + 1, t, q)
  <2> DEFINE b == n + 1
  <2>1. b = -H
    BY <1>1
  <2>2. /\ b \in MinInt..MaxInt /\ t \in MinInt..MaxInt /\ b <= t /\ t # MaxInt /\ t < 0
        /\ t + 1 - Lo(b) = H /\ H < M /\ H <= TwoTo[q] /\ q \in Nat
    BY <1>1, <1>2, <2>1
  <2> HIDE DEF b, t, q
  <2> QED
    BY <2>2, RangeTiles DEF b
<1>7. /\ n \in Int /\ MinInt <= n /\ n < t /\ q \in Int /\ p \in Int
      /\ MinInt \in MinInt..MaxInt /\ t \in MinInt..MaxInt
  BY <1>1, <1>2
<1> HIDE DEF n, q, t
<1>8. TilesSpan(MinInt, t, p)
  BY <1>4, <1>5, <1>6, <1>7, JoinTiles
<1> QED
  BY <1>8 DEF t

\* The upper half of the integers that are not negative is a dyad.
LEMMA UpperTiles ==
  ASSUME NEW p \in Nat
  PROVE  TilesSpan(H, MaxInt, p)
<1>1. /\ M \in Nat /\ H \in Nat /\ H >= 2 /\ M = 2 * H /\ MaxInt = M - 1 /\ MinInt = 1 - M
      /\ W - 2 \in Nat
  BY EndFacts, WAssumption
<1>2. OneSign(H, MaxInt)
  BY <1>1 DEF OneSign
<1>3. Width(H, MaxInt) < M
  BY <1>1, <1>2, WidthIs
<1>4. PICK d, e : Piece(H, MaxInt, d, e)
  BY <1>2, <1>3, PieceExists
<1>5. e \in Nat /\ e <= W - 2
  BY <1>4, PieceFacts DEF Piece
<1>6. Aligned(H, e)
  BY <1>5, AlignedPowers
<1>7. Cut(FindRangesFrom, H, MaxInt, p) = << <<H, MaxInt>> >> /\ H + TwoTo[e] = M /\ TwoTo[e] >= 2
  BY <1>4, <1>6, CutTop
<1>8. e >= 1
  <2>1. e = 0 => TwoTo[e] = 1
    BY PowerStep
  <2> QED
    BY <1>5, <1>7, <2>1
<1>9. H \in MinInt..MaxInt /\ MaxInt \in MinInt..MaxInt
  BY <1>1
<1>10. Tiles(<< <<H, MaxInt>> >>, Span(H, MaxInt))
  BY <1>5, <1>7, <1>8, <1>9, TopTiles
<1>11. Found(H, MaxInt, p) = << <<H, MaxInt>> >>
  BY <1>7, <1>9, FoundIs
<1> QED
  BY <1>10, <1>11, Zenon DEF TilesSpan

\* All that are not negative, or positive.
LEMMA PositiveTiles ==
  ASSUME NEW p \in Nat, NEW b \in {0, 1}
  PROVE  TilesSpan(b, MaxInt, p)
<1>1. /\ M \in Nat /\ H \in Nat /\ H >= 2 /\ M = 2 * H /\ MaxInt = M - 1 /\ MinInt = 1 - M
      /\ W - 2 \in Nat /\ TwoTo[W - 2] = H /\ b \in Int /\ b >= 0 /\ b <= 1
  BY EndFacts, WAssumption DEF H
<1>2. /\ b \in MinInt..MaxInt /\ MaxInt \in MinInt..MaxInt /\ b # MinInt /\ Lo(b) = b
      /\ H - 1 \in MinInt..MaxInt /\ H - 1 # MaxInt /\ b < MaxInt
  BY <1>1 DEF Lo
<1>3. OneSign(b, MaxInt) /\ Width(b, MaxInt) >= M
  <2>1. OneSign(b, MaxInt)
    BY <1>1, <1>2 DEF OneSign
  <2> QED
    BY <1>1, <1>2, <2>1, WidthIs
<1> DEFINE n == H - 1  q == W - 2  t == MaxInt
<1>4. Found(b, t, p) = Found(b, n, q) \o Found(n + 1, t, q)
  <2>1. Cut(FindRangesFrom, b, t, p)
           = FindRangesFrom[<<b, H - 1, W - 2>>] \o FindRangesFrom[<<H, t, W - 2>>]
    <3>1. Width(b, t) >= M /\ t >= 0 /\ OneSign(b, t)
      BY <1>1, <1>3
    <3> HIDE DEF t
    <3> QED
      BY <3>1, CutHalves
  <2>2. n + 1 = H
    BY <1>1
  <2>3. Found(b, t, p) = Cut(FindRangesFrom, b, t, p)
    BY <1>2, FoundIs
  <2> HIDE DEF t
  <2> QED
    BY <2>1, <2>2, <2>3 DEF Found
<1>5. TilesSpan(b, n, q)
  <2>1. /\ n \in MinInt..MaxInt /\ b <= n /\ n # MaxInt /\ b >= 0
        /\ n + 1 - Lo(b) < M /\ n + 1 - Lo(b) <= TwoTo[q] /\ q \in Nat
        /\ b \in MinInt..MaxInt
    BY <1>1, <1>2
  <2> HIDE DEF n, q
  <2> QED
    BY <2>1, RangeTiles
<1>6. TilesSpan(n + 1, t, q)
  <2>1. n + 1 = H
    BY <1>1
  <2> QED
    BY <1>1, <2>1, UpperTiles
<1>7. n \in Int /\ b <= n /\ n < t /\ q \in Int /\ p \in Int /\ t \in MinInt..MaxInt
  BY <1>1, <1>2
<1> HIDE DEF n, q, t
<1>8. TilesSpan(b, t, p)
  BY <1>2, <1>4, <1>5, <1>6, <1>7, JoinTiles
<1> QED
  BY <1>8 DEF t

\* One that begins above 1 and ends with the largest integer.
LEMMA TopRangeCovers ==
  ASSUME NEW b \in MinInt..MaxInt, 1 < b
  PROVE  Covers(Found(b, MaxInt, W - 1), Span(b, MaxInt))
<1>1. /\ M \in Nat /\ H \in Nat /\ H >= 2 /\ M = 2 * H /\ MaxInt = M - 1 /\ MinInt = 1 - M
      /\ W - 2 \in Nat /\ TwoTo[W - 2] = H /\ b \in Int /\ W \in Nat /\ W >= 3 /\ W - 1 \in Nat
  BY EndFacts, WAssumption DEF H
<1>2. /\ MaxInt \in MinInt..MaxInt /\ b # MinInt /\ Lo(b) = b /\ W - 1 \in Int
  BY <1>1 DEF Lo
<1>3. Found(b, MaxInt, W - 1) = Cut(FindRangesFrom, b, MaxInt, W - 1)
  BY <1>2, FoundIs
<1>4. CASE b = MaxInt
  <2>1. TwoTo[0] = 1 /\ TwoTo[0 + 1] = 2 * TwoTo[0] /\ 0 + 1 = 1
    BY PowerStep
  <2>2. b + TwoTo[1] = M + 1 /\ 1 <= W - 2 /\ 1 \in Nat /\ 1 >= 1
    BY <1>1, <1>4, <2>1
  <2>3. Covers(<< <<b, MaxInt>> >>, Span(b, MaxInt))
    BY <2>2, TopCovers
  <2>4. Cut(FindRangesFrom, b, b, W - 1) = << <<b, b>> >>
    BY <1>1, CutOne
  <2> QED
    BY <1>3, <1>4, <2>3, <2>4, Zenon
<1>5. CASE b # MaxInt
  <2>1. OneSign(b, MaxInt)
    BY <1>1, <1>2, <1>5 DEF OneSign
  <2>2. Width(b, MaxInt) = M - b + 1 /\ Width(b, MaxInt) < M
    BY <1>1, <2>1, WidthIs
  <2>3. PICK d, e : Piece(b, MaxInt, d, e)
    BY <2>1, <2>2, PieceExists
  <2>4. e \in Nat /\ e <= W - 2 /\ TwoTo[e] \in Nat /\ M - b + 1 <= 2 * TwoTo[e]
    BY <2>2, <2>3, PieceFacts DEF Piece
  <2>5. TwoTo[e] <= H
    BY <1>1, <2>4, PowerGrows DEF H
  <2> DEFINE p == W - 1  g == TopStart(e)
  <2>6. p \in Nat /\ p - 1 = W - 2 /\ Piece(b, MaxInt, d, e)
    BY <1>1, <2>3
  <2> HIDE DEF p
  <2>7. /\ Aligned(b, e) => /\ Cut(FindRangesFrom, b, MaxInt, p) = << <<b, MaxInt>> >>
                            /\ b + TwoTo[e] = M
        /\ ~Aligned(b, e) =>
              /\ g \in Int /\ b < g /\ g <= MaxInt
              /\ Cut(FindRangesFrom, b, MaxInt, p) =
                   Before(g, MaxInt, FindRangesFrom[<<b, g - 1, p - 1>>])
        /\ TwoTo[e] >= 2
    BY <2>6, CutTop
  <2>8. e >= 1
    <3>1. e = 0 => TwoTo[e] = 1
      BY PowerStep
    <3> QED
      BY <2>4, <2>7, <3>1
  <2>9. CASE Aligned(b, e)
    <3>1. Tiles(<< <<b, MaxInt>> >>, Span(b, MaxInt))
      BY <2>4, <2>7, <2>8, <2>9, TopTiles
    <3> QED
      BY <1>3, <2>7, <2>9, <3>1, Zenon DEF Tiles, p
  <2>10. CASE ~Aligned(b, e)
    <3>1. g = M + 1 - TwoTo[e]
      BY DEF TopStart
    <3> HIDE DEF g
    <3>2. g \in Int /\ b < g /\ g <= MaxInt
      BY <2>7, <2>10
    <3>3. g + TwoTo[e] = M + 1 /\ g \in MinInt..MaxInt /\ g - 1 \in MinInt..MaxInt
          /\ g - 1 # MaxInt /\ b <= g - 1 /\ (g - 1) + 1 - Lo(b) <= H /\ g - 1 < MaxInt
          /\ (g - 1) + 1 = g /\ (g - 1) + 1 - Lo(b) < M
      BY <1>1, <1>2, <2>4, <2>5, <3>1, <3>2
    <3> DEFINE R1 == << <<g, MaxInt>> >>  R2 == Found(b, g - 1, W - 2)
               S1 == Span(g, MaxInt)  S2 == Span(b, g - 1)
    <3>4. R1 \in Lists /\ R2 \in Lists
      <4>1. W - 2 \in Int /\ MaxInt \in Int
        BY <1>1
      <4> QED
        BY <3>2, <3>3, <4>1, SingleIs, FoundIs
    <3>5. Covers(R1, S1)
      BY <2>4, <2>8, <3>3, TopCovers
    <3>6. Covers(R2, S2)
      <4> DEFINE t == g - 1  q == W - 2
      <4>1. /\ t \in MinInt..MaxInt /\ b <= t /\ t # MaxInt /\ b >= 0
            /\ t + 1 - Lo(b) < M /\ q \in Nat /\ t + 1 - Lo(b) <= TwoTo[q]
        BY <1>1, <3>3
      <4> HIDE DEF t, q
      <4>2. TilesSpan(b, t, q)
        BY <4>1, RangeTiles
      <4> QED
        BY <4>2 DEF TilesSpan, Tiles, t, q
    <3>7. Span(b, MaxInt) = S1 \cup S2
      <4>1. Span(b, MaxInt) = Span(b, g - 1) \cup Span((g - 1) + 1, MaxInt)
        <5> DEFINE n == g - 1
        <5>1. n \in Int /\ b <= n /\ n < MaxInt
          BY <3>2, <3>3
        <5> HIDE DEF n
        <5>2. Span(b, MaxInt) = Span(b, n) \cup Span(n + 1, MaxInt)
          BY <1>2, <5>1, SpanSplit
        <5> QED
          BY <5>2 DEF n
      <4> QED
        BY <3>3, <4>1
    <3>8. Found(b, MaxInt, W - 1) = R1 \o R2
      <4>1. Cut(FindRangesFrom, b, MaxInt, p) = Before(g, MaxInt, R2)
        BY <2>6, <2>7, <2>10 DEF Found, g
      <4> HIDE DEF R2
      <4> QED
        BY <1>3, <4>1, Zenon DEF Before, p
    <3> HIDE DEF R1, R2, S1, S2
    <3>9. Covers(R1 \o R2, S1 \cup S2)
      BY <3>4, <3>5, <3>6, CoversJoin
    <3> QED
      BY <3>7, <3>8, <3>9
  <2> QED
    BY <2>9, <2>10
<1> QED
  BY <1>4, <1>5

\* Where the range begins at or below zero and ends above.
LEMMA ZeroTiles ==
  ASSUME NEW b \in MinInt..MaxInt, NEW t \in MinInt..MaxInt, b < 0, t >= 0
  PROVE  TilesSpan(b, t, W - 1)
<1>1. /\ M \in Nat /\ H \in Nat /\ H >= 2 /\ M = 2 * H /\ MaxInt = M - 1 /\ MinInt = 1 - M
      /\ W - 2 \in Nat /\ W - 1 \in Nat /\ (W - 1) - 1 = W - 2 /\ b \in Int /\ t \in Int
      /\ W - 2 <= W - 2 /\ (W - 2) + 1 = W - 1 /\ TwoTo[W - 1] = M
      /\ 1 - M <= b /\ t <= M - 1
  BY EndFacts, WAssumption DEF M
<1> DEFINE n == -1  q == W - 2  p == W - 1
<1>2. Found(b, t, p) = Found(b, n, q) \o Found(n + 1, t, q)
  <2>1. Found(b, t, p) = Cut(FindRangesFrom, b, t, p)
    BY <1>1, FoundIs
  <2>2. Cut(FindRangesFrom, b, t, p)
          = FindRangesFrom[<<b, -1, p - 1>>] \o FindRangesFrom[<<0, t, p - 1>>]
    BY <1>1, CutZero
  <2>3. n + 1 = 0 /\ p - 1 = q
    BY <1>1
  <2> HIDE DEF p, q
  <2> QED
    BY <2>1, <2>2, <2>3 DEF Found
<1>3. TilesSpan(b, n, q)
  <2>1. CASE b = MinInt
    BY <1>1, <2>1, NegativeTiles
  <2>2. CASE b # MinInt
    <3>1. Lo(b) = b /\ n \in MinInt..MaxInt /\ b <= n /\ n # MaxInt /\ n < 0 /\ n + 1 = 0
      BY <1>1, <2>2 DEF Lo
    <3>2. n + 1 - Lo(b) < M
      BY <1>1, <2>2, <3>1
    <3>3. Aligned(n + 1, q)
      BY <1>1, <3>1, AlignedPowers
    <3>4. FromDyad(b, n, q)
      <4>1. TwoTo[q + 1] = M
        BY <1>1
      <4> HIDE DEF n, q
      <4> QED
        BY <3>1, <3>2, <3>3, <4>1 DEF FromDyad
    <3>5. q \in Nat /\ q <= W - 2 /\ q >= q
      BY <1>1
    <3> HIDE DEF n, q
    <3> QED
      BY <3>4, <3>5, FromDyadTiles
  <2> QED
    BY <2>1, <2>2
<1>4. TilesSpan(n + 1, t, q)
  <2>0. n + 1 = 0
    OBVIOUS
  <2>1. CASE t = MaxInt
    BY <1>1, <2>0, <2>1, PositiveTiles
  <2>2. CASE t # MaxInt
    <3>1. 0 # MinInt /\ Lo(0) = 0 /\ 0 \in MinInt..MaxInt /\ 0 <= t
      BY <1>1 DEF Lo
    <3>2. t + 1 - Lo(0) < M
      BY <1>1, <2>2, <3>1
    <3>3. Aligned(Lo(0), q)
      BY <1>1, <3>1, AlignedPowers
    <3>4. FromDyad(0, t, q)
      <4>1. TwoTo[q + 1] = M
        BY <1>1
      <4> HIDE DEF q
      <4> QED
        BY <2>2, <3>1, <3>2, <3>3, <4>1 DEF FromDyad
    <3>5. q \in Nat /\ q <= W - 2 /\ q >= q
      BY <1>1
    <3> HIDE DEF q
    <3> QED
      BY <2>0, <3>4, <3>5, FromDyadTiles
  <2> QED
    BY <2>1, <2>2
<1>5. n \in Int /\ b <= n /\ n < t /\ q \in Int /\ p \in Int
  BY <1>1
<1> HIDE DEF n, q, p
<1>6. TilesSpan(b, t, p)
  BY <1>2, <1>3, <1>4, <1>5, JoinTiles
<1> QED
  BY <1>6 DEF p

\* __find_ranges, below the largest integer and from 1 or less up to it: every
\* integer of the range is in one dyad, and no other is.
LEMMA FindRangesTiles ==
  ASSUME NEW b \in MinInt..MaxInt, NEW t \in MinInt..MaxInt, b <= t, t # MaxInt \/ b <= 1
  PROVE  Tiles(FindRanges(b, t), Span(b, t))
<1>1. /\ M \in Nat /\ M >= 4 /\ MaxInt = M - 1 /\ MinInt = 1 - M
      /\ W - 1 \in Nat /\ b \in Int /\ t \in Int /\ TwoTo[W - 1] = M
  BY EndFacts, WAssumption DEF M
<1>2. TilesSpan(b, t, W - 1)
  <2>1. CASE b < 0 /\ t >= 0
    BY <2>1, ZeroTiles
  <2>2. CASE b >= 0 /\ t = MaxInt
    <3>1. b \in {0, 1}
      BY <1>1, <2>2
    <3> QED
      BY <1>1, <2>2, <3>1, PositiveTiles
  <2>3. CASE b = MinInt /\ t = -1
    BY <1>1, <2>3, NegativeTiles
  <2>4. CASE (b >= 0 \/ t < 0) /\ t # MaxInt /\ ~(b = MinInt /\ t = -1)
    <3>1. t + 1 - Lo(b) < M
      BY <1>1, <2>4 DEF Lo
    <3>2. t + 1 - Lo(b) <= TwoTo[W - 1]
      BY <1>1, <3>1 DEF Lo
    <3> QED
      BY <1>1, <2>4, <3>1, <3>2, RangeTiles
  <2> QED
    BY <1>1, <2>1, <2>2, <2>3, <2>4
<1> QED
  BY <1>2 DEF TilesSpan, Found, FindRanges, Ranges

\* In any case every integer of the range is in one.
LEMMA FindRangesCovers ==
  ASSUME NEW b \in MinInt..MaxInt, NEW t \in MinInt..MaxInt, b <= t
  PROVE  Covers(FindRanges(b, t), Span(b, t))
<1>1. CASE t # MaxInt \/ b <= 1
  BY <1>1, FindRangesTiles DEF Tiles
<1>2. CASE t = MaxInt /\ ~(b <= 1)
  <2>1. 1 < b
    BY <1>2, EndFacts
  <2> QED
    BY <1>2, <2>1, TopRangeCovers DEF Found, FindRanges, Ranges
<1> QED
  BY <1>1, <1>2

-----------------------------------------------------------------------------
(* How many rows there are at some places.                                 *)

Places == Segments \X Data
Tallies == [Segments -> [Data -> Nat]]
Tally(r) == [p \in Places |-> r[p[1]][p[2]]]
At(r, P) == SumOn(Tally(r), P)

\* There are finitely many places,
LEMMA PlacesFinite == IsFiniteSet(Places) /\ IsFiniteSet(Segments) /\ IsFiniteSet(Data)
<1>1. -M \in Int /\ M - 1 \in Int
  BY Int64Is
<1>2. IsFiniteSet(Int64)
  BY <1>1, Int64Is, FS_Interval
<1>3. IsFiniteSet(Data) /\ IsFiniteSet(Segments)
  BY <1>2, FS_Subset, CMSketchAssumption
<1> QED
  BY <1>3, FS_Product DEF Places

\* each with a number of rows.
LEMMA TallyCounts ==
  ASSUME NEW r \in Tallies
  PROVE  Counts(Tally(r), Places)
BY DEF Counts, Tally, Places, Tallies

\* RowsAt adds them up.
LEMMA RowsAtIs ==
  ASSUME NEW P \in SUBSET Places, rows \in Tallies
  PROVE  RowsAt(P) = At(rows, P)
<1> DEFINE e == [p \in P |-> rows[p[1]][p[2]]]
<1>1. IsFiniteSet(P) /\ Counts(Tally(rows), P)
  BY PlacesFinite, TallyCounts, FS_Subset DEF Counts
<1>2. Agree(e, Tally(rows), P)
  BY DEF Agree, Tally
<1> HIDE DEF e
<1>3. SumOn(e, P) = SumOn(Tally(rows), P)
  BY <1>1, <1>2, SumSame
<1> QED
  BY <1>3 DEF RowsAt, At, SumOn, e

\* The sums over sets of places: each is a natural number,
LEMMA AtIsNat ==
  ASSUME NEW r \in Tallies, NEW P \in SUBSET Places
  PROVE  At(r, P) \in Nat
<1>1. IsFiniteSet(P) /\ Counts(Tally(r), P)
  BY PlacesFinite, TallyCounts, FS_Subset DEF Counts
<1> QED
  BY <1>1, SumIsNat DEF At

\* none has no rows,
LEMMA AtNone ==
  ASSUME NEW r
  PROVE  At(r, {}) = 0
BY SumOfNone DEF At

\* two sets apart add up,
LEMMA AtUnion ==
  ASSUME NEW r \in Tallies, NEW P \in SUBSET Places, NEW Q \in SUBSET Places, P \cap Q = {}
  PROVE  At(r, P \cup Q) = At(r, P) + At(r, Q)
<1>1. IsFiniteSet(Places) /\ Counts(Tally(r), Places)
  BY PlacesFinite, TallyCounts
<1> QED
  BY <1>1, SumUnion DEF At

\* and a part has no more than the whole.
LEMMA AtPart ==
  ASSUME NEW r \in Tallies, NEW Q \in SUBSET Places, NEW P \in SUBSET Q
  PROVE  At(r, P) <= At(r, Q)
<1>1. IsFiniteSet(Q) /\ Counts(Tally(r), Q)
  BY PlacesFinite, TallyCounts, FS_Subset DEF Counts
<1> QED
  BY <1>1, SumOfPart DEF At

\* A row more at one place.
LEMMA AtChanged ==
  ASSUME NEW r \in Tallies, NEW s \in Segments, NEW x \in Data, NEW P \in SUBSET Places
  PROVE  /\ [r EXCEPT ![s][x] = @ + 1] \in Tallies
         /\ At([r EXCEPT ![s][x] = @ + 1], P)
              = At(r, P) + (IF <<s, x>> \in P THEN 1 ELSE 0)
<1> DEFINE q == [r EXCEPT ![s][x] = @ + 1]  y == <<s, x>>  f == Tally(r)  e == Tally(q)
<1>1. q \in Tallies
  BY DEF Tallies
<1>2. y \in Places /\ e[y] = f[y] + 1 /\ f[y] \in Nat
  BY DEF Places, Tally, Tallies
<1>3. \A p \in Places : p # y => e[p] = f[p]
  <2> SUFFICES ASSUME NEW p \in Places, p # y PROVE e[p] = f[p]
    OBVIOUS
  <2>0. PICK a \in Segments, b \in Data : p = <<a, b>>
    BY DEF Places
  <2>1. a # s \/ b # x
    BY <2>0
  <2>2. q[a][b] = r[a][b]
    <3>1. r[a] \in [Data -> Nat]
      BY DEF Tallies
    <3>2. CASE a = s
      <4>1. b # x
        BY <2>1, <3>2
      <4> QED
        BY <3>1, <3>2, <4>1 DEF Tallies
    <3>3. CASE a # s
      BY <3>3 DEF Tallies
    <3> QED
      BY <3>2, <3>3
  <2>3. <<a, b>> \in Places
    BY DEF Places
  <2> QED
    BY <2>0, <2>2, <2>3 DEF Tally
<1> HIDE DEF q, y
<1>4. IsFiniteSet(P) /\ Counts(f, P) /\ Counts(e, P)
  <2>1. Counts(Tally(r), Places) /\ Counts(Tally(q), Places)
    BY <1>1, TallyCounts
  <2> QED
    BY <2>1, PlacesFinite, FS_Subset DEF Counts
<1> HIDE DEF f, e
<1>5. CASE y \in P
  <2>1. Agree(e, f, P \ {y})
    BY <1>3 DEF Agree
  <2>2. SumOn(e, P) = SumOn(f, P) + e[y] - f[y]
    BY <1>4, <1>5, <2>1, SumChanged
  <2>3. SumOn(f, P) \in Nat
    BY <1>4, SumIsNat
  <2>4. SumOn(e, P) = SumOn(f, P) + 1
    BY <1>2, <2>2, <2>3
  <2> QED
    BY <1>1, <1>5, <2>4 DEF At, e, f, q, y
<1>6. CASE y \notin P
  <2>1. Agree(e, f, P)
    BY <1>3, <1>6 DEF Agree
  <2>2. SumOn(e, P) = SumOn(f, P)
    BY <1>4, <2>1, SumSame
  <2>3. SumOn(f, P) \in Nat
    BY <1>4, SumIsNat
  <2>4. SumOn(e, P) = SumOn(f, P) + 0
    BY <2>2, <2>3
  <2> QED
    BY <1>1, <1>6, <2>4 DEF At, e, f, q, y
<1> QED
  BY <1>5, <1>6

(* The least element of a nonempty set of natural numbers.                 *)
LEMMA MinFacts ==
  ASSUME NEW T, T \in SUBSET Nat, T # {}
  PROVE  Min(T) \in T /\ \A y \in T : Min(T) <= y
BY LeastNumber DEF Min

(* A count is that of one of the rows and no larger than that of any.      *)
LEMMA CountFacts ==
  ASSUME Col \in Hashes, NEW k \in Counters, NEW x \in Items
  PROVE  /\ Count(k, x) \in Nat
         /\ \A i \in Rows : k[i][Col[x][i]] \in Nat /\ Count(k, x) <= k[i][Col[x][i]]
         /\ \E i \in Rows : Count(k, x) = k[i][Col[x][i]]
<1>1. Col \in [Items -> [Rows -> Cols]] /\ Rows # {}
  BY CountMinAssumption
<1>2. \A i \in Rows : k[i][Col[x][i]] \in Nat
  BY <1>1 DEF Counters
<1>3. Cells(k, x) \in SUBSET Nat /\ Cells(k, x) # {}
  BY <1>1, <1>2 DEF Cells
<1>4. /\ Min(Cells(k, x)) \in Cells(k, x)
      /\ \A y \in Cells(k, x) : Min(Cells(k, x)) <= y
  BY <1>3, MinFacts
<1> QED
  BY <1>2, <1>3, <1>4 DEF Count, Cells

(* A row counted: the counters of its value go up by one, and one of       *)
(* another value only where the two meet.                                  *)
LEMMA IncrementFacts ==
  ASSUME Col \in Hashes, NEW k \in Counters, NEW x \in Items
  PROVE  /\ Increment(k, x) \in Counters
         /\ \A i \in Rows, c \in Cols :
              /\ Increment(k, x)[i][c] =
                   IF c = Col[x][i] THEN k[i][c] + 1 ELSE k[i][c]
              /\ k[i][c] \in Nat
         /\ \A y \in Items, i \in Rows : Col[y][i] \in Cols
<1>1. Col \in [Items -> [Rows -> Cols]]
  BY CountMinAssumption
<1>2. \A i \in Rows, c \in Cols : k[i][c] \in Nat
  BY DEF Counters
<1>3. \A i \in Rows, c \in Cols :
        Increment(k, x)[i][c] = k[i][c] + (IF c = Col[x][i] THEN 1 ELSE 0)
  BY DEF Increment
<1>4. \A i \in Rows, c \in Cols :
        k[i][c] + (IF c = Col[x][i] THEN 1 ELSE 0) \in Nat
  BY <1>2
<1>5. Increment(k, x) \in Counters
  BY <1>4 DEF Increment, Counters
<1>6. \A i \in Rows, c \in Cols :
        Increment(k, x)[i][c] = IF c = Col[x][i] THEN k[i][c] + 1 ELSE k[i][c]
  BY <1>2, <1>3
<1> QED
  BY <1>1, <1>2, <1>5, <1>6

(* A new sketch counts nothing.                                            *)
LEMMA BlankFacts ==
  /\ Blank \in Counters
  /\ \A i \in Rows, c \in Cols : Blank[i][c] = 0
BY DEF Blank, Counters

(* The sum of two sketches is one, cell by cell.                           *)
LEMMA Sum2Facts ==
  ASSUME NEW k1 \in Counters, NEW k2 \in Counters
  PROVE  /\ Sum2(k1, k2) \in Counters
         /\ \A i \in Rows, c \in Cols :
              /\ Sum2(k1, k2)[i][c] = k1[i][c] + k2[i][c]
              /\ k1[i][c] \in Nat /\ k2[i][c] \in Nat
<1>1. \A i \in Rows, c \in Cols : k1[i][c] \in Nat /\ k2[i][c] \in Nat
  BY DEF Counters
<1> QED
  BY <1>1 DEF Sum2, Counters

-----------------------------------------------------------------------------
(* What the counters hold.                                                 *)

Transitions == [init: BOOLEAN, counters: [Levels -> Counters]]

\* The values that one counter of a level counts.
Landing(col, l, i, c) == {x \in Data : col[x \div TwoTo[l]][i] = c}

\* The counters k hold the rows r of the segments S.
Holds(k, r, S, col) ==
  \A l \in Levels, i \in Rows, c \in Cols :
    k.counters[l][i][c] = At(r, S \X Landing(col, l, i, c))

Counted ==
  /\ \A s \in Segments : /\ Holds(part[s], rows, {s}, Col)
                         /\ part[s].init \/ part[s] = Empty
  /\ Holds(acc, rows, merged, Col)
  /\ acc.init \/ acc = Empty

\* A value without rows counts nothing.
LEMMA EmptyFacts ==
  /\ Empty \in Transitions /\ Empty.init = FALSE
  /\ \A l \in Levels, i \in Rows, c \in Cols : Empty.counters[l][i][c] = 0
<1>1. Empty.init = FALSE /\ Empty.counters = [l \in Levels |-> Blank]
  BY DEF Empty
<1>2. Empty \in Transitions
  BY BlankFacts DEF Empty, Transitions
<1> QED
  BY <1>1, <1>2, BlankFacts

\* What countmin_dyadic_trans_c counts at a level can be counted.
LEMMA ShiftedIsItem ==
  ASSUME NEW x \in Data, NEW l \in Levels
  PROVE  x \in Int64 /\ l \in Nat /\ x \div TwoTo[l] \in Int64 /\ x \div TwoTo[l] \in Items
<1>1. x \in Int64 /\ l \in Nat
  BY CMSketchAssumption, WAssumption DEF Levels
<1>2. x \div TwoTo[l] \in Int64
  BY <1>1, QuotientInRange
<1> QED
  BY <1>1, <1>2, CMSketchAssumption

\* A row counts one in one counter of each row of each level.
LEMMA TransFacts ==
  ASSUME Col \in Hashes, NEW k \in Transitions, NEW x \in Data
  PROVE  /\ Trans(k, x) \in Transitions /\ Trans(k, x).init
         /\ \A l \in Levels, i \in Rows, c \in Cols :
              /\ k.counters[l][i][c] \in Nat
              /\ Trans(k, x).counters[l][i][c]
                   = k.counters[l][i][c] + (IF c = Col[x \div TwoTo[l]][i] THEN 1 ELSE 0)
<1> DEFINE new == [l \in Levels |-> Increment(k.counters[l], x \div TwoTo[l])]
<1>1. Trans(k, x) = [init |-> TRUE, counters |-> new]
  BY DEF Trans
<1>2. k.counters \in [Levels -> Counters]
  BY DEF Transitions
<1>3. ASSUME NEW l \in Levels
      PROVE  /\ new[l] \in Counters
             /\ \A i \in Rows, c \in Cols :
                  /\ k.counters[l][i][c] \in Nat
                  /\ new[l][i][c]
                       = k.counters[l][i][c] + (IF c = Col[x \div TwoTo[l]][i] THEN 1 ELSE 0)
  <2> DEFINE y == x \div TwoTo[l]  kl == k.counters[l]
  <2>1. y \in Items
    BY ShiftedIsItem
  <2>2. kl \in Counters
    BY <1>2
  <2>3. new[l] = Increment(kl, y)
    OBVIOUS
  <2> HIDE DEF y, kl
  <2>4. /\ Increment(kl, y) \in Counters
        /\ \A i \in Rows, c \in Cols :
             /\ Increment(kl, y)[i][c] = IF c = Col[y][i] THEN kl[i][c] + 1 ELSE kl[i][c]
             /\ kl[i][c] \in Nat
    BY <2>1, <2>2, IncrementFacts
  <2>5. \A i \in Rows, c \in Cols :
          Increment(kl, y)[i][c] = kl[i][c] + (IF c = Col[y][i] THEN 1 ELSE 0)
    <3> TAKE i \in Rows, c \in Cols
    <3> QED
      BY <2>4
  <2> HIDE DEF new
  <2> QED
    BY <2>3, <2>4, <2>5 DEF y, kl
<1>4. DOMAIN new = Levels /\ new = [l \in Levels |-> new[l]]
  OBVIOUS
<1> HIDE DEF new
<1>5. new \in [Levels -> Counters]
  BY <1>3, <1>4
<1>6. Trans(k, x) \in Transitions /\ Trans(k, x).init /\ Trans(k, x).counters = new
  BY <1>1, <1>5 DEF Transitions
<1> QED
  BY <1>3, <1>6

\* A merge leaves two blank values alone and adds up two others.
LEMMA MergeFacts ==
  ASSUME NEW k1 \in Transitions, NEW k2 \in Transitions, NEW stray \in Counters
  PROVE  /\ Merge(k1, k2, stray) \in Transitions
         /\ ~k1.init /\ ~k2.init => Merge(k1, k2, stray) = k1
         /\ k1.init \/ k2.init => Merge(k1, k2, stray).init
         /\ k2.init => \A l \in Levels, i \in Rows, c \in Cols :
              /\ k1.counters[l][i][c] \in Nat /\ k2.counters[l][i][c] \in Nat
              /\ Merge(k1, k2, stray).counters[l][i][c]
                   = k1.counters[l][i][c] + k2.counters[l][i][c]
<1>0. k1.init \in BOOLEAN /\ k2.init \in BOOLEAN
      /\ k1.counters \in [Levels -> Counters] /\ k2.counters \in [Levels -> Counters]
  BY DEF Transitions
<1>1. CASE ~k1.init /\ ~k2.init
  BY <1>1 DEF Merge
<1>2. CASE k1.init \/ k2.init
  <2> DEFINE m == Merge(k1, k2, stray)
             new == [l \in Levels |->
                       Sum2(k1.counters[l], IF k2.init THEN k2.counters[l] ELSE stray)]
  <2>1. m = [init |-> TRUE, counters |-> new]
    BY <1>2, Zenon DEF Merge
  <2>2. ASSUME NEW l \in Levels
        PROVE  /\ new[l] \in Counters
               /\ k2.init => \A i \in Rows, c \in Cols :
                    /\ k1.counters[l][i][c] \in Nat /\ k2.counters[l][i][c] \in Nat
                    /\ new[l][i][c] = k1.counters[l][i][c] + k2.counters[l][i][c]
    <3> DEFINE a == k1.counters[l]  b == IF k2.init THEN k2.counters[l] ELSE stray
    <3>1. a \in Counters /\ b \in Counters
      BY <1>0
    <3>2. new[l] = Sum2(a, b)
      OBVIOUS
    <3>3. k2.init => b = k2.counters[l]
      OBVIOUS
    <3> HIDE DEF a, b, new
    <3>4. /\ Sum2(a, b) \in Counters
          /\ \A i \in Rows, c \in Cols :
               Sum2(a, b)[i][c] = a[i][c] + b[i][c] /\ a[i][c] \in Nat /\ b[i][c] \in Nat
      BY <3>1, Sum2Facts
    <3> QED
      BY <3>2, <3>3, <3>4 DEF a
  <2>3. new = [l \in Levels |-> new[l]]
    OBVIOUS
  <2> HIDE DEF new
  <2>4. new \in [Levels -> Counters]
    BY <2>2, <2>3
  <2>5. m \in Transitions /\ m.init /\ m.counters = new
    BY <2>1, <2>4 DEF Transitions
  <2> QED
    BY <1>2, <2>2, <2>5
<1> QED
  BY <1>0, <1>1, <1>2

\* What the stray pointer leads to has the form of a sketch.
LEMMA StrayFacts == Stray \subseteq Counters
<1> DEFINE j == CHOOSE i \in Rows : TRUE
           odd == [Blank EXCEPT ![j] = [c \in Cols |-> 1]]
<1>1. odd \in Counters
  <2> HIDE DEF j
  <2>1. Blank \in [Rows -> [Cols -> Nat]]
    BY BlankFacts DEF Counters
  <2>2. [c \in Cols |-> 1] \in [Cols -> Nat]
    OBVIOUS
  <2> QED
    BY <2>1, <2>2 DEF Counters
<1> QED
  BY <1>1, BlankFacts DEF Stray

\* Any merge or transition leaves the state of its type.
THEOREM TypeCorrect == Spec => []TypeOK
<1>1. Init => TypeOK
  <2> SUFFICES ASSUME Init PROVE TypeOK
    OBVIOUS
  <2>1. part = [s \in Segments |-> Empty] /\ acc = Empty /\ merged = {} /\ Col \in Hashes
        /\ rows = [s \in Segments |-> [x \in Data |-> 0]]
    BY DEF Init
  <2>2. Empty \in Transitions
    BY EmptyFacts
  <2> QED
    BY <2>1, <2>2 DEF TypeOK, Transitions
<1>2. TypeOK /\ [Next]_vars => TypeOK'
  <2> SUFFICES ASSUME TypeOK, [Next]_vars PROVE TypeOK'
    OBVIOUS
  <2>0. part \in [Segments -> Transitions] /\ acc \in Transitions /\ Col \in Hashes
        /\ rows \in [Segments -> [Data -> Nat]] /\ merged \subseteq Segments
    BY DEF TypeOK, Transitions
  <2>1. ASSUME NEW s \in Segments, NEW x \in Data, Row(s, x) PROVE TypeOK'
    <3>1. part' = [part EXCEPT ![s] = Trans(part[s], x)]
          /\ rows' = [rows EXCEPT ![s][x] = @ + 1]
          /\ Col' = Col /\ acc' = acc /\ merged' = merged
      BY <2>1 DEF Row
    <3>2. Trans(part[s], x) \in Transitions
      BY <2>0, TransFacts
    <3>3. part' \in [Segments -> Transitions]
      BY <2>0, <3>1, <3>2
    <3>4. rows' \in [Segments -> [Data -> Nat]]
      BY <2>0, <3>1
    <3> QED
      BY <2>0, <3>1, <3>3, <3>4 DEF TypeOK, Transitions
  <2>2. ASSUME NEW s \in Segments, Gather(s) PROVE TypeOK'
    <3>1. PICK stray \in Stray : acc' = Merge(acc, part[s], stray)
      BY <2>2 DEF Gather
    <3>2. part' = part /\ rows' = rows /\ Col' = Col /\ merged' = merged \cup {s}
      BY <2>2 DEF Gather
    <3>3. Merge(acc, part[s], stray) \in Transitions
      BY <2>0, StrayFacts, MergeFacts
    <3> QED
      BY <2>0, <3>1, <3>2, <3>3 DEF TypeOK, Transitions
  <2>3. CASE UNCHANGED vars
    BY <2>3 DEF vars, TypeOK
  <2> QED
    BY <2>1, <2>2, <2>3 DEF Next
<1> QED
  BY <1>1, <1>2, PTL DEF Spec

-----------------------------------------------------------------------------
(* The counters of a sketch count what its rows are.                       *)

\* Where the values of a counter have been read.
LEMMA LandingIn ==
  ASSUME NEW S \in SUBSET Segments, NEW col, NEW l, NEW i, NEW c
  PROVE  S \X Landing(col, l, i, c) \in SUBSET Places
BY DEF Places, Landing

\* Before the first row,
LEMMA HoldsAtStart ==
  ASSUME NEW S \in SUBSET Segments, NEW r \in Tallies, \A p \in Places : Tally(r)[p] = 0, NEW col
  PROVE  Holds(Empty, r, S, col)
<1> SUFFICES ASSUME NEW l \in Levels, NEW i \in Rows, NEW c \in Cols
             PROVE  Empty.counters[l][i][c] = At(r, S \X Landing(col, l, i, c))
  BY DEF Holds
<1> DEFINE P == S \X Landing(col, l, i, c)
<1>1. P \in SUBSET Places
  BY LandingIn
<1> HIDE DEF P
<1>2. IsFiniteSet(P) /\ \A p \in P : Tally(r)[p] = 0
  BY <1>1, PlacesFinite, FS_Subset
<1>3. At(r, P) = 0
  BY <1>2, SumOfZeros DEF At
<1>4. Empty.counters[l][i][c] = 0
  BY EmptyFacts
<1> QED
  BY <1>3, <1>4 DEF P

\* no counter counts anything.
LEMMA CountedAtStart == Init => Counted
<1> SUFFICES ASSUME Init PROVE Counted
  OBVIOUS
<1>1. part = [s \in Segments |-> Empty] /\ acc = Empty /\ merged = {}
      /\ rows = [s \in Segments |-> [x \in Data |-> 0]]
  BY DEF Init
<1>2. rows \in Tallies
  BY <1>1 DEF Tallies
<1>3. \A p \in Places : Tally(rows)[p] = 0
  BY <1>1 DEF Tally, Places
<1>4. \A s \in Segments : {s} \in SUBSET Segments /\ Holds(Empty, rows, {s}, Col)
  <2> TAKE s \in Segments
  <2>1. {s} \in SUBSET Segments
    OBVIOUS
  <2> QED
    BY <1>2, <1>3, <2>1, HoldsAtStart
<1>5. Holds(Empty, rows, {}, Col)
  <2>1. {} \in SUBSET Segments
    OBVIOUS
  <2> QED
    BY <1>2, <1>3, <2>1, HoldsAtStart
<1> QED
  BY <1>1, <1>4, <1>5 DEF Counted

\* A row read by a segment reaches one counter of each row of each level.
LEMMA HoldsRow ==
  ASSUME Col \in Hashes, NEW k \in Transitions, NEW r \in Tallies, NEW s \in Segments,
         NEW x \in Data, Holds(k, r, {s}, Col)
  PROVE  Holds(Trans(k, x), [r EXCEPT ![s][x] = @ + 1], {s}, Col)
<1> DEFINE q == [r EXCEPT ![s][x] = @ + 1]
<1> SUFFICES ASSUME NEW l \in Levels, NEW i \in Rows, NEW c \in Cols
             PROVE  Trans(k, x).counters[l][i][c] = At(q, {s} \X Landing(Col, l, i, c))
  BY DEF Holds
<1> DEFINE P == {s} \X Landing(Col, l, i, c)
<1>1. P \in SUBSET Places
  <2>1. {s} \in SUBSET Segments
    OBVIOUS
  <2> QED
    BY <2>1, LandingIn
<1>2. <<s, x>> \in P <=> c = Col[x \div TwoTo[l]][i]
  BY DEF Landing
<1>3. k.counters[l][i][c] = At(r, P)
  BY DEF Holds
<1> HIDE DEF P
<1>4. At(q, P) = At(r, P) + (IF <<s, x>> \in P THEN 1 ELSE 0)
  BY <1>1, AtChanged
<1>5. Trans(k, x).counters[l][i][c]
        = k.counters[l][i][c] + (IF c = Col[x \div TwoTo[l]][i] THEN 1 ELSE 0)
  BY TransFacts
<1> HIDE DEF q
<1>6. Trans(k, x).counters[l][i][c] = At(q, P)
  BY <1>2, <1>3, <1>4, <1>5
<1> QED
  BY <1>6 DEF P

\* It is none of the rows of the others.
LEMMA HoldsElsewhere ==
  ASSUME NEW k, NEW r \in Tallies, NEW s \in Segments, NEW x \in Data,
         NEW S \in SUBSET Segments, s \notin S, NEW col, Holds(k, r, S, col)
  PROVE  Holds(k, [r EXCEPT ![s][x] = @ + 1], S, col)
<1> DEFINE q == [r EXCEPT ![s][x] = @ + 1]
<1> SUFFICES ASSUME NEW l \in Levels, NEW i \in Rows, NEW c \in Cols
             PROVE  k.counters[l][i][c] = At(q, S \X Landing(col, l, i, c))
  BY DEF Holds
<1> DEFINE P == S \X Landing(col, l, i, c)
<1>1. P \in SUBSET Places
  BY LandingIn
<1>2. <<s, x>> \notin P
  OBVIOUS
<1>3. k.counters[l][i][c] = At(r, P)
  BY DEF Holds
<1> HIDE DEF P
<1>4. At(q, P) = At(r, P) + (IF <<s, x>> \in P THEN 1 ELSE 0) /\ At(r, P) \in Nat
  BY <1>1, AtChanged, AtIsNat
<1> HIDE DEF q
<1>6. k.counters[l][i][c] = At(q, P)
  BY <1>2, <1>3, <1>4
<1> QED
  BY <1>6 DEF P

\* A merge adds the rows of the segment, if it has any.
LEMMA HoldsMerge ==
  ASSUME NEW k1 \in Transitions, NEW k2 \in Transitions, NEW r \in Tallies,
         NEW S \in SUBSET Segments, NEW s \in Segments, s \notin S, NEW col,
         Holds(k1, r, S, col), Holds(k2, r, {s}, col), k2.init \/ k2 = Empty,
         k2.init \/ ~k1.init, NEW stray \in Counters
  PROVE  Holds(Merge(k1, k2, stray), r, S \cup {s}, col)
<1> SUFFICES ASSUME NEW l \in Levels, NEW i \in Rows, NEW c \in Cols
             PROVE  Merge(k1, k2, stray).counters[l][i][c]
                      = At(r, (S \cup {s}) \X Landing(col, l, i, c))
  BY DEF Holds
<1> DEFINE L == Landing(col, l, i, c)  P == S \X L  Q == {s} \X L
           z == Merge(k1, k2, stray).counters[l][i][c]
           z1 == k1.counters[l][i][c]
           z2 == k2.counters[l][i][c]
<1>1. P \in SUBSET Places /\ Q \in SUBSET Places
  <2>1. {s} \in SUBSET Segments
    OBVIOUS
  <2> QED
    BY <2>1, LandingIn
<1>2. P \cap Q = {} /\ (S \cup {s}) \X L = P \cup Q
  <2> HIDE DEF L
  <2> QED
    OBVIOUS
<1>3. z1 = At(r, P) /\ z2 = At(r, Q)
  BY DEF Holds
<1>4. z = z1 + z2
  <2>1. CASE k2.init
    <3>1. \A j \in Levels, h \in Rows, d \in Cols :
            Merge(k1, k2, stray).counters[j][h][d]
              = k1.counters[j][h][d] + k2.counters[j][h][d]
      <4>1. k2.init => \A j \in Levels, h \in Rows, d \in Cols :
              /\ k1.counters[j][h][d] \in Nat /\ k2.counters[j][h][d] \in Nat
              /\ Merge(k1, k2, stray).counters[j][h][d]
                   = k1.counters[j][h][d] + k2.counters[j][h][d]
        BY MergeFacts
      <4> QED
        BY <2>1, <4>1
    <3> QED
      BY <3>1
  <2>2. CASE ~k2.init
    <3>1. ~k1.init /\ k2 = Empty
      BY <2>2
    <3>2. Merge(k1, k2, stray) = k1
      BY <2>2, <3>1, MergeFacts
    <3>3. z2 = 0
      BY <3>1, EmptyFacts
    <3>4. z1 \in Nat
      BY <1>1, <1>3, AtIsNat
    <3>5. z = z1
      BY <3>2
    <3> HIDE DEF z, z1, z2
    <3> QED
      BY <3>3, <3>4, <3>5
  <2> QED
    BY <2>1, <2>2
<1> HIDE DEF P, Q, L, z, z1, z2
<1>5. At(r, P \cup Q) = At(r, P) + At(r, Q)
  BY <1>1, <1>2, AtUnion
<1>6. z = At(r, (S \cup {s}) \X L)
  BY <1>2, <1>3, <1>4, <1>5
<1> QED
  BY <1>6 DEF z, L

\* The segments' values hold the rows they have read, the master's those of
\* the segments it has merged: unless a segment without rows meets one that has.
THEOREM SketchesHoldRows ==
  ASSUME EmptyParts = FALSE
  PROVE  Spec => []Counted
<1> DEFINE I == TypeOK /\ Counted
<1>1. Init => Counted
  BY CountedAtStart
<1>2. I /\ [Next]_vars => Counted'
  <2> SUFFICES ASSUME I, [Next]_vars PROVE Counted'
    OBVIOUS
  <2>0. part \in [Segments -> Transitions] /\ acc \in Transitions /\ Col \in Hashes
        /\ rows \in Tallies /\ merged \in SUBSET Segments
    BY DEF TypeOK, Transitions, Tallies
  <2>c. /\ \A t \in Segments : /\ Holds(part[t], rows, {t}, Col)
                               /\ part[t].init \/ part[t] = Empty
        /\ Holds(acc, rows, merged, Col)
        /\ acc.init \/ acc = Empty
    BY DEF Counted
  <2>1. ASSUME NEW s \in Segments, NEW x \in Data, Row(s, x) PROVE Counted'
    <3>1. s \notin merged /\ part' = [part EXCEPT ![s] = Trans(part[s], x)]
          /\ rows' = [rows EXCEPT ![s][x] = @ + 1]
          /\ Col' = Col /\ acc' = acc /\ merged' = merged
      BY <2>1 DEF Row
    <3>2. ASSUME NEW t \in Segments
          PROVE  Holds(part'[t], rows', {t}, Col) /\ (part'[t].init \/ part'[t] = Empty)
      <4>1. CASE t = s
        <5>1. part'[t] = Trans(part[s], x) /\ part[s] \in Transitions
          BY <2>0, <3>1, <4>1
        <5>2. Trans(part[s], x).init
          BY <2>0, <5>1, TransFacts
        <5>3. Holds(part[s], rows, {s}, Col)
          BY <2>c
        <5>4. Holds(Trans(part[s], x), rows', {s}, Col)
          BY <2>0, <3>1, <5>1, <5>3, HoldsRow
        <5> QED
          BY <4>1, <5>1, <5>2, <5>4
      <4>2. CASE t # s
        <5>1. part'[t] = part[t]
          BY <2>0, <3>1, <4>2
        <5>2. {t} \in SUBSET Segments /\ s \notin {t}
          BY <4>2
        <5>3. Holds(part[t], rows, {t}, Col)
          BY <2>c
        <5>4. Holds(part[t], rows', {t}, Col)
          BY <2>0, <3>1, <5>2, <5>3, HoldsElsewhere
        <5> QED
          BY <2>c, <5>1, <5>4
      <4> QED
        BY <4>1, <4>2
    <3>3. Holds(acc, rows', merged, Col)
      BY <2>0, <2>c, <3>1, HoldsElsewhere
    <3> QED
      BY <2>c, <3>1, <3>2, <3>3 DEF Counted
  <2>2. ASSUME NEW s \in Segments, Gather(s) PROVE Counted'
    <3>1. PICK stray \in Stray : acc' = Merge(acc, part[s], stray)
      BY <2>2 DEF Gather
    <3>2. part' = part /\ rows' = rows /\ Col' = Col /\ merged' = merged \cup {s}
          /\ s \notin merged /\ (part[s].init \/ ~acc.init)
      BY <2>2 DEF Gather
    <3>3. stray \in Counters /\ part[s] \in Transitions
          /\ Holds(part[s], rows, {s}, Col) /\ (part[s].init \/ part[s] = Empty)
      BY <2>0, <2>c, StrayFacts
    <3>4. Holds(Merge(acc, part[s], stray), rows, merged \cup {s}, Col)
      BY <2>0, <2>c, <3>2, <3>3, HoldsMerge
    <3>5. acc'.init \/ acc' = Empty
      <4>1. CASE acc.init \/ part[s].init
        BY <2>0, <3>1, <3>3, <4>1, MergeFacts
      <4>2. CASE ~acc.init /\ ~part[s].init
        <5>1. Merge(acc, part[s], stray) = acc
          <6> DEFINE p == part[s]
          <6>1. p \in Transitions /\ stray \in Counters /\ acc \in Transitions
                /\ ~acc.init /\ ~p.init
            BY <2>0, <3>3, <4>2
          <6> HIDE DEF p
          <6>2. Merge(acc, p, stray) = acc
            BY <6>1, MergeFacts
          <6> QED
            BY <6>2 DEF p
        <5> QED
          BY <2>c, <3>1, <5>1
      <4> QED
        BY <4>1, <4>2
    <3> QED
      BY <2>c, <3>1, <3>2, <3>4, <3>5 DEF Counted
  <2>3. CASE UNCHANGED vars
    <3>1. part' = part /\ rows' = rows /\ acc' = acc /\ merged' = merged /\ Col' = Col
      BY <2>3 DEF vars
    <3> QED
      BY <2>c, <3>1 DEF Counted
  <2> QED
    BY <2>1, <2>2, <2>3 DEF Next
<1> QED
  BY <1>1, <1>2, TypeCorrect, PTL DEF Spec

-----------------------------------------------------------------------------
(* A range count is that of the rows in the cells of its list.             *)

\* The rows behind the master's counters whose values are in S.
RowsFor(S) == At(rows, merged \X (Data \cap S))

\* The ghost counts the rows of the segments that are merged:
LEMMA RowsForIs ==
  ASSUME TypeOK, NEW S
  PROVE  RowsIn(S) = RowsFor(S) /\ RowsFor(S) \in Nat
         /\ merged \X (Data \cap S) \in SUBSET Places
<1>1. rows \in Tallies /\ merged \X (Data \cap S) \in SUBSET Places
  BY DEF TypeOK, Tallies, Places
<1> QED
  BY <1>1, RowsAtIs, AtIsNat DEF RowsIn, RowsFor

\* no more in a part,
LEMMA RowsForPart ==
  ASSUME TypeOK, NEW S, NEW T, S \subseteq T
  PROVE  RowsFor(S) <= RowsFor(T)
<1> DEFINE P == merged \X (Data \cap S)  Q == merged \X (Data \cap T)
<1>1. rows \in Tallies /\ P \in SUBSET Q /\ Q \in SUBSET Places
  BY DEF TypeOK, Tallies, Places
<1> HIDE DEF P, Q
<1>2. At(rows, P) <= At(rows, Q)
  BY <1>1, AtPart
<1> QED
  BY <1>2 DEF P, Q, RowsFor

\* and no more in a union than in both.
LEMMA RowsForUnion ==
  ASSUME TypeOK, NEW S, NEW T
  PROVE  /\ RowsFor(S \cup T) <= RowsFor(S) + RowsFor(T)
         /\ S \cap T = {} => RowsFor(S \cup T) = RowsFor(S) + RowsFor(T)
<1> DEFINE P == merged \X (Data \cap S)  Q == merged \X (Data \cap (T \ S))
<1>1. rows \in Tallies /\ P \in SUBSET Places /\ Q \in SUBSET Places /\ P \cap Q = {}
      /\ merged \X (Data \cap (S \cup T)) = P \cup Q
  BY DEF TypeOK, Tallies, Places
<1>2. RowsFor(S) = At(rows, P) /\ RowsFor(T \ S) = At(rows, Q)
      /\ RowsFor(S \cup T) = At(rows, P \cup Q)
  BY <1>1 DEF RowsFor
<1> HIDE DEF P, Q
<1>3. RowsFor(S \cup T) = RowsFor(S) + RowsFor(T \ S)
  BY <1>1, <1>2, AtUnion
<1>4. RowsFor(T \ S) <= RowsFor(T)
  BY RowsForPart
<1>5. RowsFor(S) \in Nat /\ RowsFor(T) \in Nat /\ RowsFor(T \ S) \in Nat
  BY RowsForIs
<1>6. S \cap T = {} => T \ S = T
  OBVIOUS
<1>7. CASE S \cap T = {}
  BY <1>3, <1>4, <1>5, <1>6, <1>7
<1>8. CASE S \cap T # {}
  BY <1>3, <1>4, <1>5, <1>8
<1> QED
  BY <1>7, <1>8

\* One dyadic range: never less than the rows in its cell, and no more where
\* no two values meet.
LEMMA CellCount ==
  ASSUME TypeOK, Counted, NEW r, Named(r)
  PROVE  /\ Count(Sketch[Level(r)], Prefix(r)) \in Nat
         /\ Count(Sketch[Level(r)], Prefix(r)) >= RowsFor(Cell(r))
         /\ Perfect => Count(Sketch[Level(r)], Prefix(r)) = RowsFor(Cell(r))
<1> DEFINE l == Level(r)  p == Prefix(r)  k == acc.counters[l]
           C == Cell(r)
           L(i) == Landing(Col, l, i, Col[p][i])
<1>1. l \in Levels /\ p \in Int64 /\ p \in Items /\ C = {x \in Int64 : x \div TwoTo[l] = p}
  BY CMSketchAssumption DEF Named, Cell
<1>2. acc.counters \in [Levels -> Counters] /\ k \in Counters /\ Col \in Hashes
      /\ rows \in Tallies /\ merged \in SUBSET Segments
  BY <1>1 DEF TypeOK, Tallies
<1>3. Sketch[Level(r)] = k
  BY DEF Sketch
<1>4. Col \in [Items -> [Rows -> Cols]]
  BY <1>2, CountMinAssumption
<1> HIDE DEF l, p, C
<1>5. ASSUME NEW i \in Rows
      PROVE  /\ k[i][Col[p][i]] = RowsFor(L(i)) /\ Data \cap C \subseteq L(i)
             /\ Perfect => L(i) = Data \cap C
  <2>1. Col[p][i] \in Cols
    BY <1>1, <1>4
  <2>2. k[i][Col[p][i]] = At(rows, merged \X L(i))
    <3>1. Holds(acc, rows, merged, Col)
      BY DEF Counted
    <3> QED
      BY <1>1, <2>1, <3>1 DEF Holds
  <2>3. L(i) = {x \in Data : Col[x \div TwoTo[l]][i] = Col[p][i]}
    BY DEF Landing
  <2>4. Data \cap L(i) = L(i)
    BY <2>3
  <2>5. Data \cap C \subseteq L(i)
    BY <1>1, <2>3
  <2>6. ASSUME Perfect, NEW x \in Data, Col[x \div TwoTo[l]][i] = Col[p][i]
        PROVE  x \in C
    <3>1. x \in Int64 /\ x \div TwoTo[l] \in Items
      BY <1>1, ShiftedIsItem
    <3>2. x \div TwoTo[l] = p
      BY <1>1, <2>6, <3>1 DEF Perfect
    <3> QED
      BY <1>1, <3>1, <3>2
  <2>7. Perfect => L(i) = Data \cap C
    BY <2>3, <2>5, <2>6
  <2> QED
    BY <2>2, <2>4, <2>5, <2>7 DEF RowsFor
<1> HIDE DEF k
<1>6. /\ Count(k, p) \in Nat
      /\ \E i \in Rows : Count(k, p) = k[i][Col[p][i]]
  BY <1>1, <1>2, CountFacts
<1>7. PICK i \in Rows : Count(k, p) = k[i][Col[p][i]]
  BY <1>6
<1>8. Count(k, p) = RowsFor(L(i)) /\ Data \cap C \subseteq L(i)
      /\ (Perfect => L(i) = Data \cap C)
  BY <1>5, <1>7
<1> HIDE DEF L
<1>9. RowsFor(Data \cap C) <= RowsFor(L(i)) /\ RowsFor(Data \cap C) = RowsFor(C)
  <2>1. Data \cap (Data \cap C) = Data \cap C
    OBVIOUS
  <2> QED
    BY <1>8, <2>1, RowsForPart DEF RowsFor
<1>10. RowsFor(C) \in Nat /\ RowsFor(L(i)) \in Nat
  BY RowsForIs
<1>11. /\ Count(k, p) \in Nat /\ Count(k, p) >= RowsFor(C)
       /\ Perfect => Count(k, p) = RowsFor(C)
  BY <1>8, <1>9, <1>10
<1> QED
  BY <1>3, <1>11 DEF l, p, C

\* The counts of the ranges of a list, and their cells.
Counting(R) == [k \in DOMAIN R |-> Count(Sketch[Level(R[k])], Prefix(R[k]))]
Reach(R, n) == {x \in Int64 : \E k \in 1..n : x \in Cell(R[k])}

\* The counts of a list of ranges, added up.
LEMMA ListCount ==
  ASSUME TypeOK, Counted, NEW R \in Lists, \A k \in 1..Len(R) : Named(R[k])
  PROVE  /\ SumOn(Counting(R), DOMAIN R) \in Nat
         /\ SumOn(Counting(R), DOMAIN R) >= RowsFor(Reach(R, Len(R)))
         /\ Perfect /\ Apart(R) => SumOn(Counting(R), DOMAIN R) = RowsFor(Reach(R, Len(R)))
<1> DEFINE m == Len(R)  g == Counting(R)
           Good(n) == /\ SumOn(g, 1..n) \in Nat
                      /\ SumOn(g, 1..n) >= RowsFor(Reach(R, n))
                      /\ Perfect /\ Apart(R) => SumOn(g, 1..n) = RowsFor(Reach(R, n))
           G == {n \in Nat : n <= m => Good(n)}
<1>1. m \in Nat /\ DOMAIN R = 1..m
  BY LenProperties DEF Lists
<1>2. ASSUME NEW k \in 1..m
      PROVE  /\ g[k] \in Nat /\ g[k] >= RowsFor(Cell(R[k]))
             /\ Perfect => g[k] = RowsFor(Cell(R[k]))
  <2> DEFINE r == R[k]
  <2>1. Named(r)
    OBVIOUS
  <2>2. g[k] = Count(Sketch[Level(r)], Prefix(r))
    BY <1>1 DEF Counting
  <2> HIDE DEF r, g
  <2> QED
    BY <2>1, <2>2, CellCount DEF r
<1> HIDE DEF g
<1>3. IsFiniteSet(1..m) /\ Counts(g, 1..m)
  <2>1. Counts(g, 1..m)
    BY <1>2 DEF Counts
  <2>2. 1 \in Int /\ m \in Int
    BY <1>1
  <2> QED
    BY <2>1, <2>2, FS_Interval
<1>4. 0 \in G
  <2>1. 1..0 = {} /\ Reach(R, 0) = {}
    BY DEF Reach
  <2>2. SumOn(g, 1..0) = 0
    BY <2>1, SumOfNone
  <2>3. RowsFor(Reach(R, 0)) = 0
    <3>1. merged \X (Data \cap Reach(R, 0)) = {}
      BY <2>1
    <3> QED
      BY <3>1, AtNone DEF RowsFor
  <2> QED
    BY <2>2, <2>3
<1>5. ASSUME NEW n \in Nat, n \in G PROVE n + 1 \in G
  <2> SUFFICES ASSUME n + 1 <= m PROVE Good(n + 1)
    OBVIOUS
  <2> DEFINE k == n + 1  old == Reach(R, n)  C == Cell(R[k])
             s == SumOn(g, 1..n)  t == SumOn(g, 1..k)
  <2>1. k \in 1..m /\ 1..n \in SUBSET (1..m) /\ k \notin 1..n /\ 1..k = (1..n) \cup {k} /\ n <= m
    BY <1>1, <1>5
  <2>2. Good(n)
    BY <1>5, <2>1
  <2>3. t = g[k] + s
    <3> DEFINE A == 1..m  T == 1..n
    <3>1. IsFiniteSet(A) /\ Counts(g, A) /\ T \in SUBSET A /\ k \in A /\ k \notin T
          /\ 1..k = T \cup {k}
      BY <1>3, <2>1
    <3> HIDE DEF k, A, T
    <3>2. SumOn(g, T \cup {k}) = g[k] + SumOn(g, T)
      BY <3>1, SumAdd
    <3> QED
      BY <3>1, <3>2 DEF T
  <2>4. Reach(R, k) = old \cup C
    <3>1. \A j : j \in 1..k <=> j \in 1..n \/ j = k
      BY <2>1
    <3>2. C \subseteq Int64
      BY DEF Cell
    <3> HIDE DEF k
    <3> QED
      BY <3>1, <3>2 DEF Reach
  <2>5. Apart(R) => old \cap C = {}
    <3>1. \A j \in 1..n : j \in 1..m /\ j # k
      BY <2>1
    <3> HIDE DEF k
    <3> QED
      BY <2>1, <3>1 DEF Apart, Reach
  <2>6. /\ RowsFor(old \cup C) <= RowsFor(old) + RowsFor(C)
        /\ old \cap C = {} => RowsFor(old \cup C) = RowsFor(old) + RowsFor(C)
    BY RowsForUnion
  <2>7. RowsFor(old) \in Nat /\ RowsFor(C) \in Nat /\ RowsFor(old \cup C) \in Nat
    BY RowsForIs
  <2>8. g[k] \in Nat /\ g[k] >= RowsFor(C) /\ (Perfect => g[k] = RowsFor(C))
    BY <1>2, <2>1
  <2>9. s \in Nat /\ s >= RowsFor(old) /\ (Perfect /\ Apart(R) => s = RowsFor(old))
    BY <2>2
  <2> HIDE DEF k, old, C, s, t, Good
  <2>10. t \in Nat /\ t >= RowsFor(old \cup C)
    BY <2>3, <2>6, <2>7, <2>8, <2>9
  <2>11. Perfect /\ Apart(R) => t = RowsFor(old \cup C)
    BY <2>3, <2>5, <2>6, <2>7, <2>8, <2>9
  <2> QED
    BY <2>4, <2>10, <2>11 DEF Good, k, t
<1> HIDE DEF G
<1>6. m \in G
  BY <1>1, <1>4, <1>5, NatInduct
<1>7. Good(m)
  BY <1>1, <1>6 DEF G
<1> QED
  BY <1>1, <1>7 DEF g

\* __do_rangecount, by the rows of the range.
LEMMA RangeCountFacts ==
  ASSUME TypeOK, Counted, NEW b \in MinInt..MaxInt, NEW t \in MinInt..MaxInt, b <= t
  PROVE  /\ RangeCount(Sketch, b, t) \in Nat
         /\ RangeCount(Sketch, b, t) >= RowsFor(Span(b, t))
         /\ Perfect /\ (t # MaxInt \/ b <= 1)
              => RangeCount(Sketch, b, t) = RowsFor(Span(b, t))
<1> DEFINE R == FindRanges(b, t)  S == Span(b, t)
<1>1. R \in Lists
  <2>1. W - 1 \in Int
    BY WAssumption
  <2>2. FindRanges(b, t) = Found(b, t, W - 1)
    BY DEF FindRanges, Found, Ranges
  <2> QED
    BY <2>1, <2>2, FoundIs
<1>2. Covers(R, S) /\ (t # MaxInt \/ b <= 1 => Tiles(R, S)) /\ S \subseteq Int64
  BY FindRangesCovers, FindRangesTiles DEF Span
<1>3. RangeCount(Sketch, b, t) = SumOn(Counting(R), DOMAIN R)
  BY DEF RangeCount, SumOfCounts, SumOn, Counting
<1> HIDE DEF R, S
<1>4. \A k \in 1..Len(R) : Named(R[k])
  BY <1>2 DEF Covers
<1>5. /\ SumOn(Counting(R), DOMAIN R) \in Nat
      /\ SumOn(Counting(R), DOMAIN R) >= RowsFor(Reach(R, Len(R)))
      /\ Perfect /\ Apart(R) => SumOn(Counting(R), DOMAIN R) = RowsFor(Reach(R, Len(R)))
  BY <1>1, <1>4, ListCount
<1>6. S \subseteq Reach(R, Len(R))
  BY <1>2 DEF Covers, Reach
<1>7. RowsFor(S) <= RowsFor(Reach(R, Len(R)))
  BY <1>6, RowsForPart
<1>8. RowsFor(S) \in Nat /\ RowsFor(Reach(R, Len(R))) \in Nat
  BY RowsForIs
<1>9. SumOn(Counting(R), DOMAIN R) >= RowsFor(S)
  BY <1>5, <1>7, <1>8
<1>10. ASSUME t # MaxInt \/ b <= 1 PROVE Apart(R) /\ Reach(R, Len(R)) = S
  BY <1>2, <1>6, <1>10 DEF Tiles, Within, Reach
<1> QED
  BY <1>3, <1>5, <1>9, <1>10 DEF S

\* The ghost's rows are those of the range.
LEMMA RowsOfIs ==
  ASSUME TypeOK, NEW b \in MinInt..MaxInt, NEW t
  PROVE  RowsOf(b, t) = RowsFor(Span(b, t))
<1>1. /\ M \in Nat /\ M >= 4 /\ MinInt = 1 - M /\ b \in Int
      /\ \A x \in Int64 : x \in Int /\ -M <= x
  BY Int64Is, EndFacts
<1> DEFINE T == {x \in Int64 : (b <= x \/ b = MinInt) /\ x <= t}
<1>2. T = Span(b, t)
  <2>1. \A x \in Int64 : (b <= x \/ b = MinInt) <=> Lo(b) <= x
    <3> TAKE x \in Int64
    <3> QED
      BY <1>1 DEF Lo
  <2> QED
    BY <2>1 DEF Span
<1> HIDE DEF T
<1>3. RowsIn(T) = RowsFor(T)
  BY RowsForIs
<1> QED
  BY <1>2, <1>3 DEF RowsOf, T

\* No query sees fewer rows than there are.
THEOREM QueriesNeverUndercount ==
  ASSUME EmptyParts = FALSE
  PROVE  Spec => []NeverUndercounts
<1>1. ASSUME TypeOK, Counted PROVE NeverUndercounts
  <2> SUFFICES ASSUME NEW q \in Queries
               PROVE  RangeCount(Sketch, q[1], q[2]) >= RowsOf(q[1], q[2])
    BY DEF NeverUndercounts
  <2> DEFINE b == q[1]  t == q[2]
  <2>1. b \in MinInt..MaxInt /\ t \in MinInt..MaxInt /\ b <= t
    BY DEF Queries
  <2> HIDE DEF b, t
  <2>2. RangeCount(Sketch, b, t) >= RowsOf(b, t)
    BY <1>1, <2>1, RangeCountFacts, RowsOfIs
  <2> QED
    BY <2>2 DEF b, t
<1> QED
  BY <1>1, TypeCorrect, SketchesHoldRows, PTL

\* Where no values collide, a query sees each row once.
THEOREM RangeCountsAreExact ==
  ASSUME EmptyParts = FALSE
  PROVE  Spec => []RangeCountIsExact
<1>1. ASSUME TypeOK, Counted PROVE RangeCountIsExact
  <2> SUFFICES ASSUME Perfect
               PROVE  /\ \A q \in Queries : q[2] < MaxInt =>
                           RangeCount(Sketch, q[1], q[2]) = RowsOf(q[1], q[2])
                      /\ RangeCount(Sketch, MinInt, MaxInt) = Total
    BY DEF RangeCountIsExact
  <2>0. M \in Nat /\ M >= 4 /\ MinInt = 1 - M /\ MaxInt = M - 1
    BY EndFacts
  <2>1. ASSUME NEW q \in Queries, q[2] < MaxInt
        PROVE  RangeCount(Sketch, q[1], q[2]) = RowsOf(q[1], q[2])
    <3> DEFINE b == q[1]  t == q[2]
    <3>1. b \in MinInt..MaxInt /\ t \in MinInt..MaxInt /\ b <= t /\ t # MaxInt
      BY <2>0, <2>1 DEF Queries
    <3> HIDE DEF b, t
    <3>2. RangeCount(Sketch, b, t) = RowsOf(b, t)
      BY <1>1, <3>1, RangeCountFacts, RowsOfIs
    <3> QED
      BY <3>2 DEF b, t
  <2>2. RangeCount(Sketch, MinInt, MaxInt) = Total
    <3>1. MinInt \in MinInt..MaxInt /\ MaxInt \in MinInt..MaxInt /\ MinInt <= MaxInt /\ MinInt <= 1
      BY <2>0
    <3>2. RangeCount(Sketch, MinInt, MaxInt) = RowsFor(Span(MinInt, MaxInt))
      BY <1>1, <3>1, RangeCountFacts
    <3>3. Span(MinInt, MaxInt) = Int64
      <4>1. \A x \in Int64 : Lo(MinInt) <= x /\ x <= MaxInt
        BY <2>0, Int64Is DEF Lo
      <4> QED
        BY <4>1 DEF Span
    <3> QED
      BY <1>1, <3>2, <3>3, RowsForIs DEF Total
  <2> QED
    BY <2>1, <2>2
<1> QED
  BY <1>1, TypeCorrect, SketchesHoldRows, PTL

-----------------------------------------------------------------------------
(* The binary search for a centile.                                        *)

Searches == [lo: Int, hi: Int, cur: Int]
Start == [lo |-> MinInt, hi |-> MaxInt, cur |-> 0]
Inside(s) == MinInt <= s.lo /\ s.lo <= s.cur /\ s.cur <= s.hi /\ s.hi <= MaxInt

\* Half of a distance, rounded either way.
LEMMA Halving ==
  ASSUME NEW d \in Nat
  PROVE  /\ d \div 2 \in Nat /\ d \div 2 <= d
         /\ \A e \in Nat : d <= 2 * e => d \div 2 <= e /\ d - d \div 2 <= e
OBVIOUS

\* The three outcomes of a turn.
LEMMA TurnIs ==
  ASSUME NEW s \in Searches, NEW sk, NEW p, NEW total
  PROVE  LET n == RangeCount(sk, MinInt, s.cur) * 100
             u == Turn(s, sk, p, total)
         IN /\ u \in Searches
            /\ \/ u = s /\ (s.hi - s.lo <= 1 \/ n = total * p)
               \/ /\ n > total * p /\ u.lo = s.lo /\ u.hi = s.cur
                  /\ u.cur = s.lo + (s.cur - s.lo) \div 2
               \/ /\ ~(n > total * p) /\ n # total * p /\ u.lo = s.cur /\ u.hi = s.hi
                  /\ u.cur = s.hi - (s.hi - s.cur) \div 2
<1> DEFINE n == RangeCount(sk, MinInt, s.cur) * 100
           g == total * p
           u == Turn(s, sk, p, total)
           down == [lo |-> s.lo, hi |-> s.cur, cur |-> s.lo + (s.cur - s.lo) \div 2]
           up == [lo |-> s.cur, hi |-> s.hi, cur |-> s.hi - (s.hi - s.cur) \div 2]
<1>1. s.lo \in Int /\ s.hi \in Int /\ s.cur \in Int
  BY DEF Searches
<1>2. (s.cur - s.lo) \div 2 \in Int /\ (s.hi - s.cur) \div 2 \in Int
  BY <1>1
<1>3. down \in Searches /\ up \in Searches
  BY <1>1, <1>2 DEF Searches
<1>4. /\ down.lo = s.lo /\ down.hi = s.cur /\ down.cur = s.lo + (s.cur - s.lo) \div 2
      /\ up.lo = s.cur /\ up.hi = s.hi /\ up.cur = s.hi - (s.hi - s.cur) \div 2
  OBVIOUS
<1>5. u = IF s.hi - s.lo <= 1 \/ n = g THEN s ELSE IF n > g THEN down ELSE up
  BY Zenon DEF Turn, Halved
<1> HIDE DEF n, g, u, down, up
<1>6. /\ u \in Searches
      /\ \/ u = s /\ (s.hi - s.lo <= 1 \/ n = g)
         \/ /\ n > g /\ u.lo = s.lo /\ u.hi = s.cur
            /\ u.cur = s.lo + (s.cur - s.lo) \div 2
         \/ /\ ~(n > g) /\ n # g /\ u.lo = s.cur /\ u.hi = s.hi
            /\ u.cur = s.hi - (s.hi - s.cur) \div 2
  <2>1. CASE s.hi - s.lo <= 1 \/ n = g
    BY <1>5, <2>1
  <2>2. CASE ~(s.hi - s.lo <= 1 \/ n = g) /\ n > g
    <3>1. u = down
      BY <1>5, <2>2
    <3> QED
      BY <1>3, <1>4, <2>2, <3>1
  <2>3. CASE ~(s.hi - s.lo <= 1 \/ n = g) /\ ~(n > g)
    <3>1. u = up
      BY <1>5, <2>3
    <3> QED
      BY <1>3, <1>4, <2>3, <3>1
  <2> QED
    BY <2>1, <2>2, <2>3
<1> QED
  BY <1>6 DEF n, g, u

\* The search starts in the middle and takes turns.
LEMMA GuessesAre ==
  ASSUME NEW sk, NEW p, NEW total
  PROVE  /\ Guesses(sk, p, total) \in [Nat -> Searches]
         /\ Guesses(sk, p, total)[0] = Start
         /\ \A k \in Nat : Guesses(sk, p, total)[k + 1]
                             = Turn(Guesses(sk, p, total)[k], sk, p, total)
<1> DEFINE T(s) == Turn(s, sk, p, total)
           at == Guesses(sk, p, total)
           step == [c \in Nat \X Searches |-> T(c[2])]
           F(g) == g = [k \in Nat |-> IF k = 0 THEN Start ELSE T(g[k - 1])]
<1>1. \A s \in Searches : T(s) \in Searches
  BY TurnIs
<1>2. Start \in Searches
  BY EndFacts DEF Start, Searches
<1>3. at = CHOOSE g : F(g)
  BY Zenon DEF Guesses, Start
<1> HIDE DEF T
<1>4. step \in [Nat \X Searches -> Searches]
  BY <1>1
<1>5. \A n \in Nat, s \in Searches : step[<<n, s>>] = T(s)
  OBVIOUS
<1> HIDE DEF step, at
<1>6. PICK f : Iterates(f, Searches, Start, step)
  BY <1>2, <1>4, NatRecursion
<1>7. f \in [Nat -> Searches] /\ F(f)
  <2>1. f \in [Nat -> Searches]
    BY <1>6 DEF Iterates
  <2>2. ASSUME NEW k \in Nat PROVE f[k] = IF k = 0 THEN Start ELSE T(f[k - 1])
    <3>1. f[k] = IF k = 0 THEN Start ELSE step[<<k - 1, f[k - 1]>>]
      BY <1>6 DEF Iterates
    <3>2. CASE k = 0
      BY <3>1, <3>2
    <3>3. CASE k # 0
      <4>1. k - 1 \in Nat /\ f[k - 1] \in Searches
        BY <2>1, <3>3
      <4> QED
        BY <1>5, <3>1, <3>3, <4>1
    <3> QED
      BY <3>2, <3>3
  <2> QED
    BY <2>1, <2>2
<1>8. F(at)
  <2> HIDE DEF F
  <2> QED
    BY <1>3, <1>7
<1>9. at \in [Nat -> Searches]
  <2> DEFINE Bad == {k \in Nat : at[k] # f[k]}
  <2>1. Bad = {}
    <3> SUFFICES ASSUME Bad # {} PROVE FALSE
      OBVIOUS
    <3>1. PICK m \in Bad : \A k \in Bad : m <= k
      <4>1. Bad \in SUBSET Nat
        OBVIOUS
      <4> HIDE DEF Bad
      <4> QED
        BY <4>1, LeastNumber
    <3>2. m \in Nat /\ at[m] # f[m]
      OBVIOUS
    <3>3. CASE m = 0
      BY <1>7, <1>8, <3>2, <3>3
    <3>4. CASE m # 0
      <4>1. m - 1 \in Nat /\ m - 1 \notin Bad
        BY <3>1, <3>2, <3>4
      <4>2. at[m - 1] = f[m - 1]
        BY <4>1
      <4> QED
        BY <1>7, <1>8, <3>2, <3>4, <4>2
    <3> QED
      BY <3>3, <3>4
  <2>2. at = [k \in Nat |-> at[k]]
    BY <1>8
  <2> QED
    BY <1>7, <2>1, <2>2
<1>10. at[0] = Start /\ \A k \in Nat : at[k + 1] = T(at[k])
  <2>1. at[0] = Start
    BY <1>8
  <2>2. ASSUME NEW k \in Nat PROVE at[k + 1] = T(at[k])
    <3>1. k + 1 \in Nat /\ k + 1 # 0 /\ (k + 1) - 1 = k
      OBVIOUS
    <3> QED
      BY <1>8, <3>1
  <2> QED
    BY <2>1, <2>2
<1> QED
  BY <1>9, <1>10 DEF T, at

\* The guess stays between the ends, whatever the counters are.
LEMMA GuessesInside ==
  ASSUME NEW sk, NEW p, NEW total, NEW k \in Nat
  PROVE  Guesses(sk, p, total)[k] \in Searches /\ Inside(Guesses(sk, p, total)[k])
<1> DEFINE at == Guesses(sk, p, total)
           G == {n \in Nat : Inside(at[n])}
<1>1. at \in [Nat -> Searches] /\ at[0] = Start
      /\ \A n \in Nat : at[n + 1] = Turn(at[n], sk, p, total)
  BY GuessesAre
<1> HIDE DEF at
<1>2. 0 \in G
  BY <1>1, EndFacts DEF Inside, Start
<1>3. ASSUME NEW n \in Nat, n \in G PROVE n + 1 \in G
  <2> DEFINE s == at[n]  u == at[n + 1]  d == s.cur - s.lo  e == s.hi - s.cur
  <2>1. s \in Searches /\ Inside(s) /\ u = Turn(s, sk, p, total)
    BY <1>1, <1>3
  <2>2. /\ s.lo \in Int /\ s.hi \in Int /\ s.cur \in Int /\ MinInt \in Int /\ MaxInt \in Int
    BY <2>1, EndFacts DEF Searches
  <2>3. d \in Nat /\ e \in Nat
    BY <2>1, <2>2 DEF Inside
  <2>4. d \div 2 \in Nat /\ d \div 2 <= d /\ e \div 2 \in Nat /\ e \div 2 <= e
    BY <2>3, Halving
  <2>5. \/ u = s
        \/ u.lo = s.lo /\ u.hi = s.cur /\ u.cur = s.lo + d \div 2
        \/ u.lo = s.cur /\ u.hi = s.hi /\ u.cur = s.hi - e \div 2
    BY <2>1, TurnIs
  <2>6. d = s.cur - s.lo /\ e = s.hi - s.cur
    OBVIOUS
  <2> HIDE DEF s, u, d, e
  <2>7. Inside(u)
    BY <2>1, <2>2, <2>3, <2>4, <2>5, <2>6 DEF Inside
  <2> QED
    BY <2>7 DEF u
<1> HIDE DEF G
<1>4. k \in G
  BY <1>2, <1>3, NatInduct
<1> QED
  BY <1>1, <1>4 DEF G, at

\* A centile is an integer that a range may name.
LEMMA CentileInside ==
  ASSUME NEW sk, NEW p, NEW total
  PROVE  Centile(sk, p, total) \in Int
         /\ MinInt <= Centile(sk, p, total) /\ Centile(sk, p, total) <= MaxInt
<1> DEFINE s == Guesses(sk, p, total)[W - 1]
<1>1. W - 1 \in Nat
  BY WAssumption
<1>2. s \in Searches /\ Inside(s)
  BY <1>1, GuessesInside
<1>3. Centile(sk, p, total) = s.cur
  BY DEF Centile, Ranges
<1> HIDE DEF s
<1> QED
  BY <1>2, <1>3, EndFacts DEF Searches, Inside

\* The rows up to x.
Below(x) == RowsFor(Span(MinInt, x))

\* The rows up to a value are counted right, and grow with it.
LEMMA BelowFacts ==
  ASSUME TypeOK, Counted, Perfect, NEW x \in MinInt..MaxInt
  PROVE  /\ Below(x) \in Nat /\ RangeCount(Sketch, MinInt, x) = Below(x)
         /\ RowsOf(MinInt, x) = Below(x)
         /\ \A y \in MinInt..MaxInt : x <= y => Below(x) <= Below(y)
<1>1. MinInt \in MinInt..MaxInt /\ MinInt <= x /\ MinInt <= 1
  BY EndFacts
<1>2. RangeCount(Sketch, MinInt, x) = Below(x)
  BY <1>1, RangeCountFacts DEF Below
<1>3. Below(x) \in Nat
  BY RowsForIs DEF Below
<1>4. RowsOf(MinInt, x) = Below(x)
  BY <1>1, RowsOfIs DEF Below
<1>5. ASSUME NEW y \in MinInt..MaxInt, x <= y PROVE Below(x) <= Below(y)
  <2>1. \A z \in Int64 : z <= x => z <= y
    <3> TAKE z \in Int64
    <3>1. z \in Int /\ x \in Int /\ y \in Int
      BY Int64Is, EndFacts
    <3> QED
      BY <1>5, <3>1
  <2>2. Span(MinInt, x) \subseteq Span(MinInt, y)
    BY <2>1 DEF Span
  <2> QED
    BY <2>2, RowsForPart DEF Below
<1> QED
  BY <1>2, <1>3, <1>4, <1>5

\* What the search keeps: too few rows at lo, too many at hi, and either the
\* guess is right or neither end is farther from it than D.
Bracket(s, g, D) ==
  /\ s.lo = MinInt \/ Below(s.lo) * 100 < g
  /\ s.hi = MaxInt \/ Below(s.hi) * 100 > g
  /\ \/ Below(s.cur) * 100 = g
     \/ s.cur - s.lo <= D /\ s.hi - s.cur <= D

\* A turn keeps that, and halves D.
LEMMA TurnBrackets ==
  ASSUME TypeOK, Counted, Perfect, NEW s \in Searches, Inside(s), NEW p, NEW total,
         total * p \in Int, NEW E \in Nat, E >= 1, Bracket(s, total * p, 2 * E)
  PROVE  Bracket(Turn(s, Sketch, p, total), total * p, E)
<1> DEFINE g == total * p  u == Turn(s, Sketch, p, total)
           d == s.cur - s.lo  e == s.hi - s.cur
           n == RangeCount(Sketch, MinInt, s.cur) * 100
<1>1. /\ s.lo \in Int /\ s.hi \in Int /\ s.cur \in Int /\ MinInt \in Int /\ MaxInt \in Int
      /\ s.lo <= s.cur /\ s.cur <= s.hi /\ s.cur \in MinInt..MaxInt
  BY EndFacts DEF Searches, Inside
<1>2. d \in Nat /\ e \in Nat /\ d = s.cur - s.lo /\ e = s.hi - s.cur
  BY <1>1
<1>3. /\ d \div 2 \in Nat /\ (d <= 2 * E => d \div 2 <= E /\ d - d \div 2 <= E)
      /\ e \div 2 \in Nat /\ (e <= 2 * E => e \div 2 <= E /\ e - e \div 2 <= E)
  BY <1>2, Halving
<1>4. Below(s.cur) \in Nat /\ n = Below(s.cur) * 100
  BY <1>1, BelowFacts
<1>5. \/ u = s /\ (s.hi - s.lo <= 1 \/ n = g)
      \/ n > g /\ u.lo = s.lo /\ u.hi = s.cur /\ u.cur = s.lo + d \div 2
      \/ /\ ~(n > g) /\ n # g /\ u.lo = s.cur /\ u.hi = s.hi
         /\ u.cur = s.hi - e \div 2
  BY TurnIs
<1>6. /\ s.lo = MinInt \/ Below(s.lo) * 100 < g
      /\ s.hi = MaxInt \/ Below(s.hi) * 100 > g
      /\ \/ Below(s.cur) * 100 = g
         \/ d <= 2 * E /\ e <= 2 * E
  BY DEF Bracket
<1> HIDE DEF g, u, d, e, n
<1>7. g \in Int
  BY DEF g
<1>8. CASE u = s /\ (s.hi - s.lo <= 1 \/ n = g)
  <2>1. \/ Below(s.cur) * 100 = g
        \/ s.cur - s.lo <= E /\ s.hi - s.cur <= E
    BY <1>1, <1>4, <1>8
  <2>2. Bracket(s, g, E)
    BY <1>6, <2>1 DEF Bracket
  <2> QED
    BY <1>8, <2>2 DEF g, u
<1>9. CASE n > g /\ u.lo = s.lo /\ u.hi = s.cur /\ u.cur = s.lo + d \div 2
  <2>1. d <= 2 * E
    BY <1>4, <1>6, <1>7, <1>9
  <2>2. u.cur - u.lo <= E /\ u.hi - u.cur <= E
    BY <1>1, <1>2, <1>3, <1>9, <2>1
  <2>3. Below(u.hi) * 100 > g /\ (u.lo = MinInt \/ Below(u.lo) * 100 < g)
    BY <1>4, <1>6, <1>9
  <2>4. Bracket(u, g, E)
    BY <2>2, <2>3 DEF Bracket
  <2> QED
    BY <2>4 DEF g, u
<1>10. CASE /\ ~(n > g) /\ n # g /\ u.lo = s.cur /\ u.hi = s.hi
            /\ u.cur = s.hi - e \div 2
  <2>1. e <= 2 * E
    BY <1>4, <1>6, <1>10
  <2>2. u.cur - u.lo <= E /\ u.hi - u.cur <= E
    BY <1>1, <1>2, <1>3, <1>10, <2>1
  <2>3. Below(u.lo) * 100 < g /\ (u.hi = MaxInt \/ Below(u.hi) * 100 > g)
    BY <1>4, <1>6, <1>7, <1>10
  <2>4. Bracket(u, g, E)
    BY <2>2, <2>3 DEF Bracket
  <2> QED
    BY <2>4 DEF g, u
<1> QED
  BY <1>5, <1>8, <1>9, <1>10

\* After all turns the ends are next to the guess.
LEMMA GuessesBracket ==
  ASSUME TypeOK, Counted, Perfect, NEW p, NEW total, total * p \in Int
  PROVE  Bracket(Guesses(Sketch, p, total)[W - 1], total * p, 1)
<1> DEFINE at == Guesses(Sketch, p, total)
           G == {n \in Nat : n <= W - 1 => Bracket(at[n], total * p, TwoTo[W - 1 - n])}
<1>0. W \in Nat /\ W >= 3 /\ W - 1 \in Nat
  BY WAssumption
<1>1. at \in [Nat -> Searches] /\ at[0] = Start
      /\ \A n \in Nat : at[n + 1] = Turn(at[n], Sketch, p, total)
  BY GuessesAre
<1>2. \A n \in Nat : at[n] \in Searches /\ Inside(at[n])
  BY GuessesInside
<1> HIDE DEF at
<1>3. 0 \in G
  <2>1. W - 1 - 0 = W - 1 /\ TwoTo[W - 1] = M
    BY <1>0 DEF M
  <2>2. Bracket(Start, total * p, M)
    BY EndFacts DEF Bracket, Start
  <2> QED
    BY <1>1, <2>1, <2>2
<1>4. ASSUME NEW n \in Nat, n \in G PROVE n + 1 \in G
  <2> SUFFICES ASSUME n + 1 <= W - 1
               PROVE  Bracket(at[n + 1], total * p, TwoTo[W - 1 - (n + 1)])
    OBVIOUS
  <2> DEFINE j == W - 1 - (n + 1)  E == TwoTo[j]  s == at[n]
  <2>1. j \in Nat /\ W - 1 - n = j + 1 /\ n <= W - 1
    BY <1>0
  <2>2. Bracket(s, total * p, TwoTo[W - 1 - n])
    BY <1>4, <2>1
  <2> HIDE DEF j
  <2>3. E \in Nat /\ E >= 1 /\ TwoTo[j + 1] = 2 * E
    BY <2>1, PowerStep, PowerFacts
  <2>4. Bracket(s, total * p, 2 * E)
    BY <2>1, <2>2, <2>3
  <2>5. s \in Searches /\ Inside(s) /\ at[n + 1] = Turn(s, Sketch, p, total)
    BY <1>1, <1>2
  <2> HIDE DEF s, E
  <2>6. Bracket(Turn(s, Sketch, p, total), total * p, E)
    BY <2>3, <2>4, <2>5, TurnBrackets
  <2> QED
    BY <2>5, <2>6 DEF E, j
<1> HIDE DEF G
<1>5. W - 1 \in G
  BY <1>0, <1>3, <1>4, NatInduct
<1>6. W - 1 - (W - 1) = 0 /\ TwoTo[0] = 1
  BY <1>0, PowerStep
<1> QED
  BY <1>0, <1>5, <1>6 DEF G, at

\* The value that a search returns is within one of the centile.
THEOREM CentilesAreClose ==
  ASSUME EmptyParts = FALSE
  PROVE  Spec => []CentileIsClose
<1>1. ASSUME TypeOK, Counted PROVE CentileIsClose
  <2> SUFFICES ASSUME Perfect, Total > 0, NEW p \in {1, 25, 50, 90, 99}
               PROVE  LET c == Centile(Sketch, p, Total)
                      IN /\ MinInt <= c /\ c <= MaxInt
                         /\ c > MinInt + 1 => RowsOf(MinInt, c - 1) * 100 <= Total * p
                         /\ c < MaxInt => RowsOf(MinInt, c + 1) * 100 >= Total * p
    BY DEF CentileIsClose
  <2> DEFINE t == Total  g == t * p  s == Guesses(Sketch, p, t)[W - 1]  c == s.cur
  <2>1. t \in Nat
    BY <1>1, RowsForIs DEF Total
  <2>2. c = Centile(Sketch, p, t)
    BY DEF Centile, Ranges
  <2>3. p \in Nat /\ p <= 100 /\ W - 1 \in Nat
    BY WAssumption
  <2> HIDE DEF t
  <2>4. g \in Int /\ g <= t * 100
    BY <2>1, <2>3
  <2>5. s \in Searches /\ Inside(s)
    BY <2>3, GuessesInside
  <2>6. Bracket(s, g, 1)
    BY <1>1, <2>4, GuessesBracket
  <2> HIDE DEF g, s
  <2>7. /\ s.lo \in Int /\ s.hi \in Int /\ c \in Int /\ MinInt \in Int /\ MaxInt \in Int
        /\ MinInt <= s.lo /\ s.lo <= c /\ c <= s.hi /\ s.hi <= MaxInt
    BY <2>5, EndFacts DEF Searches, Inside
  <2>8. /\ s.lo = MinInt \/ Below(s.lo) * 100 < g
        /\ s.hi = MaxInt \/ Below(s.hi) * 100 > g
        /\ \/ Below(c) * 100 = g
           \/ c - s.lo <= 1 /\ s.hi - c <= 1
    BY <2>6 DEF Bracket
  <2>9. Below(MaxInt) = t
    <3>1. \A x \in Int64 : Lo(MinInt) <= x /\ x <= MaxInt
      BY EndFacts, Int64Is DEF Lo
    <3>2. Span(MinInt, MaxInt) = Int64
      BY <3>1 DEF Span
    <3> QED
      BY <1>1, <3>2, RowsForIs DEF Total, Below, t
  <2>10. \A x \in MinInt..MaxInt :
           /\ Below(x) \in Nat /\ RowsOf(MinInt, x) = Below(x)
           /\ \A y \in MinInt..MaxInt : x <= y => Below(x) <= Below(y)
    BY <1>1, BelowFacts
  <2> HIDE DEF c
  <2>11. ASSUME c > MinInt + 1 PROVE RowsOf(MinInt, c - 1) * 100 <= g
    <3>1. c - 1 \in MinInt..MaxInt /\ c \in MinInt..MaxInt /\ s.lo \in MinInt..MaxInt
          /\ c - 1 <= c
      BY <2>7, <2>11
    <3>2. RowsOf(MinInt, c - 1) = Below(c - 1) /\ Below(c - 1) \in Nat
          /\ Below(c) \in Nat /\ Below(s.lo) \in Nat /\ Below(c - 1) <= Below(c)
      BY <2>10, <3>1
    <3>3. CASE Below(c) * 100 = g
      BY <2>4, <3>2, <3>3
    <3>4. CASE c - s.lo <= 1 /\ s.hi - c <= 1
      <4>1. c - 1 <= s.lo /\ s.lo # MinInt
        BY <2>7, <2>11, <3>4
      <4>2. Below(c - 1) <= Below(s.lo) /\ Below(s.lo) * 100 < g
        BY <2>8, <2>10, <3>1, <4>1
      <4> QED
        BY <2>4, <3>2, <4>2
    <3> QED
      BY <2>8, <3>3, <3>4
  <2>12. ASSUME c < MaxInt PROVE RowsOf(MinInt, c + 1) * 100 >= g
    <3>1. c + 1 \in MinInt..MaxInt /\ c \in MinInt..MaxInt /\ s.hi \in MinInt..MaxInt
          /\ c <= c + 1
      BY <2>7, <2>12
    <3>2. RowsOf(MinInt, c + 1) = Below(c + 1) /\ Below(c + 1) \in Nat
          /\ Below(c) \in Nat /\ Below(s.hi) \in Nat /\ Below(c) <= Below(c + 1)
      BY <2>10, <3>1
    <3>3. CASE Below(c) * 100 = g
      BY <2>4, <3>2, <3>3
    <3>4. CASE c - s.lo <= 1 /\ s.hi - c <= 1
      <4>1. s.hi <= c + 1
        BY <2>7, <3>4
      <4>2. Below(s.hi) <= Below(c + 1)
        BY <2>10, <3>1, <4>1
      <4>3. Below(s.hi) * 100 >= g
        BY <2>4, <2>8, <2>9, <3>2
      <4> QED
        BY <2>4, <3>2, <4>2, <4>3
    <3> QED
      BY <2>8, <3>3, <3>4
  <2>13. /\ MinInt <= c /\ c <= MaxInt
         /\ c > MinInt + 1 => RowsOf(MinInt, c - 1) * 100 <= g
         /\ c < MaxInt => RowsOf(MinInt, c + 1) * 100 >= g
    BY <2>7, <2>11, <2>12
  <2>14. Centile(Sketch, p, Total) = c /\ g = Total * p
    BY <2>2 DEF g, t
  <2> QED
    BY <2>13, <2>14
<1> QED
  BY <1>1, TypeCorrect, SketchesHoldRows, PTL

-----------------------------------------------------------------------------
(* The buckets of the histograms.                                          *)

\* Each bin begins where the one before it has ended.
InARow(bins, lo, hi) ==
  /\ bins \in Lists /\ Len(bins) >= 1
  /\ bins[1][1] = lo /\ bins[Len(bins)][2] = hi
  /\ \A j \in 1..Len(bins) : bins[j][1] <= bins[j][2] + 1
  /\ \A j \in 1..(Len(bins) - 1) : bins[j + 1][1] = bins[j][2] + 1

\* A bin that comes later begins after one that comes earlier.
LEMMA RowOrdered ==
  ASSUME NEW bins, NEW lo, NEW hi, InARow(bins, lo, hi)
  PROVE  \A j, k \in 1..Len(bins) : j < k => bins[j][2] < bins[k][1]
<1> DEFINE m == Len(bins)  a(j) == bins[j][1]  z(j) == bins[j][2]
<1>1. m \in Nat /\ m >= 1
  BY DEF InARow, Lists
<1>2. \A j \in 1..m : a(j) \in Int /\ z(j) \in Int /\ a(j) <= z(j) + 1
  <2> TAKE j \in 1..m
  <2>1. bins[j] \in Int \X Int
    BY DEF InARow, Lists
  <2> QED
    BY <2>1 DEF InARow
<1>3. \A j \in 1..(m - 1) : a(j + 1) = z(j) + 1
  BY DEF InARow
<1> HIDE DEF m, a, z
<1> SUFFICES ASSUME NEW j \in 1..m PROVE \A k \in 1..m : j < k => z(j) < a(k)
  BY DEF m, a, z
<1> DEFINE G == {n \in Nat : n \in 1..m /\ j < n => z(j) < a(n)}
<1>4. 0 \in G
  OBVIOUS
<1>5. ASSUME NEW n \in Nat, n \in G PROVE n + 1 \in G
  <2> SUFFICES ASSUME n + 1 \in 1..m, j < n + 1 PROVE z(j) < a(n + 1)
    OBVIOUS
  <2>1. n \in 1..m /\ n \in 1..(m - 1) /\ (j = n \/ j < n)
    BY <1>1
  <2>2. a(n + 1) = z(n) + 1 /\ z(n) \in Int /\ z(j) \in Int /\ a(n) <= z(n) + 1 /\ a(n) \in Int
    BY <1>2, <1>3, <2>1
  <2>3. CASE j = n
    BY <2>2, <2>3
  <2>4. CASE j < n
    <3>1. z(j) < a(n)
      BY <1>5, <2>1, <2>4
    <3> QED
      BY <2>2, <3>1
  <2> QED
    BY <2>1, <2>3, <2>4
<1> HIDE DEF G
<1>6. Nat \subseteq G
  BY <1>4, <1>5, NatInduct
<1>7. \A k \in 1..m : k \in Nat
  BY <1>1
<1> QED
  BY <1>6, <1>7 DEF G

\* Bins in a row have each integer of the range once.
LEMMA RowPartitions ==
  ASSUME NEW bins, NEW lo \in Int, NEW hi \in Int, InARow(bins, lo, hi)
  PROVE  Partition(bins, lo, hi)
<1> DEFINE m == Len(bins)  a(j) == bins[j][1]  z(j) == bins[j][2]
           At1(x) == {i \in DOMAIN bins : bins[i][1] <= x /\ x <= bins[i][2]}
<1>1. m \in Nat /\ m >= 1 /\ DOMAIN bins = 1..m
  BY LenProperties DEF InARow, Lists
<1>2. \A j \in 1..m : a(j) \in Int /\ z(j) \in Int /\ a(j) <= z(j) + 1
  <2> TAKE j \in 1..m
  <2>1. bins[j] \in Int \X Int
    BY DEF InARow, Lists
  <2> QED
    BY <2>1 DEF InARow
<1>3. \A j \in 1..(m - 1) : a(j + 1) = z(j) + 1
  BY DEF InARow
<1>4. a(1) = lo /\ z(m) = hi
  BY DEF InARow
<1>5. \A j, k \in 1..m : j < k => z(j) < a(k)
  BY RowOrdered
<1>6. \A x : At1(x) = {i \in 1..m : a(i) <= x /\ x <= z(i)}
  BY <1>1
<1> HIDE DEF m, a, z
<1>7. \A j \in 1..m : lo <= a(j) /\ z(j) <= hi
  <2> TAKE j \in 1..m
  <2>1. 1 \in 1..m /\ m \in 1..m
    BY <1>1
  <2>2. lo <= a(j)
    <3>1. CASE j = 1
      BY <1>4, <3>1
    <3>2. CASE j # 1
      <4>1. z(1) < a(j)
        BY <1>1, <1>5, <2>1, <3>2
      <4> QED
        BY <1>2, <1>4, <2>1, <4>1
    <3> QED
      BY <3>1, <3>2
  <2>3. z(j) <= hi
    <3>1. CASE j = m
      BY <1>4, <3>1
    <3>2. CASE j # m
      <4>1. z(j) < a(m)
        BY <1>1, <1>5, <2>1, <3>2
      <4> QED
        BY <1>2, <1>4, <2>1, <4>1
    <3> QED
      BY <3>1, <3>2
  <2> QED
    BY <2>2, <2>3
<1>8. ASSUME NEW x \in MinInt..MaxInt
      PROVE  Cardinality(At1(x)) = IF lo <= x /\ x <= hi THEN 1 ELSE 0
  <2>0. x \in Int
    BY EndFacts
  <2>1. CASE lo <= x /\ x <= hi
    <3> DEFINE T == {j \in 1..m : x <= z(j)}
    <3>1. m \in T
      BY <1>1, <1>4, <2>1
    <3>2. T \in SUBSET Nat /\ T # {}
      BY <1>1, <3>1
    <3>3. PICK j \in T : \A k \in T : j <= k
      <4> HIDE DEF T
      <4> QED
        BY <3>2, LeastNumber
    <3>4. j \in 1..m /\ x <= z(j)
      OBVIOUS
    <3>5. a(j) <= x
      <4>1. CASE j = 1
        BY <1>4, <2>1, <4>1
      <4>2. CASE j # 1
        <5> DEFINE i == j - 1
        <5>1. i \in 1..m /\ i \in 1..(m - 1) /\ i + 1 = j /\ i < j
          BY <1>1, <3>4, <4>2
        <5>2. i \notin T
          BY <3>3, <5>1
        <5> HIDE DEF i
        <5>3. ~(x <= z(i)) /\ a(i + 1) = z(i) + 1 /\ z(i) \in Int
          BY <1>2, <1>3, <5>1, <5>2
        <5> QED
          BY <2>0, <5>1, <5>3
      <4> QED
        BY <4>1, <4>2
    <3>6. ASSUME NEW k \in 1..m, a(k) <= x, x <= z(k) PROVE k = j
      <4>1. j \in 1..m /\ k \in Int /\ j \in Int /\ a(j) \in Int /\ z(j) \in Int
            /\ a(k) \in Int /\ z(k) \in Int
        BY <1>1, <1>2, <3>4
      <4>2. CASE k < j
        <5>1. z(k) < a(j)
          BY <1>5, <4>1, <4>2
        <5> QED
          BY <2>0, <3>5, <3>6, <4>1, <5>1
      <4>3. CASE j < k
        <5>1. z(j) < a(k)
          BY <1>5, <4>1, <4>3
        <5> QED
          BY <2>0, <3>4, <3>6, <4>1, <5>1
      <4> QED
        BY <4>1, <4>2, <4>3
    <3>7. At1(x) = {j}
      BY <1>6, <3>4, <3>5, <3>6
    <3>8. Cardinality({j}) = 1
      BY FS_Singleton
    <3> QED
      BY <2>1, <3>7, <3>8
  <2>2. CASE ~(lo <= x /\ x <= hi)
    <3>1. ASSUME NEW k \in 1..m, a(k) <= x, x <= z(k) PROVE FALSE
      <4>1. lo <= a(k) /\ z(k) <= hi /\ a(k) \in Int /\ z(k) \in Int
        BY <1>2, <1>7
      <4> QED
        BY <2>0, <2>2, <3>1, <4>1
    <3>2. At1(x) = {}
      BY <1>6, <3>1
    <3>3. Cardinality({}) = 0
      BY FS_EmptySet
    <3> QED
      BY <2>2, <3>2, <3>3
  <2> QED
    BY <2>1, <2>2
<1> QED
  BY <1>8 DEF Partition

\* The steps of __do_width_histo fill the range: the last bucket ends it.
LEMMA StepFits ==
  ASSUME NEW size \in Nat, size >= 1, NEW n \in Nat, n >= 1
  PROVE  /\ Step(size, n) \in Nat /\ Step(size, n) >= 1
         /\ \/ Step(size, n) = 1 /\ size < n
            \/ n * Step(size, n) <= size
<1> DEFINE q == size \div n
<1>1. q \in Int /\ size % n \in Int /\ size = n * q + (size % n) /\ 0 <= size % n /\ size % n < n
  BY Division
<1>2. Step(size, n) = IF q < 1 THEN 1 ELSE q
  BY DEF Step
<1> HIDE DEF q
<1>3. CASE q < 1
  <2>1. size < n
    <3>1. q <= 0
      BY <1>1, <1>3
    <3>2. n * q <= 0
      <4>1. CASE q = 0
        BY <4>1
      <4>2. CASE q # 0
        <5>1. q < 0
          BY <3>1, <1>1, <4>2
        <5>2. q * n + n <= 0 * n
          BY <1>1, <5>1, TimesGrows
        <5>3. q * n = n * q /\ 0 * n = 0 /\ n * q \in Int
          BY <1>1
        <5> QED
          BY <5>2, <5>3
      <4> QED
        BY <4>1, <4>2
    <3>3. n * q \in Int
      BY <1>1
    <3> DEFINE r == n * q
    <3> HIDE DEF r
    <3>4. size < n
      BY <1>1, <3>2, <3>3 DEF r
    <3> QED
      BY <3>4
  <2> QED
    BY <1>2, <1>3, <2>1
<1>4. CASE ~(q < 1)
  <2>1. n * q \in Int
    BY <1>1
  <2>2. n * q <= size
    BY <1>1, <2>1
  <2> QED
    BY <1>1, <1>2, <1>4, <2>2
<1> QED
  BY <1>3, <1>4

\* The buckets of __do_width_histo are in a row.
LEMMA WidthRow ==
  ASSUME NEW min \in Int, NEW max \in Int, min <= max, NEW n \in Nat, n >= 1
  PROVE  InARow(WidthBins(min, max, n), min, max)
<1> DEFINE size == max - min + 1  step == Step(size, n)
           Bin(i) == << min + i * step, IF i = n - 1 THEN max ELSE min + (i + 1) * step - 1 >>
           kept == {i \in 0..(n - 1) : min + i * step <= max}
           c == Cardinality(kept)
           bins == WidthBins(min, max, n)
           A(i) == i * step
<1>1. size \in Nat /\ size >= 1 /\ max = min + size - 1
  OBVIOUS
<1>2. bins = [j \in 1..c |-> Bin(j - 1)]
  BY Zenon DEF WidthBins
<1> HIDE DEF size
<1>3. step \in Nat /\ step >= 1 /\ ((step = 1 /\ size < n) \/ n * step <= size)
  BY <1>1, StepFits
<1> HIDE DEF step
<1>4. /\ A(0) = 0
      /\ \A i \in Nat : A(i) \in Int /\ A(i + 1) = A(i) + step
      /\ \A i, j \in Nat : i < j => A(i) + step <= A(j)
  <2>1. A(0) = 0
    BY <1>3
  <2>2. ASSUME NEW i \in Nat PROVE A(i) \in Int /\ A(i + 1) = A(i) + step
    BY <1>3
  <2>3. ASSUME NEW i \in Nat, NEW j \in Nat, i < j PROVE A(i) + step <= A(j)
    BY <1>3, <2>3, TimesGrows
  <2> QED
    BY <2>1, <2>2, <2>3
<1>5. step = 1 => \A i \in Nat : A(i) = i
  OBVIOUS
<1>6. \A i \in Nat : Bin(i)[1] = min + A(i) /\ (i = n - 1 => Bin(i)[2] = max)
        /\ (i # n - 1 => Bin(i)[2] = min + A(i + 1) - 1) /\ Bin(i) = <<Bin(i)[1], Bin(i)[2]>>
  OBVIOUS
<1>7. kept = {i \in 0..(n - 1) : min + A(i) <= max} /\ (n * step <= size => A(n) <= size)
  OBVIOUS
<1> HIDE DEF A, Bin, kept
<1>8. PICK m \in Nat : /\ m >= 1 /\ m <= n /\ kept = 0..(m - 1)
                       /\ \/ m = n /\ A(n) <= size
                          \/ m = size /\ m < n /\ step = 1
  <2>1. CASE n * step <= size
    <3>1. ASSUME NEW i \in 0..(n - 1) PROVE min + A(i) <= max
      <4>1. A(i) + step <= A(n) /\ A(i) \in Int /\ A(n) \in Int
        BY <1>4
      <4> QED
        BY <1>1, <1>3, <1>7, <2>1, <4>1
    <3>2. kept = 0..(n - 1)
      BY <1>7, <3>1
    <3>3. A(n) <= size /\ n <= n
      BY <1>7, <2>1
    <3> QED
      BY <3>2, <3>3, Zenon
  <2>2. CASE step = 1 /\ size < n
    <3>1. \A i \in 0..(n - 1) : min + A(i) <= max <=> i <= size - 1
      <4> TAKE i \in 0..(n - 1)
      <4>1. A(i) = i
        BY <1>5, <2>2
      <4> QED
        BY <1>1, <4>1
    <3>2. \A i \in 0..(size - 1) : i \in 0..(n - 1)
      BY <1>1, <2>2
    <3>3. \A i \in 0..(n - 1) : i <= size - 1 => i \in 0..(size - 1)
      BY <1>1
    <3>4. \A i \in 0..(size - 1) : i <= size - 1
      BY <1>1
    <3>5. kept = 0..(size - 1)
      BY <1>7, <3>1, <3>2, <3>3, <3>4
    <3> QED
      BY <1>1, <2>2, <3>5
  <2> QED
    BY <1>3, <2>1, <2>2
<1>9. c = m
  <2>1. 0 \in Int /\ m - 1 \in Int
    BY <1>8
  <2>2. Cardinality(0..(m - 1)) = IF 0 > m - 1 THEN 0 ELSE (m - 1) - 0 + 1
    BY <2>1, FS_Interval
  <2> QED
    BY <1>8, <2>2
<1> HIDE DEF c, bins
<1>10. \A j \in 1..m : bins[j] = Bin(j - 1) /\ j - 1 \in Nat /\ j \in Nat /\ (j - 1) + 1 = j
  BY <1>2, <1>9
<1>11. ASSUME NEW j \in 1..m
       PROVE  /\ bins[j][1] = min + A(j - 1) /\ bins[j] \in Int \X Int
              /\ bins[j][2] = IF j = m THEN max ELSE min + A(j) - 1
              /\ bins[j][1] <= bins[j][2] + 1
  <2> DEFINE i == j - 1  x == Bin(i)[1]  y == Bin(i)[2]
  <2>1. i \in Nat /\ j \in Nat /\ i + 1 = j /\ bins[j] = Bin(i) /\ bins[j] = <<x, y>>
    BY <1>6, <1>10
  <2>2. x = min + A(i) /\ (i = n - 1 => y = max) /\ (i # n - 1 => y = min + A(j) - 1)
    BY <1>6, <2>1
  <2>3. A(i) \in Int /\ A(j) = A(i) + step
    BY <1>4, <2>1
  <2>4. y = IF j = m THEN max ELSE min + A(j) - 1
    <3>1. CASE m = n
      BY <1>8, <2>1, <2>2, <3>1
    <3>2. CASE m = size /\ m < n /\ step = 1
      <4>1. i # n - 1
        BY <1>8, <2>1, <3>2
      <4>2. j = m => A(j) = size
        BY <1>5, <1>8, <3>2
      <4>3. j = m => min + A(j) - 1 = max
        BY <1>1, <4>2
      <4> QED
        BY <2>2, <4>1, <4>3
    <3> QED
      BY <1>8, <3>1, <3>2
  <2>5. x \in Int /\ y \in Int /\ x <= y + 1
    <3>1. CASE j = m
      <4>1. min + A(i) <= max
        BY <1>7, <1>8, <2>1, <3>1
      <4> QED
        BY <2>2, <2>3, <2>4, <3>1, <4>1
    <3>2. CASE j # m
      BY <1>3, <2>2, <2>3, <2>4, <3>2
    <3> QED
      BY <3>1, <3>2
  <2> HIDE DEF i, x, y
  <2>6. bins[j][1] = x /\ bins[j][2] = y /\ bins[j] \in Int \X Int
    BY <2>1, <2>5
  <2> QED
    BY <2>2, <2>4, <2>5, <2>6 DEF i
<1>12. bins \in Lists /\ Len(bins) = m
  <2>1. bins = [j \in 1..m |-> bins[j]]
    BY <1>2, <1>9
  <2>2. bins \in [1..m -> Int \X Int]
    BY <1>11, <2>1
  <2> QED
    BY <1>8, <2>2 DEF Lists
<1>13. /\ bins[1][1] = min /\ bins[m][2] = max
       /\ \A j \in 1..m : bins[j][1] <= bins[j][2] + 1
  <2>1. 1 \in 1..m /\ m \in 1..m /\ 1 - 1 = 0
    BY <1>8
  <2>2. bins[1][1] = min + A(0) /\ bins[m][2] = max
    BY <1>11, <2>1
  <2>3. \A j \in 1..m : bins[j][1] <= bins[j][2] + 1
    BY <1>11
  <2>4. min + A(0) = min
    BY <1>4
  <2> QED
    BY <2>2, <2>3, <2>4
<1>14. ASSUME NEW j \in 1..(m - 1) PROVE bins[j + 1][1] = bins[j][2] + 1
  <2> DEFINE k == j + 1
  <2>1. j \in 1..m /\ k \in 1..m /\ k - 1 = j /\ j # m /\ j \in Nat
    BY <1>8
  <2> HIDE DEF k
  <2>2. bins[k][1] = min + A(j) /\ bins[j][2] = min + A(j) - 1
    BY <1>11, <2>1
  <2>3. A(j) \in Int
    BY <1>4, <2>1
  <2>4. bins[k][1] = bins[j][2] + 1
    BY <2>2, <2>3
  <2> QED
    BY <2>4 DEF k
<1>15. InARow(bins, min, max)
  BY <1>8, <1>12, <1>13, <1>14 DEF InARow
<1> QED
  BY <1>15 DEF bins

-----------------------------------------------------------------------------
\* A bin after those of a row.
LEMMA RowFirst ==
  ASSUME NEW lo \in Int, NEW hi \in Int, lo <= hi + 1
  PROVE  InARow(Append(<< >>, <<lo, hi>>), lo, hi)
<1> DEFINE r == <<lo, hi>>  R == Append(<< >>, r)
<1>1. r \in Int \X Int /\ r[1] = lo /\ r[2] = hi
  OBVIOUS
<1> HIDE DEF r
<1>2. R \in Lists /\ Len(R) = 1 /\ R[1] = r
  BY <1>1 DEF Lists
<1> HIDE DEF R
<1>3. \A j \in 1..1 : j = 1
  OBVIOUS
<1>4. ~\E j \in 1..(1 - 1) : TRUE
  OBVIOUS
<1>5. InARow(R, lo, hi)
  BY <1>1, <1>2, <1>3, <1>4 DEF InARow
<1> QED
  BY <1>5 DEF R, r

\* and one more.
LEMMA RowAppend ==
  ASSUME NEW h, NEW lo \in Int, NEW mid \in Int, InARow(h, lo, mid),
         NEW hi \in Int, mid <= hi
  PROVE  InARow(Append(h, <<mid + 1, hi>>), lo, hi)
<1> DEFINE r == <<mid + 1, hi>>  R == Append(h, r)  n == Len(h)  m == n + 1
<1>1. r \in Int \X Int /\ r[1] = mid + 1 /\ r[2] = hi
  OBVIOUS
<1>2. /\ h \in Lists /\ n \in Nat /\ n >= 1 /\ h[1][1] = lo /\ h[n][2] = mid
      /\ \A j \in 1..n : h[j][1] <= h[j][2] + 1
      /\ \A j \in 1..(n - 1) : h[j + 1][1] = h[j][2] + 1
  BY DEF InARow, Lists
<1> HIDE DEF r
<1>3. R \in Lists /\ Len(R) = m /\ R[m] = r /\ \A j \in 1..n : R[j] = h[j]
  BY <1>1, <1>2, AppendProperties DEF Lists
<1> HIDE DEF R, n
<1>4. m \in Nat /\ m >= 1 /\ m - 1 = n
  BY <1>2
<1>5. ASSUME NEW j \in 1..m PROVE R[j][1] <= R[j][2] + 1
  <2>1. CASE j = m
    BY <1>1, <1>3, <2>1
  <2>2. CASE j # m
    <3>1. j \in 1..n
      BY <1>2, <2>2
    <3> QED
      BY <1>2, <1>3, <3>1
  <2> QED
    BY <2>1, <2>2
<1>6. ASSUME NEW j \in 1..n PROVE R[j + 1][1] = R[j][2] + 1
  <2>1. CASE j = n
    BY <1>1, <1>2, <1>3, <2>1
  <2>2. CASE j # n
    <3>1. j \in 1..(n - 1) /\ j + 1 \in 1..n
      BY <1>2, <2>2
    <3> QED
      BY <1>2, <1>3, <3>1
  <2> QED
    BY <2>1, <2>2
<1>7. R[1] = h[1] /\ R[1][1] = lo /\ R[m][2] = hi
  BY <1>1, <1>2, <1>3
<1> HIDE DEF m
<1>8. InARow(R, lo, hi)
  BY <1>3, <1>4, <1>5, <1>6, <1>7 DEF InARow
<1> QED
  BY <1>8 DEF R, r

\* The bucket of __do_depth_histo.
LEMMA NextBucketIs ==
  ASSUME NEW h \in Lists, NEW i \in Nat, NEW sk, NEW n \in Nat, i <= n, i >= 1,
         IF i = 1 THEN h = << >> ELSE \E mid \in Int : InARow(h, MinInt, mid) /\ mid <= MaxInt
  PROVE  IF i = n THEN InARow(NextBucket(h, i, sk, n), MinInt, MaxInt)
         ELSE \E mid \in Int : InARow(NextBucket(h, i, sk, n), MinInt, mid) /\ mid <= MaxInt
<1> DEFINE next == NextBucket(h, i, sk, n)
           cent == Centile(sk, i * Step(100, n), RangeCount(sk, MinInt, MaxInt))
           binlo == IF h = << >> THEN MinInt ELSE h[Len(h)][2] + 1
<1>1. next = IF i = n THEN Append(h, <<binlo, MaxInt>>)
             ELSE IF i > 1 /\ cent <= h[Len(h)][2] THEN h
             ELSE Append(h, <<binlo, cent>>)
  BY Zenon DEF NextBucket
<1>2. cent \in Int /\ MinInt <= cent /\ cent <= MaxInt /\ MinInt \in Int /\ MaxInt \in Int
  BY CentileInside, EndFacts
<1>3. MinInt <= MaxInt + 1 /\ MinInt <= cent + 1
  BY <1>2
<1> HIDE DEF cent, next
<1>4. CASE i = 1
  <2>1. h = << >> /\ binlo = MinInt
    BY <1>4
  <2>2. CASE i = n
    <3>1. next = Append(<< >>, <<MinInt, MaxInt>>)
      BY <1>1, <2>1, <2>2
    <3>2. InARow(next, MinInt, MaxInt)
      BY <1>2, <1>3, <3>1, RowFirst
    <3> QED
      BY <2>2, <3>2 DEF next
  <2>3. CASE i # n
    <3>1. next = Append(<< >>, <<MinInt, cent>>)
      BY <1>1, <1>4, <2>1, <2>3
    <3>2. InARow(next, MinInt, cent)
      BY <1>2, <1>3, <3>1, RowFirst
    <3> QED
      BY <1>2, <2>3, <3>2 DEF next
  <2> QED
    BY <2>2, <2>3
<1>5. CASE i # 1
  <2>1. PICK mid \in Int : InARow(h, MinInt, mid) /\ mid <= MaxInt
    BY <1>5
  <2>2. Len(h) >= 1 /\ h[Len(h)][2] = mid
    BY <2>1 DEF InARow
  <2>3. h # << >>
    <3>1. Len(<< >>) = 0
      OBVIOUS
    <3> QED
      BY <2>2, <3>1
  <2>4. binlo = mid + 1 /\ i > 1
    BY <1>5, <2>2, <2>3
  <2> HIDE DEF binlo
  <2>5. CASE i = n
    <3>1. next = Append(h, <<mid + 1, MaxInt>>)
      BY <1>1, <2>4, <2>5
    <3>2. InARow(next, MinInt, MaxInt)
      BY <1>2, <2>1, <3>1, RowAppend
    <3> QED
      BY <2>5, <3>2 DEF next
  <2>6. CASE i # n
    <3>1. CASE cent <= mid
      <4>1. next = h
        BY <1>1, <2>2, <2>4, <2>6, <3>1
      <4> QED
        BY <2>1, <2>6, <4>1 DEF next
    <3>2. CASE ~(cent <= mid)
      <4>1. next = Append(h, <<mid + 1, cent>>)
        BY <1>1, <2>2, <2>4, <2>6, <3>2
      <4>2. InARow(next, MinInt, cent)
        <5>1. mid <= cent
          BY <1>2, <3>2
        <5> QED
          BY <1>2, <2>1, <4>1, <5>1, RowAppend
      <4> QED
        BY <1>2, <2>6, <4>2 DEF next
    <3> QED
      BY <3>1, <3>2
  <2> QED
    BY <2>5, <2>6
<1> QED
  BY <1>4, <1>5

\* A bucket more, or none, is a list of buckets.
LEMMA NextBucketIsList ==
  ASSUME NEW h \in Lists, NEW i \in Nat, NEW sk, NEW n \in Nat
  PROVE  NextBucket(h, i, sk, n) \in Lists
<1> DEFINE next == NextBucket(h, i, sk, n)
           cent == Centile(sk, i * Step(100, n), RangeCount(sk, MinInt, MaxInt))
           last == h[Len(h)][2]
           binlo == IF h = << >> THEN MinInt ELSE last + 1
<1>1. next = IF i = n THEN Append(h, <<binlo, MaxInt>>)
             ELSE IF i > 1 /\ cent <= last THEN h
             ELSE Append(h, <<binlo, cent>>)
  BY Zenon DEF NextBucket
<1>2. cent \in Int /\ MinInt \in Int /\ MaxInt \in Int
  BY CentileInside, EndFacts
<1>3. binlo \in Int
  <2>1. CASE h = << >>
    BY <1>2, <2>1
  <2>2. CASE h # << >>
    <3>1. h \in Seq(Int \X Int) /\ Len(h) \in Nat
      BY DEF Lists
    <3>2. Len(h) # 0
      BY <2>2, <3>1, EmptySeq
    <3>3. h[Len(h)] \in Int \X Int
      BY <3>1, <3>2
    <3> QED
      BY <2>2, <3>3
  <2> QED
    BY <2>1, <2>2
<1> HIDE DEF cent, next, binlo, last
<1>4. <<binlo, MaxInt>> \in Int \X Int /\ <<binlo, cent>> \in Int \X Int
  BY <1>2, <1>3
<1>5. Append(h, <<binlo, MaxInt>>) \in Lists /\ Append(h, <<binlo, cent>>) \in Lists
  BY <1>4, AppendProperties DEF Lists
<1>6. next \in Lists
  BY <1>1, <1>5
<1> QED
  BY <1>6 DEF next

\* The buckets of __do_depth_histo are in a row.
LEMMA DepthRow ==
  ASSUME NEW sk, NEW n \in Nat, n >= 1
  PROVE  InARow(DepthBins(sk, n), MinInt, MaxInt)
<1> DEFINE T(h, i) == NextBucket(h, i, sk, n)
           step == [c \in Nat \X Lists |-> T(c[2], c[1] + 1)]
           F(g) == g = [i \in Nat |-> IF i = 0 THEN << >> ELSE T(g[i - 1], i)]
           bins == CHOOSE g : F(g)
<1>1. \A h \in Lists, i \in Nat : T(h, i) \in Lists
  BY NextBucketIsList
<1>2. << >> \in Lists
  BY DEF Lists
<1>3. DepthBins(sk, n) = bins[n]
  BY Zenon DEF DepthBins
<1>4. \A h \in Lists, i \in Nat, m \in Nat : m <= n /\ i = m /\ i >= 1
        /\ (IF i = 1 THEN h = << >> ELSE \E mid \in Int : InARow(h, MinInt, mid) /\ mid <= MaxInt)
      => IF i = n THEN InARow(T(h, i), MinInt, MaxInt)
         ELSE \E mid \in Int : InARow(T(h, i), MinInt, mid) /\ mid <= MaxInt
  BY NextBucketIs
<1> HIDE DEF T
<1>5. step \in [Nat \X Lists -> Lists]
  BY <1>1
<1>6. \A i \in Nat, h \in Lists : step[<<i, h>>] = T(h, i + 1)
  OBVIOUS
<1> HIDE DEF step, bins
<1>7. PICK f : Iterates(f, Lists, << >>, step)
  <2> DEFINE base == << >>
  <2>1. base \in Lists
    BY <1>2
  <2> HIDE DEF base
  <2>2. \E f : Iterates(f, Lists, base, step)
    BY <1>5, <2>1, NatRecursion
  <2> QED
    BY <2>2 DEF base
<1>8. f \in [Nat -> Lists] /\ F(f)
  <2>1. f \in [Nat -> Lists]
    BY <1>7 DEF Iterates
  <2>2. ASSUME NEW i \in Nat PROVE f[i] = IF i = 0 THEN << >> ELSE T(f[i - 1], i)
    <3>1. f[i] = IF i = 0 THEN << >> ELSE step[<<i - 1, f[i - 1]>>]
      BY <1>7 DEF Iterates
    <3>2. CASE i = 0
      BY <3>1, <3>2
    <3>3. CASE i # 0
      <4>1. i - 1 \in Nat /\ f[i - 1] \in Lists /\ (i - 1) + 1 = i
        BY <2>1, <3>3
      <4>2. step[<<i - 1, f[i - 1]>>] = T(f[i - 1], (i - 1) + 1)
        BY <1>6, <4>1
      <4> QED
        BY <3>1, <3>3, <4>1, <4>2
    <3> QED
      BY <3>2, <3>3
  <2> QED
    BY <2>1, <2>2
<1>9. F(bins)
  <2> HIDE DEF F
  <2> QED
    BY <1>8 DEF bins
<1> DEFINE Ok(i) == /\ bins[i] \in Lists
                    /\ i = 0 => bins[i] = << >>
                    /\ i = n => InARow(bins[i], MinInt, MaxInt)
                    /\ i # 0 /\ i # n => \E mid \in Int : InARow(bins[i], MinInt, mid) /\ mid <= MaxInt
           G == {i \in Nat : i <= n => Ok(i)}
<1>10. bins[0] = << >> /\ \A i \in Nat : bins[i + 1] = T(bins[i], i + 1)
  <2>1. bins[0] = << >>
    BY <1>9
  <2>2. ASSUME NEW i \in Nat PROVE bins[i + 1] = T(bins[i], i + 1)
    <3>1. i + 1 \in Nat /\ i + 1 # 0 /\ (i + 1) - 1 = i
      OBVIOUS
    <3> QED
      BY <1>9, <3>1
  <2> QED
    BY <2>1, <2>2
<1> HIDE DEF F
<1>11. 0 \in G
  BY <1>2, <1>10
<1>12. ASSUME NEW i \in Nat, i \in G PROVE i + 1 \in G
  <2> SUFFICES ASSUME i + 1 <= n PROVE Ok(i + 1)
    OBVIOUS
  <2> DEFINE k == i + 1  h == bins[i]
  <2>1. k \in Nat /\ k >= 1 /\ k <= n /\ i <= n /\ i # n /\ k # 0 /\ (k = 1 <=> i = 0)
    OBVIOUS
  <2>2. Ok(i) /\ bins[k] = T(h, k)
    BY <1>10, <1>12, <2>1
  <2>3. h \in Lists
        /\ (IF k = 1 THEN h = << >> ELSE \E mid \in Int : InARow(h, MinInt, mid) /\ mid <= MaxInt)
    BY <2>1, <2>2
  <2> HIDE DEF h, k, Ok
  <2>4. T(h, k) \in Lists
    BY <1>1, <2>1, <2>3
  <2>5. IF k = n THEN InARow(T(h, k), MinInt, MaxInt)
        ELSE \E mid \in Int : InARow(T(h, k), MinInt, mid) /\ mid <= MaxInt
    BY <1>4, <2>1, <2>3
  <2>6. Ok(k)
    BY <2>1, <2>2, <2>4, <2>5 DEF Ok
  <2> QED
    BY <2>6 DEF k
<1> HIDE DEF G
<1>13. n \in G
  BY <1>11, <1>12, NatInduct
<1>14. InARow(bins[n], MinInt, MaxInt)
  BY <1>13 DEF G
<1> QED
  BY <1>3, <1>14

\* The buckets of both histograms lie side by side.
THEOREM HistogramsCover == Spec => []HistogramsPartition
<1>1. HistogramsPartition
  <2>1. ASSUME NEW q \in Queries, NEW n \in 1..5
        PROVE  Partition(WidthBins(q[1], q[2], n), q[1], q[2])
    <3> DEFINE b == q[1]  t == q[2]
    <3>1. b \in Int /\ t \in Int /\ b <= t /\ n \in Nat /\ n >= 1
      BY EndFacts DEF Queries
    <3> HIDE DEF b, t
    <3>2. Partition(WidthBins(b, t, n), b, t)
      BY <3>1, WidthRow, RowPartitions
    <3> QED
      BY <3>2 DEF b, t
  <2>2. ASSUME NEW n \in 1..5
        PROVE  Partition(DepthBins(Sketch, n), MinInt, MaxInt)
    <3>1. n \in Nat /\ n >= 1 /\ MinInt \in Int /\ MaxInt \in Int
      BY EndFacts
    <3> QED
      BY <3>1, DepthRow, RowPartitions
  <2> QED
    BY <2>1, <2>2 DEF HistogramsPartition
<1> QED
  BY <1>1, PTL
=============================================================================
