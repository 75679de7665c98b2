------------------------------ MODULE Recursion ------------------------------
(***************************************************************************)
(* Facts about finite sets, induction and recursive functions that the     *)
(* proofs about the library's components cite.  Induction is by a minimal  *)
(* counterexample, and the recursion theorems take the step of a function  *)
(* as a function: each can be instantiated where it is needed.             *)
(***************************************************************************)
EXTENDS Integers, FiniteSets, FiniteSetsExt, FiniteSetTheorems, TLAPS

(* The image of a finite set under a function is finite.                   *)
LEMMA FiniteImage ==
  ASSUME NEW S, IsFiniteSet(S), NEW f, DOMAIN f = S, NEW T, T = {f[x] : x \in S}
  PROVE  IsFiniteSet(T) /\ Cardinality(T) \in Nat
<1> DEFINE g == [x \in S |-> f[x]]
<1>1. g \in Surjection(S, T)
  BY DEF Surjection
<1> HIDE DEF g
<1> QED
  BY <1>1, FS_Surjection, FS_CardinalityType

(* Two sets in a one-to-one correspondence have as many elements.          *)
LEMMA SameCardinality ==
  ASSUME NEW S, IsFiniteSet(S), NEW T, NEW f \in [S -> T],
         \A x, y \in S : f[x] = f[y] => x = y, \A t \in T : \E x \in S : f[x] = t
  PROVE  IsFiniteSet(T) /\ Cardinality(T) = Cardinality(S)
<1>1. f \in Bijection(S, T)
  BY DEF Bijection, Injection, Surjection, IsInjective
<1>2. ExistsBijection(S, T)
  BY <1>1 DEF ExistsBijection
<1> QED
  BY <1>2, FS_Bijection

(* A nonempty set of finite sets has one that includes no other.           *)
LEMMA MinimalSet ==
  ASSUME NEW S, IsFiniteSet(S), NEW F, F \in SUBSET (SUBSET S), F # {}
  PROVE  \E X \in F : \A Y \in F : Y \subseteq X => Y = X
<1>1. IsWellFoundedOn(StrictSubsetOrdering(S), FiniteSubsetsOf(S))
  BY FS_StrictSubsetOrderingWellFounded
<1>2. F \subseteq FiniteSubsetsOf(S)
  BY FS_FiniteSubsetsOfFinite
<1>3. \E X \in F : \A Y \in F : ~(<<Y, X>> \in StrictSubsetOrdering(S))
  BY <1>1, <1>2, WFMin
<1> QED
  BY <1>3, <1>2 DEF StrictSubsetOrdering

(* A nonempty set of natural numbers has a least element.                  *)
LEMMA LeastNumber ==
  ASSUME NEW T, T \in SUBSET Nat, T # {}
  PROVE  \E m \in T : \A k \in T : m <= k
<1>1. PICK t \in T : TRUE
  OBVIOUS
<1> DEFINE F == {0..k : k \in {j \in T : j <= t}}
           R == 0..t
<1>2. IsFiniteSet(R)
  BY FS_Interval
<1>3. F \in SUBSET (SUBSET R) /\ F # {}
  OBVIOUS
<1> HIDE DEF F, R
<1>4. PICK X \in F : \A Y \in F : Y \subseteq X => Y = X
  BY <1>2, <1>3, MinimalSet
<1>5. PICK m \in T : X = 0..m /\ m <= t
  BY DEF F
<1>6. ASSUME NEW k \in T PROVE m <= k
  <2>1. SUFFICES ASSUME k < m PROVE FALSE
    OBVIOUS
  <2>2. 0..k \in F /\ 0..k \subseteq X
    BY <1>5, <2>1 DEF F
  <2>3. 0..k = 0..m
    BY <1>4, <1>5, <2>2
  <2>4. m \in 0..m /\ m \notin 0..k
    BY <2>1
  <2> QED
    BY <2>3, <2>4
<1> QED
  BY <1>6

-----------------------------------------------------------------------------
\* f is the function with this first value and this step.
Iterates(f, V, base, step) ==
  /\ f \in [Nat -> V]
  /\ \A n \in Nat : f[n] = IF n = 0 THEN base ELSE step[<<n - 1, f[n - 1]>>]

(* A function on the natural numbers is determined by its first value and  *)
(* the step from each to the next.                                         *)
LEMMA NatRecursion ==
  ASSUME NEW V, NEW base \in V, NEW step \in [Nat \X V -> V]
  PROVE  \E f : Iterates(f, V, base, step)
<1> DEFINE Upto(n, g) ==
             /\ g \in [0..n -> V] /\ g[0] = base
             /\ \A k \in 0..n : k # 0 => g[k] = step[<<k - 1, g[k - 1]>>]
<1>1. ASSUME NEW n \in Nat
      PROVE  \E g : Upto(n, g)
  <2> DEFINE Bad == {m \in Nat : ~\E g : Upto(m, g)}
  <2>1. SUFFICES ASSUME Bad # {} PROVE FALSE
    OBVIOUS
  <2>2. PICK m \in Bad : \A k \in Bad : m <= k
    <3>1. Bad \in SUBSET Nat
      OBVIOUS
    <3> HIDE DEF Bad
    <3> QED
      BY <2>1, <3>1, LeastNumber
  <2>3. CASE m = 0
    <3> DEFINE g == [k \in 0..0 |-> base]
    <3>1. Upto(0, g)
      OBVIOUS
    <3> HIDE DEF g
    <3> QED
      BY <2>3, <3>1
  <2>4. CASE m # 0
    <3>1. m - 1 \in Nat /\ m - 1 \notin Bad
      <4> HIDE DEF Upto
      <4>1. m \in Nat /\ m - 1 \in Nat /\ ~(m <= m - 1)
        BY <2>2, <2>4
      <4> HIDE DEF Bad
      <4> QED
        BY <2>2, <4>1
    <3>2. PICK h : Upto(m - 1, h)
      BY <3>1
    <3> DEFINE g == [k \in 0..m |-> IF k = m THEN step[<<m - 1, h[m - 1]>>] ELSE h[k]]
    <3>3. h[m - 1] \in V
      BY <3>1, <3>2
    <3>4. step[<<m - 1, h[m - 1]>>] \in V
      BY <3>1, <3>3
    <3>5. g \in [0..m -> V]
      <4>1. \A k \in 0..m : k # m => k \in 0..(m - 1)
        BY <3>1
      <4> QED
        BY <3>2, <3>4, <4>1
    <3>6. g[0] = base
      BY <2>4, <3>1, <3>2
    <3>7. ASSUME NEW k \in 0..m, k # 0
          PROVE  g[k] = step[<<k - 1, g[k - 1]>>]
      <4>1. k - 1 \in 0..m /\ k - 1 # m /\ g[k - 1] = h[k - 1]
        BY <3>7
      <4>2. CASE k = m
        BY <4>1, <4>2
      <4>3. CASE k # m
        <5>1. k \in 0..(m - 1) /\ g[k] = h[k]
          BY <4>3
        <5>2. h[k] = step[<<k - 1, h[k - 1]>>]
          BY <3>2, <3>7, <5>1
        <5> QED
          BY <4>1, <5>1, <5>2
      <4> QED
        BY <4>2, <4>3
    <3> HIDE DEF g
    <3>8. Upto(m, g)
      BY <3>5, <3>6, <3>7
    <3> QED
      BY <3>8
  <2> QED
    BY <2>3, <2>4
<1>2. ASSUME NEW n \in Nat, NEW m \in Nat, NEW g, Upto(n, g), NEW h, Upto(m, h),
             NEW i \in Nat, i <= n, i <= m
      PROVE  g[i] = h[i]
  <2> DEFINE Bad == {k \in Nat : k <= n /\ k <= m /\ g[k] # h[k]}
  <2>1. SUFFICES ASSUME Bad # {} PROVE FALSE
    BY <1>2
  <2>2. PICK k \in Bad : \A j \in Bad : k <= j
    <3>1. Bad \in SUBSET Nat
      OBVIOUS
    <3> HIDE DEF Bad
    <3> QED
      BY <2>1, <3>1, LeastNumber
  <2>3. k # 0
    BY <1>2, <2>2
  <2>4. k - 1 \in Nat /\ k - 1 <= n /\ k - 1 <= m /\ k - 1 \notin Bad
    BY <2>2, <2>3
  <2>5. g[k - 1] = h[k - 1]
    BY <2>4
  <2>6. k \in 0..n /\ k \in 0..m
    BY <2>2
  <2>7. g[k] = step[<<k - 1, g[k - 1]>>] /\ h[k] = step[<<k - 1, h[k - 1]>>]
    BY <1>2, <2>3, <2>6
  <2> QED
    BY <2>2, <2>5, <2>7
<1> DEFINE G(n) == CHOOSE g : Upto(n, g)
           f == [n \in Nat |-> G(n)[n]]
<1>3. \A n \in Nat : Upto(n, G(n))
  BY <1>1
<1> HIDE DEF G
<1>4. f \in [Nat -> V]
  <2>1. ASSUME NEW n \in Nat PROVE G(n)[n] \in V
    <3>1. G(n) \in [0..n -> V] /\ n \in 0..n
      BY <1>3
    <3> QED
      BY <3>1
  <2> QED
    BY <2>1
<1>5. ASSUME NEW n \in Nat
      PROVE  f[n] = IF n = 0 THEN base ELSE step[<<n - 1, f[n - 1]>>]
  <2>1. Upto(n, G(n))
    BY <1>3
  <2>2. CASE n = 0
    BY <2>1, <2>2
  <2>3. CASE n # 0
    <3>1. n - 1 \in Nat /\ n - 1 <= n /\ n - 1 <= n - 1 /\ n \in 0..n
      BY <2>3
    <3>2. Upto(n - 1, G(n - 1))
      BY <1>3, <3>1
    <3> HIDE DEF Upto
    <3>3. G(n)[n - 1] = G(n - 1)[n - 1]
      BY <1>2, <2>1, <3>1, <3>2
    <3>4. G(n)[n] = step[<<n - 1, G(n)[n - 1]>>]
      BY <2>1, <2>3, <3>1 DEF Upto
    <3> QED
      BY <2>3, <3>1, <3>3, <3>4
  <2> QED
    BY <2>2, <2>3
<1> HIDE DEF f
<1> QED
  BY <1>4, <1>5 DEF Iterates

\* f is the function with this value for {} and this step.
Folds(f, S, V, base, step, pick) ==
  /\ f \in [SUBSET S -> V]
  /\ \A s \in SUBSET S :
       f[s] = IF s = {} THEN base ELSE step[<<pick[s], f[s \ {pick[s]}]>>]

\* pick chooses an element of each set.
Picks(pick, S) == \A s \in SUBSET S : s # {} => pick[s] \in s

(* A function on the subsets of a finite set is determined by its value    *)
(* for the empty set and the step that puts back an element picked.        *)
LEMMA SubsetRecursion ==
  ASSUME NEW S, IsFiniteSet(S), NEW V, NEW base \in V, NEW step \in [S \X V -> V],
         NEW pick, Picks(pick, S)
  PROVE  \E f : Folds(f, S, V, base, step, pick)
<1> DEFINE Rest(s) == s \ {pick[s]}
           Within(s, g) ==
             /\ g \in [SUBSET s -> V]
             /\ \A t \in SUBSET s :
                  g[t] = IF t = {} THEN base ELSE step[<<pick[t], g[Rest(t)]>>]
<1>1. \A s \in SUBSET S : s # {} => /\ pick[s] \in S /\ Rest(s) \in SUBSET S
                                   /\ Rest(s) \subseteq s /\ Rest(s) # s
  BY DEF Picks
<1>2. ASSUME NEW s \in SUBSET S, NEW t \in SUBSET S, NEW g, Within(s, g),
             NEW h, Within(t, h), NEW u \in SUBSET S, u \subseteq s, u \subseteq t
      PROVE  g[u] = h[u]
  <2> DEFINE Bad == {w \in SUBSET S : w \subseteq s /\ w \subseteq t /\ g[w] # h[w]}
  <2>1. SUFFICES ASSUME Bad # {} PROVE FALSE
    BY <1>2
  <2>2. PICK w \in Bad : \A x \in Bad : x \subseteq w => x = w
    <3>1. Bad \in SUBSET (SUBSET S)
      OBVIOUS
    <3> HIDE DEF Bad
    <3> QED
      BY <2>1, <3>1, MinimalSet
  <2>3. w \in SUBSET S /\ w \in SUBSET s /\ w \in SUBSET t /\ g[w] # h[w]
    BY <2>2
  <2>4. w # {}
    BY <1>2, <2>3
  <2>5. Rest(w) \in SUBSET S /\ Rest(w) \subseteq w /\ Rest(w) # w
    BY <1>1, <2>3, <2>4
  <2> HIDE DEF Rest
  <2>6. Rest(w) \notin Bad
    <3> HIDE DEF Bad, Within
    <3> QED
      BY <2>2, <2>5
  <2>7. g[Rest(w)] = h[Rest(w)]
    BY <2>3, <2>5, <2>6
  <2>8. g[w] = step[<<pick[w], g[Rest(w)]>>] /\ h[w] = step[<<pick[w], h[Rest(w)]>>]
    BY <1>2, <2>3, <2>4
  <2> QED
    BY <2>3, <2>7, <2>8
<1> DEFINE G(s) == CHOOSE g : Within(s, g)
<1>3. \A s \in SUBSET S : \E g : Within(s, g)
  <2> DEFINE Bad == {w \in SUBSET S : ~\E g : Within(w, g)}
  <2>1. SUFFICES ASSUME Bad # {} PROVE FALSE
    OBVIOUS
  <2>2. PICK w \in Bad : \A x \in Bad : x \subseteq w => x = w
    <3>1. Bad \in SUBSET (SUBSET S)
      OBVIOUS
    <3> HIDE DEF Bad
    <3> QED
      BY <2>1, <3>1, MinimalSet
  <2>3. w \in SUBSET S
    BY <2>2
  <2> HIDE DEF Rest, Within
  <2>4. \A t \in SUBSET w : t # w => Within(t, G(t))
    <3> SUFFICES ASSUME NEW t \in SUBSET w, t # w PROVE \E g : Within(t, g)
      OBVIOUS
    <3>1. t \in SUBSET S /\ t \notin Bad
      <4> HIDE DEF Bad
      <4> QED
        BY <2>2, <2>3
    <3> QED
      BY <3>1
  <2> DEFINE last == IF w = {} THEN base ELSE step[<<pick[w], G(Rest(w))[Rest(w)]>>]
             g == [t \in SUBSET w |-> IF t = w THEN last ELSE G(t)[t]]
  <2> HIDE DEF G
  <2>5. ASSUME NEW t \in SUBSET w, t # w
        PROVE  G(t)[t] \in V /\ G(t)[t] = IF t = {} THEN base
                                          ELSE step[<<pick[t], G(t)[Rest(t)]>>]
    <3>1. Within(t, G(t)) /\ t \in SUBSET t
      BY <2>4, <2>5
    <3> QED
      BY <3>1 DEF Within
  <2>6. last \in V
    <3>1. CASE w = {}
      BY <3>1
    <3>2. CASE w # {}
      <4>1. Rest(w) \in SUBSET w /\ Rest(w) # w /\ pick[w] \in S
        BY <1>1, <2>3, <3>2
      <4>2. G(Rest(w))[Rest(w)] \in V
        BY <2>5, <4>1
      <4> QED
        BY <3>2, <4>1, <4>2
    <3> QED
      BY <3>1, <3>2
  <2> HIDE DEF last
  <2>7. g \in [SUBSET w -> V]
    BY <2>5, <2>6
  <2>8. ASSUME NEW t \in SUBSET w
        PROVE  g[t] = IF t = {} THEN base ELSE step[<<pick[t], g[Rest(t)]>>]
    <3>1. CASE t = w
      <4>1. CASE w = {}
        BY <3>1, <4>1 DEF last
      <4>2. CASE w # {}
        <5>1. Rest(w) \in SUBSET w /\ Rest(w) # w
          BY <1>1, <2>3, <4>2
        <5>2. g[Rest(w)] = G(Rest(w))[Rest(w)]
          BY <5>1
        <5> QED
          BY <3>1, <4>2, <5>2 DEF last
      <4> QED
        BY <4>1, <4>2
    <3>2. CASE t # w
      <4>1. g[t] = G(t)[t]
        BY <3>2
      <4>2. CASE t = {}
        BY <2>5, <3>2, <4>1, <4>2
      <4>3. CASE t # {}
        <5>1. /\ t \in SUBSET S /\ Rest(t) \in SUBSET t /\ Rest(t) # t
              /\ Rest(t) \in SUBSET w /\ Rest(t) # w /\ Rest(t) \in SUBSET S
          BY <1>1, <2>3, <4>3
        <5>2. G(t)[Rest(t)] = G(Rest(t))[Rest(t)]
          <6> DEFINE r == Rest(t)
                     a == G(t)
                     b == G(r)
          <6>1. Within(t, a) /\ Within(r, b)
            BY <2>4, <3>2, <5>1
          <6>2. t \in SUBSET S /\ r \in SUBSET S /\ r \subseteq t /\ r \subseteq r
            BY <5>1
          <6> HIDE DEF r, a, b
          <6>3. a[r] = b[r]
            BY <1>2, <6>1, <6>2
          <6> QED
            BY <6>3 DEF r, a, b
        <5>3. g[Rest(t)] = G(Rest(t))[Rest(t)]
          BY <5>1
        <5>4. G(t)[t] = step[<<pick[t], G(t)[Rest(t)]>>]
          BY <2>5, <3>2, <4>3
        <5> QED
          BY <4>1, <4>3, <5>2, <5>3, <5>4
      <4> QED
        BY <4>2, <4>3
    <3> QED
      BY <3>1, <3>2
  <2> HIDE DEF g
  <2>9. Within(w, g)
    BY <2>7, <2>8 DEF Within
  <2> QED
    BY <2>2, <2>9
<1>4. PICK f : Within(S, f)
  <2> HIDE DEF Within
  <2> QED
    BY <1>3
<1>5. Folds(f, S, V, base, step, pick)
  BY <1>4 DEF Folds
<1> QED
  BY <1>5

-----------------------------------------------------------------------------
(* Sums: FoldFunctionOnSet(+, 0, f, S) of the community modules, which     *)
(* chooses the order it adds in.                                           *)

Numbers(f, S) == \A x \in S : f[x] \in Int
Counts(f, S) == \A x \in S : f[x] \in Nat
Agree(e, f, S) == \A x \in S : e[x] = f[x]

\* What it adds to the sum of the others.
Chosen(s) == CHOOSE x \in s : TRUE
IsSum(f, S, g) ==
  /\ g \in [SUBSET S -> Int]
  /\ \A s \in SUBSET S : g[s] = IF s = {} THEN 0 ELSE f[Chosen(s)] + g[s \ {Chosen(s)}]

(* The equations of the fold have a solution.                             *)
LEMMA TotalExists ==
  ASSUME NEW S, IsFiniteSet(S), NEW f, Numbers(f, S)
  PROVE  \E g : IsSum(f, S, g)
<1> DEFINE step == [p \in S \X Int |-> f[p[1]] + p[2]]
           pick == [s \in SUBSET S |-> Chosen(s)]
<1>1. step \in [S \X Int -> Int]
  BY DEF Numbers
<1>2. \A s \in SUBSET S : pick[s] = Chosen(s) /\ (s # {} => pick[s] \in s)
  BY DEF Chosen
<1>3. \A x \in S, n \in Int : step[<<x, n>>] = f[x] + n
  OBVIOUS
<1> HIDE DEF step, pick
<1>4. PICK g \in [SUBSET S -> Int] :
        \A s \in SUBSET S : g[s] = IF s = {} THEN 0 ELSE step[<<pick[s], g[s \ {pick[s]}]>>]
  <2> DEFINE V == Int
             base == 0
  <2>1. base \in V /\ step \in [S \X V -> V]
        /\ Picks(pick, S)
    BY <1>1, <1>2 DEF Picks
  <2> HIDE DEF V, base
  <2>2. \E g : Folds(g, S, V, base, step, pick)
    BY <2>1, SubsetRecursion
  <2> QED
    BY <2>2 DEF Folds, V, base
<1>5. ASSUME NEW s \in SUBSET S
      PROVE  g[s] = IF s = {} THEN 0 ELSE f[Chosen(s)] + g[s \ {Chosen(s)}]
  <2>1. CASE s = {}
    BY <1>4, <2>1
  <2>2. CASE s # {}
    <3>1. pick[s] = Chosen(s) /\ Chosen(s) \in S /\ g[s \ {Chosen(s)}] \in Int
      BY <1>2, <1>4, <2>2
    <3>2. g[s] = step[<<pick[s], g[s \ {pick[s]}]>>]
      BY <1>4, <2>2
    <3> QED
      BY <1>3, <2>2, <3>1, <3>2
  <2> QED
    BY <2>1, <2>2
<1> QED
  BY <1>4, <1>5 DEF IsSum

(* The sums of the subsets are those of the fold itself.                   *)
LEMMA FoldIsSum ==
  ASSUME NEW S, IsFiniteSet(S), NEW f, Numbers(f, S)
  PROVE  \E g : IsSum(f, S, g) /\ g[S] = FoldFunctionOnSet(+, 0, f, S)
<1> DEFINE h == CHOOSE g : g = [s \in SUBSET S |->
                  IF s = {} THEN 0 ELSE f[Chosen(s)] + g[s \ {Chosen(s)}]]
<1>1. PICK g : IsSum(f, S, g)
  BY TotalExists
<1>2. h = [s \in SUBSET S |-> IF s = {} THEN 0 ELSE f[Chosen(s)] + h[s \ {Chosen(s)}]]
  <2>1. g = [s \in SUBSET S |-> IF s = {} THEN 0 ELSE f[Chosen(s)] + g[s \ {Chosen(s)}]]
    BY <1>1 DEF IsSum
  <2> QED
    BY <2>1
<1>3. FoldFunctionOnSet(+, 0, f, S) = h[S]
  BY DEF FoldFunctionOnSet, MapThenFoldSet, Chosen
<1> HIDE DEF h
<1>4. \A s \in SUBSET S : g[s] = h[s]
  <2> DEFINE Bad == {s \in SUBSET S : g[s] # h[s]}
  <2>1. SUFFICES ASSUME Bad # {} PROVE FALSE
    OBVIOUS
  <2>2. PICK w \in Bad : \A x \in Bad : x \subseteq w => x = w
    <3>1. Bad \in SUBSET (SUBSET S)
      OBVIOUS
    <3> HIDE DEF Bad
    <3> QED
      BY <2>1, <3>1, MinimalSet
  <2>3. w \in SUBSET S /\ g[w] # h[w]
    BY <2>2
  <2> HIDE DEF Bad
  <2>4. w # {}
    BY <1>1, <1>2, <2>3 DEF IsSum
  <2> DEFINE r == w \ {Chosen(w)}
  <2>5. r \in SUBSET S /\ r \subseteq w /\ r # w
    BY <2>3, <2>4 DEF Chosen
  <2>6. g[w] = f[Chosen(w)] + g[r] /\ h[w] = f[Chosen(w)] + h[r]
    BY <1>1, <1>2, <2>3, <2>4 DEF IsSum
  <2> HIDE DEF r
  <2>7. g[r] = h[r]
    BY <2>2, <2>5 DEF Bad
  <2> QED
    BY <2>3, <2>6, <2>7
<1>5. DOMAIN h = SUBSET S
  BY <1>2
<1> QED
  BY <1>1, <1>3, <1>4
\* The sum of f over S.
SumOn(f, S) == FoldFunctionOnSet(+, 0, f, S)

(* Two functions that agree on a set have the same sums there.             *)
LEMMA SumsAgree ==
  ASSUME NEW S, IsFiniteSet(S), NEW T \in SUBSET S, NEW f, NEW e,
         Numbers(f, S), Agree(e, f, T)
  PROVE  \E g, h : IsSum(f, S, g) /\ g[S] = SumOn(f, S)
                 /\ IsSum(e, T, h) /\ h[T] = SumOn(e, T)
                 /\ \A s \in SUBSET T : h[s] = g[s]
<1>1. IsFiniteSet(T) /\ Numbers(e, T)
  BY FS_Subset DEF Numbers, Agree
<1>2. PICK g : IsSum(f, S, g) /\ g[S] = SumOn(f, S)
  BY FoldIsSum DEF SumOn
<1>3. PICK h : IsSum(e, T, h) /\ h[T] = SumOn(e, T)
  BY <1>1, FoldIsSum DEF SumOn
<1>4. \A s \in SUBSET T : h[s] = g[s]
  <2> DEFINE Bad == {s \in SUBSET T : h[s] # g[s]}
  <2>1. SUFFICES ASSUME Bad # {} PROVE FALSE
    OBVIOUS
  <2>2. PICK w \in Bad : \A x \in Bad : x \subseteq w => x = w
    <3>1. Bad \in SUBSET (SUBSET T)
      OBVIOUS
    <3> HIDE DEF Bad
    <3> QED
      BY <1>1, <2>1, <3>1, MinimalSet
  <2>3. w \in SUBSET T /\ w \in SUBSET S /\ h[w] # g[w]
    BY <2>2
  <2> HIDE DEF Bad
  <2>4. w # {}
    BY <1>2, <1>3, <2>3 DEF IsSum
  <2> DEFINE r == w \ {Chosen(w)}
  <2>5. r \in SUBSET T /\ r \subseteq w /\ r # w /\ Chosen(w) \in T
    BY <2>3, <2>4 DEF Chosen
  <2>6. h[w] = e[Chosen(w)] + h[r] /\ g[w] = f[Chosen(w)] + g[r]
    BY <1>2, <1>3, <2>3, <2>4 DEF IsSum
  <2> HIDE DEF r
  <2>7. h[r] = g[r]
    BY <2>2, <2>5 DEF Bad
  <2> QED
    BY <2>3, <2>5, <2>6, <2>7 DEF Agree
<1> QED
  BY <1>2, <1>3, <1>4

(* A sum of integers is one.                                              *)
LEMMA TotalIsInt ==
  ASSUME NEW S, IsFiniteSet(S), NEW f, Numbers(f, S)
  PROVE  SumOn(f, S) \in Int
<1>1. PICK g : IsSum(f, S, g) /\ g[S] = SumOn(f, S)
  BY FoldIsSum DEF SumOn
<1>2. S \in SUBSET S
  OBVIOUS
<1> QED
  BY <1>1, <1>2 DEF IsSum

(* The sum over the empty set.                                           *)
LEMMA SumOfNone ==
  ASSUME NEW f
  PROVE  SumOn(f, {}) = 0
<1>1. IsFiniteSet({}) /\ Numbers(f, {})
  BY FS_EmptySet DEF Numbers
<1> QED
  BY <1>1, FoldIsSum DEF IsSum, SumOn

(* Only the values on the set count.                                     *)
LEMMA TotalSame ==
  ASSUME NEW S, IsFiniteSet(S), NEW f, NEW e,
         Numbers(f, S), Agree(e, f, S)
  PROVE  SumOn(e, S) = SumOn(f, S)
<1>1. PICK T \in SUBSET S : T = S
  OBVIOUS
<1>2. Agree(e, f, T)
  BY <1>1
<1>3. PICK g, h : g[S] = SumOn(f, S) /\ h[T] = SumOn(e, T) /\ \A s \in SUBSET T : h[s] = g[s]
  BY <1>2, SumsAgree
<1> QED
  BY <1>1, <1>3

(* The sum over a set is any one value and the sum of the others.        *)
LEMMA TotalRemove ==
  ASSUME NEW S, IsFiniteSet(S), NEW f, Numbers(f, S), NEW x \in S
  PROVE  SumOn(f, S) = f[x] + SumOn(f, S \ {x})
<1>1. PICK g : IsSum(f, S, g) /\ g[S] = SumOn(f, S)
  BY FoldIsSum DEF SumOn
<1>2. ASSUME NEW T \in SUBSET S
      PROVE  g[T] = SumOn(f, T)
  <2>1. PICK k, h : IsSum(f, S, k) /\ IsSum(f, T, h) /\ h[T] = SumOn(f, T)
                    /\ \A s \in SUBSET T : h[s] = k[s]
    <3>1. PICK e : e = f
      OBVIOUS
    <3>2. Agree(e, f, T)
      BY <3>1 DEF Agree
    <3>3. \E k, h : IsSum(f, S, k) /\ IsSum(e, T, h) /\ h[T] = SumOn(e, T)
                    /\ \A s \in SUBSET T : h[s] = k[s]
      BY <3>2, SumsAgree
    <3> QED
      BY <3>1, <3>3
  <2>2. \A s \in SUBSET S : g[s] = k[s]
    <3> DEFINE Bad == {s \in SUBSET S : g[s] # k[s]}
    <3>1. SUFFICES ASSUME Bad # {} PROVE FALSE
      OBVIOUS
    <3>2. PICK w \in Bad : \A y \in Bad : y \subseteq w => y = w
      <4>1. Bad \in SUBSET (SUBSET S)
        OBVIOUS
      <4> HIDE DEF Bad
      <4> QED
        BY <3>1, <4>1, MinimalSet
    <3>3. w \in SUBSET S /\ g[w] # k[w]
      BY <3>2
    <3> HIDE DEF Bad
    <3>4. w # {}
      BY <1>1, <2>1, <3>3 DEF IsSum
    <3> DEFINE r == w \ {Chosen(w)}
    <3>5. r \in SUBSET S /\ r \subseteq w /\ r # w
      BY <3>3, <3>4 DEF Chosen
    <3>6. g[w] = f[Chosen(w)] + g[r] /\ k[w] = f[Chosen(w)] + k[r]
      BY <1>1, <2>1, <3>3, <3>4 DEF IsSum
    <3> HIDE DEF r
    <3>7. g[r] = k[r]
      BY <3>2, <3>5 DEF Bad
    <3> QED
      BY <3>3, <3>6, <3>7
  <2> QED
    BY <2>1, <2>2
<1>3. \A s \in SUBSET S : \A y \in s : g[s] = f[y] + g[s \ {y}]
  <2> DEFINE Bad == {s \in SUBSET S : \E y \in s : g[s] # f[y] + g[s \ {y}]}
  <2>1. SUFFICES ASSUME Bad # {} PROVE FALSE
    OBVIOUS
  <2>2. PICK w \in Bad : \A z \in Bad : z \subseteq w => z = w
    <3>1. Bad \in SUBSET (SUBSET S)
      OBVIOUS
    <3> HIDE DEF Bad
    <3> QED
      BY <2>1, <3>1, MinimalSet
  <2>3. PICK y \in w : g[w] # f[y] + g[w \ {y}]
    BY <2>2
  <2>4. w \in SUBSET S
    BY <2>2
  <2> HIDE DEF Bad
  <2> DEFINE c == Chosen(w)
  <2>5. c \in w /\ g[w] = f[c] + g[w \ {c}]
    <3>1. c \in w
      BY DEF Chosen
    <3> QED
      BY <1>1, <2>4, <3>1 DEF IsSum
  <2> HIDE DEF c
  <2>6. c # y
    BY <2>3, <2>5
  <2> DEFINE u == w \ {c}
             v == w \ {y}
             z == u \ {y}
  <2>7. /\ y \in u /\ c \in v /\ z = v \ {c}
        /\ u \in SUBSET S /\ v \in SUBSET S /\ z \in SUBSET S
        /\ u \subseteq w /\ u # w /\ v \subseteq w /\ v # w
    BY <2>4, <2>5, <2>6
  <2>8. g[w] = f[c] + g[u] /\ g[w] # f[y] + g[v]
    BY <2>3, <2>5
  <2>9. g[u] = f[y] + g[u \ {y}]
    <3> HIDE DEF u, v, z
    <3> QED
      BY <2>2, <2>7 DEF Bad
  <2>10. g[v] = f[c] + g[v \ {c}]
    <3> HIDE DEF u, v, z
    <3> QED
      BY <2>2, <2>7 DEF Bad
  <2>11. g[z] \in Int /\ f[c] \in Int /\ f[y] \in Int
    BY <1>1, <2>3, <2>4, <2>5, <2>7 DEF IsSum, Numbers
  <2>12. g[u] = f[y] + g[z] /\ g[v] = f[c] + g[z]
    BY <2>7, <2>9, <2>10
  <2> HIDE DEF u, v, z
  <2> QED
    BY <2>8, <2>11, <2>12
<1>4. S \in SUBSET S /\ S \ {x} \in SUBSET S
  OBVIOUS
<1> QED
  BY <1>2, <1>3, <1>4

(* One more value to sum.                                                  *)
LEMMA TotalAdd ==
  ASSUME NEW S, IsFiniteSet(S), NEW f, Numbers(f, S), NEW T \in SUBSET S, NEW x \in S, x \notin T
  PROVE  SumOn(f, T \cup {x}) = f[x] + SumOn(f, T)
<1> DEFINE U == T \cup {x}
<1>1. U \subseteq S /\ U \ {x} = T
  OBVIOUS
<1>2. IsFiniteSet(U) /\ Numbers(f, U) /\ x \in U
  BY <1>1, FS_Subset DEF Numbers
<1> HIDE DEF U
<1>3. SumOn(f, U) = f[x] + SumOn(f, U \ {x})
  BY <1>2, TotalRemove
<1> QED
  BY <1>1, <1>3 DEF U

(* Two sets without a common element add up to their union.                *)
LEMMA TotalUnion ==
  ASSUME NEW S, IsFiniteSet(S), NEW f, Numbers(f, S),
         NEW A \in SUBSET S, NEW B \in SUBSET S, A \cap B = {}
  PROVE  SumOn(f, A \cup B) = SumOn(f, A) + SumOn(f, B)
<1> DEFINE Bad == {X \in SUBSET B : SumOn(f, A \cup X) # SumOn(f, A) + SumOn(f, X)}
<1>1. SUFFICES ASSUME Bad # {} PROVE FALSE
  <2>1. B \in SUBSET B
    OBVIOUS
  <2> QED
    BY <2>1
<1>2. \A X \in SUBSET S : SumOn(f, X) \in Int
  <2> SUFFICES ASSUME NEW X \in SUBSET S PROVE SumOn(f, X) \in Int
    OBVIOUS
  <2>1. IsFiniteSet(X) /\ Numbers(f, X)
    BY FS_Subset DEF Numbers
  <2> QED
    BY <2>1, TotalIsInt
<1>3. PICK X \in Bad : \A Y \in Bad : Y \subseteq X => Y = X
  <2>1. Bad \in SUBSET (SUBSET S)
    OBVIOUS
  <2> HIDE DEF Bad
  <2> QED
    BY <1>1, <2>1, MinimalSet
<1>4. X # {}
  <2>1. SUFFICES ASSUME X = {} PROVE FALSE
    OBVIOUS
  <2>2. A \cup X = A /\ SumOn(f, X) = 0
    BY <2>1, SumOfNone
  <2>3. SumOn(f, A) \in Int
    BY <1>2
  <2>4. SumOn(f, A \cup X) # SumOn(f, A) + SumOn(f, X)
    OBVIOUS
  <2>5. SumOn(f, A \cup X) = SumOn(f, A)
    BY <2>2
  <2> HIDE DEF Bad
  <2>6. SumOn(f, A) + SumOn(f, X) = SumOn(f, A) + 0
    BY <2>2
  <2> QED
    BY <2>3, <2>4, <2>5, <2>6
<1>5. PICK y \in X : TRUE
  BY <1>4
<1> DEFINE Y == X \ {y}
<1>6. Y \in SUBSET B /\ Y \subseteq X /\ Y # X /\ Y \cup {y} = X
      /\ (A \cup Y) \cup {y} = A \cup X /\ y \notin A \cup Y /\ y \in S /\ y \notin Y
      /\ A \cup Y \in SUBSET S /\ Y \in SUBSET S
  BY <1>5
<1> HIDE DEF Y
<1>7. SumOn(f, A \cup Y) = SumOn(f, A) + SumOn(f, Y)
  BY <1>3, <1>6
<1>8. SumOn(f, A \cup X) = f[y] + SumOn(f, A \cup Y)
  <2> DEFINE Z == A \cup Y
  <2>1. Z \in SUBSET S /\ y \in S /\ y \notin Z /\ Z \cup {y} = A \cup X
    BY <1>6
  <2> HIDE DEF Z
  <2>2. SumOn(f, Z \cup {y}) = f[y] + SumOn(f, Z)
    BY <2>1, TotalAdd
  <2> QED
    BY <2>1, <2>2 DEF Z
<1>9. SumOn(f, X) = f[y] + SumOn(f, Y)
  BY <1>6, TotalAdd
<1>10. f[y] \in Int
  BY <1>6 DEF Numbers
<1>11. SumOn(f, A \cup X) = SumOn(f, A) + SumOn(f, X)
  BY <1>2, <1>6, <1>7, <1>8, <1>9, <1>10
<1> QED
  BY <1>3, <1>11

(* A sum of natural numbers is one.                                       *)
LEMMA SumIsNat ==
  ASSUME NEW S, IsFiniteSet(S), NEW f, Counts(f, S)
  PROVE  SumOn(f, S) \in Nat
<1> DEFINE Bad == {X \in SUBSET S : SumOn(f, X) \notin Nat}
<1>1. SUFFICES ASSUME Bad # {} PROVE FALSE
  <2>1. S \in SUBSET S
    OBVIOUS
  <2> QED
    BY <2>1
<1>2. PICK X \in Bad : \A Y \in Bad : Y \subseteq X => Y = X
  <2>1. Bad \in SUBSET (SUBSET S)
    OBVIOUS
  <2> HIDE DEF Bad
  <2> QED
    BY <1>1, <2>1, MinimalSet
<1>3. PICK x \in X : TRUE
  <2>1. SumOn(f, {}) \in Nat
    BY SumOfNone
  <2> QED
    BY <1>2, <2>1
<1>4. X \in SUBSET S /\ IsFiniteSet(X) /\ Numbers(f, X) /\ f[x] \in Nat
  BY <1>2, <1>3, FS_Subset DEF Numbers, Counts
<1> DEFINE R == X \ {x}
<1>5. SumOn(f, X) = f[x] + SumOn(f, R)
  BY <1>3, <1>4, TotalRemove
<1>6. R \in SUBSET S /\ R \subseteq X /\ R # X
  BY <1>3, <1>4
<1>7. SumOn(f, R) \in Nat
  <2> HIDE DEF R
  <2> QED
    BY <1>2, <1>6
<1> HIDE DEF R
<1> QED
  BY <1>2, <1>4, <1>5, <1>7

(* What is said of integers holds of natural numbers.                     *)
LEMMA CountsAreNumbers ==
  ASSUME NEW S, NEW f, Counts(f, S)
  PROVE  Numbers(f, S)
BY DEF Counts, Numbers

LEMMA SumSame ==
  ASSUME NEW S, IsFiniteSet(S), NEW f, NEW e,
         Counts(f, S), Agree(e, f, S)
  PROVE  SumOn(e, S) = SumOn(f, S)
BY TotalSame, CountsAreNumbers

LEMMA SumRemove ==
  ASSUME NEW S, IsFiniteSet(S), NEW f, Counts(f, S), NEW x \in S
  PROVE  SumOn(f, S) = f[x] + SumOn(f, S \ {x})
BY TotalRemove, CountsAreNumbers

LEMMA SumAdd ==
  ASSUME NEW S, IsFiniteSet(S), NEW f, Counts(f, S), NEW T \in SUBSET S, NEW x \in S, x \notin T
  PROVE  SumOn(f, T \cup {x}) = f[x] + SumOn(f, T)
BY TotalAdd, CountsAreNumbers

LEMMA SumUnion ==
  ASSUME NEW S, IsFiniteSet(S), NEW f, Counts(f, S),
         NEW A \in SUBSET S, NEW B \in SUBSET S, A \cap B = {}
  PROVE  SumOn(f, A \cup B) = SumOn(f, A) + SumOn(f, B)
BY TotalUnion, CountsAreNumbers

(* One value of a sum changed.                                             *)
LEMMA SumChanged ==
  ASSUME NEW S, IsFiniteSet(S), NEW f, NEW e, NEW x \in S,
         Counts(f, S), Counts(e, S),
         Agree(e, f, S \ {x})
  PROVE  SumOn(e, S) = SumOn(f, S) + e[x] - f[x]
<1> DEFINE R == S \ {x}
<1>1. IsFiniteSet(R) /\ Counts(f, R)
  BY FS_Subset DEF Counts
<1>2. SumOn(f, S) = f[x] + SumOn(f, R) /\ SumOn(e, S) = e[x] + SumOn(e, R)
  BY SumRemove
<1>3. SumOn(e, R) = SumOn(f, R)
  <2>1. Agree(e, f, R)
    OBVIOUS
  <2> HIDE DEF R
  <2> QED
    BY <1>1, <2>1, SumSame
<1>4. SumOn(f, R) \in Nat
  <2> HIDE DEF R
  <2> QED
    BY <1>1, SumIsNat
<1> HIDE DEF R
<1> QED
  BY <1>2, <1>3, <1>4 DEF Counts

(* No value is larger than the sum.                                        *)
LEMMA SumAtLeast ==
  ASSUME NEW S, IsFiniteSet(S), NEW f, Counts(f, S), NEW x \in S
  PROVE  f[x] <= SumOn(f, S)
<1> DEFINE R == S \ {x}
<1>1. IsFiniteSet(R) /\ Counts(f, R)
  BY FS_Subset DEF Counts
<1>2. SumOn(f, S) = f[x] + SumOn(f, R)
  BY SumRemove
<1>3. SumOn(f, R) \in Nat
  <2> HIDE DEF R
  <2> QED
    BY <1>1, SumIsNat
<1> HIDE DEF R
<1> QED
  BY <1>2, <1>3 DEF Counts

(* A part adds up to no more than the whole.                               *)
LEMMA SumOfPart ==
  ASSUME NEW S, IsFiniteSet(S), NEW f, Counts(f, S), NEW T \in SUBSET S
  PROVE  SumOn(f, T) <= SumOn(f, S)
<1> DEFINE F == {X \in SUBSET S : T \subseteq X /\ SumOn(f, T) <= SumOn(f, X)}
           G == {S \ X : X \in F}
<1>1. \A X \in SUBSET S : IsFiniteSet(X) /\ Counts(f, X) /\ SumOn(f, X) \in Nat
  <2> SUFFICES ASSUME NEW X \in SUBSET S
               PROVE  IsFiniteSet(X) /\ Counts(f, X) /\ SumOn(f, X) \in Nat
    OBVIOUS
  <2>1. IsFiniteSet(X) /\ Counts(f, X)
    BY FS_Subset DEF Counts
  <2> QED
    BY <2>1, SumIsNat
<1>2. T \in F
  BY <1>1
<1>3. G \in SUBSET (SUBSET S) /\ G # {}
  BY <1>2
<1>4. PICK Y \in G : \A Z \in G : Z \subseteq Y => Z = Y
  <2> HIDE DEF G
  <2> QED
    BY <1>3, MinimalSet
<1>5. PICK X \in F : Y = S \ X
  OBVIOUS
<1>6. X = S
  <2>1. SUFFICES ASSUME X # S PROVE FALSE
    OBVIOUS
  <2>2. X \in SUBSET S /\ T \subseteq X /\ SumOn(f, T) <= SumOn(f, X)
    OBVIOUS
  <2>3. PICK x \in S : x \notin X
    BY <2>1, <2>2
  <2> DEFINE U == X \cup {x}
  <2>4. U \in SUBSET S /\ T \subseteq U /\ U # X
    BY <2>2, <2>3
  <2>5. SumOn(f, U) = f[x] + SumOn(f, X)
    BY <2>2, <2>3, SumAdd
  <2>6. f[x] \in Nat /\ SumOn(f, X) \in Nat /\ SumOn(f, T) \in Nat
    BY <1>1, <2>2 DEF Counts
  <2>7. SumOn(f, T) <= SumOn(f, U)
    <3> HIDE DEF U, F
    <3> QED
      BY <2>2, <2>5, <2>6
  <2>8. U \in F
    <3> HIDE DEF U
    <3> QED
      BY <2>4, <2>7
  <2>9. S \ U \in G
    BY <2>8
  <2>10. S \ U \subseteq Y /\ S \ U # Y
    BY <1>5, <2>3
  <2> HIDE DEF G, U
  <2> QED
    BY <1>4, <2>9, <2>10
<1> QED
  BY <1>6

(* A sum of zeros is zero.                                                 *)
LEMMA SumOfZeros ==
  ASSUME NEW S, IsFiniteSet(S), NEW f, \A x \in S : f[x] = 0
  PROVE  SumOn(f, S) = 0
<1> DEFINE G == {S \ T : T \in {U \in SUBSET S : SumOn(f, U) = 0}}
<1>1. Counts(f, S)
  BY DEF Counts
<1>2. G \in SUBSET (SUBSET S) /\ G # {}
  <2>1. SumOn(f, {}) = 0
    BY SumOfNone
  <2>2. S \ {} \in G
    BY <2>1
  <2> QED
    BY <2>2
<1>3. PICK Y \in G : \A Z \in G : Z \subseteq Y => Z = Y
  <2> HIDE DEF G
  <2> QED
    BY <1>2, MinimalSet
<1>4. PICK T \in SUBSET S : Y = S \ T /\ SumOn(f, T) = 0
  OBVIOUS
<1>5. T = S
  <2>1. SUFFICES ASSUME NEW x \in S, x \notin T PROVE FALSE
    BY <1>4
  <2> DEFINE U == T \cup {x}
  <2>2. SumOn(f, U) = f[x] + SumOn(f, T)
    BY <1>1, <2>1, SumAdd
  <2>3. U \in SUBSET S /\ SumOn(f, U) = 0
    BY <1>4, <2>2
  <2>4. S \ U \in G /\ S \ U \subseteq Y /\ S \ U # Y
    BY <1>4, <2>1, <2>3
  <2> HIDE DEF G, U
  <2> QED
    BY <1>3, <2>4
<1> QED
  BY <1>4, <1>5

(* Multiplication distributes over addition.                               *)
LEMMA Distributes ==
  ASSUME NEW a \in Int, NEW x \in Int, NEW y \in Int
  PROVE  a * (x + y) = a * x + a * y
OBVIOUS

\* e is a linear combination of the others.
Combines(e, f, g, h, a, b, c, S) == \A x \in S : e[x] = a * f[x] + b * g[x] + c * h[x]

(* The sum of a linear combination is that of the sums.                    *)
LEMMA TotalLinear ==
  ASSUME NEW S, IsFiniteSet(S), NEW f, NEW g, NEW h, NEW e,
         Numbers(f, S), Numbers(g, S), Numbers(h, S), NEW a \in Int, NEW b \in Int, NEW c \in Int,
         Combines(e, f, g, h, a, b, c, S)
  PROVE  SumOn(e, S) = a * SumOn(f, S) + b * SumOn(g, S) + c * SumOn(h, S)
<1>0. \A x \in S : e[x] = a * f[x] + b * g[x] + c * h[x]
  BY DEF Combines
<1> DEFINE Right(X) == a * SumOn(f, X) + b * SumOn(g, X) + c * SumOn(h, X)
           Bad == {X \in SUBSET S : SumOn(e, X) # Right(X)}
<1>1. SUFFICES ASSUME Bad # {} PROVE FALSE
  <2>1. S \in SUBSET S
    OBVIOUS
  <2> QED
    BY <2>1
<1>2. PICK X \in Bad : \A Y \in Bad : Y \subseteq X => Y = X
  <2>1. Bad \in SUBSET (SUBSET S)
    OBVIOUS
  <2> HIDE DEF Bad
  <2> QED
    BY <1>1, <2>1, MinimalSet
<1>3. X \in SUBSET S /\ SumOn(e, X) # Right(X)
  OBVIOUS
<1>4. Numbers(e, S)
  BY <1>0 DEF Numbers
<1>5. PICK x \in X : TRUE
  <2>1. SUFFICES ASSUME X = {} PROVE FALSE
    OBVIOUS
  <2>2. SumOn(e, {}) = 0 /\ SumOn(f, {}) = 0 /\ SumOn(g, {}) = 0 /\ SumOn(h, {}) = 0
    BY SumOfNone
  <2>3. Right({}) = a * 0 + b * 0 + c * 0
    BY <2>2
  <2>4. a * 0 + b * 0 + c * 0 = 0
    OBVIOUS
  <2> HIDE DEF Right, Bad
  <2> QED
    BY <1>3, <2>1, <2>2, <2>3, <2>4
<1> DEFINE R == X \ {x}
<1>6. R \in SUBSET S /\ R \subseteq X /\ R # X
  BY <1>3, <1>5
<1>7. SumOn(e, R) = Right(R)
  <2> HIDE DEF R, Right
  <2> QED
    BY <1>2, <1>6
<1>8. /\ x \in S /\ IsFiniteSet(X) /\ IsFiniteSet(R)
      /\ Numbers(f, X) /\ Numbers(g, X) /\ Numbers(h, X) /\ Numbers(e, X)
      /\ Numbers(f, R) /\ Numbers(g, R) /\ Numbers(h, R)
  <2>1. X \subseteq S /\ R \subseteq S
    BY <1>3, <1>6
  <2> HIDE DEF R
  <2> QED
    BY <1>4, <1>5, <2>1, FS_Subset DEF Numbers
<1>9. /\ SumOn(f, X) = f[x] + SumOn(f, R) /\ SumOn(g, X) = g[x] + SumOn(g, R)
      /\ SumOn(h, X) = h[x] + SumOn(h, R) /\ SumOn(e, X) = e[x] + SumOn(e, R)
  BY <1>8, <1>5, TotalRemove
<1>10. SumOn(f, R) \in Int /\ SumOn(g, R) \in Int /\ SumOn(h, R) \in Int
  <2> HIDE DEF R
  <2> QED
    BY <1>8, TotalIsInt
<1>11. f[x] \in Int /\ g[x] \in Int /\ h[x] \in Int
       /\ e[x] = a * f[x] + b * g[x] + c * h[x]
  BY <1>0, <1>8, <1>5 DEF Numbers
<1>12. \A p, q \in Int : /\ a * (p + q) = a * p + a * q
                         /\ b * (p + q) = b * p + b * q
                         /\ c * (p + q) = c * p + c * q
  BY Distributes
<1>13. Right(X) = e[x] + Right(R)
  <2>1. Right(X) = a * (f[x] + SumOn(f, R)) + b * (g[x] + SumOn(g, R)) + c * (h[x] + SumOn(h, R))
    <3> HIDE DEF R
    <3> QED
      BY <1>9
  <2>2. /\ a * (f[x] + SumOn(f, R)) = a * f[x] + a * SumOn(f, R)
        /\ b * (g[x] + SumOn(g, R)) = b * g[x] + b * SumOn(g, R)
        /\ c * (h[x] + SumOn(h, R)) = c * h[x] + c * SumOn(h, R)
    <3> HIDE DEF R
    <3> QED
      BY <1>10, <1>11, <1>12
  <2> DEFINE p1 == a * f[x]  p2 == b * g[x]  p3 == c * h[x]
             q1 == a * SumOn(f, R)  q2 == b * SumOn(g, R)  q3 == c * SumOn(h, R)
  <2>3. p1 \in Int /\ p2 \in Int /\ p3 \in Int /\ q1 \in Int /\ q2 \in Int /\ q3 \in Int
    <3> HIDE DEF R
    <3> QED
      BY <1>10, <1>11
  <2>4. Right(X) = (p1 + q1) + (p2 + q2) + (p3 + q3)
    BY <2>1, <2>2
  <2>5. e[x] = p1 + p2 + p3 /\ Right(R) = q1 + q2 + q3
    BY <1>11
  <2> HIDE DEF p1, p2, p3, q1, q2, q3, Right, R
  <2> QED
    BY <2>3, <2>4, <2>5
<1> HIDE DEF Right, R, Bad
<1> QED
  BY <1>3, <1>7, <1>9, <1>13

-----------------------------------------------------------------------------
(* Induction, division and powers of two.                                  *)

(* Induction on natural numbers, for a set of them.                        *)
LEMMA NatInduct ==
  ASSUME NEW S, 0 \in S, \A n \in Nat : n \in S => n + 1 \in S
  PROVE  Nat \subseteq S
<1> DEFINE T == {k \in Nat : k \notin S}
<1> SUFFICES ASSUME T # {} PROVE FALSE
  OBVIOUS
<1>1. PICK m \in T : \A k \in T : m <= k
  <2>1. T \in SUBSET Nat
    OBVIOUS
  <2> HIDE DEF T
  <2> QED
    BY <2>1, LeastNumber
<1>2. m - 1 \in Nat /\ m - 1 \notin T
  BY <1>1
<1> QED
  BY <1>1, <1>2

(* Quotient and remainder.                                                 *)
LEMMA Division ==
  ASSUME NEW x \in Int, NEW P \in Nat, P >= 1
  PROVE  /\ x \div P \in Int /\ x % P \in Int
         /\ x = P * (x \div P) + (x % P)
         /\ 0 <= x % P /\ x % P < P
OBVIOUS

\* Multiples of P are P apart.
LEMMA TimesGrows ==
  ASSUME NEW P \in Nat, P >= 1, NEW a \in Int, NEW b \in Int, a < b
  PROVE  a * P + P <= b * P
<1>1. b = a + 1 + (b - a - 1) /\ b - a - 1 \in Nat
  OBVIOUS
<1>2. b * P = a * P + P + (b - a - 1) * P
  BY <1>1
<1>3. (b - a - 1) * P \in Nat
  BY <1>1
<1> QED
  BY <1>2, <1>3

\* The multiple of P from which x is less than P away.
LEMMA QuotientIs ==
  ASSUME NEW x \in Int, NEW P \in Nat, P >= 1, NEW q \in Int
  PROVE  x \div P = q <=> q * P <= x /\ x < q * P + P
<1> DEFINE d == x \div P  r == x % P
<1>1. d \in Int /\ r \in Int /\ x = P * d + r /\ 0 <= r /\ r < P
  BY Division
<1> HIDE DEF d, r
<1>2. P * d = d * P /\ d * P \in Int /\ q * P \in Int
  BY <1>1
<1>3. CASE d = q
  BY <1>1, <1>2, <1>3 DEF d
<1>4. CASE d < q
  <2>1. d * P + P <= q * P
    BY <1>1, <1>4, TimesGrows
  <2> QED
    BY <1>1, <1>2, <1>4, <2>1 DEF d
<1>5. CASE q < d
  <2>1. q * P + P <= d * P
    BY <1>1, <1>5, TimesGrows
  <2> QED
    BY <1>1, <1>2, <1>5, <2>1 DEF d
<1> QED
  BY <1>1, <1>3, <1>4, <1>5

(* The remainder, by a quotient.                                           *)
LEMMA RemainderIs ==
  ASSUME NEW x \in Int, NEW P \in Nat, P >= 1, NEW q \in Int, NEW r \in Int,
         x = q * P + r, 0 <= r, r < P
  PROVE  x % P = r
<1>1. q * P \in Int
  OBVIOUS
<1>2. x \div P = q
  BY <1>1, QuotientIs
<1>3. x = P * (x \div P) + (x % P) /\ x % P \in Int
  BY Division
<1>4. P * q = q * P
  OBVIOUS
<1> QED
  BY <1>1, <1>2, <1>3, <1>4

(* There are powers of two.                                                *)
LEMMA PowersExist == \E f \in [Nat -> Nat] : f = [k \in Nat |-> IF k = 0 THEN 1 ELSE 2 * f[k - 1]]
<1> DEFINE step == [p \in Nat \X Nat |-> 2 * p[2]]
<1>1. step \in [Nat \X Nat -> Nat] /\ 1 \in Nat
  OBVIOUS
<1>2. \A n, x \in Nat : step[<<n, x>>] = 2 * x
  OBVIOUS
<1> HIDE DEF step
<1>3. PICK f : Iterates(f, Nat, 1, step)
  BY <1>1, NatRecursion
<1>4. f \in [Nat -> Nat]
  BY <1>3 DEF Iterates
<1>5. ASSUME NEW k \in Nat PROVE f[k] = IF k = 0 THEN 1 ELSE 2 * f[k - 1]
  <2>1. f[k] = IF k = 0 THEN 1 ELSE step[<<k - 1, f[k - 1]>>]
    BY <1>3 DEF Iterates
  <2>2. CASE k = 0
    BY <2>1, <2>2
  <2>3. CASE k # 0
    <3>1. k - 1 \in Nat /\ f[k - 1] \in Nat
      BY <1>4, <2>3
    <3> QED
      BY <1>2, <2>1, <2>3, <3>1
  <2> QED
    BY <2>2, <2>3
<1> QED
  BY <1>4, <1>5

\* a and b differ by a multiple of P.
Congruent(a, b, P) == \E q \in Int : a = b + q * P

(* By the remainder of the difference.                                     *)
LEMMA CongruentMod ==
  ASSUME NEW a \in Int, NEW b \in Int, NEW P \in Nat, P >= 1
  PROVE  Congruent(a, b, P) <=> (a - b) % P = 0
<1>1. ASSUME NEW q \in Int, a = b + q * P PROVE (a - b) % P = 0
  <2>1. q * P \in Int
    OBVIOUS
  <2>2. a - b = q * P + 0 /\ a - b \in Int
    BY <1>1, <2>1
  <2> QED
    BY <2>2, RemainderIs
<1>2. ASSUME (a - b) % P = 0 PROVE Congruent(a, b, P)
  <2> DEFINE q == (a - b) \div P
  <2>1. q \in Int /\ a - b = P * q + ((a - b) % P)
    BY Division
  <2> HIDE DEF q
  <2>2. P * q = q * P /\ q * P \in Int
    BY <2>1
  <2>3. a = b + q * P
    BY <1>2, <2>1, <2>2
  <2> QED
    BY <2>1, <2>3 DEF Congruent
<1> QED
  BY <1>1, <1>2 DEF Congruent

(* Two of a range of P integers that differ by a multiple of P are one.    *)
LEMMA CongruentUnique ==
  ASSUME NEW a \in Int, NEW b \in Int, NEW l \in Int, NEW P \in Nat, P >= 1,
         Congruent(a, b, P), l <= a, a < l + P, l <= b, b < l + P
  PROVE  a = b
<1>1. PICK q \in Int : a = b + q * P
  BY DEF Congruent
<1>2. q * P \in Int
  OBVIOUS
<1>3. CASE q < 0
  <2>1. q * P + P <= 0 * P
    BY <1>3, TimesGrows
  <2> QED
    BY <1>1, <1>2, <2>1
<1>4. CASE q > 0
  <2>1. 0 * P + P <= q * P
    BY <1>4, TimesGrows
  <2> QED
    BY <1>1, <1>2, <2>1
<1> QED
  BY <1>1, <1>3, <1>4

(* Sums, symmetry and transitivity.                                        *)
LEMMA CongruentSum ==
  ASSUME NEW a \in Int, NEW b \in Int, NEW c \in Int, NEW P \in Nat, Congruent(a, b, P)
  PROVE  /\ Congruent(a + c, b + c, P) /\ Congruent(b, a, P)
         /\ Congruent(b, c, P) => Congruent(a, c, P)
<1>1. PICK q \in Int : a = b + q * P
  BY DEF Congruent
<1>2. q * P \in Int /\ (-q) * P = -(q * P)
  OBVIOUS
<1>3. a + c = (b + c) + q * P /\ b = a + (-q) * P /\ -q \in Int
  BY <1>1, <1>2
<1>4. ASSUME NEW r \in Int, b = c + r * P PROVE Congruent(a, c, P)
  <2>1. r * P \in Int /\ (q + r) * P = q * P + r * P /\ q + r \in Int
    OBVIOUS
  <2>2. a = c + (q + r) * P
    BY <1>1, <1>2, <1>4, <2>1
  <2> QED
    BY <2>1, <2>2 DEF Congruent
<1> QED
  BY <1>3, <1>4 DEF Congruent
=============================================================================
