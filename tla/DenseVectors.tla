---------------------------- MODULE DenseVectors ----------------------------
(***************************************************************************)
(* What sparse vectors promise: to behave as the arrays they stand for.    *)
(* Two arrays, x and y; an operation replaces x, or answers a question     *)
(* about them, or fails and changes neither.                               *)
(***************************************************************************)
EXTENDS Values

CONSTANTS Literals, Arrays, Sparse, Scalars, Indices, Texts

VARIABLES x, y, answer
vars == <<x, y, answer>>

\* The result of an operation, or its failure if what it needs is not so.
Results(what, needs, array) ==
  /\ answer'[1] = what
  /\ answer' = <<what, needs>> /\ UNCHANGED y
  /\ x' = IF needs THEN array ELSE x
Becomes(what, array) == Results(what, TRUE, array)

\* The answer to a question, or its failure.
Asks(question, needs, value) ==
  /\ answer'[1] = question
  /\ answer' = IF needs THEN <<question, TRUE, value>> ELSE <<question, FALSE>>
  /\ UNCHANGED <<x, y>>
Replies(question, value) == Asks(question, TRUE, value)

\* A scalar, an array of one, goes with an array of any length.
At(array, k) == array[IF Len(array) = 1 THEN 1 ELSE k]
Length(a, b) == IF Len(a) = 1 THEN Len(b) ELSE Len(a)
Fits(a, b) == Len(a) = 1 \/ Len(b) = 1 \/ Len(a) = Len(b)
Map2(op, a, b) == [k \in 1..Length(a, b) |-> Calc(op, At(a, k), At(b, k))]
Sign(n) == IF n < 0 THEN -1 ELSE IF n > 0 THEN 1 ELSE 0
Each(array, F(_)) == [k \in DOMAIN array |-> F(array[k])]

Arith(op, a, b) == Results(op, Fits(a, b), Map2(op, a, b))
Pow == Results("pow", Len(y) = 1, Each(x, LAMBDA v : Power(v, y[1])))
Lapply == Becomes("lapply", Each(x, LAMBDA v : Calc("subtract", 1, v)))
Count == Results("count", x = <<0>> \/ Len(x) = Len(y),
  IF x = <<0>> THEN Each(y, Clamp) ELSE Map2("add", x, Each(y, Clamp)))
Concat == Becomes("concat", x \o y)
Replicate(m) == Results("replicate", m >= 0, FlattenSeq([k \in 1..m |-> x]))
AppendRun(v, n) == Becomes("append", x \o [k \in 1..n |-> v])
Subvec(s, e) == Results("subvec", {s, e} \subseteq DOMAIN x,
  IF s <= e THEN SubSeq(x, s, e) ELSE Reverse(SubSeq(x, e, s)))
Turn == Becomes("reverse", Reverse(x))
Change(k) == Results("change", k \in DOMAIN x /\ k + Len(y) - 1 <= Len(x),
  [i \in DOMAIN x |-> IF i \in k..k + Len(y) - 1 THEN y[i - k + 1] ELSE x[i]])
Cast(array) == Becomes("cast", array)
Place(entries, size, base) ==
  LET Entry == ToSet(entries)
      Positions == {e[1] : e \in Entry}
  IN Results("place",
       Positions \subseteq 1..size /\ Cardinality(Entry) = Cardinality(Positions),
       [i \in 1..size |-> IF i \in Positions THEN (CHOOSE e \in Entry : e[1] = i)[2]
                                              ELSE base])
Pivot(v) == Becomes("pivot", Append(x, v))
Agg(v) == Becomes("agg", <<v>>) \/ (answer[1] = "agg" /\ Becomes("agg", Append(x, v)))
Read(runs) == Results("in",
  runs # << >> /\ \A k \in DOMAIN runs : runs[k][2] > 0,
  FlattenSeq([k \in DOMAIN runs |-> [n \in 1..runs[k][2] |-> runs[k][1]]]))
Histogram(features, document) == Results("histogram",
  features # << >> /\ \A k, l \in DOMAIN features : k < l => features[k] < features[l],
  [k \in DOMAIN features |-> Cardinality({i \in DOMAIN document : document[i] = features[k]})])

-----------------------------------------------------------------------------
Rest(array, n) == SubSeq(array, n + 1, Len(array))

Equal == Replies("eq", x = y)
EqualButZeros == Replies("eq_non_zero",
  \A k \in (DOMAIN x) \cap (DOMAIN y) : x[k] = y[k] \/ 0 \in {x[k], y[k]})
Containment == Replies("contains",
  /\ \A k \in (DOMAIN x) \cap (DOMAIN y) : x[k] = y[k] \/ y[k] = 0
  /\ \A v \in Range(Rest(y, Len(x))) : v = 0)
Norms(a) == <<Total(Each(a, Abs)), Total(Each(a, Square)), Total(a)>>
Norm(name, a) == Replies(name, Norms(a))
Distance == Asks("distance", Fits(x, y), SubSeq(Norms(Map2("subtract", x, y)), 1, 2))
Compare == Replies("l2_cmp",
  LET a == Total(Each(x, Square))
      b == Total(Each(y, Square))
  IN IF NVP \in {a, b} THEN NVP ELSE Sign(a - b))
Dot(a, b) == Asks("dot", Len(a) = Len(b), Total(Map2("multiply", a, b)))
Proj(k) == Asks("proj", k \in DOMAIN x, x[k])
\* The lower of the middle elements: where less than half of them are below
\* it, and at least half not above.
Middle(array) == CHOOSE m \in ToSet(array) :
  /\ 2 * Cardinality({k \in DOMAIN array : array[k] < m}) < Len(array)
  /\ 2 * Cardinality({k \in DOMAIN array : array[k] <= m}) >= Len(array)
Median(name, a) == Replies(name, IF NVP \in ToSet(a) THEN NVP ELSE Middle(a))
Unnest == Replies("unnest", x)
Dimension == Replies("dimension", Len(x))
NonBase(v) == Replies("nonbase",
  <<SelectSeq([k \in DOMAIN x |-> k], LAMBDA k : x[k] # v), SelectSeq(x, LAMBDA u : u # v)>>)

Next ==
  \/ \E op \in Operations :
       \/ Arith(op, x, y)
       \/ \E a \in Arrays : Arith(op, x, a) \/ Arith(op, a, x)
       \/ \E a, b \in Arrays : Arith(op, a, b)
  \/ Pow \/ Lapply \/ Count \/ Concat \/ Turn
  \/ \E m \in Indices : Replicate(m) \/ Change(m)
  \/ \E v \in Scalars \cup {NVP} : Pivot(v) \/ Agg(v) \/ \E n \in Indices : AppendRun(v, n)
  \/ \E s, e \in Indices : Subvec(s, e)
  \/ \E a \in Arrays \cup {x} \cup {<<v>> : v \in Scalars \cup {NVP}} : Cast(a)
  \/ Becomes("recv", x) \/ Results("in", x # << >>, x) \/ \E l \in Literals : Read(l)
  \/ \E s \in Sparse, base \in Scalars : Place(s[1], s[2], base)
  \/ \E t, u \in Texts : Histogram(t, u)
  \/ Equal \/ EqualButZeros \/ Containment \/ Distance \/ Compare \/ Dot(x, y)
  \/ Norm("norms", x) \/ Median("median", x)
  \/ \E a \in Arrays : \/ Dot(x, a) \/ Norm("array norms", a) \/ Median("array median", a)
                       \/ \E b \in Arrays : Dot(a, b)
  \/ \E k \in Indices : Proj(k)
  \/ Unnest \/ Dimension
  \/ \E v \in Scalars : NonBase(v)

Init == {x, y} \subseteq Seq(Element) /\ answer = <<"read", TRUE>>

Spec == Init /\ [][Next]_vars
=============================================================================
