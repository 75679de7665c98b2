------------------------------- MODULE CMSketch -------------------------------
(***************************************************************************)
(* The cmsketch aggregate (countmin.c) and the queries on a finished one   *)
(* (countmin.py_in).  Every row's value is counted at each of the W dyadic *)
(* levels, shifted right once more per level; segments count in parallel   *)
(* and the master adds their counters up.                                  *)
(***************************************************************************)
EXTENDS CountMin, DyadicRanges

CONSTANTS
  Segments,
  Data,         \* the int8 values of the column's rows
  MaxRows,      \* bound on the number of rows
  EmptyParts    \* may a segment without rows meet one that has counters?

ASSUME CMSketchAssumption ==
  /\ IsFiniteSet(Segments)
  /\ Data \subseteq Int64 /\ Int64 \subseteq Items /\ MaxRows \in Nat

Levels == 0..(W - 1)
Empty == [init |-> FALSE, counters |-> [l \in Levels |-> Blank]]   \* ''

VARIABLES
  part,    \* the transition value of each segment
  rows,    \* ghost: how often each segment has read each value
  acc,     \* the transition value of the master
  merged   \* the segments it has merged
vars == <<Col, part, rows, acc, merged>>

Init == /\ Col \in Hashes
        /\ part = [s \in Segments |-> Empty]
        /\ rows = [s \in Segments |-> [x \in Data |-> 0]]
        /\ acc = Empty
        /\ merged = {}

\* Mutants: one level too few; division that rounds toward zero.
TransNoTop(k, x) ==
  [init |-> TRUE,
   counters |-> [l \in Levels \ {W - 1} |-> Increment(k.counters[l], x \div TwoTo[l])]]
TransTruncating(k, x) ==
  [init |-> TRUE,
   counters |-> [l \in Levels |->
     Increment(k.counters[l], IF x < 0 THEN -((-x) \div TwoTo[l]) ELSE x \div TwoTo[l])]]

(* countmin_dyadic_trans_c on a transition value made by init_transval.    *)
Trans(k, x) ==
  [init |-> TRUE,
   counters |-> [l \in Levels |-> Increment(k.counters[l], x \div TwoTo[l])]]

(* __cmsketch_merge: a copy of the first plus the second's counters.  The  *)
(* pointer `sketches2` is taken before an uninitialized second argument is *)
(* replaced by a blank one, so what is added then is the memory behind ''. *)
Merge(k1, k2, stray) ==
  IF ~k1.init /\ ~k2.init THEN k1
  ELSE [init |-> TRUE,
        counters |-> [l \in Levels |->
          Sum2(k1.counters[l], IF k2.init THEN k2.counters[l] ELSE stray)]]

\* What that memory may hold: zeros, or anything else.
Stray == {Blank, [Blank EXCEPT ![CHOOSE i \in Rows : TRUE] =
                    [c \in Cols |-> 1]]}

\* The rows at some places, pairs of a segment and a value.
RowsAt(places) == FoldFunctionOnSet(+, 0, [p \in places |-> rows[p[1]][p[2]]], places)

Row(s, x) ==
  /\ s \notin merged /\ RowsAt(Segments \X Data) < MaxRows
  /\ part' = [part EXCEPT ![s] = Trans(part[s], x)]
  /\ rows' = [rows EXCEPT ![s][x] = @ + 1]
  /\ UNCHANGED <<Col, acc, merged>>

Gather(s) ==
  /\ s \notin merged
  /\ EmptyParts \/ part[s].init \/ ~acc.init
  /\ \E stray \in Stray : acc' = Merge(acc, part[s], stray)
  /\ merged' = merged \cup {s}
  /\ UNCHANGED <<Col, part, rows>>

Next == \E s \in Segments : Gather(s) \/ \E x \in Data : Row(s, x)
Spec == Init /\ [][Next]_vars

-----------------------------------------------------------------------------
(* The queries, on the counters `sk` of a finished sketch.                 *)

SumOfCounts(sk, r) ==
  LET counts == [k \in DOMAIN r |-> Count(sk[Level(r[k])], Prefix(r[k]))]
  IN FoldFunctionOnSet(+, 0, counts, DOMAIN r)

(* __do_rangecount: the sum over the dyadic ranges of [bot, top].          *)
RangeCount(sk, bot, top) == SumOfCounts(sk, FindRanges(bot, top))

\* The interval that is left, and the guess in it, when n are up to the last guess.
Halved(s, n, wanted) ==
  IF s.hi - s.lo <= 1 \/ n = wanted THEN s
  ELSE IF n > wanted
    THEN [lo |-> s.lo, hi |-> s.cur, cur |-> s.lo + (s.cur - s.lo) \div 2]
    ELSE [lo |-> s.cur, hi |-> s.hi, cur |-> s.hi - (s.hi - s.cur) \div 2]

\* A turn of the search.
Turn(s, sk, intcentile, total) ==
  Halved(s, RangeCount(sk, MinInt, s.cur) * 100, total * intcentile)

Guesses(sk, intcentile, total) ==
  LET at[k \in Nat] == IF k = 0 THEN [lo |-> MinInt, hi |-> MaxInt, cur |-> 0]
                       ELSE Turn(at[k - 1], sk, intcentile, total)
  IN at

\* Mutant: a turn less.
CentileShort(sk, intcentile, total) == Guesses(sk, intcentile, total)[Ranges - 2].cur

(* __do_centile: binary search for the value at rank total*centile/100.    *)
Centile(sk, intcentile, total) == Guesses(sk, intcentile, total)[Ranges - 1].cur

\* step = int(a / b), at least 1
Step(a, b) == IF a \div b < 1 THEN 1 ELSE a \div b

\* Mutant: the last bucket is as wide as the others.
WidthBinsEven(min, max, buckets) ==
  LET step == Step(max - min + 1, buckets)
      kept == {i \in 0..(buckets - 1) : min + i * step <= max}
  IN [j \in 1..Cardinality(kept) |-> <<min + (j - 1) * step, min + j * step - 1>>]

(* __do_width_histo, without the counts: one <<lo, hi>> per bucket.        *)
WidthBins(min, max, buckets) ==
  LET step == Step(max - min + 1, buckets)
      Bin(i) == << min + i * step,
                   IF i = buckets - 1 THEN max ELSE min + (i + 1) * step - 1 >>
      kept == {i \in 0..(buckets - 1) : min + i * step <= max}
  IN [j \in 1..Cardinality(kept) |-> Bin(j - 1)]

\* The bucket after those of h: a centile not above the last one is skipped.
NextBucket(h, i, sk, buckets) ==
  LET binlo == IF h = << >> THEN MinInt ELSE h[Len(h)][2] + 1
      total == RangeCount(sk, MinInt, MaxInt)
      cent == Centile(sk, i * Step(100, buckets), total)
  IN IF i = buckets THEN Append(h, <<binlo, MaxInt>>)
     ELSE IF i > 1 /\ cent <= h[Len(h)][2] THEN h
     ELSE Append(h, <<binlo, cent>>)

(* __do_depth_histo, likewise.                                             *)
DepthBins(sk, buckets) ==
  LET Bins[i \in Nat] ==   \* after the first i buckets
        IF i = 0 THEN << >> ELSE NextBucket(Bins[i - 1], i, sk, buckets)
  IN Bins[buckets]

-----------------------------------------------------------------------------
TypeOK ==
  /\ part \in [Segments -> [init: BOOLEAN, counters: [Levels -> Counters]]]
  /\ rows \in [Segments -> [Data -> Nat]]
  /\ acc \in [init: BOOLEAN, counters: [Levels -> Counters]]
  /\ merged \subseteq Segments
  /\ Col \in Hashes

(* What __cmsketch_final returns.  The counters of an acc without rows are *)
(* blank here, where the code copies what lies behind '' (countmin.c:193). *)
Sketch == acc.counters

\* How many of the rows behind the master's counters lie in S.
RowsIn(S) == RowsAt(merged \X (Data \cap S))
Total == RowsIn(Int64)

\* The values a Python range may name: __min_int64 is one above int8's least.
Queries == {q \in (MinInt..MaxInt) \X (MinInt..MaxInt) : q[1] <= q[2]}

\* The rows a range stands for: from __min_int64 on, the least int8 too.
RowsOf(bot, top) == RowsIn({x \in Int64 : (bot <= x \/ bot = MinInt) /\ x <= top})

(* Where no two values collide, a range count is the number of rows in the *)
(* range: the dyadic ranges and the levels they are looked up at count     *)
(* each row once, through any distribution over segments and any order of  *)
(* merging.  (Ranges up to __max_int64 alone: see TopRangeIsExact.)        *)
RangeCountIsExact == Perfect =>
  /\ \A q \in Queries :
       q[2] < MaxInt => RangeCount(Sketch, q[1], q[2]) = RowsOf(q[1], q[2])
  /\ RangeCount(Sketch, MinInt, MaxInt) = Total

(* Collisions only ever add: no count is below the true one.               *)
NeverUndercounts == \A q \in Queries :
  RangeCount(Sketch, q[1], q[2]) >= RowsOf(q[1], q[2])

(* The binary search ends within one of the centile: below its answer      *)
(* there are at most the wanted number of rows, and just above at least.   *)
CentileIsClose == Perfect /\ Total > 0 => \A p \in {1, 25, 50, 90, 99} :
  LET c == Centile(Sketch, p, Total)
  IN /\ MinInt <= c /\ c <= MaxInt
     /\ c > MinInt + 1 => RowsOf(MinInt, c - 1) * 100 <= Total * p
     /\ c < MaxInt => RowsOf(MinInt, c + 1) * 100 >= Total * p

\* Each integer from lo to hi is in exactly one of the bins.
Partition(bins, lo, hi) == \A x \in MinInt..MaxInt :
  Cardinality({i \in DOMAIN bins : bins[i][1] <= x /\ x <= bins[i][2]})
    = IF lo <= x /\ x <= hi THEN 1 ELSE 0

(* The buckets of both histograms lie side by side and cover their range,  *)
(* although steps are rounded down and buckets dropped or skipped.         *)
HistogramsPartition ==
  /\ \A q \in Queries, n \in 1..5 : Partition(WidthBins(q[1], q[2], n), q[1], q[2])
  /\ \A n \in 1..5 : Partition(DepthBins(Sketch, n), MinInt, MaxInt)

(* __find_ranges: "convert an arbitrary range [bot-top] into a rangelist   *)
(* of dyadic ranges" -- one that reaches __max_int64 as well: no row is in *)
(* two of its pieces, where no two values collide.                         *)
TopRangeIsExact == Perfect => \A bot \in MinInt..MaxInt :
  RangeCount(Sketch, bot, MaxInt) = RowsOf(bot, MaxInt)
=============================================================================
