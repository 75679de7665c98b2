-------------------------------- MODULE Svec --------------------------------
(***************************************************************************)
(* The svec type (operators.c, sparse_vector.c of methods/svec): two sparse*)
(* vectors, x and y.  An operation leaves its result in x, answers a       *)
(* question about the vectors, or raises an error.                         *)
(*                                                                         *)
(* A stored svec is trimmed: the room for its values and its index is what *)
(* they need.  Only svec_pivot leaves spare room for its next call.        *)
(***************************************************************************)
EXTENDS RunLength, Selection

CONSTANTS
  Literals,   \* what svec_in reads: sequences of runs <<value, length>>
  Arrays,     \* float8 arrays, with NVP for NULL
  Sparse,     \* arguments of the cast from positions: <<entries, size>>
  Scalars,    \* float8 arguments
  Indices,    \* integer arguments
  Texts,      \* words in the place of texts: dictionaries and documents
  Junk,       \* what an uninitialised count or a byte outside the index holds
  Corners,    \* cases that the code gets wrong, to be let in
  MaxOps,     \* bounds of the instance: operations in a row, and the length
  MaxLength   \* of an aggregate; also runs, where the median tries all pivots

ASSUME SvecAssumption ==
  /\ \A l \in Literals : l \in Seq(Element \X Int)
  /\ Arrays \subseteq Seq(Element) \ {<< >>} /\ Scalars \subseteq Int
  /\ Corners \subseteq {"wide", "ones", "beyond", "stale"}

VARIABLES x, y, answer, ops
vars == <<x, y, answer, ops>>

ValWidth == 8   \* sizeof(float8)
MaxWord == 9    \* a compressed word and its size

\* The dimension kept beside the vector, -1 of a scalar.
Dimension(sd) == IF sd.total_value_count = 1 THEN -1 ELSE sd.total_value_count

\* svec_from_sparsedata with trim.
svec(sd) == [data |-> sd, valsMax |-> ValWidth * Len(sd.vals), indexMax |-> Len(sd.index),
             cursor |-> 0, dimension |-> Dimension(sd)]

IsScalar(v) == v.dimension < 0
IsOnes(sd) == sd.index = << >> /\ sd.total_value_count > 0
Mixed(a, b) ==
  0 \notin {a.total_value_count, b.total_value_count} /\ IsOnes(a) # IsOnes(b)

Readable(runs) == runs # << >> /\ \A k \in DOMAIN runs : runs[k][2] > 0

\* Vectors that were read, and arrays to which an operator with a scalar was
\* applied: op_sdata_by_scalar_copy keeps their null index.
Stored == {svec(FromRuns(l)) : l \in {l \in Literals : Readable(l)}}
          \cup {svec(Uncompressed(a)) : a \in Arrays}

Init ==
  /\ x \in Stored /\ y \in Stored
  /\ answer = <<"read", TRUE>> /\ ops = 0

Returns(what, sd) == x' = svec(sd) /\ answer' = <<what, TRUE>> /\ UNCHANGED y
Ereport(what) == answer' = <<what, FALSE>> /\ UNCHANGED <<x, y>>
Answers(question, value) == answer' = <<question, TRUE, value>> /\ UNCHANGED <<x, y>>

-----------------------------------------------------------------------------
\* check_dimension, and check_sdata_dimensions.
Checked(a, b) == IsScalar(a) \/ IsScalar(b) \/ a.dimension = b.dimension
SameTotal(a, b) == a.total_value_count = b.total_value_count

\* svec_operate_on_sdata_pair, told which of the arguments are scalars.
operate(op, left, right, ls, rs) ==
  IF ls /\ rs THEN makeSparseDataFromDouble(Calc(op, left.vals[1], right.vals[1]), 1)
  ELSE IF rs THEN op_sdata_by_scalar(op, right.vals[1], left, TRUE)
  ELSE IF ls THEN op_sdata_by_scalar(op, left.vals[1], right, FALSE)
  ELSE op_sdata_by_sdata(op, left, right)

Operates(op, left, right, ls, rs) ==
  /\ IsExact(op, ToSet(left.vals), ToSet(right.vals))
  /\ IF ls \/ rs \/ SameTotal(left, right)
     THEN Returns(op, operate(op, left, right, ls, rs)) ELSE Ereport(op)

svec_op(op) ==
  IF Checked(x, y) THEN Operates(op, x.data, y.data, IsScalar(x), IsScalar(y)) ELSE Ereport(op)

\* The operators on float8 arrays look at the data and not at the dimension.
OperatesOnData(op, left, right) ==
  Operates(op, left, right, left.total_value_count = 1, right.total_value_count = 1)
svec_op_float8arr(op, array) == OperatesOnData(op, x.data, Uncompressed(array))
float8arr_op_svec(op, array) == OperatesOnData(op, Uncompressed(array), x.data)
float8arr_op_float8arr(op, a, b) == OperatesOnData(op, Uncompressed(a), Uncompressed(b))

\* svec_pow, of the exponents one to four.
svec_pow ==
  LET e == y.data.vals[1]
  IN IF ~IsScalar(y) THEN Ereport("pow")
     ELSE e \in 1..4 /\ Returns("pow",
            IF IsScalar(x) THEN makeSparseDataFromDouble(Power(x.data.vals[1], e), 1)
            ELSE MapValues(x.data, LAMBDA v : Power(v, e)))

\* svec_lapply of one function on float8.
svec_lapply == Returns("lapply", MapValues(x.data, LAMBDA v : Calc("subtract", 1, v)))

(* svec_count, of non-zero entries: a zero scalar on the left "is the first*)
(* call to the routine".                                                   *)
svec_count ==
  LET first == IsScalar(x) /\ x.data.vals[1] = 0
      left == IF first THEN makeSparseDataFromDouble(0, y.data.total_value_count)
              ELSE x.data
  IN IF ~SameTotal(left, y.data) THEN Ereport("count")
     ELSE Returns("count", op_sdata_by_sdata("add", left, MapValues(y.data, Clamp)))

svec_concat ==
  /\ Mixed(x.data, y.data) => "ones" \in Corners
  /\ Returns("concat", concat(x.data, y.data))

svec_concat_replicate(m) ==
  IF m < 0 THEN Ereport("replicate") ELSE Returns("replicate", concat_replicate(x.data, m))

(* svec_append.  The code does not keep counts below one out, the instances*)
(* do; and it crashes where there is no index to append to.                *)
svec_append(val, len) ==
  /\ len > 0 /\ x.data.index # << >>
  /\ Returns("append", add_run_to_sdata(x.data, val, len))

Turned(what, sd, byte) ==
  /\ ~EvenWords(sd) => "wide" \in Corners
  /\ Returns(what, reverse(sd, byte))

svec_subvec(start, end, byte) ==
  IF {start, end} \subseteq 1..x.data.total_value_count
  THEN IF start <= end THEN Returns("subvec", subarr(x.data, start, end))
       ELSE Turned("subvec", subarr(x.data, end, start), byte)
  ELSE Ereport("subvec")

svec_reverse(byte) == Turned("reverse", x.data, byte)

svec_change(idx) ==
  LET inlen == x.data.total_value_count
      midlen == y.data.total_value_count
      head == IF idx >= 2 THEN subarr(x.data, 1, idx - 1) ELSE makeSparseData
      tail == IF idx + midlen <= inlen THEN subarr(x.data, idx + midlen, inlen)
              ELSE makeSparseData
  IN IF idx \in 1..inlen /\ idx + midlen - 1 <= inlen
     THEN /\ IsOnes(y.data) /\ inlen > midlen => "ones" \in Corners
          /\ Returns("change", concat(concat(head, y.data), tail))
     ELSE Ereport("change")

svec_cast_float8arr(array) == Returns("cast", float8arr_to_sdata(array))

\* svec_make_scalar, of the casts from numbers.
svec_cast(val) == Returns("cast", makeSparseDataFromDouble(val, 1))

\* svec_in, and svec_out and svec_in: the counts and the values as text.
svec_in(runs) == IF Readable(runs) THEN Returns("in", FromRuns(runs)) ELSE Ereport("in")
svec_text == svec_in([k \in 1..x.data.unique_value_count |-> <<x.data.vals[k], Counts(x.data)[k]>>])

\* svec_send and svec_recv.
svec_recv == Returns("recv", x.data)

(* gp_extract_feature_histogram: how often each word of a sorted dictionary*)
(* occurs in a document; words are looked up by bisection.                 *)
str_bsearch(word, features) ==
  LET Search[low \in Int, high \in Int] ==
        LET mid == low + (high - low) \div 2
        IN IF low > high THEN -5
           ELSE IF word = features[mid + 1] THEN mid
           ELSE IF word > features[mid + 1] THEN Search[mid + 1, high] ELSE Search[low, mid - 1]
  IN Search[0, Len(features) - 1]
gp_extract_feature_histogram(features, document) ==
  IF features = << >> \/ \E k \in 2..Len(features) : features[k - 1] >= features[k]
  THEN Ereport("histogram")
  ELSE Returns("histogram", float8arr_to_sdata([k \in DOMAIN features |->
         Cardinality({i \in DOMAIN document : str_bsearch(document[i], features) = k - 1})]))

\* To an array and back again.
svec_return_array == Returns("cast", float8arr_to_sdata(sdata_to_float8arr(x.data)))

(* svec_cast_positions_float8arr.  Only the last position is compared with *)
(* the size, so the instances give them in ascending order; no position is *)
(* compared with a size that is not positive, which the result then has as *)
(* its dimension (SparseData.c:353): the instances give none.              *)
svec_cast_positions(entries, size, base) ==
  IF \/ Last(entries)[1] > size /\ size > 0
     \/ \E k \in DOMAIN entries : entries[k][1] <= 0
     \/ Conflicting(entries)
  THEN Ereport("place") ELSE Returns("place", position_to_sdata(entries, size, base))

-----------------------------------------------------------------------------
\* The state of svec_pivot: makeEmptySvec(1) if there is none.
EmptyState == [data |-> makeSparseData, valsMax |-> ValWidth + 1,
               indexMax |-> MaxWord + 1, cursor |-> 0, dimension |-> 0]

\* Mutant: makes room for one more word of the smallest size.
Grown_by_one(v) ==
  IF \/ ValWidth * Len(v.data.vals) + ValWidth + 1 > v.valsMax
     \/ Len(v.data.index) + MaxWord + 1 > v.indexMax
  THEN [v EXCEPT !.valsMax = Max({2 * ValWidth + 1, 2 * @}), !.indexMax = Max({3, @ + 1}),
                 !.dimension = Dimension(v.data)]
  ELSE v

\* reallocSvec, where a value or a word may not fit.
Grown(v) ==
  IF \/ ValWidth * Len(v.data.vals) + ValWidth + 1 > v.valsMax
     \/ Len(v.data.index) + MaxWord + 1 > v.indexMax
  THEN [v EXCEPT !.valsMax = Max({2 * ValWidth + 1, 2 * @}),
                 !.indexMax = Max({3, 2 * @}),   \* 2*sizeof(int8)+1
                 !.dimension = Dimension(v.data)]
  ELSE v

(* svec_pivot: an equal value lengthens the last run, whose word the cursor*)
(* of the index points to, in place; another one begins a run.  The        *)
(* dimension is not touched.                                               *)
pivot(v, val) ==
  LET at == IF v.cursor = 0 THEN Last(Offsets(v.data)) - 1 ELSE v.cursor
      run == Int8(v.data.index, at + 1)
  IN IF Len(v.data.index) > 0 /\ Last(v.data.vals) = val
     THEN [v EXCEPT !.cursor = at,
             !.data.index = SubSeq(@, 1, at) \o Compword(run + 1),
             !.data.total_value_count = @ + 1]
     ELSE LET sd == add_run_to_sdata(v.data, val, 1)
          IN [v EXCEPT !.data = sd, !.cursor = Last(Offsets(sd)) - 1]

svec_pivot(val) ==
  /\ IsOnes(x.data) => "ones" \in Corners
  /\ x' = pivot(Grown(x), val) /\ answer' = <<"pivot", TRUE>> /\ UNCHANGED y

\* The first call of the aggregate svec_agg, whose state is null.
svec_agg(val) == x' = pivot(Grown(EmptyState), val) /\ answer' = <<"agg", TRUE>> /\ UNCHANGED y

-----------------------------------------------------------------------------
norms(sd) == <<accum_sdata_values(sd, Abs), accum_sdata_values(sd, Square),
               accum_sdata_values(sd, Id)>>

svec_eq == Answers("eq", sparsedata_eq(x.data, y.data))
svec_eq_non_zero == Answers("eq_non_zero", sparsedata_eq_zero_is_equal(x.data, y.data))
svec_contains ==
  /\ (y.data.total_value_count > x.data.total_value_count) => "beyond" \in Corners
  /\ Answers("contains", sparsedata_contains(x.data, y.data))
svec_norms == Answers("norms", norms(x.data))

float8arr_norms(array) == Answers("array norms", norms(Uncompressed(array)))

\* svec_svec_l1norm, svec_svec_l2norm: norms of the difference.
svec_distance ==
  IF Checked(x, y) /\ (IsScalar(x) \/ IsScalar(y) \/ SameTotal(x.data, y.data))
  THEN Answers("distance", SubSeq(norms(
         operate("subtract", x.data, y.data, IsScalar(x), IsScalar(y))), 1, 2))
  ELSE Ereport("distance")

\* svec_l2_cmp and the comparison operators made of it.
svec_l2_cmp ==
  LET a == accum_sdata_values(x.data, Square)
      b == accum_sdata_values(y.data, Square)
  IN Answers("l2_cmp", IF NVP \in {a, b} THEN NVP
                       ELSE IF a < b THEN -1 ELSE IF a > b THEN 1 ELSE 0)

\* The dot products do not spread a scalar.
Dots(left, right) ==
  IF SameTotal(left, right)
  THEN Answers("dot", accum_sdata_values(op_sdata_by_sdata("multiply", left, right), Id))
  ELSE Ereport("dot")
svec_dot == IF Checked(x, y) THEN Dots(x.data, y.data) ELSE Ereport("dot")
svec_dot_float8arr(array) == Dots(x.data, Uncompressed(array))
float8arr_dot(a, b) == Dots(Uncompressed(a), Uncompressed(b))
float8arr_dot_svec(array) == Dots(Uncompressed(array), x.data)

svec_proj(k) ==
  IF InRange(x.data, k) THEN Answers("proj", sd_proj(x.data, k)) ELSE Ereport("proj")

(* svec_median: NULL if a value is; the lower of the middle ones.  Of no   *)
(* elements at all it would read outside the vector.                       *)
Medians(question, sd) ==
  LET runs == [k \in 1..sd.unique_value_count |-> <<sd.vals[k], Counts(sd)[k]>>]
  IN /\ sd.total_value_count > 0 /\ sd.unique_value_count <= MaxLength
     /\ IF NVP \in ToSet(sd.vals) THEN Answers(question, NVP)
        ELSE \E m \in partition_select(runs, (sd.total_value_count - 1) \div 2) :
               Answers(question, m)
svec_median == Medians("median", x.data)
float8arr_median(array) == Medians("array median", Uncompressed(array))

\* svec_unnest, called until it is done.
svec_unnest ==
  LET n == IF IsScalar(x) THEN 1 ELSE x.dimension
      Call[k \in 0..n, run \in Nat, pos \in Nat] ==   \* k values were returned
        IF k = n THEN << >>
        ELSE <<x.data.vals[run]>> \o
             IF pos + 1 > Counts(x.data)[run] THEN Call[k + 1, run + 1, 1]
                                              ELSE Call[k + 1, run, pos + 1]
  IN Answers("unnest", Call[0, 1, 1])

svec_dimension == Answers("dimension", IF IsScalar(x) THEN 1 ELSE x.dimension)

\* svec_nonbase_positions and svec_nonbase_values.
svec_nonbase(base) ==
  LET n == Counts(x.data)
      E == <<0>> \o Ends(x.data)
      K == SelectSeq([k \in DOMAIN n |-> k], LAMBDA k : x.data.vals[k] # base)
  IN /\ IsOnes(x.data) => "ones" \in Corners
     /\ Answers("nonbase",
          IF x.data.index = << >> THEN <<<< >>, << >>>>
          ELSE <<FlattenSeq([j \in DOMAIN K |-> [i \in 1..n[K[j]] |-> E[K[j]] + i]]),
                 FlattenSeq([j \in DOMAIN K |-> [i \in 1..n[K[j]] |-> x.data.vals[K[j]]]])>>)

-----------------------------------------------------------------------------
\* What looks at the dimensions goes wrong where svec_pivot left one behind.
Trusted ==
  \A v \in {x, y} : v.dimension # Dimension(v.data) => "stale" \in Corners

Operation ==
  \/ Trusted /\ (svec_pow \/ svec_count \/ \E op \in Operations : svec_op(op))
  \/ \E op \in Operations :
       \/ \E a \in Arrays : svec_op_float8arr(op, a) \/ float8arr_op_svec(op, a)
       \/ \E a, b \in Arrays : float8arr_op_float8arr(op, a, b)
  \/ svec_lapply \/ svec_concat \/ svec_return_array \/ svec_text \/ svec_recv
  \/ \E m \in Indices : svec_concat_replicate(m) \/ svec_change(m)
  \/ \E v \in Scalars \cup {NVP} :
       svec_pivot(v) \/ svec_agg(v) \/ svec_cast(v) \/ \E n \in Indices : svec_append(v, n)
  \/ \E byte \in Junk :
       svec_reverse(byte) \/ \E s, e \in Indices : svec_subvec(s, e, byte)
  \/ \E l \in Literals : svec_in(l)
  \/ \E a \in Arrays : svec_cast_float8arr(a)
  \/ \E s \in Sparse, base \in Scalars : svec_cast_positions(s[1], s[2], base)
  \/ \E t, u \in Texts : gp_extract_feature_histogram(t, u)

Question ==
  \/ Trusted /\ (svec_distance \/ svec_dot \/ svec_unnest \/ svec_dimension)
  \/ svec_eq \/ svec_eq_non_zero \/ svec_contains \/ svec_norms \/ svec_l2_cmp \/ svec_median
  \/ \E a \in Arrays : svec_dot_float8arr(a) \/ float8arr_dot_svec(a)
  \/ \E k \in Indices : svec_proj(k)
  \/ \E v \in Scalars : svec_nonbase(v)

\* Whatever the vectors are.
ArrayQuestion ==
  \E a \in Arrays :
    \/ float8arr_norms(a) \/ float8arr_median(a)
    \/ \E b \in Arrays : float8arr_dot(a, b)

\* The next rows of the aggregate svec_agg.
Aggregating ==
  /\ answer[1] = "agg" /\ x.data.total_value_count < MaxLength
  /\ \E v \in Scalars \cup {NVP} : x' = pivot(Grown(x), v)
  /\ UNCHANGED <<y, answer, ops>>

\* Questions change neither vector: one, after some operations, is enough.
Next ==
  \/ ops < MaxOps /\ ops' = ops + 1 /\ Operation
  \/ ops <= MaxOps /\ ops' = MaxOps + 1 /\ Question
  \/ ops = 0 /\ ops' = MaxOps + 1 /\ ArrayQuestion
  \/ Aggregating /\ ops <= MaxOps

Spec == Init /\ [][Next]_vars

-----------------------------------------------------------------------------
TypeOK ==
  /\ \A v \in {x, y} : v.data \in SparseData /\ {v.valsMax, v.indexMax, v.cursor} \subseteq Nat
                      /\ v.dimension \in Int
  /\ ops \in 0..MaxOps + 1

\* What the parts hold fits into the memory that was asked for; while svec_agg appends
\* to them, with the zero byte appendBinaryStringInfo puts behind.
PivotHasRoom ==
  LET zero == IF answer[1] = "agg" THEN 1 ELSE 0
  IN /\ Len(x.data.index) + zero <= x.indexMax
     /\ ValWidth * Len(x.data.vals) + zero <= x.valsMax

(* The parts of a vector agree: as many values and words as runs, whose    *)
(* lengths are positive and make up the dimension.  Every walk of the      *)
(* index counts on it.  svec_pivot writes the longer word of a run over    *)
(* the shorter one without asking for room again: reallocSvec must have    *)
(* made enough, although it only doubles what there is.                    *)
WellFormed ==
  /\ TypeOK /\ PivotHasRoom
  /\ \A sd \in {x.data, y.data} :
       LET Fills[k \in Nat, p \in Nat] ==   \* k words from p make up the index
             IF k = 0 \/ p > Len(sd.index) THEN k = 0 /\ p = Len(sd.index) + 1
             ELSE Fills[k - 1, p + StorageSize(sd.index, p)]
           n == Counts(sd)
       IN /\ Len(sd.vals) = sd.unique_value_count
          /\ sd.index # << >> => Fills[sd.unique_value_count, 1]
          /\ \A k \in DOMAIN n : n[k] > 0
          /\ SumOfCounts(n) = sd.total_value_count

(* Operations and questions are those of the arrays the vectors stand for. *)
Dense == INSTANCE DenseVectors WITH x <- sdata_to_float8arr(x.data),
                                    y <- sdata_to_float8arr(y.data)
IsDense == Dense!Spec
=============================================================================
