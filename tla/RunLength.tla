----------------------------- MODULE RunLength ------------------------------
(***************************************************************************)
(* Run-length encoded arrays (SparseData.h, SparseData.c of methods/svec). *)
(*                                                                         *)
(* A SparseData holds the value of every run in vals and the lengths of    *)
(* the runs, one compressed word after the other, in the bytes of index.   *)
(* An empty index stands for a null pointer: "a count array of ones".      *)
(* Only walking the index from its start finds the word of a run.          *)
(***************************************************************************)
EXTENDS Values

CONSTANT ByteBits   \* 8 in the code
ASSUME RunLengthAssumption == ByteBits \in Nat /\ ByteBits > 2

Byte == -(2^(ByteBits-1)) .. 2^(ByteBits-1) - 1
SparseData == [vals : Seq(Element), index : Seq(Byte),
               unique_value_count : Nat, total_value_count : Nat]

Signed(b) == IF b < 2^(ByteBits-1) THEN b ELSE b - 2^ByteBits

(* int8_to_compword.  A short count is one byte with its negative, a long  *)
(* one the size of its word and then the word, low byte first.             *)
Compword(num) ==
  IF num < 2^(ByteBits-1) THEN << -num >>
  ELSE LET size == Min({s \in {2, 4, 8} : num < 2^(s * ByteBits - 1)})
       IN <<size>> \o [k \in 1..size |->
            Signed((num \div 2^(ByteBits * (k - 1))) % 2^ByteBits)]

\* int8compstoragesize, compword_to_int8 of the word at p.
StorageSize(index, p) == IF index[p] < 0 THEN 1 ELSE 1 + index[p]
Int8(index, p) ==
  IF StorageSize(index, p) = 1 THEN -index[p]
  ELSE SumOfCounts([k \in 1..index[p] |->
         (index[p + k] % 2^ByteBits) * 2^(ByteBits * (k - 1))])

\* Where the word of each run starts, and the lengths found there.
Offsets(sd) ==
  LET Words[k \in Nat, p \in Nat] ==
        IF k = 0 THEN << >> ELSE <<p>> \o Words[k - 1, p + StorageSize(sd.index, p)]
  IN Words[sd.unique_value_count, 1]
Counts(sd) ==
  IF sd.index = << >> THEN [k \in 1..sd.unique_value_count |-> 1]
  ELSE LET at == Offsets(sd)
       IN [k \in 1..sd.unique_value_count |-> Int8(sd.index, at[k])]

\* The last position of each run, counting from one.
Ends(sd) ==
  LET n == Counts(sd)
      E[k \in DOMAIN n] == n[k] + IF k = 1 THEN 0 ELSE E[k - 1]
  IN E

makeSparseData == [vals |-> << >>, index |-> << >>,
                   unique_value_count |-> 0, total_value_count |-> 0]

add_run_to_sdata(sd, val, len) ==
  [vals |-> Append(sd.vals, val), index |-> sd.index \o Compword(len),
   unique_value_count |-> sd.unique_value_count + 1,
   total_value_count |-> sd.total_value_count + len]

\* Runs given as pairs of a value and a length, in this order.
FromRuns(runs) ==
  LET Add[k \in 0..Len(runs)] ==
        IF k = 0 THEN makeSparseData ELSE add_run_to_sdata(Add[k - 1], runs[k][1], runs[k][2])
  IN Add[Len(runs)]

\* A run is stored when the value after it differs.
Packed(runs) ==
  LET Pack[s \in Seq(Element \X Nat), k \in Nat] ==   \* the runs from the k-th on
        IF k > Len(runs) THEN s
        ELSE Pack[IF s # << >> /\ Last(s)[1] = runs[k][1]
                  THEN [s EXCEPT ![Len(s)][2] = @ + runs[k][2]]
                  ELSE Append(s, runs[k]), k + 1]
  IN FromRuns(Pack[<< >>, 1])

float8arr_to_sdata(array) == Packed([k \in DOMAIN array |-> <<array[k], 1>>])
makeSparseDataFromDouble(val, dimension) == FromRuns(<<<<val, dimension>>>>)

\* makeInplaceSparseData with no index: one run for each element.
Uncompressed(array) ==
  [vals |-> array, index |-> << >>,
   unique_value_count |-> Len(array), total_value_count |-> Len(array)]

sdata_to_float8arr(sd) ==
  FlattenSeq([k \in 1..sd.unique_value_count |->
    [n \in 1..Counts(sd)[k] |-> sd.vals[k]]])

-----------------------------------------------------------------------------
\* Operations on the values alone keep the index.
MapValues(sd, F(_)) == [sd EXCEPT !.vals = [k \in DOMAIN @ |-> F(@[k])]]

op_sdata_by_scalar(op, scalar, sd, scalarIsRight) ==
  MapValues(sd, LAMBDA v : IF scalarIsRight THEN Calc(op, v, scalar)
                                            ELSE Calc(op, scalar, v))

accum_sdata_values(sd, F(_)) ==
  LET n == Counts(sd)
  IN Total([k \in DOMAIN n |-> Calc("multiply", F(sd.vals[k]), n[k])])

(* op_sdata_by_sdata.  Two cursors, i and j, on the runs of either side;   *)
(* each step ends at the nearer end of a run, and moves the cursor, or     *)
(* both, that stand there.                                                 *)
op_sdata_by_sdata(op, left, right) ==
  LET L == Ends(left)
      R == Ends(right)
      Steps[i \in Nat, j \in Nat, lastpos \in Nat] ==
        LET nextpos == Min({L[i], R[j]})
            run == <<Calc(op, left.vals[i], right.vals[j]), nextpos - lastpos>>
        IN IF L[i] = R[j] /\ L[i] = left.total_value_count THEN <<run>>
           ELSE <<run>> \o Steps[IF L[i] = nextpos THEN i + 1 ELSE i,
                                 IF R[j] = nextpos THEN j + 1 ELSE j, nextpos]
  IN IF left.total_value_count = 0 THEN makeSparseData ELSE Packed(Steps[1, 1, 0])

-----------------------------------------------------------------------------
\* Comparisons of two vectors, run against run.

(* sparsedata_eq: every run of the left with all the runs of the right     *)
(* that overlap it.                                                        *)
sparsedata_eq(left, right) ==
  LET L == Ends(left)
      R == Ends(right)
      Same[i \in Nat, j \in Nat] ==
        \/ i > left.unique_value_count
        \/ /\ left.vals[i] = right.vals[j]
           /\ Same[IF R[j] >= L[i] THEN i + 1 ELSE i,
                   IF R[j] <= L[i] THEN j + 1 ELSE j]
  IN left.total_value_count = right.total_value_count /\ Same[1, 1]

(* The loop of sparsedata_eq_zero_is_equal and of sparsedata_contains: the *)
(* cursor that is behind moves on, or both, until both have passed the     *)
(* shorter vector.                                                         *)
Overlaps(left, right, Ok(_, _)) ==
  LET L == <<0>> \o Ends(left)    \* L[i]: elements read up to the i-th run
      R == <<0>> \o Ends(right)
      shorter == Min({left.total_value_count, right.total_value_count})
      Test[i \in Nat, j \in Nat] ==
        \/ L[i + 1] >= shorter /\ R[j + 1] >= shorter
        \/ LET di == IF L[i + 1] <= R[j + 1] THEN 1 ELSE 0
               dj == IF R[j + 1] <= L[i + 1] THEN 1 ELSE 0
           IN Ok(left.vals[i + di], right.vals[j + dj]) /\ Test[i + di, j + dj]
  IN Test[0, 0]

sparsedata_eq_zero_is_equal(left, right) ==
  Overlaps(left, right, LAMBDA a, b : a = b \/ 0 \in {a, b})

sparsedata_contains(left, right) ==
  /\ right.total_value_count > left.total_value_count => Last(right.vals) = 0
  /\ Overlaps(left, right, LAMBDA a, b : a = b \/ b = 0)

-----------------------------------------------------------------------------
\* Parts and rearrangements.

InRange(sd, k) == k \in 1..sd.total_value_count

\* The run position k falls in, as the walks of sd_proj and subarr find it.
RunOf(sd, k) == Min({i \in 1..sd.unique_value_count : Ends(sd)[i] >= k})

sd_proj(sd, k) == sd.vals[RunOf(sd, k)]

\* subarr for start <= end.
subarr(sd, start, end) ==
  LET E == <<0>> \o Ends(sd)
      first == RunOf(sd, start)
  IN FromRuns([k \in 1..RunOf(sd, end) - first + 1 |->
       LET i == first + k - 1
       IN <<sd.vals[i], Min({E[i + 1], end}) - Max({E[i], start - 1})>>])

(* reverse.  It steps back from the word of a run by the size of that word *)
(* and not of the one before it.  Among words of several sizes this misses *)
(* the starts of words; then, and outside the index, junk is what an       *)
(* uninitialised count or a stray byte holds.                              *)
reverse(sd, junk) ==
  LET byte == [p \in Int |-> IF p \in DOMAIN sd.index THEN sd.index[p] ELSE junk]
      Size(p) == IF sd.index = << >> THEN 0 ELSE StorageSize(byte, p)
      Length(p) == IF Size(p) = 0 THEN 1
                   ELSE IF Size(p) \in {1, 3, 5, 9} THEN Int8(byte, p) ELSE junk
      Back[j \in 0..sd.unique_value_count, p \in Int] ==
        IF j = 0 THEN << >>
        ELSE <<<<sd.vals[j], Length(p)>>>> \o Back[j - 1, p - Size(p)]
  IN FromRuns(Back[sd.unique_value_count,
                   IF sd.index = << >> THEN 1 ELSE Last(Offsets(sd))])

\* The words in the index of sd all take the same room.
EvenWords(sd) ==
  \/ sd.index = << >>
  \/ \A k \in 2..sd.unique_value_count :
       Offsets(sd)[k] - Offsets(sd)[k - 1] = StorageSize(sd.index, Last(Offsets(sd)))

concat(left, right) ==
  [vals |-> left.vals \o right.vals, index |-> left.index \o right.index,
   unique_value_count |-> left.unique_value_count + right.unique_value_count,
   total_value_count |-> left.total_value_count + right.total_value_count]

concat_replicate(sd, multiplier) ==
  [vals |-> FlattenSeq([k \in 1..multiplier |-> sd.vals]),
   index |-> FlattenSeq([k \in 1..multiplier |-> sd.index]),
   unique_value_count |-> multiplier * sd.unique_value_count,
   total_value_count |-> multiplier * sd.total_value_count]

(* position_to_sdata: entries are pairs of a position and a value.  Equal  *)
(* values at following positions make a run, repeated positions must       *)
(* repeat the value, gaps are filled with the default.                     *)
Conflicting(entries) ==
  \E k, l \in DOMAIN entries : entries[k][1] = entries[l][1] /\ entries[k][2] # entries[l][2]
position_to_sdata(entries, end, default) ==
  LET e == SortSeq(entries, LAMBDA a, b : a[1] < b[1])
      n == Len(e)
      Stretch(i) == Max({j \in i..n : \A k \in i..j - 1 :
        e[k + 1][1] = e[k][1] + 1 /\ e[k + 1][2] = e[k][2]})
      Repeats(i) == Max({j \in i..n : e[j][1] = e[i][1]})
      Fill(len) == IF len > 0 THEN <<<<default, len>>>> ELSE << >>
      Runs[i \in 1..n + 1] ==
        IF i > n THEN << >>
        ELSE LET last == Repeats(Stretch(i))
             IN <<<<e[last][2], Stretch(i) - i + 1>>>>
                \o Fill(IF last < n THEN e[last + 1][1] - e[last][1] - 1
                                    ELSE end - e[last][1])
                \o Runs[last + 1]
  IN [FromRuns(Fill(e[1][1] - 1) \o Runs[1]) EXCEPT !.total_value_count = end]
=============================================================================
