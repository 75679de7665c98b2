------------------------------- MODULE MFVSketch -------------------------------
(***************************************************************************)
(* The most-frequent-values aggregates of methods/sketch (mfvsketch.c): a  *)
(* CountMin sketch and a list of at most max_mfvs values with their counts *)
(* at the time.  mfvsketch_top_histogram folds all rows into one           *)
(* transition value; mfvsketch_quick_histogram merges those of segments.   *)
(*                                                                         *)
(* The values are kept in a storage area behind the list, by offset; a     *)
(* value that replaces another goes into its place if it is not longer.    *)
(***************************************************************************)
EXTENDS CountMin, Sequences, SequencesExt

CONSTANTS
  Segments,
  max_mfvs,
  Size,           \* the length of each value's datum
  InitialSpace,   \* bytes of storage in a new transition value
  IntBits,        \* bits of a C int, the result of a qsort comparison
  MaxRows         \* bound on the number of rows

ASSUME MFVAssumption ==
  /\ max_mfvs \in Nat \ {0} /\ InitialSpace \in Nat
  /\ Size \in [Items -> Nat \ {0}]
  /\ IsFiniteSet(Items) /\ IsFiniteSet(Segments)
  /\ IntBits \in Nat \ {0} /\ MaxRows \in Nat

New(init) == [init |-> init, sketch |-> Blank, mfvs |-> << >>,
              next_offset |-> 0, space |-> InitialSpace]
Uninitialized == New(FALSE)   \* the aggregate's initial value ''

VARIABLES
  part,    \* the transition value of each segment
  rows,    \* ghost: how often each segment has read each value
  acc,     \* the transition value of the master
  merged   \* the segments merged into it
vars == <<Col, part, rows, acc, merged>>

Init == /\ Col \in Hashes
        /\ part = [s \in Segments |-> Uninitialized]
        /\ rows = [s \in Segments |-> [x \in Items |-> 0]]
        /\ acc = Uninitialized
        /\ merged = {}

(* mfv_find: the position of value x, 0 for none.                          *)
Find(k, x) == SelectInSeq(k.mfvs, LAMBDA e : e.val = x)

(* mfv_transval_insert_at: x at next_offset, after growing the storage if  *)
(* it is short; position i is a new last one or loses its old value.       *)
PutAt(k, x, n, i) ==
  LET room == k.space - k.next_offset
      cur == k.space - (IF k.mfvs = << >> THEN 0 ELSE k.mfvs[1].offset)
      e == [val |-> x, cnt |-> n, offset |-> k.next_offset]
  IN [k EXCEPT !.mfvs = IF i > Len(@) THEN Append(@, e) ELSE ReplaceAt(@, i, e),
               !.next_offset = @ + Size[x],
               !.space = IF room < Size[x] THEN @ + cur + Size[x] ELSE @]

\* Mutant: whatever the sizes.
ReplaceInPlace(k, x, n, i) == [k EXCEPT !.mfvs[i].val = x, !.mfvs[i].cnt = n]

(* mfv_transval_replace: in place if "new value is smaller than old".      *)
Replace(k, x, n, i) ==
  IF Size[x] <= Size[k.mfvs[i].val]
    THEN [k EXCEPT !.mfvs[i].val = x, !.mfvs[i].cnt = n]
    ELSE PutAt(k, x, n, i)

\* Mutant: the count of a value in the list is not brought up to date.
TransStale(k0, x) ==
  LET k == IF k0.init THEN k0 ELSE New(TRUE)
      counted == [k EXCEPT !.sketch = Increment(k.sketch, x)]
      n == Count(counted.sketch, x)
      beaten == {i \in DOMAIN k.mfvs : k.mfvs[i].cnt < n}
  IN IF Find(k, x) # 0 THEN counted
     ELSE IF beaten # {} THEN Replace(counted, x, n, Min(beaten))
     ELSE IF Len(k.mfvs) < max_mfvs THEN PutAt(counted, x, n, Len(k.mfvs) + 1)
     ELSE counted

(* __mfvsketch_trans.  The loop takes the first place that is free or has  *)
(* a smaller count: the free one comes last.                               *)
Trans(k0, x) ==
  LET k == IF k0.init THEN k0 ELSE New(TRUE)
      sketch == Increment(k.sketch, x)
      n == Count(sketch, x)
      beaten == {i \in DOMAIN k.mfvs : k.mfvs[i].cnt < n}
      counted == [k EXCEPT !.sketch = sketch]
  IN IF Find(k, x) # 0 THEN [counted EXCEPT !.mfvs[Find(k, x)].cnt = n]
     ELSE IF beaten # {} THEN Replace(counted, x, n, Min(beaten))
     ELSE IF Len(k.mfvs) < max_mfvs
       THEN PutAt(counted, x, n, Len(k.mfvs) + 1)
     ELSE counted

(* cnt_cmp_desc returns the difference of two uint64 as an int: counts of  *)
(* IntHalf or more apart come out the wrong way round.                     *)
IntHalf == 2^(IntBits - 1)
ToInt(x) == ((x + IntHalf) % (2 * IntHalf)) - IntHalf
CmpDesc(e, f) == ToInt(f.cnt - e.cnt)

(* What qsort may make of a list: neighbours are in the comparison's order. *)
Sorts(l) == {[i \in DOMAIN l |-> l[q[i]]] :
  q \in {o \in SetToSeqs(DOMAIN l) :
           \A i \in 1..(Len(l) - 1) : CmpDesc(l[o[i]], l[o[i + 1]]) <= 0}}

\* Mutant: the first list, then the second.
TopOfFirst(l1, l2) ==
  SubSeq(l1 \o l2, 1, Min({max_mfvs, Len(l1) + Len(l2)}))

(* The sort-merge of mfvsketch_merge_c: the first max_mfvs entries.  Taken *)
(* is how many of the first k come from the first list.                    *)
Taken(l1, l2) ==
  LET i[k \in Nat] ==
        IF k = 0 THEN 0
        ELSE LET j == k - 1 - i[k - 1]
             IN IF /\ i[k - 1] < Len(l1)
                   /\ j = Len(l2) \/ l1[i[k - 1] + 1].cnt >= l2[j + 1].cnt
                  THEN i[k - 1] + 1 ELSE i[k - 1]
  IN i

TopOf(l1, l2) ==
  LET i == Taken(l1, l2)
      all == Len(l1) + Len(l2)
  IN [k \in 1..(IF all < max_mfvs THEN all ELSE max_mfvs) |->
        IF i[k] > i[k - 1] THEN l1[i[k]] ELSE l2[k - i[k]]]

(* mfv_transval_append of each entry of a list, with its count, to a new   *)
(* transition value.                                                       *)
Fill(sketch, l) ==
  LET k[i \in 0..Len(l)] ==
        IF i = 0 THEN [New(TRUE) EXCEPT !.sketch = sketch]
        ELSE PutAt(k[i - 1], l[i].val, l[i].cnt, i)
  IN k[Len(l)]

\* Mutant: the counts of the segments are compared and kept.
MergesUncounted(k1, k2) ==
  {Fill(Sum2(k1.sketch, k2.sketch), TopOf(l1, l2)) :
     l1 \in Sorts(k1.mfvs), l2 \in Sorts(k2.mfvs)}

Recount(l, sketch) ==
  [i \in DOMAIN l |-> [l[i] EXCEPT !.cnt = Count(sketch, l[i].val)]]

(* mfvsketch_merge_c: add the sketches, recompute the counts of the listed *)
(* values from the sum, sort both lists and keep the best of the two.      *)
Merges(k1, k2) ==
  LET sum == Sum2(k1.sketch, k2.sketch)
  IN IF ~k1.init /\ ~k2.init THEN {k1}
     ELSE {Fill(sum, TopOf(l1, l2)) : l1 \in Sorts(Recount(k1.mfvs, sum)),
                                      l2 \in Sorts(Recount(k2.mfvs, sum))}

SumOver(f, S) == FoldFunctionOnSet(+, 0, f, S)
TotalRows == SumOver([s \in Segments |-> SumOver(rows[s], Items)], Segments)

Row(s, x) ==
  /\ s \notin merged
  /\ TotalRows < MaxRows
  /\ part' = [part EXCEPT ![s] = Trans(part[s], x)]
  /\ rows' = [rows EXCEPT ![s][x] = @ + 1]
  /\ UNCHANGED <<Col, acc, merged>>

Gather(s) ==
  /\ s \notin merged
  /\ acc' \in Merges(acc, part[s])
  /\ merged' = merged \cup {s}
  /\ UNCHANGED <<Col, part, rows>>

Next == \E s \in Segments : Gather(s) \/ \E x \in Items : Row(s, x)
Spec == Init /\ [][Next]_vars

-----------------------------------------------------------------------------
TransVal == [init: BOOLEAN, sketch: Counters,
             mfvs: Seq([val: Items, cnt: Nat, offset: Nat]),
             next_offset: Nat, space: Nat]

TypeOK ==
  /\ part \in [Segments -> TransVal] /\ acc \in TransVal
  /\ rows \in [Segments -> [Items -> Nat]]
  /\ merged \subseteq Segments
  /\ Col \in Hashes

(* One pass, no collisions: the list holds the most frequent values of the *)
(* rows so far with their exact counts.  A value outside it never occurred *)
(* more often than any in it, although only the value of the current row   *)
(* is ever considered for a place.                                         *)
ListsMostFrequent == Perfect => \A s \in Segments :
  LET l == part[s].mfvs
      listed == {l[i].val : i \in DOMAIN l}
  IN /\ \A i \in DOMAIN l : l[i].cnt = rows[s][l[i].val]
     /\ \A x \in Items \ listed :
          rows[s][x] > 0 => /\ Len(l) = max_mfvs
                            /\ \A i \in DOMAIN l : rows[s][x] <= l[i].cnt

\* No bucket of list l is for the value of another one.
EachOnce(l) == \A i, j \in DOMAIN l : l[i].val = l[j].val => i = j

(* Collisions: the list of a single pass is still one of distinct values,  *)
(* and no count in it or in a merged one is below the value's true count.  *)
CountsAreNotLow ==
  /\ \A s \in Segments :
       /\ EachOnce(part[s].mfvs)
       /\ \A i \in DOMAIN part[s].mfvs :
            part[s].mfvs[i].cnt >= rows[s][part[s].mfvs[i].val]
  /\ \A i \in DOMAIN acc.mfvs :
       acc.mfvs[i].cnt >=
         SumOver([s \in Segments |-> rows[s][acc.mfvs[i].val]], merged)

(* Replacing in place, appending and growing never let one listed value's  *)
(* bytes run into another's or over the end of the transition value        *)
(* ("value overruns size of mfv sketch").                                  *)
StorageIsDisjoint == TypeOK /\ \A k \in {part[s] : s \in Segments} \cup {acc} :
  LET End(e) == e.offset + Size[e.val]
  IN /\ k.next_offset <= k.space
     /\ \A i \in DOMAIN k.mfvs : End(k.mfvs[i]) <= k.next_offset
     /\ \A i, j \in DOMAIN k.mfvs :
          i # j => \/ End(k.mfvs[i]) <= k.mfvs[j].offset
                   \/ End(k.mfvs[j]) <= k.mfvs[i].offset

(* After a merge the list carries the counts of the summed sketch, best    *)
(* first, so that the next merge compares like with like.                  *)
MergedCountsAreCurrent ==
  /\ \A i \in DOMAIN acc.mfvs : acc.mfvs[i].cnt = Count(acc.sketch, acc.mfvs[i].val)
  /\ \A i \in 1..(Len(acc.mfvs) - 1) : acc.mfvs[i].cnt >= acc.mfvs[i + 1].cnt
=============================================================================
