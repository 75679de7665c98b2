----------------------------- MODULE Selection ------------------------------
(***************************************************************************)
(* partition_select (operators.c of methods/svec): the element of rank k   *)
(* of run-length encoded values by randomized partitioning.  The pivots    *)
(* come from drand48, so the operators here are sets of all outcomes.      *)
(*                                                                         *)
(* The values and their run lengths move together: a list of pairs.        *)
(* Positions count from one, the rank k from zero.                         *)
(***************************************************************************)
EXTENDS Integers, Sequences, SequencesExt, FiniteSetsExt

Swap(list, i, j) == [list EXCEPT ![i] = list[j], ![j] = list[i]]

(* partition_pivot: the list and where the pivot went.                     *)
partition_pivot(list, left, right, pivotIndex) ==
  LET pvalue == list[pivotIndex][1]
      walk == FoldLeft(
        LAMBDA w, i : IF w.list[i][1] <= pvalue
                      THEN [list |-> Swap(w.list, i, w.store), store |-> w.store + 1]
                      ELSE w,
        [list |-> Swap(list, pivotIndex, right), store |-> left],
        [n \in 1..right - left |-> left + n - 1])
  IN [list |-> Swap(walk.list, walk.store, right), store |-> walk.store]

\* real_index_calc_sparse_RLE, and with runs of one real_index_calc_dense.
real_index(list, i) == FoldLeft(LAMBDA t, r : t + r[2], 0, SubSeq(list, 1, i - 1))

\* Mutant: stops at the last element of a run only.
Within(list, i, k, maxlen) == k = real_index(list, Min({maxlen, i + 1})) - 1

\* The rank lies in the run at i.  The last run has no next one to tell.
InRun(list, i, k, maxlen) ==
  real_index(list, i) <= k /\ k < real_index(list, Min({maxlen, i + 1}))

(* partition_select: the values found, over all choices of pivots.         *)
partition_select(runs, k) ==
  LET maxlen == Len(runs)
      Found[list \in Seq(Int \X Int), left \in Nat, right \in Int] ==
        UNION {
          LET p == partition_pivot(list, left, right, i)
          IN IF InRun(p.list, p.store, k, maxlen) THEN {p.list[p.store][1]}
             ELSE IF k < real_index(p.list, p.store)
                  THEN Found[p.list, left, p.store - 1]
             ELSE IF p.store + 1 >= maxlen THEN {p.list[maxlen][1]}
                  ELSE Found[p.list, p.store + 1, right]
          : i \in left..right}
  IN Found[runs, 1, maxlen]
=============================================================================
