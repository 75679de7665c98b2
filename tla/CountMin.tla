------------------------------- MODULE CountMin -------------------------------
(***************************************************************************)
(* One CountMin sketch (countmin.c, countmin.h): DEPTH rows of counters;   *)
(* a value has one counter in each row, which its md5 selects.  The hash   *)
(* never changes; it is a variable so that several can be looked at.       *)
(***************************************************************************)
EXTENDS Integers, FiniteSets, FiniteSetsExt

CONSTANTS
  Items,   \* what is counted
  Rows,    \* the rows of a sketch, 0..DEPTH-1 in the source
  Cols,    \* the columns, 0..NUMCOUNTERS-1
  Hashes   \* what the hash may be

ASSUME CountMinAssumption ==
  /\ IsFiniteSet(Rows) /\ Rows # {}
  /\ Hashes \subseteq [Items -> [Rows -> Cols]]

VARIABLE Col   \* Col[x][i] is the column of x in row i

\* No two values meet in any row.
Perfect == \A x, y \in Items : x # y => \A i \in Rows : Col[x][i] # Col[y][i]

Counters == [Rows -> [Cols -> Nat]]
Blank == [i \in Rows |-> [c \in Cols |-> 0]]   \* palloc0

(* countmin_trans_c, which applies increment_counter to each row; its      *)
(* elog at INT64_MAX (countmin.c:370) is left out.                         *)
Increment(k, x) ==
  [i \in Rows |-> [c \in Cols |-> k[i][c] + (IF c = Col[x][i] THEN 1 ELSE 0)]]

\* hash_counters_iterate: what the counters of x, one in each row, hold.
Cells(k, x) == {k[i][Col[x][i]] : i \in Rows}

(* cmsketch_count_c, which takes the min_counter of the rows.              *)
Count(k, x) == Min(Cells(k, x))

\* Mutant: the larger counter instead of the sum.
SumAsMax(k1, k2) ==
  [i \in Rows |-> [c \in Cols |-> IF k1[i][c] > k2[i][c] THEN k1[i][c] ELSE k2[i][c]]]

\* The cell-wise sum both merges compute.
Sum2(k1, k2) == [i \in Rows |-> [c \in Cols |-> k1[i][c] + k2[i][c]]]
=============================================================================
