------------------------------- MODULE FMSketch -------------------------------
(***************************************************************************)
(* The Flajolet-Martin distinct-count aggregate of methods/sketch (fm.c),  *)
(* run in two stages as Greenplum runs an aggregate with a prefunc: every  *)
(* segment folds its rows into a transition value with __fmsketch_trans,   *)
(* and the master folds the segments' values together, in any order, with  *)
(* __fmsketch_merge.                                                       *)
(*                                                                         *)
(* A sketch is exact while SMALL (a sortasort, that is a set: see          *)
(* SortAsort) and a bitmap when BIG.  The bitmap is the set of its 1 bits, *)
(* and hashing a value is knowing the one bit it sets (Bit).               *)
(***************************************************************************)
EXTENDS Integers, FiniteSets

CONSTANTS
  Segments, Values,
  Bit,        \* value -> the <<bitmap, bit>> that md5 selects
  MINVALS,    \* capacity of the sortasort
  BigPairs    \* may two BIG sketches meet in a merge?

ASSUME FMAssumption ==
  /\ MINVALS \in Nat \ {0}
  /\ IsFiniteSet(Values)
  /\ Bit \in [Values -> Nat \X Nat]
  /\ BigPairs \in BOOLEAN

Bits(S) == {Bit[v] : v \in S}

(* "NEW" is the aggregate's initial value ''; "ERROR" is an elog(ERROR).   *)
Sketch == [status: {"NEW", "SMALL", "BIG", "ERROR"}, vals: SUBSET Values,
           bits: SUBSET {Bit[v] : v \in Values}]

New == [status |-> "NEW", vals |-> {}, bits |-> {}]
Small(S) == [status |-> "SMALL", vals |-> S, bits |-> {}]
Big(B) == [status |-> "BIG", vals |-> {}, bits |-> B]
Error == [status |-> "ERROR", vals |-> {}, bits |-> {}]

VARIABLES
  part,    \* the transition value of each segment
  seen,    \* ghost: the values each segment has folded in
  acc,     \* the transition value of the master
  merged   \* the segments merged into it
vars == <<part, seen, acc, merged>>

Init == /\ part = [s \in Segments |-> New]
        /\ seen = [s \in Segments |-> {}]
        /\ acc = New
        /\ merged = {}

\* Mutants: the values of a full sortasort are not hashed; are lost.
TransUnhashed(k, v) ==
  IF k.status # "BIG" /\ Cardinality(k.vals) < MINVALS
    THEN Small(k.vals \cup {v})
    ELSE Big(k.bits \cup k.vals \cup {Bit[v]})
TransNoCatchUp(k, v) ==
  IF k.status # "BIG" /\ Cardinality(k.vals) < MINVALS
    THEN Small(k.vals \cup {v})
    ELSE Big(k.bits \cup {Bit[v]})

(* __fmsketch_trans.  A full sortasort becomes a bitmap at the next row,   *)
(* its values hashed one by one ("catch up"), and then the row itself is.  *)
Trans(k, v) ==
  IF k.status \in {"NEW", "SMALL"} /\ Cardinality(k.vals) < MINVALS
    THEN Small(k.vals \cup {v})
  ELSE IF k.status = "SMALL" /\ Cardinality(k.vals) = MINVALS
    THEN Big(Bits(k.vals) \cup {Bit[v]})
  ELSE IF k.status = "BIG" THEN Big(k.bits \cup {Bit[v]})
  ELSE Error

(* Inserting the values of `short` into `big` one by one, in any order,    *)
(* raises "attempt to insert into full sortasort" on a full one.           *)
InsertAll(big, short) ==
  IF \E last \in short : Cardinality(big \cup (short \ {last})) >= MINVALS
    THEN Error ELSE Small(big \cup short)

(* big_or computes the union into a buffer of its own and returns nothing: *)
(* what its caller hands out is the blank bitmap fm_new made.              *)
BigOr(b1, b2) == {}

\* Mutant: two sortasorts are merged without looking at their sizes.
MergeUnchecked(k1, k2) ==
  IF k1.status = "NEW" THEN k2
  ELSE IF k2.status = "NEW" THEN k1
  ELSE IF k1.status = "SMALL" /\ k2.status = "SMALL"
    THEN InsertAll(k1.vals, k2.vals)
  ELSE Big(k1.bits \cup k2.bits \cup Bits(k1.vals) \cup Bits(k2.vals))

(* __fmsketch_merge.                                                       *)
Merge(k1, k2) ==
  IF k1.status = "NEW" THEN k2
  ELSE IF k2.status = "NEW" THEN k1
  ELSE IF k1.status = "BIG" /\ k2.status = "BIG"
    THEN Big(BigOr(k1.bits, k2.bits))
  ELSE IF /\ k1.status = "SMALL" /\ k2.status = "SMALL"
          /\ Cardinality(k1.vals) + Cardinality(k2.vals) <= MINVALS
    THEN IF Cardinality(k1.vals) > Cardinality(k2.vals)
           THEN InsertAll(k1.vals, k2.vals) ELSE InsertAll(k2.vals, k1.vals)
  ELSE Big(k1.bits \cup k2.bits \cup Bits(k1.vals) \cup Bits(k2.vals))

\* A segment reads a row.  NULLs do not get here: the function is STRICT.
Row(s, v) ==
  /\ s \notin merged
  /\ part' = [part EXCEPT ![s] = Trans(part[s], v)]
  /\ seen' = [seen EXCEPT ![s] = @ \cup {v}]
  /\ UNCHANGED <<acc, merged>>

\* A segment has sent its transition value and the master merges it.
Gather(s) ==
  /\ s \notin merged
  /\ BigPairs \/ ~(acc.status = "BIG" /\ part[s].status = "BIG")
  /\ acc' = Merge(acc, part[s])
  /\ merged' = merged \cup {s}
  /\ UNCHANGED <<part, seen>>

Next == \E s \in Segments : Gather(s) \/ \E v \in Values : Row(s, v)

Spec == Init /\ [][Next]_vars

-----------------------------------------------------------------------------
TypeOK ==
  /\ part \in [Segments -> Sketch]
  /\ seen \in [Segments -> SUBSET Values]
  /\ acc \in Sketch
  /\ merged \subseteq Segments

\* The values of the rows behind the master's transition value.
Gathered == UNION {seen[s] : s \in merged}

\* Sketch k stands for the set S: exactly while SMALL, by its image when BIG.
StandsFor(k, S) ==
  /\ k.status = "NEW" => S = {}
  /\ k.status = "SMALL" => k.vals = S
  /\ k.status = "BIG" => k.bits = Bits(S)

(* However the rows are spread over segments and in whatever order they    *)
(* and the segments come, a sketch depends on the set of distinct values   *)
(* alone: the count of a SMALL one is exact and the bitmap of a BIG one is *)
(* the one a single pass would have built.                                 *)
SketchIsOfValues ==
  /\ \A s \in Segments : StandsFor(part[s], seen[s])
  /\ StandsFor(acc, Gathered)

(* The elog(ERROR)s of a full sortasort and of an unknown status cannot    *)
(* happen: __fmsketch_merge checks the room for both sets before it copies *)
(* one into the other.                                                     *)
NoElog == /\ acc.status # "ERROR"
          /\ \A s \in Segments : part[s].status # "ERROR"
=============================================================================
