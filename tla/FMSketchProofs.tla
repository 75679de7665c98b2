---------------------------- MODULE FMSketchProofs ----------------------------
(***************************************************************************)
(* What FMSketch promises for every number of segments, every finite set   *)
(* of values, every hash and every capacity: the sketch is a function of   *)
(* the set of distinct values, and no internal error is raised, provided   *)
(* that no merge meets two BIG sketches (BigPairs = FALSE).                *)
(***************************************************************************)
EXTENDS FMSketch, FiniteSetTheorems, TLAPS

-----------------------------------------------------------------------------
(* The operations on one sketch.                                           *)

\* Sketch k is one that the set of values S leads to, with nothing in the half
\* of the transition value that its status does not use.
Valid(k, S) == /\ k \in Sketch
               /\ k.status # "ERROR"
               /\ StandsFor(k, S)
               /\ k.status = "SMALL" => Cardinality(S) <= MINVALS
               /\ k.status # "SMALL" => k.vals = {}
               /\ k.status # "BIG" => k.bits = {}

(* The three constructors make valid sketches of the sets they stand for.  *)
LEMMA NewValid == Valid(New, {})
BY DEF Valid, New, Sketch, StandsFor

(* A SMALL sketch of few enough values is valid for them.                  *)
LEMMA SmallValid ==
  ASSUME NEW S \in SUBSET Values, Cardinality(S) <= MINVALS
  PROVE  Valid(Small(S), S)
BY DEF Valid, Small, Sketch, StandsFor

(* A BIG sketch with the bits of a set is valid for it.                    *)
LEMMA BigValid ==
  ASSUME NEW S \in SUBSET Values
  PROVE  Valid(Big(Bits(S)), S)
<1>1. Bits(S) \in SUBSET {Bit[v] : v \in Values}
  BY DEF Bits
<1>2. QED
  BY <1>1 DEF Valid, Big, Sketch, StandsFor

(* What a valid sketch holds, by its status.                               *)
LEMMA ValidCases ==
  ASSUME NEW k, NEW S \in SUBSET Values, Valid(k, S)
  PROVE  \/ k.status = "NEW" /\ S = {} /\ k.vals = {} /\ k.bits = {}
         \/ /\ k.status = "SMALL" /\ Cardinality(S) <= MINVALS
            /\ k.vals = S /\ k.bits = {}
         \/ k.status = "BIG" /\ k.bits = Bits(S) /\ k.vals = {}
BY DEF Valid, StandsFor, Sketch

(* Hashing is done value by value: the bits of a union are the union of    *)
(* the bits, in __fmsketch_trans's catching up and __fmsketch_merge's      *)
(* conversion alike.                                                       *)
LEMMA BitsOfUnion ==
  ASSUME NEW S, NEW T
  PROVE  Bits(S \cup T) = Bits(S) \cup Bits(T)
BY DEF Bits

(* Adding one value makes a set larger by at most one.                     *)
LEMMA OneMore ==
  ASSUME NEW S \in SUBSET Values, NEW v \in Values
  PROVE  /\ IsFiniteSet(S)
         /\ Cardinality(S) \in Nat
         /\ Cardinality(S \cup {v}) <= Cardinality(S) + 1
<1>1. IsFiniteSet(S)
  BY FS_Subset, FMAssumption
<1>2. Cardinality(S) \in Nat
  BY <1>1, FS_CardinalityType
<1>3. CASE v \in S
  <2>1. S \cup {v} = S
    BY <1>3
  <2>2. Cardinality(S \cup {v}) = Cardinality(S)
    BY <2>1, Zenon
  <2>3. QED
    BY <1>1, <1>2, <2>2
<1>4. CASE v \notin S
  <2>1. Cardinality(S \cup {v}) = Cardinality(S) + 1
    BY <1>1, <1>4, FS_AddElement, Zenon
  <2>2. QED
    BY <1>1, <1>2, <2>1
<1>5. QED
  BY <1>1, <1>2, <1>3, <1>4

(* __fmsketch_trans: a segment's sketch after one more row.                *)
LEMMA TransValid ==
  ASSUME NEW k, NEW S \in SUBSET Values, NEW v \in Values, Valid(k, S)
  PROVE  Valid(Trans(k, v), S \cup {v})
<1> DEFINE T == S \cup {v}
<1>1. T \in SUBSET Values /\ MINVALS \in Nat /\ MINVALS > 0
  BY FMAssumption
<1>2. /\ Cardinality(S) \in Nat /\ Cardinality({}) = 0
      /\ Cardinality(T) \in Nat /\ Cardinality(T) <= Cardinality(S) + 1
  BY <1>1, OneMore, FS_EmptySet
<1>3. Bits(T) = Bits(S) \cup {Bit[v]}
  BY DEF Bits
<1>4. CASE k.status \in {"NEW", "SMALL"} /\ k.vals = S /\ Cardinality(S) < MINVALS
  <2>1. Trans(k, v) = Small(T)
    BY <1>4, Zenon DEF Trans
  <2>2. Cardinality(T) <= MINVALS
    BY <1>1, <1>2, <1>4
  <2>3. QED
    BY <1>1, <2>1, <2>2, SmallValid, Zenon
<1>5. CASE k.status = "SMALL" /\ k.vals = S /\ Cardinality(S) = MINVALS
  <2>1. ~(Cardinality(k.vals) < MINVALS)
    BY <1>1, <1>5
  <2>2. Trans(k, v) = Big(Bits(S) \cup {Bit[v]})
    BY <1>5, <2>1, Zenon DEF Trans
  <2>3. QED
    BY <1>1, <1>3, <2>2, BigValid, Zenon
<1>6. CASE k.status = "BIG" /\ k.bits = Bits(S)
  <2>1. Trans(k, v) = Big(Bits(S) \cup {Bit[v]})
    BY <1>6 DEF Trans
  <2>2. QED
    BY <1>1, <1>3, <2>1, BigValid, Zenon
<1>7. CASE k.status = "NEW" /\ S = {} /\ k.vals = {}
  BY <1>1, <1>2, <1>4, <1>7
<1>8. CASE k.status = "SMALL" /\ k.vals = S /\ Cardinality(S) <= MINVALS
  BY <1>1, <1>2, <1>4, <1>5, <1>8
<1>9. QED
  BY <1>6, <1>7, <1>8, ValidCases

(* Two sets together have at most as many members as there are in each, so *)
(* a sortasort that has room for both never runs full on the way.          *)
LEMMA RoomForBoth ==
  ASSUME NEW S \in SUBSET Values, NEW T \in SUBSET Values,
         Cardinality(S) + Cardinality(T) <= MINVALS
  PROVE  /\ InsertAll(S, T) = Small(S \cup T)
         /\ Cardinality(S \cup T) <= MINVALS
<1>1. /\ IsFiniteSet(S) /\ IsFiniteSet(T) /\ MINVALS \in Nat
      /\ Cardinality(S) \in Nat /\ Cardinality(T) \in Nat
  BY FS_Subset, FS_CardinalityType, FMAssumption
<1>2. ASSUME NEW U \in SUBSET Values, IsFiniteSet(U)
      PROVE  Cardinality(S \cup U) <= Cardinality(S) + Cardinality(U)
  <2>1. IsFiniteSet(S \cap U)
    BY <1>1, FS_Subset
  <2>2. Cardinality(S \cap U) \in Nat /\ Cardinality(U) \in Nat
    BY <1>2, <2>1, FS_CardinalityType
  <2>3. Cardinality(S \cup U) = Cardinality(S) + Cardinality(U) - Cardinality(S \cap U)
    BY <1>1, <1>2, FS_Union, Zenon
  <2>4. QED
    BY <1>1, <2>2, <2>3
<1>3. ASSUME NEW last \in T
      PROVE  ~(Cardinality(S \cup (T \ {last})) >= MINVALS)
  <2>1. /\ IsFiniteSet(T \ {last})
        /\ Cardinality(T \ {last}) = Cardinality(T) - 1
    BY <1>1, FS_RemoveElement
  <2>2. T \ {last} \in SUBSET Values
    OBVIOUS
  <2>3. Cardinality(S \cup (T \ {last})) <= Cardinality(S) + Cardinality(T \ {last})
    BY <1>2, <2>1, <2>2, Zenon
  <2>4. Cardinality(S \cup (T \ {last})) \in Nat
    BY <1>1, <2>1, FS_Union, FS_CardinalityType, Zenon
  <2>5. QED
    BY <1>1, <2>1, <2>3, <2>4
<1>4. InsertAll(S, T) = Small(S \cup T)
  BY <1>3, Zenon DEF InsertAll
<1>5. Cardinality(S \cup T) <= MINVALS
  <2>1. Cardinality(S \cup T) <= Cardinality(S) + Cardinality(T)
    BY <1>1, <1>2, Zenon
  <2>2. Cardinality(S \cup T) \in Nat
    BY <1>1, FS_Union, FS_CardinalityType, Zenon
  <2>3. QED
    BY <1>1, <2>1, <2>2
<1>6. QED
  BY <1>4, <1>5

(* __fmsketch_merge: a sketch of two sets from one of each, unless both    *)
(* are bitmaps.                                                            *)
LEMMA MergeValid ==
  ASSUME NEW k1, NEW S1 \in SUBSET Values, Valid(k1, S1),
         NEW k2, NEW S2 \in SUBSET Values, Valid(k2, S2),
         ~(k1.status = "BIG" /\ k2.status = "BIG")
  PROVE  Valid(Merge(k1, k2), S1 \cup S2)
<1> DEFINE S == S1 \cup S2
<1>1. S \in SUBSET Values /\ Bits(S) = Bits(S1) \cup Bits(S2) /\ Bits({}) = {}
  BY BitsOfUnion DEF Bits
<1>2. /\ Cardinality(S1) \in Nat /\ Cardinality(S2) \in Nat /\ MINVALS \in Nat
  BY FS_Subset, FS_CardinalityType, FMAssumption
<1>3. CASE k1.status = "NEW"
  <2>1. S = S2
    BY <1>3, ValidCases
  <2>2. Merge(k1, k2) = k2
    BY <1>3 DEF Merge
  <2>3. QED
    BY <2>1, <2>2, Zenon
<1>4. CASE k1.status # "NEW" /\ k2.status = "NEW"
  <2>1. S = S1
    BY <1>4, ValidCases
  <2>2. Merge(k1, k2) = k1
    BY <1>4 DEF Merge
  <2>3. QED
    BY <2>1, <2>2, Zenon
<1> DEFINE Room == Cardinality(k1.vals) + Cardinality(k2.vals) <= MINVALS
<1>5. CASE k1.status = "SMALL" /\ k2.status = "SMALL" /\ Room
  <2>1. k1.vals = S1 /\ k2.vals = S2
    BY <1>5, ValidCases
  <2>2. Cardinality(S1) + Cardinality(S2) <= MINVALS
    BY <1>5, <2>1, Zenon
  <2>3. Cardinality(S2) + Cardinality(S1) <= MINVALS
    BY <1>2, <2>2
  <2>4. S2 \cup S1 = S
    OBVIOUS
  <2>5. /\ InsertAll(S1, S2) = Small(S)
        /\ Cardinality(S) <= MINVALS
    BY <2>2, RoomForBoth, Zenon
  <2>6. InsertAll(S2, S1) = Small(S)
    BY <2>3, <2>4, RoomForBoth, Zenon
  <2>7. Merge(k1, k2) = Small(S)
    BY <1>5, <2>1, <2>5, <2>6 DEF Merge
  <2>8. QED
    BY <1>1, <2>5, <2>7, SmallValid, Zenon
<1>6. CASE /\ k1.status # "NEW" /\ k2.status # "NEW"
           /\ ~(k1.status = "SMALL" /\ k2.status = "SMALL" /\ Room)
  <2>1. Merge(k1, k2) = Big(k1.bits \cup k2.bits \cup Bits(k1.vals) \cup Bits(k2.vals))
    BY <1>6 DEF Merge
  <2>2. k1.bits \cup Bits(k1.vals) = Bits(S1)
    <3>1. CASE k1.bits = {} /\ k1.vals = S1
      BY <3>1, Zenon
    <3>2. CASE k1.bits = Bits(S1) /\ k1.vals = {}
      BY <3>2, <1>1, Zenon
    <3>3. QED
      BY <1>6, <3>1, <3>2, ValidCases
  <2>3. k2.bits \cup Bits(k2.vals) = Bits(S2)
    <3>1. CASE k2.bits = {} /\ k2.vals = S2
      BY <3>1, Zenon
    <3>2. CASE k2.bits = Bits(S2) /\ k2.vals = {}
      BY <3>2, <1>1, Zenon
    <3>3. QED
      BY <1>6, <3>1, <3>2, ValidCases
  <2>4. k1.bits \cup k2.bits \cup Bits(k1.vals) \cup Bits(k2.vals) = Bits(S)
    BY <1>1, <2>2, <2>3
  <2>5. QED
    BY <1>1, <2>1, <2>4, BigValid, Zenon
<1>7. QED
  BY <1>3, <1>4, <1>5, <1>6

-----------------------------------------------------------------------------
(* The aggregate.                                                          *)

(* The inductive invariant: each transition value is a valid sketch of the *)
(* values behind it.  SketchIsOfValues alone is not inductive: that a      *)
(* SMALL sketch fits its sortasort is what keeps the merge from an error.  *)
Inv ==
  /\ seen \in [Segments -> SUBSET Values]
  /\ part \in [Segments -> Sketch]
  /\ merged \subseteq Segments
  /\ \A s \in Segments : Valid(part[s], seen[s])
  /\ Valid(acc, Gathered)

(* Nothing read, nothing gathered.                                         *)
LEMMA InitInv == Init => Inv
<1> SUFFICES ASSUME Init PROVE Inv
  OBVIOUS
<1>1. New \in Sketch
  BY NewValid DEF Valid
<1>2. Gathered = {}
  BY DEF Init, Gathered
<1>3. QED
  BY <1>1, <1>2, NewValid DEF Init, Inv

(* No row is lost or invented between the segments and the master.         *)
LEMMA GatheredType ==
  ASSUME Inv
  PROVE  Gathered \in SUBSET Values
BY DEF Inv, Gathered

(* A row read by a segment.                                                *)
LEMMA RowInv ==
  ASSUME Inv, NEW s \in Segments, NEW v \in Values, Row(s, v)
  PROVE  Inv'
<1>1. Valid(Trans(part[s], v), seen[s] \cup {v})
  BY TransValid DEF Inv
<1>2. Trans(part[s], v) \in Sketch
  BY <1>1 DEF Valid
<1>3. /\ seen' \in [Segments -> SUBSET Values]
      /\ part' \in [Segments -> Sketch]
      /\ merged' \subseteq Segments
  BY <1>2 DEF Inv, Row
<1>4. ASSUME NEW t \in Segments
      PROVE  Valid(part'[t], seen'[t])
  <2>1. CASE t = s
    <3>1. part'[t] = Trans(part[s], v) /\ seen'[t] = seen[s] \cup {v}
      BY <2>1 DEF Inv, Row
    <3>2. QED
      BY <1>1, <3>1, Zenon
  <2>2. CASE t # s
    <3>1. part'[t] = part[t] /\ seen'[t] = seen[t]
      BY <2>2 DEF Inv, Row
    <3>2. QED
      BY <3>1, Zenon DEF Inv
  <2>3. QED
    BY <2>1, <2>2
<1>5. Valid(acc', Gathered')
  <2>1. \A t \in merged : seen'[t] = seen[t]
    BY DEF Inv, Row
  <2>2. Gathered' = Gathered
    BY <2>1 DEF Row, Gathered
  <2>3. acc' = acc
    BY DEF Row
  <2>4. QED
    BY <2>2, <2>3, Zenon DEF Inv
<1>6. QED
  BY <1>3, <1>4, <1>5, Zenon DEF Inv

(* A segment gathered by the master, one of the two being SMALL.           *)
LEMMA GatherInv ==
  ASSUME Inv, NEW s \in Segments, Gather(s), BigPairs = FALSE
  PROVE  Inv'
<1>1. Gathered \in SUBSET Values /\ seen[s] \in SUBSET Values
  BY GatheredType DEF Inv
<1>2. Valid(Merge(acc, part[s]), Gathered \cup seen[s])
  <2>1. ~(acc.status = "BIG" /\ part[s].status = "BIG")
    BY DEF Gather
  <2>2. Valid(acc, Gathered) /\ Valid(part[s], seen[s])
    BY DEF Inv
  <2>3. QED
    BY <1>1, <2>1, <2>2, MergeValid, Zenon
<1>3. Gathered' = Gathered \cup seen[s]
  BY DEF Gather, Gathered
<1>4. Valid(acc', Gathered')
  BY <1>2, <1>3, Zenon DEF Gather
<1>5. QED
  BY <1>4 DEF Inv, Gather

(* Under BigPairs = FALSE every state satisfies the invariant.             *)
THEOREM Invariance ==
  ASSUME BigPairs = FALSE
  PROVE  Spec => []Inv
<1>1. Inv /\ [Next]_vars => Inv'
  <2> SUFFICES ASSUME Inv, [Next]_vars PROVE Inv'
    OBVIOUS
  <2>1. CASE Next
    BY <2>1, RowInv, GatherInv DEF Next
  <2>2. CASE UNCHANGED vars
    BY <2>2 DEF vars, Inv, Gathered
  <2>3. QED
    BY <2>1, <2>2
<1>2. QED
  BY InitInv, <1>1, PTL DEF Spec

(* The type invariant of FMSketch.                                         *)
THEOREM TypeCorrect ==
  ASSUME BigPairs = FALSE
  PROVE  Spec => []TypeOK
<1>1. Inv => TypeOK
  BY DEF Inv, TypeOK, Valid
<1>2. QED
  BY Invariance, <1>1, PTL

(* fmsketch_dcount counts the set of distinct values: how the rows are     *)
(* spread over segments, how often a value comes and in which order the    *)
(* transition values are merged has no influence on the sketch.            *)
THEOREM SketchOfValues ==
  ASSUME BigPairs = FALSE
  PROVE  Spec => []SketchIsOfValues
<1>1. Inv => SketchIsOfValues
  BY DEF Inv, SketchIsOfValues, Valid
<1>2. QED
  BY Invariance, <1>1, PTL

(* The errors of a full sortasort ("attempt to insert into full            *)
(* sortasort") and of an unknown status ("FM sketch failed internal sanity *)
(* check") are never raised.                                               *)
THEOREM NoErrors ==
  ASSUME BigPairs = FALSE
  PROVE  Spec => []NoElog
<1>1. Inv => NoElog
  BY DEF Inv, NoElog, Valid
<1>2. QED
  BY Invariance, <1>1, PTL
=============================================================================
