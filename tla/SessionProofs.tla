----------------------------- MODULE SessionProofs -----------------------------
(***************************************************************************)
(* What holds of a session that calls the functions of the library.        *)
(***************************************************************************)
EXTENDS Session, Recursion, SequenceTheorems, TLAPS

-----------------------------------------------------------------------------
(* Association rules: assoc_rules called as a part of a session.           *)
AP == INSTANCE AssocRulesProofs WITH pc <- assoc_pc, n <- assoc_n

\* svec_hash, an integer of a list of products, tells the itemsets apart: the rows of
\* one itemset are found by its hash.
HashTellsApart == AP!HashTellsApart

\* No itemset of two or more products has exactly the minimum support, where the loop
\* asks for more and the first statement for as much.
NoneExact == called = "assoc_rules" => AP!NoneExact

\* Nor any rule exactly the minimum confidence, unless its two supports are equal; and
\* quotients have the places to tell the others from it.
ConfidencesTold == called = "assoc_rules" => AP!ConfidencesTold

\* The invariant of the Apriori algorithm, while it is what was called.
AssocInv == called = "assoc_rules" => AP!Inv

-----------------------------------------------------------------------------
(* AssocRules and its proofs are instantiated with the same variables.     *)

(* So are the modules they take their operators from.                      *)
LEMMA SameOperators ==
  /\ \A S : AP!Cardinality(S) = A!Cardinality(S)
  /\ \A S : AP!IsFiniteSet(S) <=> A!IsFiniteSet(S)
  /\ \A f : AP!Range(f) = A!Range(f)
<1>1. \A S : AP!Cardinality(S) = A!Cardinality(S)
  BY DEF AP!Cardinality, A!Cardinality
<1>2. \A S : AP!IsFiniteSet(S) <=> A!IsFiniteSet(S)
  BY DEF AP!IsFiniteSet, A!IsFiniteSet
<1>3. \A f : AP!Range(f) = A!Range(f)
  BY DEF AP!Range, A!Range
<1> QED
  BY <1>1, <1>2, <1>3

(* The constants are what assoc_rules is called for.                       *)
LEMMA SameAssumption == AP!AssocRulesAssumption
BY SessionAssumption, SameOperators DEF A!AssocRulesAssumption, AP!AssocRulesAssumption

(* The tables made of the input, and the supports.                         *)
LEMMA SameTables ==
  /\ AP!assoc_input_data = A!assoc_input_data
  /\ AP!assoc_trans_svec = A!assoc_trans_svec
  /\ AP!max_t = A!max_t
  /\ AP!Itemsets = A!Itemsets
<1>1. AP!assoc_id_uniq = A!assoc_id_uniq
  BY SameOperators DEF AP!assoc_id_uniq, A!assoc_id_uniq
<1>2. AP!assoc_input_data = A!assoc_input_data
  BY <1>1 DEF AP!assoc_input_data, A!assoc_input_data
<1>3. AP!assoc_trans_svec = A!assoc_trans_svec
  BY <1>2 DEF AP!assoc_trans_svec, A!assoc_trans_svec
<1>4. AP!max_t = A!max_t
  BY <1>1, SameOperators DEF AP!max_t, A!max_t
<1>5. AP!Itemsets = A!Itemsets
  BY DEF AP!Itemsets, A!Itemsets
<1> QED
  BY <1>2, <1>3, <1>4, <1>5

(* The statements.                                                         *)
LEMMA SameSteps ==
  /\ AP!Init <=> A!Init
  /\ AP!Next <=> A!Next
<1>1. AP!Init <=> A!Init
  BY DEF AP!Init, A!Init
<1>2. AP!InsertSingles <=> A!InsertSingles
  BY SameTables, SameOperators DEF AP!InsertSingles, A!InsertSingles, AP!Singles, A!Singles,
     AP!AtLeast, A!AtLeast, AP!args, A!args
<1>3. AP!Combine <=> A!Combine
  BY SameOperators DEF AP!Combine, A!Combine, AP!Unions, A!Unions, AP!Found, A!Found,
     AP!args, A!args
<1>4. AP!ListParts <=> A!ListParts
  BY DEF AP!ListParts, A!ListParts, AP!Parts, A!Parts, AP!args, A!args
<1>5. AP!Prune <=> A!Prune
  BY SameOperators DEF AP!Prune, A!Prune, AP!Survives, A!Survives, AP!IsFrequent, A!IsFrequent,
     AP!args, A!args
<1>6. AP!InsertFrequent <=> A!InsertFrequent
  BY SameTables, SameOperators DEF AP!InsertFrequent, A!InsertFrequent, AP!Counted, A!Counted,
     AP!Above, A!Above, AP!args, A!args
<1>7. AP!InsertRules <=> A!InsertRules
  BY SameTables DEF AP!InsertRules, A!InsertRules, AP!Rules, A!Rules, AP!Confident, A!Confident,
     AP!confidence_xy, A!confidence_xy, AP!Quotient, A!Quotient, AP!args, A!args
<1>8. AP!Next <=> A!Next
  BY <1>2, <1>3, <1>4, <1>5, <1>6, <1>7 DEF AP!Next, A!Next
<1> QED
  BY <1>1, <1>8

(* What is said of the outcome.                                            *)
LEMMA SamePromises ==
  /\ AP!FrequentSetsAreExact <=> A!FrequentSetsAreExact
  /\ AP!RulesAreExact <=> A!RulesAreExact
<1>1. \A S : AP!Total(S) = A!Total(S)
  BY SameTables, SameOperators DEF AP!Total, A!Total
<1>2. AP!Frequent = A!Frequent
  BY <1>1, SameTables, SameOperators DEF AP!Frequent, A!Frequent, AP!AtLeast, A!AtLeast
<1>3. AP!FrequentSetsAreExact <=> A!FrequentSetsAreExact
  BY <1>1, <1>2, SameOperators DEF AP!FrequentSetsAreExact, A!FrequentSetsAreExact
<1>4. AP!RulesAreExact <=> A!RulesAreExact
  BY <1>1, <1>2, SameTables DEF AP!RulesAreExact, A!RulesAreExact
<1> QED
  BY <1>3, <1>4

-----------------------------------------------------------------------------
(* The invariant of the Apriori algorithm holds in a session that called   *)
(* assoc_rules: no other function of the library touches its tables.       *)
THEOREM AssocInvariant ==
  ASSUME HashTellsApart
  PROVE  SessionSpec => []AssocInv
<1>1. SessionInit => AssocInv
  <2> SUFFICES ASSUME SessionInit, called = "assoc_rules" PROVE AP!Inv
    BY DEF AssocInv
  <2>1. AP!Init
    BY SameSteps DEF SessionInit
  <2> QED
    BY <2>1, SameAssumption, AP!InitInv DEF HashTellsApart
<1>2. AssocInv /\ [SessionNext]_SessionVars => AssocInv'
  <2> SUFFICES ASSUME AssocInv, [SessionNext]_SessionVars, called' = "assoc_rules"
               PROVE  AP!Inv'
    BY DEF AssocInv
  <2>1. called = "assoc_rules" /\ [AP!Next]_(AP!vars)
    BY SameSteps DEF SessionNext, RunsQuery, RunsAssocRules, RunsPLDA, SessionVars,
       assocVars, AP!vars, AP!args
  <2> QED
    BY <2>1, AP!NextInv DEF AssocInv
<1> QED
  BY <1>1, <1>2, PTL DEF SessionSpec

-----------------------------------------------------------------------------
(* The itemsets that assoc_rules keeps are those with the support, each    *)
(* with its count, whenever no itemset is exactly at the minimum support:  *)
(* the count of one product is compared with >= and of several with >.     *)
THEOREM SessionFrequentSets ==
  ASSUME HashTellsApart
  PROVE  SessionSpec /\ []NoneExact => []FrequentSetsAreExact
<1>1. AssocInv /\ NoneExact => FrequentSetsAreExact
  BY AP!SetsAreExact, SamePromises DEF AssocInv, NoneExact, FrequentSetsAreExact
<1> QED
  BY <1>1, AssocInvariant, PTL

(* The rules it returns are the splits of these itemsets into two parts    *)
(* that have the confidence, each once and with the three supports,        *)
(* although the confidence is a rounded quotient of rounded supports.      *)
THEOREM SessionRules ==
  ASSUME HashTellsApart
  PROVE  SessionSpec /\ []NoneExact /\ []ConfidencesTold => []RulesAreExact
<1>1. AssocInv /\ NoneExact /\ ConfidencesTold => RulesAreExact
  BY AP!RulesAreThese, SamePromises DEF AssocInv, NoneExact, ConfidencesTold, RulesAreExact
<1> QED
  BY <1>1, AssocInvariant, PTL

-----------------------------------------------------------------------------
(* Rows, segments and states.                                              *)

\* The rows that the state at s has: the merged state those of the merged segments, or
\* of all where nothing is spread.
KeptBy(s) == {k \in DOMAIN placed : IF s = 0 THEN placed[k] \notin waiting ELSE placed[k] = s}

\* A job is one of the instance's.
JobOf(test) ==
  /\ test \in DOMAIN Jobs /\ test \in Tests /\ job.rows \in Jobs[test]
  /\ job.spread \in BOOLEAN /\ (test \in Ordered => ~job.spread)
  /\ job.limit \in Int

\* Rows are placed in their order, and segments are merged when all are.
ScanInv ==
  /\ job.test \in Tests => JobOf(job.test)
  /\ placed \in Seq(0..Segments) /\ Len(placed) <= Len(job.rows)
  /\ \A k \in DOMAIN placed : placed[k] \in IF job.spread THEN 1..Segments ELSE {0}
  /\ waiting \subseteq Places(job.spread)
  /\ job.test \in Tests /\ ~AllRead => waiting = Places(job.spread)
  /\ job.test \in Tests => DOMAIN state = 0..Segments

(* What is assumed of the constants, piece by piece.                       *)
LEMMA ConstantsAre ==
  /\ Segments \in Nat /\ Horizon \in Nat \ {0} /\ Limits \subseteq Int /\ MaxWidth \in Nat
  /\ IntBits \in Nat \ {0} /\ Null \notin Int /\ NotFinite \notin Int
  /\ Exception \notin Int /\ Pending \notin Int
  /\ Exception # Null /\ Pending # Null /\ Pending # Exception
BY QueriesAssumption DEF QueriesAssumption

(* The rows of a job are rows of what it calls.                            *)
LEMMA JobsAre ==
  ASSUME NEW t \in DOMAIN Jobs, NEW R \in Jobs[t]
  PROVE  t \in Tests /\ R \in Seq(Row(t))
BY QueriesAssumption DEF QueriesAssumption

(* No function of arrays is a test, and its arguments are a sequence.      *)
LEMMA FunctionsAreNoTests ==
  ASSUME NEW f \in DOMAIN Calls
  PROVE  f \in Aggregates \cup Scalings \cup Pairwise /\ f \notin Tests
BY QueriesAssumption DEF QueriesAssumption, Tests, TTests, Ordered, Optimizers, Aggregates,
   Scalings, Pairwise

(* Both arrays that a function is called with have one type.               *)
LEMMA CallsAre ==
  ASSUME NEW f \in DOMAIN Calls, NEW args \in Calls[f]
  PROVE  \E type : args \in Arguments(f, type)
BY QueriesAssumption DEF QueriesAssumption

(* The arguments of a function are a sequence.                             *)
LEMMA ArgumentsAreSequences ==
  ASSUME NEW f \in DOMAIN Calls, NEW args \in Calls[f]
  PROVE  Len(args) \in Nat /\ DOMAIN args = 1..Len(args)
<1>1. PICK type : args \in Arguments(f, type)
  BY CallsAre
<1> DEFINE v == {Null} \cup Array(type)
           w == {Null} \cup Int
<1>2. args \in Seq(v) \/ args \in v \X w \/ args \in v \X v
  BY <1>1 DEF Arguments
<1> HIDE DEF v, w
<1>3. CASE args \in Seq(v)
  BY <1>3
<1>4. ASSUME NEW u, args \in v \X u
      PROVE  Len(args) \in Nat /\ DOMAIN args = 1..Len(args)
  <2>1. PICK a \in v, b \in u : args = <<a, b>>
    BY <1>4
  <2> QED
    BY <2>1
<1> QED
  BY <1>2, <1>3, <1>4

(* Nothing is read yet when a query starts.                                *)
LEMMA ScanInit == Init => ScanInv
<1> SUFFICES ASSUME Init PROVE ScanInv
  OBVIOUS
<1>1. placed = << >>
  BY DEF Init
<1>2. placed \in Seq(0..Segments) /\ Len(placed) = 0 /\ DOMAIN placed = {}
  BY <1>1
<1>3. CASE \E t \in DOMAIN Jobs : \E R \in Jobs[t] :
          \E spread \in IF t \in Ordered THEN {FALSE} ELSE BOOLEAN :
            \E limit \in IF t \in Optimizers THEN Limits ELSE {1},
               converges \in IF t \in Optimizers THEN BOOLEAN ELSE {FALSE} :
              /\ job = [test |-> t, rows |-> R, spread |-> spread,
                        limit |-> limit, converges |-> converges]
              /\ state = Fresh(t) /\ waiting = Places(spread)
  <2>1. PICK t \in DOMAIN Jobs : \E R \in Jobs[t] :
          \E spread \in IF t \in Ordered THEN {FALSE} ELSE BOOLEAN :
            \E limit \in IF t \in Optimizers THEN Limits ELSE {1},
               converges \in IF t \in Optimizers THEN BOOLEAN ELSE {FALSE} :
              /\ job = [test |-> t, rows |-> R, spread |-> spread,
                        limit |-> limit, converges |-> converges]
              /\ state = Fresh(t) /\ waiting = Places(spread)
    BY <1>3
  <2>2. PICK R \in Jobs[t], spread \in IF t \in Ordered THEN {FALSE} ELSE BOOLEAN,
             limit \in IF t \in Optimizers THEN Limits ELSE {1},
             converges \in IF t \in Optimizers THEN BOOLEAN ELSE {FALSE} :
              /\ job = [test |-> t, rows |-> R, spread |-> spread,
                        limit |-> limit, converges |-> converges]
              /\ state = Fresh(t) /\ waiting = Places(spread)
    BY <2>1
  <2>3. job.test = t /\ job.rows = R /\ job.spread = spread /\ job.limit = limit
    BY <2>2
  <2>4. t \in Tests /\ R \in Seq(Row(t)) /\ limit \in Int
    BY ConstantsAre, JobsAre
  <2>5. JobOf(t)
    BY <2>2, <2>3, <2>4 DEF JobOf
  <2>6. Len(R) \in Nat
    BY <2>4
  <2>7. DOMAIN state = 0..Segments
    BY <2>2 DEF Fresh
  <2> QED
    BY <1>2, <2>2, <2>3, <2>5, <2>6, <2>7 DEF ScanInv, AllRead
<1>4. CASE \E f \in DOMAIN Calls : \E args \in Calls[f] :
          /\ job = [test |-> f, rows |-> args, spread |-> FALSE]
          /\ state = << >> /\ waiting = {}
  <2>1. PICK f \in DOMAIN Calls : \E args \in Calls[f] :
          job = [test |-> f, rows |-> args, spread |-> FALSE] /\ waiting = {}
    BY <1>4
  <2>2. PICK args \in Calls[f] :
          job = [test |-> f, rows |-> args, spread |-> FALSE] /\ waiting = {}
    BY <2>1
  <2>3. job.test \notin Tests /\ job.spread = FALSE /\ job.rows = args
    BY <2>2, FunctionsAreNoTests
  <2>4. Len(args) \in Nat
    BY ArgumentsAreSequences
  <2> QED
    BY <1>2, <2>2, <2>3, <2>4 DEF ScanInv, Places
<1> QED
  BY <1>3, <1>4 DEF Init

(* What the two steps of a scan do to the places.                          *)
LEMMA ReadPlaces ==
  ASSUME ScanInv, NEW s \in 0..Segments, Read(s)
  PROVE  /\ ScanInv'
         /\ job' = job /\ waiting' = waiting
         /\ Len(placed') = Len(placed) + 1 /\ Len(placed') \in DOMAIN job.rows
         /\ Becomes(s, Transition(job.test, state[s], job.rows[Len(placed')], Len(placed')))
         /\ KeptBy(s)' = KeptBy(s) \cup {Len(placed')} /\ Len(placed') \notin KeptBy(s)
         /\ \A t \in {0} \cup waiting : t # s => KeptBy(t)' = KeptBy(t)
<1> DEFINE n == Len(placed)
<1>1. /\ job.test \in Tests /\ ~AllRead /\ s \in IF job.spread THEN 1..Segments ELSE {0}
      /\ placed' = Append(placed, s) /\ job' = job /\ waiting' = waiting
      /\ Becomes(s, Transition(job.test, state[s], job.rows[Len(placed')], Len(placed')))
  BY DEF Read, Running
<1>2. /\ placed \in Seq(0..Segments) /\ Len(placed) <= Len(job.rows) /\ JobOf(job.test)
      /\ \A k \in DOMAIN placed : placed[k] \in IF job.spread THEN 1..Segments ELSE {0}
      /\ waiting = Places(job.spread) /\ DOMAIN state = 0..Segments
  BY <1>1 DEF ScanInv
<1>3. job.rows \in Seq(Row(job.test))
  BY <1>2, JobsAre DEF JobOf
<1>4. Len(job.rows) \in Nat /\ DOMAIN job.rows = 1..Len(job.rows) /\ n < Len(job.rows)
  BY <1>1, <1>2, <1>3 DEF AllRead
<1>5. /\ placed' \in Seq(0..Segments) /\ Len(placed') = n + 1 /\ DOMAIN placed' = 1..n + 1
      /\ n \in Nat /\ DOMAIN placed = 1..n
      /\ placed'[n + 1] = s /\ \A k \in 1..n : placed'[k] = placed[k]
  BY <1>1, <1>2
<1> HIDE DEF n
<1>6. ScanInv'
  <2>1. DOMAIN state' = 0..Segments
    BY <1>1, <1>2 DEF Becomes
  <2>2. \A k \in DOMAIN placed' : placed'[k] \in IF job.spread THEN 1..Segments ELSE {0}
    <3>1. SUFFICES ASSUME NEW k \in 1..n + 1
                   PROVE  placed'[k] \in IF job.spread THEN 1..Segments ELSE {0}
      BY <1>5
    <3>2. CASE k = n + 1
      BY <1>1, <1>5, <3>2
    <3>3. CASE k \in 1..n
      BY <1>2, <1>5, <3>3
    <3> QED
      BY <1>5, <3>2, <3>3
  <2>3. JobOf(job.test)' /\ Places(job.spread)' = Places(job.spread)
    BY <1>1, <1>2 DEF JobOf, Places
  <2>4. Len(placed') <= Len(job'.rows) /\ placed' \in Seq(0..Segments)
    BY <1>1, <1>4, <1>5
  <2>5. waiting' \subseteq Places(job.spread)' /\ waiting' = Places(job.spread)'
    BY <1>1, <1>2, <2>3
  <2> HIDE DEF n
  <2>6. \A k \in DOMAIN placed' : placed'[k] \in IF job'.spread THEN 1..Segments ELSE {0}
    BY <1>1, <2>2
  <2> QED
    BY <2>1, <2>6, <2>3, <2>4, <2>5 DEF ScanInv
<1>7. ASSUME NEW t \in {0} \cup waiting
      PROVE  /\ t # s => KeptBy(t)' = KeptBy(t)
             /\ t = s => KeptBy(t)' = KeptBy(t) \cup {n + 1} /\ n + 1 \notin KeptBy(t)
  <2>1. KeptBy(t) = {k \in 1..n : IF t = 0 THEN placed[k] \notin waiting ELSE placed[k] = t}
    BY <1>5 DEF KeptBy
  <2>2. KeptBy(t)' = {k \in 1..n + 1 : IF t = 0 THEN placed'[k] \notin waiting ELSE placed'[k] = t}
    BY <1>1, <1>5 DEF KeptBy
  <2>3. (IF t = 0 THEN s \notin waiting ELSE s = t) <=> t = s
    <3>1. CASE job.spread
      <4>1. s \in waiting /\ s # 0
        BY <1>1, <1>2, <3>1, ConstantsAre DEF Places
      <4> QED
        BY <4>1
    <3>2. CASE ~job.spread
      BY <1>1, <1>2, <3>2 DEF Places
    <3> QED
      BY <3>1, <3>2
  <2>4. KeptBy(t)' = KeptBy(t) \cup (IF t = s THEN {n + 1} ELSE {})
    <3>1. \A k \in 1..n + 1 : k \in 1..n \/ k = n + 1
      BY <1>5
    <3>2. n + 1 \notin 1..n /\ 1..n \subseteq 1..n + 1 /\ n + 1 \in 1..n + 1
      BY <1>5
    <3> QED
      BY <1>5, <2>1, <2>2, <2>3, <3>1, <3>2
  <2>5. n + 1 \notin KeptBy(t)
    BY <1>5, <2>1
  <2> QED
    BY <2>4, <2>5
<1>8. s \in {0} \cup waiting
  BY <1>1, <1>2 DEF Places
<1> QED
  BY <1>1, <1>4, <1>5, <1>6, <1>7, <1>8 DEF n

(* A merge adds the rows of a segment to those of the merged state.        *)
LEMMA MergePlaces ==
  ASSUME ScanInv, NEW s \in 0..Segments, MergeStates(s)
  PROVE  /\ ScanInv'
         /\ job' = job /\ s \in waiting /\ waiting' = waiting \ {s} /\ s # 0
         /\ Becomes(0, Merge(job.test, state[0], state[s]))
         /\ KeptBy(0)' = KeptBy(0) \cup KeptBy(s) /\ KeptBy(0) \cap KeptBy(s) = {}
         /\ \A t \in waiting : KeptBy(t)' = KeptBy(t)
<1>1. /\ job.test \in Tests /\ AllRead /\ s \in waiting /\ waiting' = waiting \ {s}
      /\ placed' = placed /\ job' = job
      /\ Becomes(0, Merge(job.test, state[0], state[s]))
  BY DEF MergeStates, Running
<1>2. 0 \notin waiting
  BY DEF ScanInv, Places
<1>3. ScanInv'
  <2>1. DOMAIN state' = 0..Segments
    BY <1>1 DEF Becomes, ScanInv
  <2>2. JobOf(job.test)' /\ Places(job.spread)' = Places(job.spread) /\ AllRead' = AllRead
    BY <1>1 DEF JobOf, Places, ScanInv, AllRead
  <2> QED
    BY <1>1, <2>1, <2>2 DEF ScanInv
<1>4. \A t \in waiting : KeptBy(t)' = KeptBy(t)
  BY <1>1, <1>2 DEF KeptBy
<1>5. KeptBy(0)' = KeptBy(0) \cup KeptBy(s) /\ KeptBy(0) \cap KeptBy(s) = {}
  BY <1>1, <1>2 DEF KeptBy
<1> QED
  BY <1>1, <1>2, <1>3, <1>4, <1>5

(* When all rows are read and all segments merged, the merged state has    *)
(* every row; a state has none at first.                                   *)
LEMMA KeptInTheEnd ==
  ASSUME ScanInv, job.test \in Tests, AllRead, waiting = {}
  PROVE  KeptBy(0) = DOMAIN job.rows
<1>1. job.rows \in Seq(Row(job.test)) /\ placed \in Seq(0..Segments)
  BY JobsAre DEF JobOf, ScanInv
<1> QED
  BY <1>1 DEF KeptBy, AllRead

(* The rows that a state has are rows of the job.                          *)
LEMMA KeptAreRows ==
  ASSUME ScanInv, job.test \in Tests, NEW t
  PROVE  KeptBy(t) \subseteq DOMAIN job.rows
<1>1. job.rows \in Seq(Row(job.test)) /\ placed \in Seq(0..Segments)
      /\ Len(placed) <= Len(job.rows)
  BY JobsAre DEF JobOf, ScanInv
<1>2. DOMAIN placed = 1..Len(placed) /\ DOMAIN job.rows = 1..Len(job.rows)
      /\ Len(placed) \in Nat /\ Len(job.rows) \in Nat
  BY <1>1
<1>3. DOMAIN placed \subseteq DOMAIN job.rows
  BY <1>1, <1>2
<1> QED
  BY <1>3 DEF KeptBy

(* No state has a row before one is read.                                  *)
LEMMA KeptAtFirst ==
  ASSUME placed = << >>, NEW t
  PROVE  KeptBy(t) = {}
BY DEF KeptBy

-----------------------------------------------------------------------------
(* Every step of a query keeps the places.                                 *)
LEMMA ScanStays ==
  ASSUME ScanInv, job' = job, placed' = placed, waiting' = waiting, DOMAIN state' = DOMAIN state
  PROVE  ScanInv'
<1>1. JobOf(job.test)' <=> JobOf(job.test)
  BY DEF JobOf
<1>2. AllRead' <=> AllRead
  BY DEF AllRead
<1>3. Places(job.spread)' = Places(job.spread)
  BY DEF Places
<1> QED
  BY <1>1, <1>2, <1>3 DEF ScanInv

(* No step misplaces a row or changes the job.                             *)
LEMMA ScanNext ==
  ASSUME ScanInv, Next
  PROVE  ScanInv' /\ job' = job
<1>1. CASE Reject \/ Call \/ Finish
  <2>1. UNCHANGED <<job, placed, state, waiting>>
    BY <1>1 DEF Reject, Call, Finish, Returns
  <2> QED
    BY <2>1, ScanStays
<1>2. CASE Iterate
  <2>1. PICK s : EndIteration(s)
    BY <1>2 DEF Iterate
  <2>2. CASE UNCHANGED <<job, placed, state, waiting>>
    BY <2>2, ScanStays
  <2>3. CASE /\ placed' = << >> /\ state' = Fresh(job.test) /\ waiting' = Places(job.spread)
             /\ job' = job
    <3>1. job.test \in Tests /\ JobOf(job.test)
      BY <1>2 DEF Iterate, Running, ScanInv
    <3>2. JobOf(job.test)' /\ Places(job.spread)' = Places(job.spread)
      BY <2>3, <3>1 DEF JobOf, Places
    <3>3. placed' \in Seq(0..Segments) /\ Len(placed') = 0 /\ DOMAIN placed' = {}
      BY <2>3
    <3>4. Len(job.rows) \in Nat
      BY <3>1, JobsAre DEF JobOf
    <3>5. DOMAIN state' = 0..Segments
      BY <2>3 DEF Fresh
    <3> QED
      BY <2>3, <3>1, <3>2, <3>3, <3>4, <3>5 DEF ScanInv
  <2> QED
    BY <2>1, <2>2, <2>3 DEF EndIteration, Returns
<1>3. ASSUME NEW s \in 0..Segments, Read(s) \/ MergeStates(s)
      PROVE  ScanInv' /\ job' = job
  BY <1>3, ReadPlaces, MergePlaces
<1> QED
  BY <1>1, <1>2, <1>3 DEF Next

(* A session that calls no query scans nothing.                            *)
LEMMA NoQueryScans == NoQuery => ScanInv /\ job.test \notin Tests
<1> SUFFICES ASSUME NoQuery PROVE ScanInv /\ job.test \notin Tests
  OBVIOUS
<1>1. job.test = "none" /\ job.rows = << >> /\ job.spread = FALSE
      /\ placed = << >> /\ waiting = {}
  BY DEF NoQuery
<1>2. "none" \notin Tests
  BY DEF Tests, TTests, Ordered, Optimizers
<1>3. << >> \in Seq(0..Segments) /\ Len(<< >>) = 0 /\ DOMAIN << >> = {}
  OBVIOUS
<1> QED
  BY <1>1, <1>2, <1>3 DEF ScanInv, Places

(* A session does what a query does, and no more to its variables.         *)
LEMMA SessionStarts == SessionInit => Init \/ NoQuery
BY DEF SessionInit

(* A step of the session is one of its query, or leaves it alone.          *)
LEMMA SessionSteps == [SessionNext]_SessionVars => [Next]_vars
<1> SUFFICES ASSUME [SessionNext]_SessionVars PROVE [Next]_vars
  OBVIOUS
<1>1. CASE RunsQuery
  BY <1>1 DEF RunsQuery
<1>2. CASE RunsAssocRules
  BY <1>2 DEF RunsAssocRules
<1>3. CASE RunsPLDA
  BY <1>3 DEF RunsPLDA
<1>4. CASE UNCHANGED SessionVars
  BY <1>4 DEF SessionVars
<1> QED
  BY <1>1, <1>2, <1>3, <1>4 DEF SessionNext

(* In a session, rows are placed in order, each on one segment, and        *)
(* segments are merged when all rows are placed; a step is one of the      *)
(* query or leaves it alone.                                               *)
THEOREM SessionScans == SessionSpec => []ScanInv /\ [][Next]_vars
<1>1. SessionInit => ScanInv
  BY SessionStarts, ScanInit, NoQueryScans
<1>2. ScanInv /\ [SessionNext]_SessionVars => ScanInv'
  <2>1. ASSUME ScanInv, UNCHANGED vars PROVE ScanInv'
    <3>1. job' = job /\ placed' = placed /\ waiting' = waiting /\ state' = state
      BY <2>1 DEF vars
    <3> QED
      BY <2>1, <3>1, ScanStays
  <2> QED
    BY <2>1, SessionSteps, ScanNext
<1>3. SessionSpec => []ScanInv
  BY <1>1, <1>2, PTL DEF SessionSpec
<1> QED
  BY <1>3, SessionSteps, PTL DEF SessionSpec

(* A query that is no iteration reads, merges and finishes, once.          *)
LEMMA StepsOfAScan ==
  ASSUME job.test \in Tests \ Optimizers, Next
  PROVE  /\ result = Pending
         /\ Finish \/ \E s \in 0..Segments : Read(s) \/ MergeStates(s)
BY DEF Next, Reject, Call, Iterate, Finish, Read, MergeStates, Running

(* A query returns what the final function makes of the merged state.      *)
LEMMA FinishReturns ==
  ASSUME Finish
  PROVE  /\ AllRead /\ waiting = {} /\ result' = Final(job.test, state[0])
         /\ UNCHANGED <<job, placed, state, waiting>>
BY DEF Finish, Returns

(* What is called starts from its initial states.                          *)
LEMMA ScanStarts ==
  ASSUME Init, job.test \in Tests
  PROVE  /\ result = Pending /\ placed = << >> /\ waiting \subseteq 1..Segments
         /\ \A s \in {0} \cup waiting : state[s] = Initial(job.test) /\ KeptBy(s) = {}
<1>1. result = Pending /\ placed = << >>
  BY DEF Init
<1>2. \A s : KeptBy(s) = {}
  BY <1>1, KeptAtFirst
<1>3. CASE \E t \in DOMAIN Jobs : \E R \in Jobs[t] :
          \E spread \in IF t \in Ordered THEN {FALSE} ELSE BOOLEAN :
            \E limit \in IF t \in Optimizers THEN Limits ELSE {1},
               converges \in IF t \in Optimizers THEN BOOLEAN ELSE {FALSE} :
              /\ job = [test |-> t, rows |-> R, spread |-> spread,
                        limit |-> limit, converges |-> converges]
              /\ state = Fresh(t) /\ waiting = Places(spread)
  <2>1. PICK t \in DOMAIN Jobs : \E R \in Jobs[t] :
          \E spread \in IF t \in Ordered THEN {FALSE} ELSE BOOLEAN :
            \E limit \in IF t \in Optimizers THEN Limits ELSE {1},
               converges \in IF t \in Optimizers THEN BOOLEAN ELSE {FALSE} :
              /\ job = [test |-> t, rows |-> R, spread |-> spread,
                        limit |-> limit, converges |-> converges]
              /\ state = Fresh(t) /\ waiting = Places(spread)
    BY <1>3
  <2>2. PICK R \in Jobs[t], spread \in IF t \in Ordered THEN {FALSE} ELSE BOOLEAN,
             limit \in IF t \in Optimizers THEN Limits ELSE {1},
             converges \in IF t \in Optimizers THEN BOOLEAN ELSE {FALSE} :
              /\ job = [test |-> t, rows |-> R, spread |-> spread,
                        limit |-> limit, converges |-> converges]
              /\ state = Fresh(t) /\ waiting = Places(spread)
    BY <2>1
  <2>3. job.test = t /\ state = Fresh(t)
    BY <2>2
  <2>4. waiting \subseteq 1..Segments
    BY <2>2 DEF Places
  <2>5. {0} \cup waiting \subseteq 0..Segments
    BY <2>4, ConstantsAre
  <2> QED
    BY <1>1, <1>2, <2>3, <2>4, <2>5 DEF Fresh
<1>4. CASE \E f \in DOMAIN Calls : \E args \in Calls[f] :
          /\ job = [test |-> f, rows |-> args, spread |-> FALSE]
          /\ state = << >> /\ waiting = {}
  <2>1. PICK f \in DOMAIN Calls : \E args \in Calls[f] :
          job = [test |-> f, rows |-> args, spread |-> FALSE]
    BY <1>4
  <2>2. job.test = f
    BY <2>1
  <2> QED
    BY <2>2, FunctionsAreNoTests
<1> QED
  BY <1>3, <1>4 DEF Init

(* The rows that a step of a scan adds to a state, which it changes, or    *)
(* ends the query.                                                         *)
LEMMA Changes ==
  ASSUME ScanInv, job.test \in Tests, NEW s \in 0..Segments, NEW value, Becomes(s, value)
  PROVE  \/ value = Exception /\ result' = Exception
         \/ /\ value # Exception /\ result' = result /\ state'[s] = value
            /\ \A t \in 0..Segments : t # s => state'[t] = state[t]
BY DEF Becomes, ScanInv

(* A scan whose states are a function V of their rows, and whose query     *)
(* ends with an exception where a state would have the rows of one of B.   *)
Adds(V, B, I, n, value) == value = IF I \cup {n} \in B THEN Exception ELSE V[I \cup {n}]
Joins(V, B, I, J, value) == value = IF I \cup J \in B THEN Exception ELSE V[I \cup J]
Known(V, B, s) == KeptBy(s) \notin B /\ state[s] = V[KeptBy(s)]

\* That V and B are those of the aggregate.
Unmarked(V, D) == \A I \in SUBSET D : V[I] # Exception
Lasting(B, D) == \A I, J \in SUBSET D : I \in B /\ I \subseteq J => J \in B
AddsRows(V, B, D) ==
  \A I \in SUBSET D, n \in D :
    I \notin B /\ n \notin I /\ (job.spread \/ I = 1..n - 1) =>
      Adds(V, B, I, n, Transition(job.test, V[I], job.rows[n], n))
JoinsRows(V, B, D) ==
  job.spread => \A I, J \in SUBSET D : I \notin B /\ J \notin B /\ I \cap J = {} =>
                  Joins(V, B, I, J, Merge(job.test, V[I], V[J]))
AllKnown(V, B) == \A s \in {0} \cup waiting : Known(V, B, s)

(* A step of a scan keeps every state that of its rows, or ends the query  *)
(* as these say.                                                           *)
LEMMA ScanStep ==
  ASSUME ScanInv, job.test \in Tests \ Optimizers, Next, NEW D, D = DOMAIN job.rows,
         NEW V, Unmarked(V, D), NEW B, Lasting(B, D), AllKnown(V, B),
         AddsRows(V, B, D), JoinsRows(V, B, D)
  PROVE  \/ result' = Exception /\ D \in B
         \/ result' = Pending /\ AllKnown(V, B)'
         \/ result' = Final(job.test, V[D]) /\ D \notin B
<1>1. result = Pending
  BY StepsOfAScan
<1>2. job.rows \in Seq(Row(job.test)) /\ DOMAIN state = 0..Segments
  BY JobsAre DEF ScanInv, JobOf
<1>3. \A s : KeptBy(s) \subseteq D
  BY KeptAreRows
<1>4. {0} \cup waiting \subseteq 0..Segments
  BY ConstantsAre DEF ScanInv, Places
<1> USE DEF AllKnown
<1>5. CASE Finish
  <2>1. AllRead /\ waiting = {} /\ result' = Final(job.test, state[0])
    BY <1>5, FinishReturns
  <2>2. KeptBy(0) = D
    BY <2>1, KeptInTheEnd
  <2> QED
    BY <2>1, <2>2 DEF Known
<1>6. ASSUME NEW s \in {0} \cup waiting, NEW value, Becomes(s, value), NEW J \in SUBSET D,
             value = IF J \in B THEN Exception ELSE V[J],
             KeptBy(s)' = J, waiting' \subseteq waiting,
             \A t \in {0} \cup waiting' : t # s => KeptBy(t)' = KeptBy(t)
      PROVE  \/ result' = Exception /\ D \in B
             \/ result' = Pending /\ AllKnown(V, B)'
  <2>1. CASE J \in B
    <3>1. result' = Exception
      BY <1>4, <1>6, <2>1, Changes
    <3>2. D \in SUBSET D /\ J \subseteq D
      OBVIOUS
    <3> QED
      BY <2>1, <3>1, <3>2 DEF Lasting
  <2>2. CASE J \notin B
    <3>1. value = V[J] /\ value # Exception
      BY <1>6, <2>2 DEF Unmarked
    <3>2. /\ result' = result /\ state'[s] = value
          /\ \A t \in 0..Segments : t # s => state'[t] = state[t]
      BY <1>4, <1>6, <3>1, Changes
    <3>3. ASSUME NEW t \in {0} \cup waiting'
          PROVE  KeptBy(t)' \notin B /\ state'[t] = V[KeptBy(t)']
      <4>1. t \in {0} \cup waiting
        BY <1>6
      <4>2. CASE t = s
        BY <1>6, <2>2, <3>1, <3>2, <4>2
      <4>3. CASE t # s
        BY <1>4, <1>6, <3>2, <4>1, <4>3 DEF Known
      <4> QED
        BY <4>2, <4>3
    <3>4. AllKnown(V, B)'
      BY <3>3 DEF Known, AllKnown
    <3> QED
      BY <1>1, <3>2, <3>4
  <2> QED
    BY <2>1, <2>2
<1>7. ASSUME NEW s \in 0..Segments, Read(s)
      PROVE  \/ result' = Exception /\ D \in B
             \/ result' = Pending /\ AllKnown(V, B)'
  <2> DEFINE n == Len(placed')
             I == KeptBy(s)
             value == Transition(job.test, state[s], job.rows[n], n)
  <2>1. /\ waiting' = waiting /\ n \in D /\ KeptBy(s)' = I \cup {n} /\ n \notin I
        /\ Becomes(s, value) /\ n = Len(placed) + 1
        /\ \A t \in {0} \cup waiting : t # s => KeptBy(t)' = KeptBy(t)
    BY <1>7, ReadPlaces
  <2>2. /\ s \in {0} \cup waiting
        /\ ~job.spread => s = 0 /\ waiting = {}
    BY <1>7 DEF Read, ScanInv, Places, AllRead
  <2>3. job.spread \/ I = 1..n - 1
    <3>1. placed \in Seq(0..Segments)
      BY DEF ScanInv
    <3>2. DOMAIN placed = 1..Len(placed) /\ n - 1 = Len(placed)
      BY <2>1, <3>1
    <3> QED
      BY <2>2, <3>2 DEF KeptBy
  <2>4. I \notin B /\ state[s] = V[I] /\ I \in SUBSET D
    BY <1>3, <2>2 DEF Known
  <2> HIDE DEF I, n, value
  <2>5. Adds(V, B, I, n, value)
    BY <2>1, <2>3, <2>4 DEF AddsRows, value
  <2>6. I \cup {n} \in SUBSET D
    BY <2>1, <2>4
  <2> HIDE DEF value
  <2> QED
    BY <1>6, <2>1, <2>2, <2>5, <2>6 DEF Adds, I
<1>8. ASSUME NEW s \in 0..Segments, MergeStates(s)
      PROVE  \/ result' = Exception /\ D \in B
             \/ result' = Pending /\ AllKnown(V, B)'
  <2> DEFINE I == KeptBy(0)
             J == KeptBy(s)
             value == Merge(job.test, state[0], state[s])
  <2>1. /\ s \in waiting /\ waiting' = waiting \ {s} /\ KeptBy(0)' = I \cup J /\ I \cap J = {}
        /\ Becomes(0, value) /\ \A t \in waiting : KeptBy(t)' = KeptBy(t)
    BY <1>8, MergePlaces
  <2>2. job.spread
    BY <2>1 DEF ScanInv, Places
  <2>3. /\ I \notin B /\ state[0] = V[I] /\ I \in SUBSET D
        /\ J \notin B /\ state[s] = V[J] /\ J \in SUBSET D
    BY <1>3, <2>1 DEF Known
  <2> HIDE DEF I, J, value
  <2>4. Joins(V, B, I, J, value)
    BY <2>1, <2>2, <2>3 DEF JoinsRows, value
  <2>5. I \cup J \in SUBSET D
    BY <2>3
  <2> HIDE DEF value
  <2> QED
    BY <1>6, <2>1, <2>4, <2>5 DEF Joins
<1> QED
  BY <1>5, <1>7, <1>8, StepsOfAScan

\* The query has every row once so far, or has ended with what they give.
ScanKept(V, B) ==
  IF result = Pending THEN AllKnown(V, B)
  ELSE result = IF DOMAIN job.rows \in B THEN Exception ELSE Final(job.test, V[DOMAIN job.rows])

(* A scan starts with the states of no rows.                               *)
LEMMA KeptFromTheStart ==
  ASSUME Init, job.test \in Tests, NEW V, V[{}] = Initial(job.test), NEW B, {} \notin B
  PROVE  ScanKept(V, B)
BY ScanStarts DEF ScanKept, AllKnown, Known

(* What leaves the query alone leaves its states those of their rows.      *)
LEMMA KeptStays ==
  ASSUME UNCHANGED vars, NEW V, NEW B, ScanKept(V, B)
  PROVE  ScanKept(V, B)'
<1>1. /\ job' = job /\ placed' = placed /\ state' = state /\ waiting' = waiting /\ result' = result
  BY DEF vars
<1>2. \A s : KeptBy(s)' = KeptBy(s)
  BY <1>1 DEF KeptBy
<1>3. AllKnown(V, B)' <=> AllKnown(V, B)
  BY <1>1, <1>2 DEF Known, AllKnown
<1> QED
  BY <1>1, <1>3 DEF ScanKept, Final

(* Where a row and a merge turn states of rows into that of the rows       *)
(* together, every step of the query does.                                 *)
LEMMA KeptByASpread ==
  ASSUME ScanInv, job.test \in Tests \ Optimizers, Next, NEW D, D = DOMAIN job.rows,
         NEW V, Unmarked(V, D), Final(job.test, V[D]) # Pending, NEW B, Lasting(B, D),
         ScanKept(V, B), AddsRows(V, B, D), JoinsRows(V, B, D)
  PROVE  ScanKept(V, B)'
<1>1. result = Pending /\ job' = job
  BY StepsOfAScan, ScanNext
<1>2. AllKnown(V, B)
  BY <1>1 DEF ScanKept
<1>3. \/ result' = Exception /\ D \in B
      \/ result' = Pending /\ AllKnown(V, B)'
      \/ result' = Final(job.test, V[D]) /\ D \notin B
  BY <1>2, ScanStep
<1>4. Final(job.test, V[D])' = Final(job.test, V[D])
  BY <1>1 DEF Final
<1> QED
  BY <1>1, <1>3, <1>4, ConstantsAre DEF ScanKept

-----------------------------------------------------------------------------
(* Linear regression.                                                      *)

\* An SQL NULL, an exception and a result that is not there yet are no states and no
\* arrays: they have none of the fields that these have.
MarksAreNoRecords ==
  \A mark \in {Null, Exception, Pending} :
    {"num", "numRows", "x", "elements", "groupValues"} \cap DOMAIN mark = {}

\* A state, by its fields.
LinState(a, b, c, d, f, g) ==
  [numRows |-> a, widthOfX |-> b, y_sum |-> c, y_square_sum |-> d,
   X_transp_Y |-> f, X_transp_X |-> g]

BadRow(r) == r.y = NotFinite \/ Len(r.x) > MaxWidth \/ \E i \in DOMAIN r.x : r.x[i] = NotFinite
LinBad(R, I) == (\E i \in I : BadRow(R[i])) \/ \E i, j \in I : Len(R[i].x) # Len(R[j].x)

YS(R) == [k \in DOMAIN R |-> R[k].y]
YY(R) == [k \in DOMAIN R |-> Square(R[k].y)]
XY(R, i) == [k \in DOMAIN R |-> R[k].x[i] * R[k].y]
XX(R, i, j) == [k \in DOMAIN R |-> R[k].x[i] * R[k].x[j]]
XYs(R, I, w) == [i \in 1..w |-> SumOn(XY(R, i), I)]
XXs(R, I, w) == [i \in 1..w |-> [j \in 1..i |-> SumOn(XX(R, i, j), I)]]
LinSums(R, I, w) ==
  LinState(Cardinality(I), w, SumOn(YS(R), I), SumOn(YY(R), I), XYs(R, I, w), XXs(R, I, w))

\* The state st has exactly the rows I.
LinKept(R, st, I) ==
  IF I = {} THEN st = LinRegrState
  ELSE ~LinBad(R, I) /\ \A k \in I : st = LinSums(R, I, Len(R[k].x))

\* What a row and another state add.
XYGrown(f, x, y) == [i \in DOMAIN f |-> f[i] + x[i] * y]
XXGrown(g, x) == [i \in DOMAIN g |-> [j \in 1..i |-> g[i][j] + x[i] * x[j]]]
XYJoined(f, e) == [i \in DOMAIN f |-> f[i] + e[i]]
XXJoined(g, h) == [i \in DOMAIN g |-> [j \in 1..i |-> g[i][j] + h[i][j]]]
Grown(s, x, y) ==
  [s EXCEPT !.numRows = @ + 1, !.y_sum = @ + y, !.y_square_sum = @ + y * y,
            !.X_transp_Y = [i \in DOMAIN @ |-> @[i] + x[i] * y],
            !.X_transp_X = [i \in DOMAIN @ |-> [j \in 1..i |-> @[i][j] + x[i] * x[j]]]]
RowsJoined(s, r) ==
  [s EXCEPT !.numRows = @ + r.numRows, !.y_sum = @ + r.y_sum,
            !.y_square_sum = @ + r.y_square_sum,
            !.X_transp_Y = [i \in DOMAIN @ |-> @[i] + r.X_transp_Y[i]],
            !.X_transp_X = [i \in DOMAIN @ |-> [j \in 1..i |-> @[i][j] + r.X_transp_X[i][j]]]]

(* The fields of a state.                                                  *)
LEMMA LinFields ==
  ASSUME NEW a, NEW b, NEW c, NEW d, NEW f, NEW g, NEW s, s = LinState(a, b, c, d, f, g)
  PROVE  /\ s.numRows = a /\ s.widthOfX = b /\ s.y_sum = c /\ s.y_square_sum = d
         /\ s.X_transp_Y = f /\ s.X_transp_X = g
BY DEF LinState

(* A state of a width has sums of that size, which are zero.               *)
LEMMA LinSized ==
  ASSUME NEW w
  PROVE  initialize(w) = LinState(0, w, 0, 0, [i \in 1..w |-> 0], [i \in 1..w |-> [j \in 1..i |-> 0]])
<1> DEFINE f1 == [i \in 1..w |-> 0]
           g1 == [i \in 1..w |-> [j \in 1..i |-> 0]]
           s1 == [LinRegrState EXCEPT !.widthOfX = w]
           s2 == [s1 EXCEPT !.X_transp_Y = f1]
           s3 == [s2 EXCEPT !.X_transp_X = g1]
<1>4. s3 = initialize(w)
  BY Zenon DEF initialize
<1> HIDE DEF f1, g1
<1>1. s1 = LinState(0, w, 0, 0, << >>, << >>)
  BY DEF LinState, LinRegrState
<1> HIDE DEF s1
<1>2. s2 = LinState(0, w, 0, 0, f1, << >>)
  BY <1>1 DEF LinState
<1> HIDE DEF s2
<1>3. s3 = LinState(0, w, 0, 0, f1, g1)
  BY <1>2 DEF LinState
<1> HIDE DEF s3
<1> QED
  BY <1>3, <1>4 DEF f1, g1

(* What a row adds to the fields of a state.                               *)
LEMMA LinGrown ==
  ASSUME NEW a, NEW b, NEW c, NEW d, NEW f, NEW g, NEW s, s = LinState(a, b, c, d, f, g),
         NEW x, NEW y
  PROVE  Grown(s, x, y)
         = LinState(a + 1, b, c + y, d + y * y, XYGrown(f, x, y), XXGrown(g, x))
<1> DEFINE s1 == [s EXCEPT !.numRows = @ + 1]
           s2 == [s1 EXCEPT !.y_sum = @ + y]
           s3 == [s2 EXCEPT !.y_square_sum = @ + y * y]
           s4 == [s3 EXCEPT !.X_transp_Y = [i \in DOMAIN @ |-> @[i] + x[i] * y]]
           s5 == [s4 EXCEPT !.X_transp_X = [i \in DOMAIN @ |-> [j \in 1..i |-> @[i][j] + x[i] * x[j]]]]
           f1 == [i \in DOMAIN f |-> f[i] + x[i] * y]
           g1 == [i \in DOMAIN g |-> [j \in 1..i |-> g[i][j] + x[i] * x[j]]]
<1>6. s5 = Grown(s, x, y)
  BY DEF Grown
<1>1. s1 = LinState(a + 1, b, c, d, f, g)
  BY DEF LinState
<1> HIDE DEF s1
<1>2. s2 = LinState(a + 1, b, c + y, d, f, g)
  BY <1>1 DEF LinState
<1> HIDE DEF s2
<1>3. s3 = LinState(a + 1, b, c + y, d + y * y, f, g)
  BY <1>2 DEF LinState
<1> HIDE DEF s3
<1>4. s4 = LinState(a + 1, b, c + y, d + y * y, f1, g)
  <2>1. s3.X_transp_Y = f
    BY <1>3 DEF LinState
  <2>2. s4 = [s3 EXCEPT !.X_transp_Y = f1]
    BY <2>1
  <2> HIDE DEF s4, f1
  <2> QED
    BY <1>3, <2>2 DEF LinState
<1> HIDE DEF s4, f1
<1>5. s5 = LinState(a + 1, b, c + y, d + y * y, f1, g1)
  <2>1. s4.X_transp_X = g
    BY <1>4 DEF LinState
  <2>2. s5 = [s4 EXCEPT !.X_transp_X = g1]
    BY <2>1
  <2> HIDE DEF s5, g1
  <2> QED
    BY <1>4, <2>2 DEF LinState
<1> HIDE DEF s5
<1> QED
  BY <1>5, <1>6 DEF f1, g1, XYGrown, XXGrown

(* What another state adds to the fields of a state.                       *)
LEMMA LinJoined ==
  ASSUME NEW a, NEW b, NEW c, NEW d, NEW f, NEW g, NEW s, s = LinState(a, b, c, d, f, g),
         NEW a1, NEW b1, NEW c1, NEW d1, NEW f1, NEW g1, NEW r, r = LinState(a1, b1, c1, d1, f1, g1)
  PROVE  RowsJoined(s, r) = LinState(a + a1, b, c + c1, d + d1, XYJoined(f, f1), XXJoined(g, g1))
<1> DEFINE s1 == [s EXCEPT !.numRows = @ + r.numRows]
           s2 == [s1 EXCEPT !.y_sum = @ + r.y_sum]
           s3 == [s2 EXCEPT !.y_square_sum = @ + r.y_square_sum]
           s4 == [s3 EXCEPT !.X_transp_Y = [i \in DOMAIN @ |-> @[i] + r.X_transp_Y[i]]]
           s5 == [s4 EXCEPT !.X_transp_X =
                    [i \in DOMAIN @ |-> [j \in 1..i |-> @[i][j] + r.X_transp_X[i][j]]]]
           fs == [i \in DOMAIN f |-> f[i] + f1[i]]
           gs == [i \in DOMAIN g |-> [j \in 1..i |-> g[i][j] + g1[i][j]]]
<1>1. s5 = RowsJoined(s, r)
  BY DEF RowsJoined
<1>2. /\ r.numRows = a1 /\ r.y_sum = c1 /\ r.y_square_sum = d1
      /\ r.X_transp_Y = f1 /\ r.X_transp_X = g1
  BY DEF LinState
<1>3. s1 = LinState(a + a1, b, c, d, f, g)
  BY <1>2 DEF LinState
<1> HIDE DEF s1
<1>4. s2 = LinState(a + a1, b, c + c1, d, f, g)
  BY <1>2, <1>3 DEF LinState
<1> HIDE DEF s2
<1>5. s3 = LinState(a + a1, b, c + c1, d + d1, f, g)
  BY <1>2, <1>4 DEF LinState
<1> HIDE DEF s3
<1>6. s4 = LinState(a + a1, b, c + c1, d + d1, fs, g)
  <2>1. s3.X_transp_Y = f
    BY <1>5 DEF LinState
  <2>2. s4 = [s3 EXCEPT !.X_transp_Y = fs]
    BY <1>2, <2>1
  <2> HIDE DEF s4, fs
  <2> QED
    BY <1>5, <2>2 DEF LinState
<1> HIDE DEF s4, fs
<1>7. s5 = LinState(a + a1, b, c + c1, d + d1, fs, gs)
  <2>1. s4.X_transp_X = g
    BY <1>6 DEF LinState
  <2>2. s5 = [s4 EXCEPT !.X_transp_X = gs]
    BY <1>2, <2>1
  <2> HIDE DEF s5, gs
  <2> QED
    BY <1>6, <2>2 DEF LinState
<1> HIDE DEF s5
<1> QED
  BY <1>1, <1>7 DEF fs, gs, XYJoined, XXJoined

(* Some of the rows are finitely many, and each is one.                    *)
LEMMA RowsAre ==
  ASSUME NEW T, NEW R \in Seq(T), NEW I \in SUBSET DOMAIN R
  PROVE  DOMAIN R = 1..Len(R) /\ Len(R) \in Nat /\ IsFiniteSet(I) /\ \A k \in I : R[k] \in T
<1>1. DOMAIN R = 1..Len(R) /\ Len(R) \in Nat /\ \A k \in DOMAIN R : R[k] \in T
  OBVIOUS
<1>2. IsFiniteSet(1..Len(R))
  BY <1>1, FS_Interval
<1> QED
  BY <1>1, <1>2, FS_Subset

(* What is summed up are numbers.                                          *)
LEMMA LinNumbers ==
  ASSUME NEW R \in Seq(Row("linregr")), NEW I \in SUBSET DOMAIN R, ~LinBad(R, I),
         NEW w \in Nat, \A k \in I : Len(R[k].x) = w
  PROVE  /\ IsFiniteSet(I) /\ Numbers(YS(R), I) /\ Numbers(YY(R), I)
         /\ \A i \in 1..w : Numbers(XY(R, i), I)
         /\ \A i, j \in 1..w : Numbers(XX(R, i, j), I)
<1>1. Row("linregr") = [y: {NotFinite} \cup Int, x: Seq({NotFinite} \cup Int)]
  BY DEF Row, TTests, Optimizers
<1>2. DOMAIN R = 1..Len(R) /\ Len(R) \in Nat /\ IsFiniteSet(I)
      /\ \A k \in I : R[k] \in Row("linregr")
  BY RowsAre
<1>3. \A k \in I : R[k].y \in Int /\ \A i \in 1..w : R[k].x[i] \in Int
  <2> SUFFICES ASSUME NEW k \in I PROVE R[k].y \in Int /\ \A i \in 1..w : R[k].x[i] \in Int
    OBVIOUS
  <2>1. R[k] \in [y: {NotFinite} \cup Int, x: Seq({NotFinite} \cup Int)]
    BY <1>1, <1>2
  <2>2. ~BadRow(R[k]) /\ Len(R[k].x) = w
    BY DEF LinBad
  <2>3. DOMAIN R[k].x = 1..w /\ \A i \in 1..w : R[k].x[i] \in {NotFinite} \cup Int
    BY <2>1, <2>2
  <2> QED
    BY <2>1, <2>2, <2>3 DEF BadRow
<1> QED
  BY <1>2, <1>3 DEF Numbers, YS, YY, XY, XX, Square

(* The sums of no rows are zero.                                           *)
LEMMA LinNone ==
  ASSUME NEW R, NEW w
  PROVE  initialize(w) = LinSums(R, {}, w)
<1>1. \A e : SumOn(e, {}) = 0
  BY SumOfNone
<1>2. Cardinality({}) = 0
  BY FS_EmptySet
<1>3. XYs(R, {}, w) = [i \in 1..w |-> 0]
  BY <1>1 DEF XYs
<1>4. XXs(R, {}, w) = [i \in 1..w |-> [j \in 1..i |-> 0]]
  BY <1>1 DEF XXs
<1>5. SumOn(YS(R), {}) = 0 /\ SumOn(YY(R), {}) = 0
  BY <1>1
<1> DEFINE f == [i \in 1..w |-> 0]
           g == [i \in 1..w |-> [j \in 1..i |-> 0]]
<1>6. initialize(w) = LinState(0, w, 0, 0, f, g)
  BY LinSized
<1> HIDE DEF f, g
<1> QED
  BY <1>2, <1>3, <1>4, <1>5, <1>6 DEF LinSums, f, g

(* One row more.                                                           *)
LEMMA LinAdd ==
  ASSUME NEW R \in Seq(Row("linregr")), NEW I \in SUBSET DOMAIN R, NEW n \in DOMAIN R, n \notin I,
         NEW J, J = I \cup {n}, NEW w \in Nat, ~LinBad(R, J), \A k \in J : Len(R[k].x) = w
  PROVE  LinSums(R, J, w)
           = LinState(Cardinality(I) + 1, w, SumOn(YS(R), I) + R[n].y,
               SumOn(YY(R), I) + R[n].y * R[n].y,
               XYGrown(XYs(R, I, w), R[n].x, R[n].y), XXGrown(XXs(R, I, w), R[n].x))
<1> DEFINE x == R[n].x
<1>1. J \in SUBSET DOMAIN R /\ I \in SUBSET J /\ n \in J /\ ~LinBad(R, J)
      /\ \A k \in J : Len(R[k].x) = w
  OBVIOUS
<1>2. /\ IsFiniteSet(J) /\ Numbers(YS(R), J) /\ Numbers(YY(R), J)
      /\ \A i \in 1..w : Numbers(XY(R, i), J)
      /\ \A i, j \in 1..w : Numbers(XX(R, i, j), J)
  BY <1>1, LinNumbers
<1>3. ASSUME NEW f, Numbers(f, J)
      PROVE  SumOn(f, J) = SumOn(f, I) + f[n]
  <2>1. SumOn(f, J) = f[n] + SumOn(f, I)
    BY <1>1, <1>2, <1>3, TotalAdd
  <2>2. f[n] \in Int /\ SumOn(f, I) \in Int
    <3>1. Numbers(f, I) /\ f[n] \in Int /\ IsFiniteSet(I)
      BY <1>1, <1>2, <1>3, FS_Subset DEF Numbers
    <3> QED
      BY <3>1, TotalIsInt
  <2> QED
    BY <2>1, <2>2
<1>4. Cardinality(J) = Cardinality(I) + 1
  <2>1. IsFiniteSet(I)
    BY <1>1, <1>2, FS_Subset
  <2> QED
    BY <2>1, FS_AddElement
<1>5. /\ SumOn(YS(R), J) = SumOn(YS(R), I) + R[n].y
      /\ SumOn(YY(R), J) = SumOn(YY(R), I) + R[n].y * R[n].y
  <2>1. YS(R)[n] = R[n].y /\ YY(R)[n] = R[n].y * R[n].y
    BY DEF YS, YY, Square
  <2> QED
    BY <1>2, <1>3, <2>1
<1>6. \A i \in 1..w : SumOn(XY(R, i), J) = SumOn(XY(R, i), I) + x[i] * R[n].y
  <2>1. \A i \in 1..w : XY(R, i)[n] = x[i] * R[n].y
    BY DEF XY
  <2> HIDE DEF x
  <2> QED
    BY <1>2, <1>3, <2>1
<1>7. \A i, j \in 1..w : SumOn(XX(R, i, j), J) = SumOn(XX(R, i, j), I) + x[i] * x[j]
  <2>1. \A i, j \in 1..w : XX(R, i, j)[n] = x[i] * x[j]
    BY DEF XX
  <2> HIDE DEF x
  <2> QED
    BY <1>2, <1>3, <2>1
<1> DEFINE xy == XYs(R, I, w)
           xx == XXs(R, I, w)
           f1 == [i \in DOMAIN xy |-> xy[i] + x[i] * R[n].y]
           g1 == [i \in DOMAIN xx |-> [j \in 1..i |-> xx[i][j] + x[i] * x[j]]]
<1>8. XYs(R, J, w) = f1
  <2>1. DOMAIN xy = 1..w /\ \A i \in 1..w : xy[i] = SumOn(XY(R, i), I)
    BY DEF XYs
  <2> HIDE DEF x, xy
  <2> QED
    BY <1>6, <2>1 DEF XYs
<1>9. XXs(R, J, w) = g1
  <2>1. \A i \in 1..w : \A j \in 1..i : j \in 1..w
    OBVIOUS
  <2>2. /\ DOMAIN xx = 1..w
        /\ \A i \in 1..w : \A j \in 1..i : xx[i][j] = SumOn(XX(R, i, j), I)
    BY DEF XXs
  <2> HIDE DEF x, xx
  <2>3. \A i \in 1..w : [j \in 1..i |-> SumOn(XX(R, i, j), J)]
                          = [j \in 1..i |-> xx[i][j] + x[i] * x[j]]
    BY <1>7, <2>1, <2>2
  <2>4. XXs(R, J, w) = [i \in 1..w |-> [j \in 1..i |-> SumOn(XX(R, i, j), J)]]
    BY DEF XXs
  <2> QED
    BY <2>2, <2>3, <2>4
<1> HIDE DEF f1, g1
<1>10. LinSums(R, J, w) = LinState(Cardinality(I) + 1, w, SumOn(YS(R), I) + R[n].y,
               SumOn(YY(R), I) + R[n].y * R[n].y, f1, g1)
  BY <1>4, <1>5, <1>8, <1>9 DEF LinSums
<1> QED
  BY <1>10 DEF f1, g1, XYGrown, XXGrown

(* What a row does to the state of others: it ends the query where it does *)
(* not go with them.                                                       *)
LEMMA LinRead ==
  ASSUME NEW R \in Seq(Row("linregr")), NEW I \in SUBSET DOMAIN R, NEW n \in DOMAIN R, n \notin I,
         NEW st, LinKept(R, st, I), MaxWidth \in Nat, NEW J, J = I \cup {n}
  PROVE  IF LinBad(R, J) THEN linregr_transition(st, R[n]) = Exception
         ELSE LinKept(R, linregr_transition(st, R[n]), J)
<1> DEFINE x == R[n].x
           y == R[n].y
           w == Len(x)
           s == IF st.numRows = 0 THEN initialize(w) ELSE st
           Ends == \/ NotFinite \in {y} \cup {x[i] : i \in DOMAIN x}
                   \/ st.numRows = 0 /\ w > MaxWidth
                   \/ w # s.widthOfX
           t == Grown(s, x, y)
<1>1. linregr_transition(st, R[n]) = IF Ends THEN Exception ELSE t
  BY Zenon DEF linregr_transition, Grown
<1>2. R[n] \in Row("linregr") /\ IsFiniteSet(I) /\ J \in SUBSET DOMAIN R
      /\ \A k \in J : R[k] \in Row("linregr")
  BY RowsAre
<1>3. \A k \in J : Len(R[k].x) \in Nat
  BY <1>2 DEF Row, TTests, Optimizers
<1>4. w \in Nat /\ n \in J
  BY <1>3
<1> HIDE DEF x, y, t
<1>5. s = LinSums(R, I, s.widthOfX) /\ (w = s.widthOfX <=> \A k \in I : Len(R[k].x) = w)
      /\ (st.numRows = 0 <=> I = {})
  <2>1. CASE I = {}
    <3>1. st.numRows = 0
      BY <2>1 DEF LinKept, LinRegrState
    <3>2. s = LinSums(R, {}, w)
      BY <3>1, LinNone
    <3> HIDE DEF s
    <3>3. s.widthOfX = w
      BY <3>2, LinFields DEF LinSums
    <3> QED
      BY <2>1, <3>1, <3>2, <3>3
  <2>2. CASE I # {}
    <3>1. PICK k \in I : TRUE
      BY <2>2
    <3>2. st = LinSums(R, I, Len(R[k].x)) /\ ~LinBad(R, I)
      BY <2>2, <3>1 DEF LinKept
    <3>3. st.numRows = Cardinality(I) /\ st.widthOfX = Len(R[k].x)
      BY <3>2, LinFields DEF LinSums
    <3>4. Cardinality(I) # 0
      BY <1>2, <2>2, FS_EmptySet
    <3>5. s = st
      BY <3>3, <3>4
    <3>6. \A j \in I : Len(R[j].x) = Len(R[k].x)
      BY <3>1, <3>2 DEF LinBad
    <3> QED
      BY <2>2, <3>1, <3>2, <3>3, <3>4, <3>5, <3>6
  <2> QED
    BY <2>1, <2>2
<1>6. Ends <=> LinBad(R, J)
  <2>1. BadRow(R[n]) <=> \/ NotFinite \in {y} \cup {x[i] : i \in DOMAIN x}
                         \/ w > MaxWidth
    BY <1>4 DEF BadRow, x, y
  <2>2. I # {} => ~LinBad(R, I)
    BY DEF LinKept
  <2>3. I # {} /\ (\A k \in I : Len(R[k].x) = w) => w <= MaxWidth
    BY <1>3, <1>4, <2>2 DEF LinBad, BadRow
  <2>4. LinBad(R, J) <=> BadRow(R[n]) \/ \E k \in I : Len(R[k].x) # w
    BY <2>2 DEF LinBad, x
  <2> HIDE DEF s, w
  <2> QED
    BY <1>4, <1>5, <2>1, <2>3, <2>4
<1>7. ASSUME ~LinBad(R, J)
      PROVE  LinKept(R, t, J)
  <2>1. w = s.widthOfX
    BY <1>6, <1>7
  <2>2. \A k \in J : Len(R[k].x) = w
    BY <1>4, <1>7 DEF LinBad, x
  <2>3. s = LinState(Cardinality(I), w, SumOn(YS(R), I), SumOn(YY(R), I), XYs(R, I, w), XXs(R, I, w))
    BY <1>5, <2>1 DEF LinSums
  <2> DEFINE f1 == XYGrown(XYs(R, I, w), x, y)
             g1 == XXGrown(XXs(R, I, w), x)
  <2> HIDE DEF s, w
  <2>4. t = LinState(Cardinality(I) + 1, w, SumOn(YS(R), I) + y, SumOn(YY(R), I) + y * y, f1, g1)
    BY <2>3, LinGrown DEF t
  <2>5. LinSums(R, J, w) = LinState(Cardinality(I) + 1, w, SumOn(YS(R), I) + y,
                                    SumOn(YY(R), I) + y * y, f1, g1)
    BY <1>2, <1>4, <1>7, <2>2, LinAdd DEF x, y
  <2> HIDE DEF f1, g1
  <2>6. t = LinSums(R, J, w)
    BY <2>4, <2>5
  <2> QED
    BY <1>4, <1>7, <2>2, <2>6 DEF LinKept
<1> HIDE DEF s, w
<1> QED
  BY <1>1, <1>6, <1>7

(* Two sums of disjoint rows.                                              *)
LEMMA LinUnion ==
  ASSUME NEW R \in Seq(Row("linregr")), NEW I \in SUBSET DOMAIN R, NEW J \in SUBSET DOMAIN R,
         I \cap J = {}, NEW K, K = I \cup J,
         NEW w \in Nat, ~LinBad(R, K), \A k \in K : Len(R[k].x) = w
  PROVE  LinSums(R, K, w)
           = LinState(Cardinality(I) + Cardinality(J), w, SumOn(YS(R), I) + SumOn(YS(R), J),
               SumOn(YY(R), I) + SumOn(YY(R), J),
               XYJoined(XYs(R, I, w), XYs(R, J, w)), XXJoined(XXs(R, I, w), XXs(R, J, w)))
<1>1. K \in SUBSET DOMAIN R /\ I \in SUBSET K /\ J \in SUBSET K
  OBVIOUS
<1>2. /\ IsFiniteSet(K) /\ Numbers(YS(R), K) /\ Numbers(YY(R), K)
      /\ \A i \in 1..w : Numbers(XY(R, i), K)
      /\ \A i, j \in 1..w : Numbers(XX(R, i, j), K)
  BY <1>1, LinNumbers
<1>3. ASSUME NEW f, Numbers(f, K)
      PROVE  SumOn(f, K) = SumOn(f, I) + SumOn(f, J)
  BY <1>1, <1>2, <1>3, TotalUnion
<1>4. Cardinality(K) = Cardinality(I) + Cardinality(J)
  <2>1. IsFiniteSet(I) /\ IsFiniteSet(J)
    BY <1>1, <1>2, FS_Subset
  <2>2. Cardinality(I \cap J) = 0
    BY FS_EmptySet
  <2>3. Cardinality(I) \in Nat /\ Cardinality(J) \in Nat
    BY <2>1, FS_CardinalityType
  <2>4. Cardinality(I \cup J) = Cardinality(I) + Cardinality(J) - Cardinality(I \cap J)
    BY <2>1, FS_Union
  <2> QED
    BY <2>2, <2>3, <2>4
<1>5. XYs(R, K, w) = XYJoined(XYs(R, I, w), XYs(R, J, w))
  <2>1. \A i \in 1..w : SumOn(XY(R, i), K) = SumOn(XY(R, i), I) + SumOn(XY(R, i), J)
    BY <1>2, <1>3
  <2> QED
    BY <2>1 DEF XYs, XYJoined
<1>6. XXs(R, K, w) = XXJoined(XXs(R, I, w), XXs(R, J, w))
  <2> DEFINE g == XXs(R, I, w)
             h == XXs(R, J, w)
  <2>1. \A i \in 1..w : \A j \in 1..i : j \in 1..w
    OBVIOUS
  <2>2. DOMAIN g = 1..w /\ DOMAIN h = 1..w
    BY DEF XXs
  <2>3. \A i \in 1..w : \A j \in 1..i :
          g[i][j] = SumOn(XX(R, i, j), I) /\ h[i][j] = SumOn(XX(R, i, j), J)
    BY DEF XXs
  <2> HIDE DEF g, h
  <2>4. \A i \in 1..w : [j \in 1..i |-> SumOn(XX(R, i, j), K)] = [j \in 1..i |-> g[i][j] + h[i][j]]
    BY <1>2, <1>3, <2>1, <2>3
  <2>5. XXs(R, K, w) = [i \in 1..w |-> [j \in 1..i |-> SumOn(XX(R, i, j), K)]]
    BY DEF XXs
  <2>6. XXs(R, K, w) = XXJoined(g, h)
    BY <2>2, <2>4, <2>5 DEF XXJoined
  <2> QED
    BY <2>6 DEF g, h
<1>7. SumOn(YS(R), K) = SumOn(YS(R), I) + SumOn(YS(R), J)
      /\ SumOn(YY(R), K) = SumOn(YY(R), I) + SumOn(YY(R), J)
  BY <1>2, <1>3
<1> QED
  BY <1>4, <1>5, <1>6, <1>7 DEF LinSums

(* What the state of one segment does to that of others.                   *)
LEMMA LinMerge ==
  ASSUME NEW R \in Seq(Row("linregr")), NEW I \in SUBSET DOMAIN R, NEW J \in SUBSET DOMAIN R,
         I \cap J = {}, NEW K, K = I \cup J,
         NEW a, LinKept(R, a, I), NEW b, LinKept(R, b, J)
  PROVE  IF LinBad(R, K) THEN linregr_merge_states(a, b) = Exception
         ELSE LinKept(R, linregr_merge_states(a, b), K)
<1>1. ~LinBad(R, {})
  BY DEF LinBad
<1>2. IsFiniteSet(I) /\ IsFiniteSet(J) /\ K \in SUBSET DOMAIN R
      /\ \A k \in K : R[k] \in Row("linregr")
  BY RowsAre
<1>3. \A k \in K : Len(R[k].x) \in Nat
  BY <1>2 DEF Row, TTests, Optimizers
<1>4. ASSUME NEW X \in SUBSET DOMAIN R, IsFiniteSet(X), NEW st, LinKept(R, st, X)
      PROVE  /\ st.numRows = 0 <=> X = {}
             /\ \A k \in X : st = LinSums(R, X, Len(R[k].x)) /\ st.widthOfX = Len(R[k].x)
             /\ ~LinBad(R, X)
  <2>1. CASE X = {}
    BY <1>1, <1>4, <2>1 DEF LinKept, LinRegrState
  <2>2. CASE X # {}
    <3>1. \A k \in X : st = LinSums(R, X, Len(R[k].x))
      BY <1>4, <2>2 DEF LinKept
    <3>2. \A k \in X : st.widthOfX = Len(R[k].x) /\ st.numRows = Cardinality(X)
      BY <3>1, LinFields DEF LinSums
    <3>3. Cardinality(X) # 0
      BY <1>4, <2>2, FS_EmptySet
    <3> QED
      BY <1>4, <2>2, <3>1, <3>2, <3>3 DEF LinKept
  <2> QED
    BY <2>1, <2>2
<1>5. /\ (a.numRows = 0 <=> I = {}) /\ ~LinBad(R, I)
      /\ \A k \in I : a = LinSums(R, I, Len(R[k].x)) /\ a.widthOfX = Len(R[k].x)
  BY <1>2, <1>4
<1>6. /\ (b.numRows = 0 <=> J = {}) /\ ~LinBad(R, J)
      /\ \A k \in J : b = LinSums(R, J, Len(R[k].x)) /\ b.widthOfX = Len(R[k].x)
  BY <1>2, <1>4
<1>7. CASE I = {}
  <2>1. linregr_merge_states(a, b) = b /\ K = J
    BY <1>5, <1>7 DEF linregr_merge_states
  <2> QED
    BY <1>6, <2>1
<1>8. CASE I # {} /\ J = {}
  <2>1. linregr_merge_states(a, b) = a /\ K = I
    BY <1>5, <1>6, <1>8 DEF linregr_merge_states
  <2> QED
    BY <1>5, <2>1
<1>9. CASE I # {} /\ J # {}
  <2>1. PICK i \in I, j \in J : TRUE
    BY <1>9
  <2>2. i \in K /\ j \in K
    BY <2>1
  <2>3. a.widthOfX = Len(R[i].x) /\ b.widthOfX = Len(R[j].x)
    BY <1>5, <1>6, <2>1
  <2>4. CASE Len(R[i].x) # Len(R[j].x)
    <3>1. LinBad(R, K)
      BY <2>2, <2>4 DEF LinBad
    <3>2. linregr_merge_states(a, b) = Exception
      BY <1>5, <1>6, <1>9, <2>3, <2>4 DEF linregr_merge_states
    <3> QED
      BY <3>1, <3>2
  <2>5. CASE Len(R[i].x) = Len(R[j].x)
    <3> DEFINE w == Len(R[i].x)
    <3>1. linregr_merge_states(a, b) = RowsJoined(a, b)
      <4>1. a.numRows # 0 /\ b.numRows # 0 /\ a.widthOfX = b.widthOfX
        BY <1>5, <1>6, <1>9, <2>3, <2>5
      <4> QED
        BY Zenon, <4>1 DEF linregr_merge_states, RowsJoined
    <3>2. w \in Nat
      BY <1>3, <2>2
    <3>3. a = LinSums(R, I, w) /\ b = LinSums(R, J, w)
      BY <1>5, <1>6, <2>1, <2>5
    <3> HIDE DEF w
    <3>4. \A k \in K : Len(R[k].x) = w
      <4>1. \A k \in I : Len(R[k].x) = w
        BY <1>5, <2>1 DEF LinBad, w
      <4>2. \A k \in J : Len(R[k].x) = w
        BY <1>6, <2>1, <2>5 DEF LinBad, w
      <4> QED
        BY <4>1, <4>2
    <3>5. ~LinBad(R, K)
      BY <1>5, <1>6, <3>4 DEF LinBad
    <3>6. LinSums(R, K, w)
           = LinState(Cardinality(I) + Cardinality(J), w, SumOn(YS(R), I) + SumOn(YS(R), J),
               SumOn(YY(R), I) + SumOn(YY(R), J),
               XYJoined(XYs(R, I, w), XYs(R, J, w)), XXJoined(XXs(R, I, w), XXs(R, J, w)))
      BY <3>2, <3>4, <3>5, LinUnion
    <3>7. RowsJoined(a, b) = LinSums(R, K, w)
      BY <3>3, <3>6, LinJoined DEF LinSums
    <3> QED
      BY <2>2, <3>1, <3>4, <3>5, <3>7 DEF LinKept
  <2> QED
    BY <2>4, <2>5
<1> QED
  BY <1>7, <1>8, <1>9

(* The sums of the property are those of all rows.                         *)
LEMMA LinMeans ==
  job.rows \in Seq(Row("linregr")) =>
    (LinregrIsOfRows <=>
       (Ended({"linregr"}) =>
          result = IF job.rows = << >> THEN Null
                   ELSE IF LinBad(job.rows, DOMAIN job.rows) THEN Exception
                   ELSE LinSums(job.rows, DOMAIN job.rows, Len(job.rows[1].x))))
<1> SUFFICES ASSUME job.rows \in Seq(Row("linregr"))
             PROVE  LinregrIsOfRows <=>
                      (Ended({"linregr"}) =>
                         result = IF job.rows = << >> THEN Null
                                  ELSE IF LinBad(job.rows, DOMAIN job.rows) THEN Exception
                                  ELSE LinSums(job.rows, DOMAIN job.rows, Len(job.rows[1].x)))
  OBVIOUS
<1> DEFINE R == job.rows
           D == DOMAIN R
           w == IF rows = << >> THEN 0 ELSE Len(rows[1].x)
           Bad(r) == r.y = NotFinite \/ Len(r.x) > MaxWidth
                     \/ \E i \in DOMAIN r.x : r.x[i] = NotFinite
           Mixed == \/ \E i \in DOMAIN rows : Bad(rows[i])
                    \/ ~Constant(rows, LAMBDA r : Len(r.x))
           u == [numRows |-> Len(rows), widthOfX |-> w,
                      y_sum |-> Field(rows, LAMBDA r : r.y),
                      y_square_sum |-> Field(rows, LAMBDA r : Square(r.y)),
                      X_transp_Y |-> [i \in 1..w |-> Field(rows, LAMBDA r : r.x[i] * r.y)],
                      X_transp_X |-> [i \in 1..w |-> [j \in 1..i |->
                                        Field(rows, LAMBDA r : r.x[i] * r.x[j])]]]
<1>1. LinregrIsOfRows <=> (Ended({"linregr"}) => result = IF rows = << >> THEN Null
                ELSE IF Mixed THEN Exception ELSE u)
  BY Zenon DEF LinregrIsOfRows
<1>2. Mixed <=> LinBad(R, D)
  BY DEF LinBad, BadRow, Constant, rows
<1>3. /\ Field(rows, LAMBDA r : r.y) = SumOn(YS(R), D)
      /\ Field(rows, LAMBDA r : Square(r.y)) = SumOn(YY(R), D)
  BY DEF Field, TotalOf, SumOn, YS, YY, rows
<1>4. \A i : Field(rows, LAMBDA r : r.x[i] * r.y) = SumOn(XY(R, i), D)
  BY DEF Field, TotalOf, SumOn, XY, rows
<1>5. \A i, j : Field(rows, LAMBDA r : r.x[i] * r.x[j]) = SumOn(XX(R, i, j), D)
  BY DEF Field, TotalOf, SumOn, XX, rows
<1>6. Len(rows) = Cardinality(D)
  BY FS_Interval DEF rows
<1>7. ASSUME R # << >>
      PROVE  u = LinSums(R, D, Len(R[1].x))
  <2>1. w = Len(R[1].x)
    BY <1>7 DEF rows
  <2> HIDE DEF w, R, D
  <2>2. [i \in 1..w |-> Field(rows, LAMBDA r : r.x[i] * r.y)] = XYs(R, D, w)
    BY <1>4 DEF XYs
  <2>3. [i \in 1..w |-> [j \in 1..i |-> Field(rows, LAMBDA r : r.x[i] * r.x[j])]] = XXs(R, D, w)
    BY <1>5 DEF XXs
  <2> QED
    BY <1>3, <1>6, <2>1, <2>2, <2>3 DEF LinSums, LinState
<1> HIDE DEF u, Mixed
<1> QED
  BY <1>1, <1>2, <1>7 DEF rows

(* Linear regression is a scan.                                            *)
LEMMA LinIsScanned == "linregr" \in Tests \ Optimizers /\ "linregr" \notin TTests
BY DEF Tests, TTests, Optimizers

(* More rows do not make up for those that end the query.                  *)
LEMMA LinBadGrows ==
  ASSUME NEW R, NEW I, NEW J, I \subseteq J, LinBad(R, I)
  PROVE  LinBad(R, J)
BY DEF LinBad

(* A state of linear regression is no NULL, no exception and no missing    *)
(* result.                                                                 *)
LEMMA LinNoMark ==
  ASSUME MarksAreNoRecords, NEW a, NEW b, NEW c, NEW d, NEW f, NEW g
  PROVE  LinState(a, b, c, d, f, g) \notin {Null, Exception, Pending}
<1>1. "numRows" \in DOMAIN LinState(a, b, c, d, f, g)
  BY DEF LinState
<1> QED
  BY <1>1 DEF MarksAreNoRecords

\* The states of linear regression by their rows, and the rows that end the query.
LinV(R) ==
  [I \in SUBSET DOMAIN R |-> IF I = {} THEN LinRegrState ELSE LinSums(R, I, Len(R[Chosen(I)].x))]
LinEnds(R) == {I \in SUBSET DOMAIN R : LinBad(R, I)}

LinInv == job.test = "linregr" => ScanKept(LinV(job.rows), LinEnds(job.rows))

(* The state of some rows is the one that is kept of them.                 *)
LEMMA LinIsOne ==
  ASSUME NEW R, NEW I \in SUBSET DOMAIN R, NEW st
  PROVE  /\ LinKept(R, st, I) => st = LinV(R)[I]
         /\ ~LinBad(R, I) => LinKept(R, LinV(R)[I], I)
<1>1. CASE I = {}
  BY <1>1 DEF LinKept, LinV
<1>2. CASE I # {}
  <2>1. Chosen(I) \in I
    BY <1>2 DEF Chosen
  <2>2. LinV(R)[I] = LinSums(R, I, Len(R[Chosen(I)].x))
    BY <1>2 DEF LinV
  <2>3. ~LinBad(R, I) => \A k \in I : Len(R[k].x) = Len(R[Chosen(I)].x)
    BY <2>1 DEF LinBad
  <2> QED
    BY <1>2, <2>1, <2>2, <2>3 DEF LinKept
<1> QED
  BY <1>1, <1>2

(* The states are those of no rows at first.                               *)
LEMMA LinInit == Init \/ NoQuery => LinInv
<1>1. NoQuery => LinInv
  BY NoQueryScans, LinIsScanned DEF LinInv
<1>2. ASSUME Init, job.test = "linregr" PROVE LinInv
  <2>1. Initial(job.test) = LinRegrState
    BY <1>2, LinIsScanned DEF Initial
  <2>2. LinV(job.rows)[{}] = LinRegrState
    BY DEF LinV
  <2>3. {} \notin LinEnds(job.rows)
    BY DEF LinEnds, LinBad
  <2> QED
    BY <1>2, <2>1, <2>2, <2>3, LinIsScanned, KeptFromTheStart DEF LinInv
<1> QED
  BY <1>1, <1>2 DEF LinInv

(* Every step leaves the states those of their rows, or ends the query as  *)
(* these say.                                                              *)
LEMMA LinNext ==
  ASSUME MarksAreNoRecords, ScanInv, LinInv, Next
  PROVE  LinInv'
<1> SUFFICES ASSUME job'.test = "linregr" PROVE LinInv'
  BY DEF LinInv
<1>0. PICK R : R = job.rows
  OBVIOUS
<1> DEFINE D == DOMAIN R
           V == LinV(R)
           B == LinEnds(R)
<1>1. job' = job /\ job.test = "linregr" /\ ScanKept(V, B)
  BY <1>0, ScanNext DEF LinInv
<1>2. R \in Seq(Row("linregr")) /\ job.test \in Tests \ Optimizers /\ MaxWidth \in Nat
  BY <1>0, <1>1, LinIsScanned, JobsAre, ConstantsAre DEF ScanInv, JobOf
<1>3. \A st, r, k : Transition(job.test, st, r, k) = linregr_transition(st, r)
  BY <1>1, LinIsScanned DEF Transition
<1>4. \A a, b : Merge(job.test, a, b) = linregr_merge_states(a, b)
  BY <1>1, LinIsScanned DEF Merge
<1>5. \A st : Final(job.test, st) = linregr_final(st)
  BY <1>1, LinIsScanned DEF Final
<1>6. \A I \in SUBSET D : V[I] \notin {Exception, Pending}
  <2>1. LinRegrState = LinState(0, 0, 0, 0, << >>, << >>)
    BY DEF LinRegrState, LinState
  <2> QED
    BY <2>1, LinNoMark DEF LinV, LinSums
<1>7. Lasting(B, D)
  BY LinBadGrows DEF LinEnds, Lasting
<1>8. ASSUME NEW I \in SUBSET D
      PROVE  /\ I \in B <=> LinBad(R, I)
             /\ I \notin B => LinKept(R, V[I], I)
             /\ \A st : LinKept(R, st, I) => st = V[I]
  BY LinIsOne DEF LinEnds
<1> HIDE DEF V, B, D
<1>9. Unmarked(V, D) /\ Final(job.test, V[D]) # Pending
  BY <1>5, <1>6, ConstantsAre DEF Unmarked, linregr_final
<1>10. ASSUME NEW I \in SUBSET D, NEW n \in D, I \notin B, n \notin I
       PROVE  Adds(V, B, I, n, Transition(job.test, V[I], R[n], n))
  <2>1. I \cup {n} \in SUBSET D
    OBVIOUS
  <2>2. IF LinBad(R, I \cup {n}) THEN linregr_transition(V[I], R[n]) = Exception
        ELSE LinKept(R, linregr_transition(V[I], R[n]), I \cup {n})
    BY <1>2, <1>8, <1>10, LinRead DEF D
  <2> QED
    BY <1>3, <1>8, <2>1, <2>2 DEF Adds
<1>11. ASSUME NEW I \in SUBSET D, NEW J \in SUBSET D, I \notin B, J \notin B, I \cap J = {}
       PROVE  Joins(V, B, I, J, Merge(job.test, V[I], V[J]))
  <2>1. I \cup J \in SUBSET D
    OBVIOUS
  <2>2. IF LinBad(R, I \cup J) THEN linregr_merge_states(V[I], V[J]) = Exception
        ELSE LinKept(R, linregr_merge_states(V[I], V[J]), I \cup J)
    BY <1>2, <1>8, <1>11, LinMerge DEF D
  <2> QED
    BY <1>4, <1>8, <2>1, <2>2 DEF Joins
<1>12. AddsRows(V, B, D)
  BY <1>0, <1>10 DEF AddsRows
<1>13. JoinsRows(V, B, D)
  BY <1>11 DEF JoinsRows
<1>14. ScanKept(V, B)'
  <2>1. D = DOMAIN job.rows
    BY <1>0 DEF D
  <2> QED
    BY <1>1, <1>2, <1>7, <1>9, <1>12, <1>13, <2>1, KeptByASpread
<1> QED
  BY <1>0, <1>1, <1>14 DEF LinInv, V, B

(* What the states keep gives the property.                                *)
LEMMA LinAnswered ==
  ASSUME ScanInv, LinInv
  PROVE  LinregrIsOfRows
<1> SUFFICES ASSUME Ended({"linregr"}) PROVE LinregrIsOfRows
  BY DEF LinregrIsOfRows
<1> DEFINE R == job.rows
           D == DOMAIN R
           S == LinSums(R, D, Len(R[1].x))
<1>1. job.test = "linregr" /\ result # Pending
  BY DEF Ended
<1>2. R \in Seq(Row("linregr"))
  BY <1>1, LinIsScanned, JobsAre DEF ScanInv, JobOf
<1>3. LinregrIsOfRows <=>
        result = IF R = << >> THEN Null ELSE IF LinBad(R, D) THEN Exception ELSE S
  BY <1>2, LinMeans
<1>4. result = IF LinBad(R, D) THEN Exception ELSE linregr_final(LinV(R)[D])
  <2>1. ScanKept(LinV(R), LinEnds(R))
    BY <1>1 DEF LinInv
  <2>2. \A st : Final(job.test, st) = linregr_final(st)
    BY <1>1, LinIsScanned DEF Final
  <2> QED
    BY <1>1, <2>1, <2>2 DEF ScanKept, LinEnds
<1>5. D = 1..Len(R) /\ Len(R) \in Nat /\ IsFiniteSet(D) /\ Cardinality(D) = Len(R)
      /\ (R = << >> <=> Len(R) = 0)
  BY <1>2, FS_Interval
<1>6. CASE R = << >>
  <2>1. D = {} /\ LinV(R)[D] = LinRegrState
    BY <1>5, <1>6 DEF LinV
  <2>2. LinRegrState.numRows = 0 /\ ~LinBad(R, D)
    BY <2>1 DEF LinRegrState, LinBad
  <2> HIDE DEF R, D
  <2> QED
    BY <1>3, <1>4, <1>6, <2>1, <2>2 DEF linregr_final
<1>7. CASE R # << >> /\ ~LinBad(R, D)
  <2>1. 1 \in D
    BY <1>5, <1>7
  <2>2. LinV(R)[D] = S
    BY <1>7, <2>1, LinIsOne DEF LinKept
  <2>3. S.numRows = Len(R)
    BY <1>5, LinFields DEF LinSums
  <2> HIDE DEF S, D
  <2> QED
    BY <1>3, <1>4, <1>5, <1>7, <2>2, <2>3 DEF linregr_final
<1> HIDE DEF S, D, R
<1> QED
  BY <1>3, <1>4, <1>6, <1>7

(* linear.cpp: the sums that a query returns are those of all rows,        *)
(* however they were spread and merged, and rows that do not fit end it.   *)
THEOREM LinearSums ==
  ASSUME MarksAreNoRecords
  PROVE  SessionSpec => []LinregrIsOfRows
<1>1. SessionInit => LinInv
  BY SessionStarts, LinInit
<1>2. ScanInv /\ LinInv /\ [Next]_vars => LinInv'
  <2>1. ASSUME LinInv, UNCHANGED vars PROVE LinInv'
    <3>1. PICK R : R = job.rows
      OBVIOUS
    <3>2. job' = job
      BY <2>1 DEF vars
    <3> QED
      BY <2>1, <3>1, <3>2, KeptStays DEF LinInv
  <2> QED
    BY <2>1, LinNext
<1>3. ScanInv /\ LinInv => LinregrIsOfRows
  BY LinAnswered
<1> QED
  BY <1>1, <1>2, <1>3, SessionScans, PTL DEF SessionSpec

-----------------------------------------------------------------------------
(* Chi-squared test.                                                       *)
Expected(r) == IF r.expected = Null THEN 1 ELSE r.expected
Uniform(r) == r.expected = Null
Degrees(r) == IF r.df = Null THEN -1 ELSE r.df
QuotientOf(r) == Square(r.observed) \div Expected(r)

ES(R) == [k \in DOMAIN R |-> Expected(R[k])]
OS(R) == [k \in DOMAIN R |-> R[k].observed]
QS(R) == [k \in DOMAIN R |-> QuotientOf(R[k])]

\* A state, by its fields.
ChiState(a, b, c, d, s, u, f) ==
  [numRows |-> a, sum_expect |-> b, sum_obs_square_over_expect |-> c, sum_obs |-> d,
   sumSquaredDeviations |-> s, uniformDist |-> u, df |-> f]

\* That of the rows I.
ChiOf(R, I, u, f) ==
  ChiState(Cardinality(I), SumOn(ES(R), I), SumOn(QS(R), I), SumOn(OS(R), I),
           SumOn(ES(R), I) * SumOn(QS(R), I) - SumOn(OS(R), I) * SumOn(OS(R), I), u, f)
Kind(R, I) == IF I = {} THEN FALSE ELSE Uniform(R[Chosen(I)])
Degree(R, I) == IF I = {} THEN 0 ELSE Degrees(R[Chosen(I)])
ChiV(R) == [I \in SUBSET DOMAIN R |-> ChiOf(R, I, Kind(R, I), Degree(R, I))]

\* The rows that end the query.
Alike(q, r) == Uniform(q) = Uniform(r) /\ Degrees(q) = Degrees(r)
ChiBad(R) ==
  {I \in SUBSET DOMAIN R : \/ \E i \in I : R[i].df # Null /\ R[i].df <= 0
                           \/ \E i, j \in I : ~Alike(R[i], R[j])}

(* A row has numbers, and its quotient no remainder.                       *)
LEMMA ChiRows ==
  ASSUME NEW R \in Seq(Row("chi2_gof_test"))
  PROVE  \A k \in DOMAIN R :
           /\ R[k].observed \in Int /\ Expected(R[k]) \in Nat \ {0} /\ Degrees(R[k]) \in Int
           /\ Square(R[k].observed) = Expected(R[k]) * QuotientOf(R[k]) /\ QuotientOf(R[k]) \in Int
<1> TAKE k \in DOMAIN R
<1> DEFINE r == R[k]
<1>1. r \in Row("chi2_gof_test")
  OBVIOUS
<1>2. /\ r \in [observed: Int, expected: {Null} \cup (Nat \ {0}), df: {Null} \cup Int]
      /\ r.expected # Null => Square(r.observed) % r.expected = 0
  <2>1. Row("chi2_gof_test") =
          {q \in [observed: Int, expected: {Null} \cup (Nat \ {0}), df: {Null} \cup Int] :
             q.expected # Null => Square(q.observed) % q.expected = 0}
    BY DEF Row, TTests, Optimizers
  <2> QED
    BY <1>1, <2>1
<1> HIDE DEF r
<1>3. r.observed \in Int /\ Expected(r) \in Nat \ {0} /\ Degrees(r) \in Int
  BY <1>2 DEF Expected, Degrees
<1>4. Square(r.observed) \in Int
  BY <1>3 DEF Square
<1>5. Square(r.observed) % Expected(r) = 0
  BY <1>2, <1>4 DEF Expected
<1>6. \A a \in Int, b \in Nat \ {0} : a % b = 0 => a = b * (a \div b) /\ a \div b \in Int
  OBVIOUS
<1> QED
  BY <1>3, <1>4, <1>5, <1>6 DEF QuotientOf, r

(* What is summed up are numbers.                                          *)
LEMMA ChiNumbers ==
  ASSUME NEW R \in Seq(Row("chi2_gof_test")), NEW I \in SUBSET DOMAIN R
  PROVE  /\ IsFiniteSet(I) /\ Numbers(ES(R), I) /\ Numbers(OS(R), I) /\ Numbers(QS(R), I)
         /\ SumOn(ES(R), I) \in Int /\ SumOn(OS(R), I) \in Int /\ SumOn(QS(R), I) \in Int
         /\ Cardinality(I) \in Nat
<1>1. IsFiniteSet(I)
  BY RowsAre
<1>2. Numbers(ES(R), I) /\ Numbers(OS(R), I) /\ Numbers(QS(R), I)
  BY ChiRows DEF Numbers, ES, OS, QS
<1> QED
  BY <1>1, <1>2, TotalIsInt, FS_CardinalityType

(* The fields of a state.                                                  *)
LEMMA ChiFields ==
  ASSUME NEW a, NEW b, NEW c, NEW d, NEW s, NEW u, NEW f, NEW st, st = ChiState(a, b, c, d, s, u, f)
  PROVE  /\ st.numRows = a /\ st.sum_expect = b /\ st.sum_obs_square_over_expect = c
         /\ st.sum_obs = d /\ st.sumSquaredDeviations = s /\ st.uniformDist = u /\ st.df = f
BY DEF ChiState

\* With the kind and the degrees of freedom of others.
ChiWith(st, v, g) == [st EXCEPT !.uniformDist = v, !.df = g]

(* The kind of rows changes none of the sums.                              *)
LEMMA ChiKinds ==
  ASSUME NEW R, NEW I, NEW u, NEW f, NEW v, NEW g
  PROVE  ChiWith(ChiOf(R, I, u, f), v, g) = ChiOf(R, I, v, g)
<1> DEFINE st == ChiOf(R, I, u, f)
           s1 == [st EXCEPT !.uniformDist = v]
           s2 == [s1 EXCEPT !.df = g]
<1>1. s2 = ChiWith(st, v, g)
  BY DEF ChiWith
<1>2. PICK a, b, c, d, s : /\ \A p, q : ChiOf(R, I, p, q) = ChiState(a, b, c, d, s, p, q)
  BY DEF ChiOf
<1>3. st = ChiState(a, b, c, d, s, u, f)
  BY <1>2
<1> HIDE DEF st
<1>4. s1 = ChiState(a, b, c, d, s, v, f)
  BY <1>3 DEF ChiState
<1> HIDE DEF s1
<1>5. s2 = ChiState(a, b, c, d, s, v, g)
  BY <1>4 DEF ChiState
<1> HIDE DEF s2
<1> QED
  BY <1>1, <1>2, <1>5 DEF st

(* What another state adds to the fields of a state.                       *)
LEMMA ChiUpdated ==
  ASSUME NEW a, NEW b, NEW c, NEW d, NEW s, NEW u, NEW f, NEW st, st = ChiState(a, b, c, d, s, u, f),
         NEW r, NEW a1, NEW b1, NEW c1, NEW d1, NEW s1,
         r.numRows = a1, r.sum_expect = b1, r.sum_obs_square_over_expect = c1, r.sum_obs = d1,
         r.sumSquaredDeviations = s1
  PROVE  updateSumSquaredDeviations(st, r)
           = ChiState(a + a1, b + b1, c + c1, d + d1, s + s1 + b * c1 + c * b1 - 2 * d * d1, u, f)
<1> DEFINE t == s + s1 + b * c1 + c * b1 - 2 * d * d1
           t1 == [st EXCEPT !.numRows = @ + r.numRows]
           t2 == [t1 EXCEPT !.sum_expect = @ + r.sum_expect]
           t3 == [t2 EXCEPT !.sum_obs_square_over_expect = @ + r.sum_obs_square_over_expect]
           t4 == [t3 EXCEPT !.sum_obs = @ + r.sum_obs]
           t5 == [t4 EXCEPT !.sumSquaredDeviations = @ + r.sumSquaredDeviations
                    + st.sum_expect * r.sum_obs_square_over_expect
                    + st.sum_obs_square_over_expect * r.sum_expect
                    - 2 * st.sum_obs * r.sum_obs]
<1>1. t5 = updateSumSquaredDeviations(st, r)
  BY DEF updateSumSquaredDeviations
<1>2. st.sum_expect = b /\ st.sum_obs_square_over_expect = c /\ st.sum_obs = d
  BY DEF ChiState
<1>3. t1 = ChiState(a + a1, b, c, d, s, u, f)
  BY DEF ChiState
<1> HIDE DEF t1
<1>4. t2 = ChiState(a + a1, b + b1, c, d, s, u, f)
  BY <1>3 DEF ChiState
<1> HIDE DEF t2
<1>5. t3 = ChiState(a + a1, b + b1, c + c1, d, s, u, f)
  BY <1>4 DEF ChiState
<1> HIDE DEF t3
<1>6. t4 = ChiState(a + a1, b + b1, c + c1, d + d1, s, u, f)
  BY <1>5 DEF ChiState
<1> HIDE DEF t4
<1>7. t5 = [t4 EXCEPT !.sumSquaredDeviations = t]
  <2>1. t4.sumSquaredDeviations = s
    BY <1>6 DEF ChiState
  <2> QED
    BY <1>2, <2>1
<1> HIDE DEF t, t5
<1>8. t5 = ChiState(a + a1, b + b1, c + c1, d + d1, t, u, f)
  BY <1>6, <1>7 DEF ChiState
<1> QED
  BY <1>1, <1>8 DEF t

(* The sum of squared deviations of two sets of rows.                      *)
LEMMA Deviations ==
  ASSUME NEW b \in Int, NEW c \in Int, NEW d \in Int, NEW b1 \in Int, NEW c1 \in Int, NEW d1 \in Int
  PROVE  (b * c - d * d) + (b1 * c1 - d1 * d1) + b * c1 + c * b1 - 2 * d * d1
           = (b + b1) * (c + c1) - (d + d1) * (d + d1)
OBVIOUS

(* A row alone has no deviation.                                           *)
LEMMA DeviationsOfRow ==
  ASSUME NEW b \in Int, NEW c \in Int, NEW d \in Int, NEW b1 \in Int, NEW c1 \in Int, NEW d1 \in Int,
         b1 * c1 = d1 * d1
  PROVE  (b * c - d * d) + 0 + b * c1 + c * b1 - 2 * d * d1
           = (b + b1) * (c + c1) - (d + d1) * (d + d1)
<1>1. b1 * c1 - d1 * d1 = 0
  OBVIOUS
<1> QED
  BY <1>1, Deviations

(* The state of no rows is the initial one.                                *)
LEMMA ChiNone ==
  ASSUME NEW R
  PROVE  Chi2State = ChiOf(R, {}, FALSE, 0)
<1>1. \A e : SumOn(e, {}) = 0
  BY SumOfNone
<1>2. Cardinality({}) = 0
  BY FS_EmptySet
<1>3. SumOn(ES(R), {}) = 0 /\ SumOn(OS(R), {}) = 0 /\ SumOn(QS(R), {}) = 0
  BY <1>1
<1>4. Chi2State = ChiState(0, 0, 0, 0, 0 * 0 - 0 * 0, FALSE, 0)
  BY DEF Chi2State, ChiState
<1> QED
  BY <1>2, <1>3, <1>4 DEF ChiOf

\* What a row adds.
ChiRow(r) ==
  [numRows |-> 1, sum_expect |-> Expected(r), sum_obs |-> r.observed,
   sum_obs_square_over_expect |-> Square(r.observed) \div Expected(r),
   sumSquaredDeviations |-> 0]

(* The state of a row more is that of the rows updated by that of the row. *)
LEMMA ChiAdd ==
  ASSUME NEW R \in Seq(Row("chi2_gof_test")), NEW I \in SUBSET DOMAIN R, NEW n \in DOMAIN R, n \notin I,
         NEW J, J = I \cup {n}, NEW u, NEW f
  PROVE  updateSumSquaredDeviations(ChiOf(R, I, u, f), ChiRow(R[n])) = ChiOf(R, J, u, f)
<1> DEFINE r == ChiRow(R[n])
           e == Expected(R[n])
           o == R[n].observed
           q == QuotientOf(R[n])
           E == SumOn(ES(R), I)
           O == SumOn(OS(R), I)
           Q == SumOn(QS(R), I)
<1>1. /\ r.numRows = 1 /\ r.sum_expect = e /\ r.sum_obs = o
      /\ r.sum_obs_square_over_expect = q /\ r.sumSquaredDeviations = 0
  BY DEF ChiRow, QuotientOf
<1>2. e \in Int /\ o \in Int /\ q \in Int /\ e * q = o * o
  BY ChiRows DEF Square
<1>3. J \in SUBSET DOMAIN R /\ I \in SUBSET J /\ n \in J
  OBVIOUS
<1>4. /\ IsFiniteSet(J) /\ Numbers(ES(R), J) /\ Numbers(OS(R), J) /\ Numbers(QS(R), J)
      /\ IsFiniteSet(I) /\ E \in Int /\ O \in Int /\ Q \in Int
  BY <1>3, ChiNumbers
<1>5. ES(R)[n] = e /\ OS(R)[n] = o /\ QS(R)[n] = q
  BY DEF ES, OS, QS
<1> HIDE DEF e, o, q, r
<1>6. SumOn(ES(R), J) = e + E /\ SumOn(OS(R), J) = o + O /\ SumOn(QS(R), J) = q + Q
  BY <1>3, <1>4, <1>5, TotalAdd
<1> HIDE DEF E, O, Q
<1>7. Cardinality(J) = Cardinality(I) + 1
  BY <1>4, FS_AddElement
<1>8. updateSumSquaredDeviations(ChiOf(R, I, u, f), r)
        = ChiState(Cardinality(I) + 1, E + e, Q + q, O + o,
                   (E * Q - O * O) + 0 + E * q + Q * e - 2 * O * o, u, f)
  BY <1>1, ChiUpdated DEF ChiOf, E, O, Q
<1>9. (E * Q - O * O) + 0 + E * q + Q * e - 2 * O * o = (E + e) * (Q + q) - (O + o) * (O + o)
  BY <1>2, <1>4, DeviationsOfRow
<1>10. e + E = E + e /\ o + O = O + o /\ q + Q = Q + q
  BY <1>2, <1>4
<1>11. ChiOf(R, J, u, f) = ChiState(Cardinality(I) + 1, E + e, Q + q, O + o,
                   (E + e) * (Q + q) - (O + o) * (O + o), u, f)
  BY <1>6, <1>7, <1>10 DEF ChiOf
<1> QED
  BY <1>8, <1>9, <1>11 DEF r

(* The state of two parts of the rows is that of one updated by that of    *)
(* the other.                                                              *)
LEMMA ChiJoin ==
  ASSUME NEW R \in Seq(Row("chi2_gof_test")), NEW I \in SUBSET DOMAIN R, NEW J \in SUBSET DOMAIN R,
         I \cap J = {}, NEW K, K = I \cup J, NEW u, NEW f, NEW v, NEW g
  PROVE  updateSumSquaredDeviations(ChiOf(R, I, u, f), ChiOf(R, J, v, g)) = ChiOf(R, K, u, f)
<1> DEFINE r == ChiOf(R, J, v, g)
           E == SumOn(ES(R), I)
           O == SumOn(OS(R), I)
           Q == SumOn(QS(R), I)
           e == SumOn(ES(R), J)
           o == SumOn(OS(R), J)
           q == SumOn(QS(R), J)
<1>1. /\ r.numRows = Cardinality(J) /\ r.sum_expect = e /\ r.sum_obs = o
      /\ r.sum_obs_square_over_expect = q /\ r.sumSquaredDeviations = e * q - o * o
  BY ChiFields DEF ChiOf
<1>2. K \in SUBSET DOMAIN R /\ I \in SUBSET K /\ J \in SUBSET K
  OBVIOUS
<1>3. /\ IsFiniteSet(K) /\ Numbers(ES(R), K) /\ Numbers(OS(R), K) /\ Numbers(QS(R), K)
      /\ IsFiniteSet(I) /\ E \in Int /\ O \in Int /\ Q \in Int
      /\ IsFiniteSet(J) /\ e \in Int /\ o \in Int /\ q \in Int
      /\ Cardinality(I) \in Nat /\ Cardinality(J) \in Nat
  BY <1>2, ChiNumbers
<1>4. SumOn(ES(R), K) = E + e /\ SumOn(OS(R), K) = O + o /\ SumOn(QS(R), K) = Q + q
  BY <1>2, <1>3, TotalUnion
<1> HIDE DEF E, O, Q, e, o, q, r
<1>5. Cardinality(K) = Cardinality(I) + Cardinality(J)
  <2>1. Cardinality(I \cap J) = 0
    BY FS_EmptySet
  <2>2. Cardinality(I \cup J) = Cardinality(I) + Cardinality(J) - Cardinality(I \cap J)
    BY <1>3, FS_Union
  <2> QED
    BY <1>3, <2>1, <2>2
<1>6. updateSumSquaredDeviations(ChiOf(R, I, u, f), r)
        = ChiState(Cardinality(I) + Cardinality(J), E + e, Q + q, O + o,
                   (E * Q - O * O) + (e * q - o * o) + E * q + Q * e - 2 * O * o, u, f)
  BY <1>1, ChiUpdated DEF ChiOf, E, O, Q
<1>7. (E * Q - O * O) + (e * q - o * o) + E * q + Q * e - 2 * O * o
        = (E + e) * (Q + q) - (O + o) * (O + o)
  BY <1>3, Deviations
<1> QED
  BY <1>4, <1>5, <1>6, <1>7 DEF ChiOf, r

(* Pairs are equal where their parts are.                                  *)
LEMMA PairsEqual ==
  ASSUME NEW a, NEW b, NEW c, NEW d
  PROVE  <<a, b>> = <<c, d>> <=> a = c /\ b = d
OBVIOUS

\* The two halves of a row's transition.
ChiEnds(st, r) ==
  \/ st.numRows > 0 /\ <<Uniform(r), Degrees(r)>> # <<st.uniformDist, st.df>>
  \/ r.df # Null /\ Degrees(r) <= 0
ChiMoves(st, r) ==
  updateSumSquaredDeviations(
    ChiWith(st, Uniform(r), Degrees(r)), ChiRow(r))

(* The transition, by the kind of its row.                                 *)
LEMMA ChiTransitionIs ==
  ASSUME NEW st, NEW r
  PROVE  chi2_gof_test_transition(st, r) = IF ChiEnds(st, r) THEN Exception ELSE ChiMoves(st, r)
BY Zenon DEF chi2_gof_test_transition, ChiEnds, ChiMoves, Uniform, Degrees, ChiRow, Expected,
   ChiWith

(* The row that stands for the kind of some rows is one of them.           *)
LEMMA ChiChosen ==
  ASSUME NEW R, NEW I, I # {}
  PROVE  Chosen(I) \in I
BY DEF Chosen

(* The rows of a state that is not bad are alike.                          *)
LEMMA ChiGood ==
  ASSUME NEW R, NEW I \in SUBSET DOMAIN R, I \notin ChiBad(R)
  PROVE  /\ \A i \in I : ~(R[i].df # Null /\ R[i].df <= 0)
         /\ \A i, j \in I : Uniform(R[i]) = Uniform(R[j]) /\ Degrees(R[i]) = Degrees(R[j])
BY DEF ChiBad, Alike

(* Rows that do not end the query have one kind.                           *)
LEMMA ChiKindOf ==
  ASSUME NEW R, NEW I, NEW u, NEW f
  PROVE  ChiOf(R, I, u, f).uniformDist = u /\ ChiOf(R, I, u, f).df = f
BY ChiFields DEF ChiOf

(* The number of rows in a state is that of its rows.                      *)
LEMMA ChiNumRows ==
  ASSUME NEW R \in Seq(Row("chi2_gof_test")), NEW I \in SUBSET DOMAIN R, NEW u, NEW f
  PROVE  ChiOf(R, I, u, f).numRows = Cardinality(I) /\ Cardinality(I) \in Nat
         /\ (Cardinality(I) = 0 <=> I = {})
<1>1. ChiOf(R, I, u, f).numRows = Cardinality(I)
  BY ChiFields DEF ChiOf
<1>2. IsFiniteSet(I) /\ Cardinality(I) \in Nat
  BY ChiNumbers
<1>3. Cardinality(I) = 0 <=> I = {}
  BY <1>2, FS_EmptySet
<1> QED
  BY <1>1, <1>2, <1>3

(* What the chosen row says of a state's rows, they all say.               *)
LEMMA ChiKnown ==
  ASSUME NEW R, NEW I \in SUBSET DOMAIN R, I \notin ChiBad(R)
  PROVE  \A i \in I : /\ Uniform(R[i]) = Kind(R, I) /\ Degrees(R[i]) = Degree(R, I)
                      /\ ~(R[i].df # Null /\ R[i].df <= 0)
<1> SUFFICES ASSUME NEW i \in I
             PROVE  /\ Uniform(R[i]) = Kind(R, I) /\ Degrees(R[i]) = Degree(R, I)
                    /\ ~(R[i].df # Null /\ R[i].df <= 0)
  OBVIOUS
<1>1. Chosen(I) \in I
  BY ChiChosen
<1>2. Kind(R, I) = Uniform(R[Chosen(I)]) /\ Degree(R, I) = Degrees(R[Chosen(I)])
  BY DEF Kind, Degree
<1> QED
  BY <1>1, <1>2, ChiGood

(* A row turns the state of others into that of all, or ends the query     *)
(* where it is of another kind.                                            *)
LEMMA ChiReads ==
  ASSUME NEW R \in Seq(Row("chi2_gof_test")), NEW I \in SUBSET DOMAIN R, I \notin ChiBad(R),
         NEW n \in DOMAIN R, n \notin I
  PROVE  Adds(ChiV(R), ChiBad(R), I, n, chi2_gof_test_transition(ChiV(R)[I], R[n]))
<1> DEFINE u == Kind(R, I)
           f == Degree(R, I)
           st == ChiOf(R, I, u, f)
           r == R[n]
           J == I \cup {n}
<1>1. ChiV(R)[I] = st
  BY DEF ChiV
<1>2. \A i \in I : Uniform(R[i]) = u /\ Degrees(R[i]) = f /\ ~(R[i].df # Null /\ R[i].df <= 0)
  BY ChiKnown
<1> HIDE DEF u, f
<1>3. (st.numRows > 0 <=> I # {}) /\ st.uniformDist = u /\ st.df = f
  <2>1. st.numRows = Cardinality(I) /\ Cardinality(I) \in Nat /\ (Cardinality(I) = 0 <=> I = {})
    BY ChiNumRows
  <2>2. st.uniformDist = u /\ st.df = f
    BY ChiKindOf
  <2> HIDE DEF st
  <2> QED
    BY <2>1, <2>2
<1> HIDE DEF st, J
<1>4. J \in SUBSET DOMAIN R /\ n \in J
  BY DEF J
<1>5. ChiEnds(st, r) <=> J \in ChiBad(R)
  <2>2. r.df # Null => Degrees(r) = r.df
    BY DEF Degrees
  <2>3. ChiEnds(st, r) <=> \/ I # {} /\ ~(Uniform(r) = u /\ Degrees(r) = f)
                           \/ r.df # Null /\ r.df <= 0
    BY <1>3, <2>2, PairsEqual DEF ChiEnds
  <2>4. I # {} /\ ~(Uniform(r) = u /\ Degrees(r) = f) <=> \E i \in I : ~Alike(R[i], r)
    BY <1>2 DEF Alike
  <2>5. J \in ChiBad(R) <=> \/ \E i \in I : ~Alike(R[i], r)
                            \/ r.df # Null /\ r.df <= 0
    <3>1. \A i, j \in I : Alike(R[i], R[j])
      BY <1>2 DEF Alike
    <3>2. \A i : Alike(R[i], r) <=> Alike(r, R[i])
      BY DEF Alike
    <3>3. Alike(r, r)
      BY DEF Alike
    <3>4. J \in ChiBad(R) <=> \/ \E i \in J : R[i].df # Null /\ R[i].df <= 0
                              \/ \E i, j \in J : ~Alike(R[i], R[j])
      BY <1>4 DEF ChiBad
    <3>5. \A i : i \in J <=> i \in I \/ i = n
      BY DEF J
    <3> QED
      BY <1>2, <3>1, <3>2, <3>3, <3>4, <3>5
  <2> QED
    BY <2>3, <2>4, <2>5
<1>6. J \notin ChiBad(R) => ChiMoves(st, r) = ChiV(R)[J]
  <2> SUFFICES ASSUME J \notin ChiBad(R) PROVE ChiMoves(st, r) = ChiV(R)[J]
    OBVIOUS
  <2> DEFINE v == Uniform(r)
             g == Degrees(r)
  <2> HIDE DEF v, g
  <2>1. ChiWith(st, v, g) = ChiOf(R, I, v, g)
    BY ChiKinds DEF st
  <2>2. updateSumSquaredDeviations(ChiOf(R, I, v, g), ChiRow(R[n])) = ChiOf(R, J, v, g)
    BY ChiAdd DEF J
  <2>3. ChiMoves(st, r) = ChiOf(R, J, v, g)
    BY <2>1, <2>2 DEF ChiMoves, v, g
  <2>4. ChiV(R)[J] = ChiOf(R, J, Kind(R, J), Degree(R, J))
    BY <1>4 DEF ChiV
  <2>5. Kind(R, J) = v /\ Degree(R, J) = g
    BY <1>4, ChiKnown DEF v, g
  <2> QED
    BY <2>3, <2>4, <2>5
<1> QED
  BY <1>1, <1>5, <1>6, ChiTransitionIs DEF Adds, J

\* The two halves of a merge.
ChiTaken(left, right) ==
  IF left.numRows = 0 THEN ChiWith(left, right.uniformDist, right.df) ELSE left
ChiDiffer(left, right) ==
  <<left.uniformDist, left.df>> # <<right.uniformDist, right.df>> /\ right.numRows > 0

(* The merge, by the kinds of its states.                                  *)
LEMMA ChiMergeIs ==
  ASSUME NEW left, NEW right, NEW taken, taken = ChiTaken(left, right)
  PROVE  chi2_gof_test_merge_states(left, right) =
           IF ChiDiffer(taken, right) THEN Exception ELSE updateSumSquaredDeviations(taken, right)
BY Zenon DEF chi2_gof_test_merge_states, ChiTaken, ChiDiffer, ChiWith

(* A merge makes one state of the rows of two, or ends the query where     *)
(* their kinds differ.                                                     *)
LEMMA ChiMerges ==
  ASSUME NEW R \in Seq(Row("chi2_gof_test")),
         NEW I \in SUBSET DOMAIN R, I \notin ChiBad(R),
         NEW J \in SUBSET DOMAIN R, J \notin ChiBad(R), I \cap J = {}
  PROVE  Joins(ChiV(R), ChiBad(R), I, J, chi2_gof_test_merge_states(ChiV(R)[I], ChiV(R)[J]))
<1> DEFINE u == Kind(R, I)
           f == Degree(R, I)
           v == Kind(R, J)
           g == Degree(R, J)
           left == ChiOf(R, I, u, f)
           right == ChiOf(R, J, v, g)
           taken == ChiTaken(left, right)
           a == IF I = {} THEN v ELSE u
           b == IF I = {} THEN g ELSE f
           K == I \cup J
<1>1. ChiV(R)[I] = left /\ ChiV(R)[J] = right
  BY DEF ChiV
<1>2. /\ \A i \in I : Uniform(R[i]) = u /\ Degrees(R[i]) = f /\ ~(R[i].df # Null /\ R[i].df <= 0)
      /\ \A j \in J : Uniform(R[j]) = v /\ Degrees(R[j]) = g /\ ~(R[j].df # Null /\ R[j].df <= 0)
  BY ChiKnown
<1> HIDE DEF u, f, v, g
<1>3. /\ (left.numRows = 0 <=> I = {})
      /\ (right.numRows > 0 <=> J # {}) /\ right.uniformDist = v /\ right.df = g
  <2>1. left.numRows = Cardinality(I) /\ Cardinality(I) \in Nat /\ (Cardinality(I) = 0 <=> I = {})
    BY ChiNumRows
  <2>2. right.numRows = Cardinality(J) /\ Cardinality(J) \in Nat /\ (Cardinality(J) = 0 <=> J = {})
    BY ChiNumRows
  <2>3. right.uniformDist = v /\ right.df = g
    BY ChiKindOf
  <2> HIDE DEF left, right
  <2> QED
    BY <2>1, <2>2, <2>3
<1>4. ChiWith(left, v, g) = ChiOf(R, I, v, g)
  BY ChiKinds
<1>5. taken = ChiOf(R, I, a, b)
  <2> HIDE DEF right
  <2>1. taken = IF I = {} THEN ChiWith(left, v, g) ELSE left
    BY <1>3 DEF ChiTaken
  <2> HIDE DEF taken
  <2> QED
    BY <1>4, <2>1
<1> HIDE DEF a, b
<1>6. taken.uniformDist = a /\ taken.df = b
  BY <1>5, ChiKindOf
<1> HIDE DEF left, right, taken, K
<1>7. ChiDiffer(taken, right) <=> J # {} /\ ~(a = v /\ b = g)
  BY <1>3, <1>6, PairsEqual DEF ChiDiffer
<1>8. K \in SUBSET DOMAIN R
  BY DEF K
<1>10. \A k : k \in K <=> k \in I \/ k \in J
  BY DEF K
<1>11. K \in ChiBad(R) <=> I # {} /\ J # {} /\ ~(u = v /\ f = g)
  <2>1. K \in ChiBad(R) <=> \/ \E i \in K : R[i].df # Null /\ R[i].df <= 0
                            \/ \E i, j \in K : ~Alike(R[i], R[j])
    BY <1>8 DEF ChiBad
  <2>2. ~\E i \in K : R[i].df # Null /\ R[i].df <= 0
    BY <1>2, <1>10
  <2>3. (\E i, j \in K : ~Alike(R[i], R[j])) <=> I # {} /\ J # {} /\ ~(u = v /\ f = g)
    BY <1>2, <1>10 DEF Alike
  <2> QED
    BY <2>1, <2>2, <2>3
<1>12. K \in ChiBad(R) <=> ChiDiffer(taken, right)
  BY <1>7, <1>11 DEF a, b
<1>13. K \notin ChiBad(R) => updateSumSquaredDeviations(taken, right) = ChiV(R)[K]
  <2> SUFFICES ASSUME K \notin ChiBad(R)
               PROVE  updateSumSquaredDeviations(taken, right) = ChiV(R)[K]
    OBVIOUS
  <2>1. updateSumSquaredDeviations(taken, right) = ChiOf(R, K, a, b)
    BY <1>5, ChiJoin DEF K, right
  <2>2. ChiV(R)[K] = ChiOf(R, K, Kind(R, K), Degree(R, K))
    BY <1>8 DEF ChiV
  <2>3. Kind(R, K) = a /\ Degree(R, K) = b
    <3>1. CASE K = {}
      <4>1. I = {} /\ J = {}
        BY <1>10, <3>1
      <4>2. v = FALSE /\ g = 0 /\ Kind(R, K) = FALSE /\ Degree(R, K) = 0
        BY <3>1, <4>1 DEF v, g, Kind, Degree
      <4> QED
        BY <4>1, <4>2 DEF a, b
    <3>2. ASSUME NEW k \in K
          PROVE  Kind(R, K) = a /\ Degree(R, K) = b
      <4>1. Uniform(R[k]) = Kind(R, K) /\ Degrees(R[k]) = Degree(R, K)
        BY <1>8, ChiKnown
      <4>2. CASE k \in I
        BY <1>2, <4>1, <4>2 DEF a, b
      <4>3. CASE k \in J
        BY <1>2, <1>11, <4>1, <4>3 DEF a, b
      <4> QED
        BY <1>10, <4>2, <4>3
    <3> QED
      BY <3>1, <3>2
  <2> QED
    BY <2>1, <2>2, <2>3
<1> QED
  BY <1>1, <1>12, <1>13, ChiMergeIs DEF Joins, K, taken

ChiInv == job.test = "chi2_gof_test" => ScanKept(ChiV(job.rows), ChiBad(job.rows))

(* The chi-squared test is a scan.                                         *)
LEMMA ChiIsScanned ==
  "chi2_gof_test" \in Tests \ Optimizers /\ "chi2_gof_test" \notin TTests
BY DEF Tests, TTests, Optimizers

(* A state of the chi-squared test is no NULL, no exception and no missing *)
(* result.                                                                 *)
LEMMA ChiNoMark ==
  ASSUME MarksAreNoRecords, NEW a, NEW b, NEW c, NEW d, NEW s, NEW u, NEW f
  PROVE  ChiState(a, b, c, d, s, u, f) \notin {Null, Exception, Pending}
<1>1. "numRows" \in DOMAIN ChiState(a, b, c, d, s, u, f)
  BY DEF ChiState
<1> QED
  BY <1>1 DEF MarksAreNoRecords

(* The states are those of no rows at first.                               *)
LEMMA ChiInit == Init \/ NoQuery => ChiInv
<1>1. NoQuery => ChiInv
  BY NoQueryScans, ChiIsScanned DEF ChiInv
<1>2. ASSUME Init, job.test = "chi2_gof_test" PROVE ChiInv
  <2>1. Initial(job.test) = Chi2State
    BY <1>2, ChiIsScanned DEF Initial
  <2>2. ChiV(job.rows)[{}] = Chi2State
    BY ChiNone DEF ChiV, Kind, Degree
  <2>3. {} \notin ChiBad(job.rows)
    BY DEF ChiBad
  <2> QED
    BY <1>2, <2>1, <2>2, <2>3, ChiIsScanned, KeptFromTheStart DEF ChiInv
<1> QED
  BY <1>1, <1>2 DEF ChiInv

\* What is returned, of the sums.
ChiResult(st) ==
  [numRows |-> st.numRows, sum_obs |-> st.sum_obs,
   sumSquaredDeviations |-> st.sumSquaredDeviations,
   df |-> IF st.df < 0 THEN st.numRows - 1 ELSE st.df]

(* Every step leaves the states those of their rows, or ends the query as  *)
(* these say.                                                              *)
LEMMA ChiNext ==
  ASSUME MarksAreNoRecords, ScanInv, ChiInv, Next
  PROVE  ChiInv'
<1> SUFFICES ASSUME job'.test = "chi2_gof_test" PROVE ChiInv'
  BY DEF ChiInv
<1>0. PICK R : R = job.rows
  OBVIOUS
<1> DEFINE D == DOMAIN R
           V == ChiV(R)
           B == ChiBad(R)
<1>1. job' = job /\ job.test = "chi2_gof_test" /\ ScanKept(V, B)
  BY <1>0, ScanNext DEF ChiInv
<1>2. R \in Seq(Row("chi2_gof_test")) /\ job.test \in Tests \ Optimizers
  BY <1>0, <1>1, ChiIsScanned, JobsAre DEF ScanInv, JobOf
<1>3. \A st, r, k : Transition(job.test, st, r, k) = chi2_gof_test_transition(st, r)
  BY <1>1, ChiIsScanned DEF Transition
<1>4. \A a, b : Merge(job.test, a, b) = chi2_gof_test_merge_states(a, b)
  BY <1>1, ChiIsScanned DEF Merge
<1>5. \A st : Final(job.test, st) = chi2_gof_test_final(st)
  BY <1>1, ChiIsScanned DEF Final
<1>6. Unmarked(V, D)
  BY ChiNoMark DEF ChiV, ChiOf, Unmarked
<1>7. Lasting(B, D)
  BY DEF ChiBad, Lasting
<1> HIDE DEF V, B, D
<1>8. Final(job.test, V[D]) # Pending
  <2> DEFINE st == V[D]
  <2> HIDE DEF st
  <2>1. "numRows" \in DOMAIN ChiResult(st)
    BY DEF ChiResult
  <2>2. chi2_gof_test_final(st) = IF st.numRows = 0 THEN Null ELSE ChiResult(st)
    BY Zenon DEF chi2_gof_test_final, ChiResult
  <2>3. ChiResult(st) # Pending
    BY <2>1 DEF MarksAreNoRecords
  <2> QED
    BY <1>5, <2>2, <2>3, ConstantsAre DEF st
<1>9. ASSUME NEW I \in SUBSET D, NEW n \in D, I \notin B, n \notin I
      PROVE  Adds(V, B, I, n, Transition(job.test, V[I], R[n], n))
  <2>1. Adds(V, B, I, n, chi2_gof_test_transition(V[I], R[n]))
    BY <1>2, <1>9, ChiReads DEF V, B, D
  <2> QED
    BY <1>3, <2>1
<1>10. ASSUME NEW I \in SUBSET D, NEW J \in SUBSET D, I \notin B, J \notin B, I \cap J = {}
       PROVE  Joins(V, B, I, J, Merge(job.test, V[I], V[J]))
  <2>1. Joins(V, B, I, J, chi2_gof_test_merge_states(V[I], V[J]))
    BY <1>2, <1>10, ChiMerges DEF V, B, D
  <2> QED
    BY <1>4, <2>1
<1>11. AddsRows(V, B, D)
  BY <1>0, <1>9 DEF AddsRows
<1>12. JoinsRows(V, B, D)
  BY <1>10 DEF JoinsRows
<1>13. ScanKept(V, B)'
  <2>1. D = DOMAIN job.rows
    BY <1>0 DEF D
  <2> QED
    BY <1>1, <1>2, <1>6, <1>7, <1>8, <1>11, <1>12, <2>1, KeptByASpread
<1> QED
  BY <1>0, <1>1, <1>13 DEF ChiInv, V, B

(* What a row contributes to the statistic.                                *)
Contributes(e, o, q, E, O, a, b, c) ==
  Square(o * E - O * e) \div e = a * q + b * o + c * e

(* What a row adds to the sum of squared deviations of all rows.           *)
LEMMA Contribution ==
  ASSUME NEW e \in Nat \ {0}, NEW o \in Int, NEW q \in Int, o * o = e * q, NEW E \in Int, NEW O \in Int,
         NEW a, a = E * E, NEW b, b = -2 * (E * O), NEW c, c = O * O
  PROVE  Contributes(e, o, q, E, O, a, b, c)
<1> DEFINE p == a * q + b * o + c * e
           z == o * E - O * e
<1>1. p \in Int /\ z \in Int
  OBVIOUS
<1>2. z * z = (o * o) * (E * E) - 2 * (E * O) * o * e + (O * O) * (e * e)
  OBVIOUS
<1>3. e * p = (e * q) * (E * E) - 2 * (E * O) * o * e + (O * O) * (e * e)
  OBVIOUS
<1>4. z * z = e * p
  BY <1>2, <1>3
<1> HIDE DEF p, z
<1>5. (e * p) \div e = p
  BY <1>1
<1>6. Square(z) \div e = p
  BY <1>4, <1>5 DEF Square
<1> QED
  BY <1>6 DEF p, z, Contributes

\* What the property says, with the sums by name.
ChiMixed(R) ==
  \/ ~Constant(R, LAMBDA r : <<r.expected = Null, r.df = Null>>)
  \/ \E i, j \in DOMAIN R : Null \notin {R[i].df, R[j].df} /\ R[i].df # R[j].df
ChiNoDegree(R) == \E i \in DOMAIN R : R[i].df # Null /\ R[i].df <= 0
ChiDeviation(R) ==
  Field(R, LAMBDA r : Square(r.observed * SumOn(ES(R), DOMAIN R)
                             - SumOn(OS(R), DOMAIN R) * Expected(r)) \div Expected(r))
ChiAnswers(R) ==
  IF R = << >> THEN result = Null
  ELSE IF ChiMixed(R) \/ ChiNoDegree(R) THEN result = Exception
  ELSE /\ result \notin {Null, Exception}
       /\ result.numRows = Len(R) /\ result.sum_obs = SumOn(OS(R), DOMAIN R)
       /\ result.df = IF R[1].df = Null THEN Len(R) - 1 ELSE R[1].df
       /\ SumOn(ES(R), DOMAIN R) * result.sumSquaredDeviations = ChiDeviation(R)

(* The property, with its sums by name.                                    *)
LEMMA ChiPropertyIs ==
  ASSUME Ended({"chi2_gof_test"}) => ChiAnswers(rows)
  PROVE  ChiSquaredIsOfRows
<1> SUFFICES ASSUME Ended({"chi2_gof_test"}) PROVE ChiSquaredIsOfRows
  BY DEF ChiSquaredIsOfRows
<1> DEFINE e(r) == IF r.expected = Null THEN 1 ELSE r.expected
           E == Field(rows, e)
           O == Field(rows, LAMBDA r : r.observed)
<1>1. E = SumOn(ES(rows), DOMAIN rows) /\ O = SumOn(OS(rows), DOMAIN rows)
  BY DEF Field, TotalOf, SumOn, ES, OS, Expected
<1>2. ChiDeviation(rows) = Field(rows, LAMBDA r : Square(r.observed * E - O * e(r)) \div e(r))
  <2> HIDE DEF E, O
  <2> QED
    BY <1>1 DEF ChiDeviation, Field, Expected
<1> QED
  BY Zenon, <1>1, <1>2 DEF ChiSquaredIsOfRows, ChiAnswers, ChiMixed, ChiNoDegree

(* The sum of squares that the states keep is that of the deviations.      *)
LEMMA ChiDeviationIs ==
  ASSUME NEW R \in Seq(Row("chi2_gof_test"))
  PROVE  SumOn(ES(R), DOMAIN R)
           * (SumOn(ES(R), DOMAIN R) * SumOn(QS(R), DOMAIN R)
                - SumOn(OS(R), DOMAIN R) * SumOn(OS(R), DOMAIN R))
         = ChiDeviation(R)
<1> DEFINE D == DOMAIN R
           E == SumOn(ES(R), D)
           O == SumOn(OS(R), D)
           Q == SumOn(QS(R), D)
           t == [k \in D |-> Square(R[k].observed * E - O * Expected(R[k])) \div Expected(R[k])]
           a == E * E
           b == -2 * (E * O)
           c == O * O
<1>1. D \in SUBSET DOMAIN R
  OBVIOUS
<1>2. /\ IsFiniteSet(D) /\ Numbers(ES(R), D) /\ Numbers(OS(R), D) /\ Numbers(QS(R), D)
      /\ E \in Int /\ O \in Int /\ Q \in Int
  BY <1>1, ChiNumbers
<1>3. ChiDeviation(R) = SumOn(t, D)
  BY DEF ChiDeviation, Field, TotalOf, SumOn
<1> HIDE DEF E, O, Q
<1>4. \A k \in D : t[k] = a * QS(R)[k] + b * OS(R)[k] + c * ES(R)[k]
  <2> SUFFICES ASSUME NEW k \in D
               PROVE  t[k] = a * QS(R)[k] + b * OS(R)[k] + c * ES(R)[k]
    OBVIOUS
  <2> DEFINE e == Expected(R[k])
             o == R[k].observed
             q == QuotientOf(R[k])
  <2>1. e \in Nat \ {0} /\ o \in Int /\ q \in Int /\ o * o = e * q
    BY ChiRows DEF Square
  <2>2. QS(R)[k] = q /\ OS(R)[k] = o /\ ES(R)[k] = e
    BY DEF QS, OS, ES
  <2>3. t[k] = Square(o * E - O * e) \div e
    OBVIOUS
  <2> HIDE DEF e, o, q, t
  <2>4. a = E * E /\ b = -2 * (E * O) /\ c = O * O
    OBVIOUS
  <2> HIDE DEF a, b, c
  <2>5. Contributes(e, o, q, E, O, a, b, c)
    BY <1>2, <2>1, <2>4, Contribution
  <2> QED
    BY <2>2, <2>3, <2>5 DEF Contributes
<1>5. a \in Int /\ b \in Int /\ c \in Int
  BY <1>2
<1> HIDE DEF t, D, a, b, c
<1>6. SumOn(t, D) = a * Q + b * O + c * E
  <2>1. SumOn(t, D) = a * SumOn(QS(R), D) + b * SumOn(OS(R), D) + c * SumOn(ES(R), D)
    <3>1. Combines(t, QS(R), OS(R), ES(R), a, b, c, D)
      BY <1>4 DEF Combines
    <3> QED
      BY <1>2, <1>5, <3>1, TotalLinear
  <2> QED
    BY <2>1 DEF E, O, Q
<1>7. E * (E * Q - O * O) = (E * E) * Q + (-2 * (E * O)) * O + (O * O) * E
  BY <1>2
<1> QED
  BY <1>3, <1>6, <1>7 DEF E, O, Q, D, a, b, c

(* The rows that end the query are those the property names.               *)
LEMMA ChiMixedIs ==
  ASSUME NEW R \in Seq(Row("chi2_gof_test"))
  PROVE  ChiMixed(R) \/ ChiNoDegree(R) <=> DOMAIN R \in ChiBad(R)
<1> DEFINE D == DOMAIN R
<1>1. \A i \in D : R[i].df = Null \/ R[i].df \in Int
  <2>1. Row("chi2_gof_test") \subseteq
          [observed: Int, expected: {Null} \cup (Nat \ {0}), df: {Null} \cup Int]
    BY DEF Row, TTests, Optimizers
  <2>2. \A i \in D : R[i] \in [observed: Int, expected: {Null} \cup (Nat \ {0}), df: {Null} \cup Int]
    BY <2>1
  <2> QED
    BY <2>2
<1>2. D \in ChiBad(R) <=> ChiNoDegree(R) \/ \E i, j \in D : ~Alike(R[i], R[j])
  BY DEF ChiBad, ChiNoDegree
<1>3. ASSUME NEW i \in D, NEW j \in D
      PROVE  <<R[i].expected = Null, R[i].df = Null>> = <<R[j].expected = Null, R[j].df = Null>>
               <=> Uniform(R[i]) = Uniform(R[j]) /\ (R[i].df = Null) = (R[j].df = Null)
  BY PairsEqual DEF Uniform
<1>4. ChiMixed(R) <=>
        \/ \E i, j \in D : ~(Uniform(R[i]) = Uniform(R[j]) /\ (R[i].df = Null) = (R[j].df = Null))
        \/ \E i, j \in D : R[i].df # Null /\ R[j].df # Null /\ R[i].df # R[j].df
  <2>1. Constant(R, LAMBDA r : <<r.expected = Null, r.df = Null>>) <=>
          \A i, j \in D : <<R[i].expected = Null, R[i].df = Null>>
                            = <<R[j].expected = Null, R[j].df = Null>>
    BY DEF Constant
  <2> QED
    BY <1>3, <2>1 DEF ChiMixed
<1>5. ASSUME ~ChiNoDegree(R), NEW i \in D, NEW j \in D
      PROVE  Alike(R[i], R[j]) <=>
               /\ Uniform(R[i]) = Uniform(R[j]) /\ (R[i].df = Null) = (R[j].df = Null)
               /\ ~(R[i].df # Null /\ R[j].df # Null /\ R[i].df # R[j].df)
  <2>1. /\ R[i].df # Null => R[i].df \in Int /\ R[i].df > 0
        /\ R[j].df # Null => R[j].df \in Int /\ R[j].df > 0
    BY <1>1, <1>5 DEF ChiNoDegree
  <2>2. Degrees(R[i]) = Degrees(R[j]) <=>
          /\ (R[i].df = Null <=> R[j].df = Null)
          /\ ~(R[i].df # Null /\ R[j].df # Null /\ R[i].df # R[j].df)
    BY <2>1 DEF Degrees
  <2> QED
    BY <2>2 DEF Alike
<1> QED
  BY <1>2, <1>4, <1>5

(* What the query returns of all rows.                                     *)
LEMMA ChiEnd ==
  ASSUME MarksAreNoRecords, NEW R, R = job.rows, R \in Seq(Row("chi2_gof_test")),
         result = IF DOMAIN R \in ChiBad(R) THEN Exception
                  ELSE chi2_gof_test_final(ChiV(R)[DOMAIN R])
  PROVE  ChiAnswers(R)
<1> DEFINE D == DOMAIN R
           E == SumOn(ES(R), D)
           O == SumOn(OS(R), D)
           Q == SumOn(QS(R), D)
           st == ChiOf(R, D, Kind(R, D), Degree(R, D))
<1>1. ChiV(R)[D] = st
  BY DEF ChiV
<1>2. /\ st.numRows = Cardinality(D) /\ st.sum_obs = O /\ st.df = Degree(R, D)
      /\ st.sumSquaredDeviations = E * Q - O * O
  BY ChiFields DEF ChiOf
<1>3. chi2_gof_test_final(st) = IF st.numRows = 0 THEN Null ELSE ChiResult(st)
  BY Zenon DEF chi2_gof_test_final, ChiResult
<1>4. D = 1..Len(R) /\ Len(R) \in Nat /\ Cardinality(D) = Len(R) /\ (R = << >> <=> Len(R) = 0)
  BY FS_Interval
<1>5. E * (E * Q - O * O) = ChiDeviation(R)
  BY ChiDeviationIs
<1> HIDE DEF st, E, O, Q
<1>6. CASE R = << >>
  <2>1. D \notin ChiBad(R)
    BY <1>4, <1>6 DEF ChiBad
  <2> QED
    BY <1>1, <1>2, <1>3, <1>4, <1>6, <2>1 DEF ChiAnswers
<1>7. CASE R # << >> /\ D \in ChiBad(R)
  <2>1. ChiMixed(R) \/ ChiNoDegree(R)
    BY <1>7, ChiMixedIs
  <2> QED
    BY <1>7, <2>1 DEF ChiAnswers
<1>8. CASE R # << >> /\ D \notin ChiBad(R)
  <2>1. ~(ChiMixed(R) \/ ChiNoDegree(R))
    BY <1>8, ChiMixedIs
  <2>2. result = ChiResult(st)
    BY <1>1, <1>2, <1>3, <1>4, <1>8
  <2>3. /\ result.numRows = st.numRows /\ result.sum_obs = st.sum_obs
        /\ result.sumSquaredDeviations = st.sumSquaredDeviations
        /\ result.df = IF st.df < 0 THEN st.numRows - 1 ELSE st.df
        /\ "numRows" \in DOMAIN result
    BY <2>2 DEF ChiResult
  <2>4. result \notin {Null, Exception}
    BY <2>3 DEF MarksAreNoRecords
  <2>5. result.df = IF R[1].df = Null THEN Len(R) - 1 ELSE R[1].df
    <3>1. 1 \in D
      BY <1>4, <1>8
    <3>2. Degrees(R[1]) = Degree(R, D) /\ ~(R[1].df # Null /\ R[1].df <= 0)
      BY <1>8, <3>1, ChiKnown
    <3>3. Degrees(R[1]) \in Int
      BY <3>1, ChiRows
    <3> QED
      BY <1>2, <1>4, <2>3, <3>2, <3>3 DEF Degrees
  <2>6. E * result.sumSquaredDeviations = ChiDeviation(R)
    BY <1>2, <1>5, <2>3
  <2> QED
    BY <1>2, <1>4, <1>8, <2>1, <2>3, <2>4, <2>5, <2>6 DEF ChiAnswers, E, O
<1> QED
  BY <1>6, <1>7, <1>8

(* What the states keep gives the property.                                *)
LEMMA ChiAnswered ==
  ASSUME MarksAreNoRecords, ScanInv, ChiInv
  PROVE  ChiSquaredIsOfRows
<1> SUFFICES ASSUME Ended({"chi2_gof_test"}) PROVE ChiAnswers(rows)
  BY ChiPropertyIs
<1>1. job.test = "chi2_gof_test" /\ result # Pending
  BY DEF Ended
<1>2. rows \in Seq(Row("chi2_gof_test"))
  BY <1>1, ChiIsScanned, JobsAre DEF ScanInv, JobOf, rows
<1>3. \A st : Final(job.test, st) = chi2_gof_test_final(st)
  BY <1>1, ChiIsScanned DEF Final
<1>4. ScanKept(ChiV(rows), ChiBad(rows))
  BY <1>1 DEF ChiInv, rows
<1>5. result = IF DOMAIN rows \in ChiBad(rows) THEN Exception
               ELSE chi2_gof_test_final(ChiV(rows)[DOMAIN rows])
  BY <1>1, <1>3, <1>4 DEF ScanKept, rows
<1> QED
  BY <1>2, <1>5, ChiEnd DEF rows

(* chi_squared_test.cpp: no row and no segment can compute the sum of      *)
(* squared deviations alone, and it is that of all rows in the end.        *)
THEOREM ChiSquared ==
  ASSUME MarksAreNoRecords
  PROVE  SessionSpec => []ChiSquaredIsOfRows
<1>1. SessionInit => ChiInv
  BY SessionStarts, ChiInit
<1>2. ScanInv /\ ChiInv /\ [Next]_vars => ChiInv'
  <2>1. ASSUME ChiInv, UNCHANGED vars PROVE ChiInv'
    <3>1. PICK R : R = job.rows
      OBVIOUS
    <3>2. job' = job
      BY <2>1 DEF vars
    <3> QED
      BY <2>1, <3>1, <3>2, KeptStays DEF ChiInv
  <2> QED
    BY <2>1, ChiNext
<1>3. ScanInv /\ ChiInv => ChiSquaredIsOfRows
  BY ChiAnswered
<1> QED
  BY <1>1, <1>2, <1>3, SessionScans, PTL DEF SessionSpec

-----------------------------------------------------------------------------
(* Tests of means and of variances.                                        *)
Css(n, s, q) == (Scale * (n * q - s * s)) \div n
Mom(n, s, c) == [n |-> n, sum |-> s, css |-> c]

VS(R) == [k \in DOMAIN R |-> R[k].value]
VQ(R) == [k \in DOMAIN R |-> Square(R[k].value)]
MomOf(R, I) ==
  IF I = {} THEN NoRows
  ELSE Mom(Cardinality(I), SumOn(VS(R), I), Css(Cardinality(I), SumOn(VS(R), I), SumOn(VQ(R), I)))

\* Scale is a multiple of what two parts of the rows divide by.
Divides(l, r) == Scale % (l * r * (l + r)) = 0

(* A product is divided by one of its factors.                             *)
LEMMA ExactQuotient ==
  ASSUME NEW k \in Nat \ {0}, NEW z \in Int
  PROVE  (k * z) \div k = z
OBVIOUS

(* A multiple of the divisor is divided without a remainder.               *)
LEMMA CssIs ==
  ASSUME NEW n \in Nat \ {0}, NEW c \in Int, NEW z \in Int, NEW S \in Int, S = n * c
  PROVE  (S * z) \div n = c * z
<1> DEFINE y == c * z
<1>1. y \in Int
  OBVIOUS
<1>2. S * z = n * y
  OBVIOUS
<1> HIDE DEF y
<1>3. (n * y) \div n = y
  BY <1>1, ExactQuotient
<1> QED
  BY <1>2, <1>3 DEF y

\* Between two parts, the squares of the distances grow by the third number.
Between(l, r, a, b) == (Scale * Square(r * a - l * b)) \div (l * r * (l + r))

CssJoins(l, r, a, b, p, q) ==
  Css(r, b, q) + (Css(l, a, p) + Between(l, r, a, b)) = Css(l + r, a + b, p + q)

(* The sums of squared deviations of two parts, and the distance of their  *)
(* means, make up that of all.                                             *)
LEMMA CssJoined ==
  ASSUME NEW l \in Nat \ {0}, NEW r \in Nat \ {0}, NEW a \in Int, NEW b \in Int,
         NEW p \in Int, NEW q \in Int, Divides(l, r)
  PROVE  CssJoins(l, r, a, b, p, q)
<1> DEFINE k == l * r * (l + r)
           m == Scale \div k
           u == l * p - a * a
           v == r * q - b * b
           w == (r * a - l * b) * (r * a - l * b)
           x == (l + r) * (p + q) - (a + b) * (a + b)
           L == r * (l + r) * m
           R == l * (l + r) * m
           X == l * r * m
<1>1. Scale \in Nat \ {0}
  BY TestsAssumption DEF TestsAssumption
<1>2. k \in Nat \ {0} /\ l + r \in Nat \ {0}
  <2>1. l * r \in Nat \ {0} /\ l + r \in Nat \ {0}
    OBVIOUS
  <2> DEFINE i == l * r
             j == l + r
  <2>2. i * j \in Nat \ {0}
    <3> HIDE DEF i, j
    <3>1. i \in Nat \ {0} /\ j \in Nat \ {0}
      BY <2>1 DEF i, j
    <3> QED
      BY <3>1
  <2> QED
    BY <2>1, <2>2
<1>3. m \in Int /\ Scale = k * m
  <2> HIDE DEF k
  <2> QED
    BY <1>1, <1>2 DEF Divides, k
<1>4. L \in Int /\ R \in Int /\ X \in Int /\ u \in Int /\ v \in Int /\ w \in Int /\ x \in Int
  <2>1. m \in Int
    BY <1>3
  <2> HIDE DEF m
  <2> QED
    BY <2>1
<1>5. Scale = l * L /\ Scale = r * R /\ Scale = (l + r) * X
  <2>1. m \in Int /\ Scale = k * m
    BY <1>3
  <2> HIDE DEF m
  <2> QED
    BY <2>1
<1>6. r * (l + r) * u + l * (l + r) * v + w = l * r * x
  OBVIOUS
<1>7. L * u + R * v + m * w = X * x
  <2>1. m \in Int
    BY <1>3
  <2> HIDE DEF m
  <2>2. L * u + R * v + m * w = m * (r * (l + r) * u + l * (l + r) * v + w)
    BY <2>1
  <2>3. X * x = m * (l * r * x)
    BY <2>1
  <2> QED
    BY <1>6, <2>2, <2>3
<1> HIDE DEF k, m, u, v, w, x, L, R, X
<1>8. (Scale * u) \div l = L * u /\ (Scale * v) \div r = R * v /\ (Scale * x) \div (l + r) = X * x
  BY <1>1, <1>2, <1>4, <1>5, CssIs
<1>9. (Scale * w) \div k = m * w
  BY <1>1, <1>2, <1>3, <1>4, CssIs
<1>10. R * v + (L * u + m * w) = X * x
  BY <1>3, <1>4, <1>7
<1>11. Css(l, a, p) = L * u /\ Css(r, b, q) = R * v /\ Css(l + r, a + b, p + q) = X * x
  BY <1>8 DEF Css, u, v, x
<1>12. Between(l, r, a, b) = m * w
  BY <1>9 DEF Between, Square, w, k
<1> QED
  BY <1>10, <1>11, <1>12 DEF CssJoins

\* Rows with a value, few enough for Scale.
Samples(R) ==
  Len(R) \in Nat /\ DOMAIN R = 1..Len(R) /\ \A k \in DOMAIN R : R[k].value \in Int
ScaleServes(R) == \A l, r \in 1..Len(R) : l + r <= Len(R) => Divides(l, r)

(* The fields of the moments of some rows.                                 *)
LEMMA MomFields ==
  ASSUME NEW n, NEW s, NEW c
  PROVE  Mom(n, s, c).n = n /\ Mom(n, s, c).sum = s /\ Mom(n, s, c).css = c
BY DEF Mom

(* What is summed up are numbers.                                          *)
LEMMA MomNumbers ==
  ASSUME NEW R, Samples(R), NEW I \in SUBSET DOMAIN R
  PROVE  /\ IsFiniteSet(I) /\ Numbers(VS(R), I) /\ Numbers(VQ(R), I)
         /\ SumOn(VS(R), I) \in Int /\ SumOn(VQ(R), I) \in Int
         /\ Cardinality(I) \in Nat /\ (I # {} => Cardinality(I) \in Nat \ {0})
<1>1. IsFiniteSet(I)
  <2>1. IsFiniteSet(DOMAIN R)
    BY FS_Interval DEF Samples
  <2> QED
    BY <2>1, FS_Subset
<1>2. \A k \in DOMAIN R : R[k].value \in Int /\ Square(R[k].value) \in Int
  <2>1. \A x \in Int : Square(x) \in Int
    BY DEF Square
  <2> QED
    BY <2>1 DEF Samples
<1>3. Numbers(VS(R), I) /\ Numbers(VQ(R), I)
  BY <1>2 DEF Numbers, VS, VQ
<1>4. Cardinality(I) \in Nat /\ (I # {} => Cardinality(I) # 0)
  BY <1>1, FS_CardinalityType, FS_EmptySet
<1> QED
  BY <1>1, <1>3, <1>4, TotalIsInt

(* A sum of squared deviations is a number.                                *)
LEMMA CssIsInt ==
  ASSUME NEW n \in Nat \ {0}, NEW s \in Int, NEW q \in Int
  PROVE  Css(n, s, q) \in Int
<1> DEFINE z == Scale * (n * q - s * s)
<1>1. z \in Int
  BY TestsAssumption DEF TestsAssumption
<1> HIDE DEF z
<1>2. z \div n \in Int
  BY <1>1
<1> QED
  BY <1>2 DEF Css, z

(* updateCorrectedSumOfSquares makes the moments of all rows of those of   *)
(* two parts.                                                              *)
LEMMA MomUnion ==
  ASSUME NEW R, Samples(R), ScaleServes(R), NEW I \in SUBSET DOMAIN R, NEW J \in SUBSET DOMAIN R, I \cap J = {}
  PROVE  updateCorrectedSumOfSquares(MomOf(R, I), MomOf(R, J)) = MomOf(R, I \cup J)
<1> DEFINE l == Cardinality(I)
           r == Cardinality(J)
           a == SumOn(VS(R), I)
           b == SumOn(VS(R), J)
           p == SumOn(VQ(R), I)
           q == SumOn(VQ(R), J)
<1>1. /\ IsFiniteSet(I) /\ a \in Int /\ p \in Int /\ l \in Nat /\ (I # {} => l \in Nat \ {0})
      /\ IsFiniteSet(J) /\ b \in Int /\ q \in Int /\ r \in Nat /\ (J # {} => r \in Nat \ {0})
  BY MomNumbers
<1>2. MomOf(R, I) = (IF I = {} THEN NoRows ELSE Mom(l, a, Css(l, a, p)))
      /\ MomOf(R, J) = (IF J = {} THEN NoRows ELSE Mom(r, b, Css(r, b, q)))
  BY DEF MomOf
<1>3. NoRows.n = 0 /\ NoRows.sum = 0 /\ NoRows.css = 0
  BY DEF NoRows
<1>4. CASE J = {}
  <2>1. I \cup J = I /\ MomOf(R, J) = NoRows
    BY <1>2, <1>4
  <2> QED
    BY <1>3, <2>1 DEF updateCorrectedSumOfSquares
<1>5. CASE J # {} /\ I = {}
  <2>1. I \cup J = J
    BY <1>5
  <2> DEFINE c == Css(r, b, q)
             y == Mom(r, b, c)
  <2>2. c \in Int /\ r \in Nat \ {0} /\ b \in Int
    BY <1>1, <1>5, CssIsInt
  <2>3. MomOf(R, I) = NoRows /\ MomOf(R, J) = y /\ MomOf(R, I \cup J) = y
    BY <1>2, <1>5, <2>1
  <2> HIDE DEF c
  <2>4. y.n = r /\ y.sum = b /\ y.css = c
    BY MomFields
  <2>5. updateCorrectedSumOfSquares(NoRows, y) = Mom(NoRows.n + y.n, NoRows.sum + y.sum, y.css + 0)
    <3> HIDE DEF y, r
    <3> QED
      BY <1>3, <2>2, <2>4 DEF updateCorrectedSumOfSquares, Mom
  <2>6. NoRows.n + y.n = r /\ NoRows.sum + y.sum = b /\ y.css + 0 = c
    <3> HIDE DEF y, r, b
    <3> QED
      BY <1>3, <2>2, <2>4
  <2> QED
    BY <2>3, <2>5, <2>6
<1>6. CASE J # {} /\ I # {}
  <2>1. l \in Nat \ {0} /\ r \in Nat \ {0}
    BY <1>1, <1>6
  <2>2. Cardinality(I \cup J) = l + r
    BY <1>1, FS_Union, FS_EmptySet
  <2>3. SumOn(VS(R), I \cup J) = a + b /\ SumOn(VQ(R), I \cup J) = p + q
    <3>1. I \cup J \in SUBSET DOMAIN R /\ I \in SUBSET (I \cup J) /\ J \in SUBSET (I \cup J)
      OBVIOUS
    <3>2. IsFiniteSet(I \cup J) /\ Numbers(VS(R), I \cup J) /\ Numbers(VQ(R), I \cup J)
      BY <3>1, MomNumbers
    <3> QED
      BY <3>1, <3>2, TotalUnion
  <2>4. Divides(l, r)
    <3>1. I \cup J \subseteq DOMAIN R /\ DOMAIN R = 1..Len(R) /\ Len(R) \in Nat
      BY DEF Samples
    <3>2. IsFiniteSet(1..Len(R)) /\ Cardinality(1..Len(R)) = Len(R)
      BY <3>1, FS_Interval
    <3>3. l + r <= Len(R)
      BY <2>2, <3>1, <3>2, FS_Subset
    <3> HIDE DEF l, r
    <3>4. l \in 1..Len(R) /\ r \in 1..Len(R)
      BY <2>1, <3>1, <3>3
    <3> QED
      BY <3>3, <3>4 DEF ScaleServes
  <2> HIDE DEF l, r, a, b, p, q
  <2>5. Css(r, b, q) + (Css(l, a, p) + Between(l, r, a, b)) = Css(l + r, a + b, p + q)
    <3>1. CssJoins(l, r, a, b, p, q)
      BY <1>1, <2>1, <2>4, CssJoined
    <3> QED
      BY <3>1 DEF CssJoins
  <2> DEFINE x == Mom(l, a, Css(l, a, p))
             y == Mom(r, b, Css(r, b, q))
  <2>6. MomOf(R, I) = x /\ MomOf(R, J) = y
    BY <1>2, <1>6
  <2>7. /\ x.n = l /\ x.sum = a /\ x.css = Css(l, a, p)
        /\ y.n = r /\ y.sum = b /\ y.css = Css(r, b, q)
    BY MomFields
  <2>8. MomOf(R, I \cup J) = Mom(l + r, a + b, Css(l + r, a + b, p + q))
    BY <1>6, <2>2, <2>3 DEF MomOf
  <2> HIDE DEF x, y
  <2>9. updateCorrectedSumOfSquares(x, y) =
          Mom(x.n + y.n, x.sum + y.sum, y.css + (x.css + Between(x.n, y.n, x.sum, y.sum)))
    <3>1. x.n # 0 /\ y.n # 0
      BY <2>1, <2>7
    <3> QED
      BY <3>1, Zenon DEF updateCorrectedSumOfSquares, Mom, Between
  <2> QED
    BY <2>5, <2>6, <2>7, <2>8, <2>9
<1> QED
  BY <1>4, <1>5, <1>6

(* The moments of one row.                                                 *)
LEMMA MomOfOne ==
  ASSUME NEW R, Samples(R), NEW n \in DOMAIN R
  PROVE  One(R[n].value) = MomOf(R, {n})
<1> DEFINE v == R[n].value
<1>1. v \in Int
  BY DEF Samples
<1>2. Cardinality({n}) = 1 /\ IsFiniteSet({n}) /\ IsFiniteSet({})
  BY FS_Singleton, FS_EmptySet
<1>3. SumOn(VS(R), {n}) = v /\ SumOn(VQ(R), {n}) = v * v
  <2>1. /\ n \in {n} /\ {n} \in SUBSET DOMAIN R /\ {n} \ {n} = {}
    OBVIOUS
  <2>2. Numbers(VS(R), {n}) /\ Numbers(VQ(R), {n})
    BY <2>1, MomNumbers
  <2>3. SumOn(VS(R), {n}) = VS(R)[n] + SumOn(VS(R), {n} \ {n})
    BY <1>2, <2>1, <2>2, TotalRemove
  <2>4. SumOn(VQ(R), {n}) = VQ(R)[n] + SumOn(VQ(R), {n} \ {n})
    BY <1>2, <2>1, <2>2, TotalRemove
  <2>5. SumOn(VS(R), {n} \ {n}) = 0 /\ SumOn(VQ(R), {n} \ {n}) = 0
    BY <2>1, SumOfNone
  <2>6. VS(R)[n] = v /\ VQ(R)[n] = v * v
    BY DEF VS, VQ, Square
  <2> QED
    BY <1>1, <2>3, <2>4, <2>5, <2>6
<1> HIDE DEF v
<1>4. Css(1, v, v * v) = 0
  <2>1. 1 * (v * v) - v * v = 0
    BY <1>1
  <2>2. Scale * 0 = 0
    BY TestsAssumption DEF TestsAssumption
  <2>3. 0 \div 1 = 0
    OBVIOUS
  <2> QED
    BY <2>1, <2>2, <2>3 DEF Css
<1>5. MomOf(R, {n}) = Mom(1, v, 0)
  BY <1>2, <1>3, <1>4 DEF MomOf
<1>6. One(v) = Mom(1, v, 0)
  <2> DEFINE s1 == [NoRows EXCEPT !.n = 1]
             s2 == [s1 EXCEPT !.sum = v]
  <2>1. s1 = Mom(1, 0, 0)
    BY DEF NoRows, Mom
  <2>2. s2 = One(v)
    BY DEF One
  <2> HIDE DEF s1
  <2>3. s2 = Mom(1, v, 0)
    BY <2>1 DEF Mom
  <2> QED
    BY <2>2, <2>3
<1> QED
  BY <1>5, <1>6 DEF v

\* The rows of the first sample, of which a test of one sample has all.
FirstSample(R, t) == {k \in DOMAIN R : t = "t_test_one" \/ R[k].first}
TState(a, b) == [x |-> a, y |-> b]
TOf(R, t, I) == TState(MomOf(R, I \cap FirstSample(R, t)), MomOf(R, I \ FirstSample(R, t)))
TV(R, t) == [I \in SUBSET DOMAIN R |-> TOf(R, t, I)]

(* The fields of a state.                                                  *)
LEMMA TFields ==
  ASSUME NEW a, NEW b
  PROVE  TState(a, b).x = a /\ TState(a, b).y = b
BY DEF TState

(* The state of no rows is the initial one.                                *)
LEMMA TNone ==
  ASSUME NEW R, NEW t
  PROVE  TV(R, t)[{}] = TTestState
<1>1. {} \in SUBSET DOMAIN R /\ {} \cap FirstSample(R, t) = {} /\ {} \ FirstSample(R, t) = {}
  OBVIOUS
<1>2. MomOf(R, {}) = NoRows
  BY DEF MomOf
<1>3. TOf(R, t, {}) = TState(NoRows, NoRows)
  BY <1>1, <1>2 DEF TOf
<1> QED
  BY <1>1, <1>3 DEF TV, TState, TTestState

(* A state of a test is no NULL, no exception and no missing result.       *)
LEMMA TNoMark ==
  ASSUME MarksAreNoRecords, NEW a, NEW b
  PROVE  TState(a, b) \notin {Null, Exception, Pending}
<1>1. "x" \in DOMAIN TState(a, b)
  BY DEF TState
<1> QED
  BY <1>1 DEF MarksAreNoRecords

\* What a row of either sample does.
WithX(s, v) == [s EXCEPT !.x = updateCorrectedSumOfSquares(@, v)]
WithY(s, v) == [s EXCEPT !.y = updateCorrectedSumOfSquares(@, v)]

(* What a row does to the fields of a state.                               *)
LEMMA TGrown ==
  ASSUME NEW a, NEW b, NEW v
  PROVE  /\ WithX(TState(a, b), v) = TState(updateCorrectedSumOfSquares(a, v), b)
         /\ WithY(TState(a, b), v) = TState(a, updateCorrectedSumOfSquares(b, v))
<1> DEFINE s == TState(a, b)
           c == updateCorrectedSumOfSquares(a, v)
           d == updateCorrectedSumOfSquares(b, v)
<1>1. s.x = a /\ s.y = b
  BY TFields
<1>2. WithX(s, v) = [s EXCEPT !.x = c] /\ WithY(s, v) = [s EXCEPT !.y = d]
  <2> HIDE DEF s
  <2> QED
    BY <1>1, Zenon DEF WithX, WithY
<1> HIDE DEF c, d
<1>3. [s EXCEPT !.x = c] = TState(c, b) /\ [s EXCEPT !.y = d] = TState(a, d)
  BY DEF TState
<1> QED
  BY <1>2, <1>3 DEF c, d

(* A row turns the state of others into that of all.                       *)
LEMMA TReads ==
  ASSUME NEW R, Samples(R), ScaleServes(R), NEW t,
         NEW I \in SUBSET DOMAIN R, NEW n \in DOMAIN R, n \notin I
  PROVE  /\ n \in FirstSample(R, t) => WithX(TOf(R, t, I), One(R[n].value)) = TOf(R, t, I \cup {n})
         /\ n \notin FirstSample(R, t) => WithY(TOf(R, t, I), One(R[n].value)) = TOf(R, t, I \cup {n})
<1> DEFINE X == FirstSample(R, t)
           v == One(R[n].value)
<1> HIDE DEF X
<1>1. v = MomOf(R, {n})
  BY MomOfOne
<1>2. /\ {n} \in SUBSET DOMAIN R /\ I \cap X \in SUBSET DOMAIN R /\ I \ X \in SUBSET DOMAIN R
      /\ (I \cap X) \cap {n} = {} /\ (I \ X) \cap {n} = {}
  OBVIOUS
<1>3. /\ updateCorrectedSumOfSquares(MomOf(R, I \cap X), v) = MomOf(R, (I \cap X) \cup {n})
      /\ updateCorrectedSumOfSquares(MomOf(R, I \ X), v) = MomOf(R, (I \ X) \cup {n})
  BY <1>1, <1>2, MomUnion
<1> HIDE DEF v
<1>4. TOf(R, t, I) = TState(MomOf(R, I \cap X), MomOf(R, I \ X))
  BY DEF TOf, X
<1>5. TOf(R, t, I \cup {n}) = TState(MomOf(R, (I \cup {n}) \cap X), MomOf(R, (I \cup {n}) \ X))
  BY DEF TOf, X
<1>6. CASE n \in X
  <2>1. (I \cup {n}) \cap X = (I \cap X) \cup {n} /\ (I \cup {n}) \ X = I \ X
    BY <1>6
  <2>2. WithX(TOf(R, t, I), v) = TState(MomOf(R, (I \cap X) \cup {n}), MomOf(R, I \ X))
    BY <1>3, <1>4, TGrown
  <2> QED
    BY <1>5, <1>6, <2>1, <2>2 DEF X, v
<1>7. CASE n \notin X
  <2>1. (I \cup {n}) \cap X = I \cap X /\ (I \cup {n}) \ X = (I \ X) \cup {n}
    BY <1>7
  <2>2. WithY(TOf(R, t, I), v) = TState(MomOf(R, I \cap X), MomOf(R, (I \ X) \cup {n}))
    BY <1>3, <1>4, TGrown
  <2> QED
    BY <1>5, <1>7, <2>1, <2>2 DEF X, v
<1> QED
  BY <1>6, <1>7 DEF X, v

(* A merge makes one state of the rows of two.                             *)
LEMMA TMerges ==
  ASSUME NEW R, Samples(R), ScaleServes(R), NEW t,
         NEW I \in SUBSET DOMAIN R, NEW J \in SUBSET DOMAIN R, I \cap J = {}
  PROVE  t_test_merge_states(TOf(R, t, I), TOf(R, t, J)) = TOf(R, t, I \cup J)
<1> DEFINE X == FirstSample(R, t)
<1> HIDE DEF X
<1>1. /\ I \cap X \in SUBSET DOMAIN R /\ I \ X \in SUBSET DOMAIN R
      /\ J \cap X \in SUBSET DOMAIN R /\ J \ X \in SUBSET DOMAIN R
      /\ (I \cap X) \cap (J \cap X) = {} /\ (I \ X) \cap (J \ X) = {}
  OBVIOUS
<1>2. /\ updateCorrectedSumOfSquares(MomOf(R, I \cap X), MomOf(R, J \cap X))
           = MomOf(R, (I \cap X) \cup (J \cap X))
      /\ updateCorrectedSumOfSquares(MomOf(R, I \ X), MomOf(R, J \ X))
           = MomOf(R, (I \ X) \cup (J \ X))
  BY <1>1, MomUnion
<1>3. (I \cup J) \cap X = (I \cap X) \cup (J \cap X) /\ (I \cup J) \ X = (I \ X) \cup (J \ X)
  OBVIOUS
<1>4. \A a, b, c, d : t_test_merge_states(TState(a, b), TState(c, d))
        = TState(updateCorrectedSumOfSquares(a, c), updateCorrectedSumOfSquares(b, d))
  <2> TAKE a, b, c, d
  <2> DEFINE r == TState(a, b)
             s == TState(c, d)
  <2>1. r.x = a /\ r.y = b /\ s.x = c /\ s.y = d
    BY TFields
  <2> HIDE DEF r, s
  <2>2. t_test_merge_states(r, s) =
          TState(updateCorrectedSumOfSquares(r.x, s.x), updateCorrectedSumOfSquares(r.y, s.y))
    BY Zenon DEF t_test_merge_states, TState
  <2> QED
    BY <2>1, <2>2 DEF r, s
<1>5. /\ TOf(R, t, I) = TState(MomOf(R, I \cap X), MomOf(R, I \ X))
      /\ TOf(R, t, J) = TState(MomOf(R, J \cap X), MomOf(R, J \ X))
      /\ TOf(R, t, I \cup J) = TState(MomOf(R, (I \cup J) \cap X), MomOf(R, (I \cup J) \ X))
  BY DEF TOf, X
<1> DEFINE a == MomOf(R, I \cap X)
           b == MomOf(R, I \ X)
           c == MomOf(R, J \cap X)
           d == MomOf(R, J \ X)
<1>6. t_test_merge_states(TState(a, b), TState(c, d)) =
        TState(MomOf(R, (I \cap X) \cup (J \cap X)), MomOf(R, (I \ X) \cup (J \ X)))
  BY <1>2, <1>4
<1> QED
  BY <1>3, <1>5, <1>6

TInv == job.test \in TTests => ScanKept(TV(job.rows, job.test), {})

(* A test of means or variances is a scan, with or without segments.       *)
LEMMA TIsScanned ==
  ASSUME NEW t \in TTests
  PROVE  t \in Tests \ Optimizers /\ t \notin Ordered
BY DEF Tests, TTests, Optimizers, Ordered

(* Scale is a multiple of what any two parts of the rows of a job divide   *)
(* by.                                                                     *)
LEMMA ScaleOfJobs ==
  ASSUME NEW t \in DOMAIN Jobs, NEW R \in Jobs[t]
  PROVE  ScaleServes(R)
<1>1. \A l, r \in 1..Len(R) : l + r <= Len(R) => Scale % (l * r * (l + r)) = 0
  BY QueriesAssumption DEF QueriesAssumption
<1> QED
  BY <1>1 DEF ScaleServes, Divides

(* Its rows are samples, few enough for the scale that sums of squares     *)
(* have.                                                                   *)
LEMMA TJobs ==
  ASSUME NEW t \in DOMAIN Jobs, t \in TTests, NEW R \in Jobs[t]
  PROVE  Samples(R) /\ ScaleServes(R)
<1>1. R \in Seq(Row(t))
  BY JobsAre
<1>2. Row(t) = Sampled
  BY DEF Row, TTests, Optimizers
<1>3. Samples(R)
  <2>1. \A e \in Sampled : e.value \in Int
    BY DEF Sampled
  <2>2. \A k \in DOMAIN R : R[k] \in Sampled
    BY <1>1, <1>2
  <2>3. Len(R) \in Nat /\ DOMAIN R = 1..Len(R)
    BY <1>1
  <2> QED
    BY <2>1, <2>2, <2>3 DEF Samples
<1> QED
  BY <1>3, ScaleOfJobs DEF ScaleServes

(* The states are those of no rows at first.                               *)
LEMMA TInit == Init \/ NoQuery => TInv
<1>1. NoQuery => TInv
  BY NoQueryScans, TIsScanned DEF TInv
<1>2. ASSUME Init, job.test \in TTests PROVE TInv
  <2>1. Initial(job.test) = TTestState
    BY <1>2 DEF Initial, TTests, Optimizers
  <2>2. TV(job.rows, job.test)[{}] = TTestState
    BY TNone
  <2>3. job.test \in Tests
    BY <1>2, TIsScanned
  <2> QED
    BY <1>2, <2>1, <2>2, <2>3, KeptFromTheStart DEF TInv
<1> QED
  BY <1>1, <1>2 DEF TInv

\* What is returned, of the state.
TFinal(t, s) ==
  IF t = "t_test_one" THEN IF s.x.n <= 1 THEN Null ELSE s
  ELSE IF t = "t_test_two_pooled"
  THEN IF s.x.n = 0 \/ s.y.n = 0 \/ s.x.n + s.y.n <= 2 THEN Null ELSE s
  ELSE IF s.x.n <= 1 \/ s.y.n <= 1 THEN Null ELSE s

(* The final functions, by their degrees of freedom.                       *)
LEMMA TFinalIs ==
  ASSUME NEW t \in TTests, NEW s
  PROVE  Final(t, s) = TFinal(t, s)
<1>1. t_test_two_pooled_final(s) =
        IF s.x.n = 0 \/ s.y.n = 0 \/ s.x.n + s.y.n <= 2 THEN Null ELSE s
  <2>1. 0 \in {s.x.n, s.y.n} <=> s.x.n = 0 \/ s.y.n = 0
    OBVIOUS
  <2> QED
    BY <2>1, Zenon DEF t_test_two_pooled_final
<1>2. CASE t = "t_test_one"
  BY <1>2 DEF Final, TFinal, t_test_one_final
<1>3. CASE t = "t_test_two_pooled"
  BY <1>1, <1>3 DEF Final, TFinal
<1>4. CASE t = "t_test_two_unpooled"
  BY <1>4 DEF Final, TFinal, t_test_two_unpooled_final
<1>5. CASE t = "f_test"
  BY <1>5 DEF Final, TFinal, f_test_final, t_test_two_unpooled_final
<1> QED
  BY <1>2, <1>3, <1>4, <1>5 DEF TTests

(* The transition, by the sample of its row.                               *)
LEMMA TTransitionIs ==
  ASSUME NEW t \in TTests, NEW R, NEW s, NEW n \in DOMAIN R, NEW k
  PROVE  Transition(t, s, R[n], k) =
           IF n \in FirstSample(R, t) THEN WithX(s, One(R[n].value)) ELSE WithY(s, One(R[n].value))
<1>1. t_test_one_transition(s, R[n]) = WithX(s, One(R[n].value))
  BY Zenon DEF t_test_one_transition, WithX
<1>2. t_test_two_transition(s, R[n]) =
        IF R[n].first THEN WithX(s, One(R[n].value)) ELSE WithY(s, One(R[n].value))
  BY <1>1, Zenon DEF t_test_two_transition, WithY
<1>3. CASE t = "t_test_one"
  <2>1. Transition(t, s, R[n], k) = t_test_one_transition(s, R[n])
    BY <1>3 DEF Transition, TTests, Optimizers
  <2> QED
    BY <1>1, <1>3, <2>1 DEF FirstSample
<1>4. CASE t # "t_test_one"
  <2>1. Transition(t, s, R[n], k) = t_test_two_transition(s, R[n])
    BY <1>4 DEF Transition, TTests, Optimizers
  <2>2. n \in FirstSample(R, t) <=> R[n].first
    BY <1>4 DEF FirstSample
  <2> QED
    BY <1>2, <2>1, <2>2
<1> QED
  BY <1>3, <1>4

(* Every step leaves the states those of their rows.                       *)
LEMMA TNext ==
  ASSUME MarksAreNoRecords, ScanInv, TInv, Next
  PROVE  TInv'
<1> SUFFICES ASSUME job'.test \in TTests PROVE TInv'
  BY DEF TInv
<1>0. PICK R, t : R = job.rows /\ t = job.test
  OBVIOUS
<1> DEFINE D == DOMAIN R
           V == TV(R, t)
<1>1. job' = job /\ t \in TTests /\ ScanKept(V, {})
  BY <1>0, ScanNext DEF TInv
<1>2. Samples(R) /\ ScaleServes(R) /\ t \in Tests \ Optimizers
  BY <1>0, <1>1, TIsScanned, TJobs DEF ScanInv, JobOf
<1>4. \A a, b : Merge(t, a, b) = t_test_merge_states(a, b)
  BY <1>1 DEF Merge, TTests, Optimizers
<1>6. \A I \in SUBSET D : V[I] = TOf(R, t, I)
  BY DEF TV
<1>7. Unmarked(V, D)
  BY <1>6, TNoMark DEF TOf, Unmarked
<1> HIDE DEF V, D
<1>8. Lasting({}, D)
  BY DEF Lasting
<1>9. Final(t, V[D]) # Pending
  <2>1. V[D] # Pending
    BY <1>6, TNoMark DEF TOf
  <2>2. Final(t, V[D]) \in {Null, V[D]}
    BY <1>1, TFinalIs DEF TFinal
  <2> QED
    BY <2>1, <2>2, ConstantsAre
<1>10. ASSUME NEW I \in SUBSET D, NEW n \in D, n \notin I
       PROVE  Adds(V, {}, I, n, Transition(t, V[I], R[n], n))
  <2>1. I \cup {n} \in SUBSET D
    OBVIOUS
  <2>2. V[I] = TOf(R, t, I) /\ V[I \cup {n}] = TOf(R, t, I \cup {n})
    BY <1>6, <2>1
  <2>3. Transition(t, TOf(R, t, I), R[n], n) = TOf(R, t, I \cup {n})
    <3>1. I \in SUBSET DOMAIN R /\ n \in DOMAIN R
      BY DEF D
    <3>2. CASE n \in FirstSample(R, t)
      BY <1>1, <1>2, <1>10, <3>1, <3>2, TReads, TTransitionIs
    <3>3. CASE n \notin FirstSample(R, t)
      BY <1>1, <1>2, <1>10, <3>1, <3>3, TReads, TTransitionIs
    <3> QED
      BY <3>2, <3>3
  <2> QED
    BY <2>2, <2>3 DEF Adds
<1>11. ASSUME NEW I \in SUBSET D, NEW J \in SUBSET D, I \cap J = {}
       PROVE  Joins(V, {}, I, J, Merge(t, V[I], V[J]))
  <2>1. I \cup J \in SUBSET D
    OBVIOUS
  <2>2. V[I] = TOf(R, t, I) /\ V[J] = TOf(R, t, J) /\ V[I \cup J] = TOf(R, t, I \cup J)
    BY <1>6, <2>1
  <2>3. t_test_merge_states(TOf(R, t, I), TOf(R, t, J)) = TOf(R, t, I \cup J)
    BY <1>2, <1>11, TMerges DEF D
  <2> QED
    BY <1>4, <2>2, <2>3 DEF Joins
<1>12. AddsRows(V, {}, D)
  BY <1>0, <1>10 DEF AddsRows
<1>13. JoinsRows(V, {}, D)
  BY <1>0, <1>11 DEF JoinsRows
<1>14. ScanKept(V, {})'
  <2>1. D = DOMAIN job.rows
    BY <1>0 DEF D
  <2>2. job.test \in Tests \ Optimizers /\ Final(job.test, V[D]) # Pending
    BY <1>0, <1>2, <1>9
  <2> QED
    BY <1>1, <1>7, <1>8, <1>12, <1>13, <2>1, <2>2, KeptByASpread
<1> QED
  BY <1>0, <1>1, <1>14 DEF TInv, V

(* The moments of some of the rows, as the property has them.              *)
LEMMA MomentsAre ==
  ASSUME Samples(rows), NEW I \in SUBSET DOMAIN rows
  PROVE  Moments(ValuesAt(I)) = MomOf(rows, I)
<1> DEFINE f == [i \in I |-> rows[i].value]
           g == [i \in I |-> Square(f[i])]
<1>1. ValuesAt(I) = f /\ DOMAIN f = I /\ DOMAIN g = I
  BY DEF ValuesAt
<1>2. /\ IsFiniteSet(I) /\ Numbers(VS(rows), I) /\ Numbers(VQ(rows), I)
      /\ Cardinality(I) \in Nat /\ (I # {} => Cardinality(I) \in Nat \ {0})
  BY MomNumbers
<1>3. Agree(f, VS(rows), I) /\ Agree(g, VQ(rows), I)
  BY DEF Agree, VS, VQ
<1>4. TotalOf(f) = SumOn(f, I) /\ Field(f, Square) = SumOn(g, I)
  BY <1>1 DEF TotalOf, Field, SumOn
<1> HIDE DEF f, g
<1>5. TotalOf(f) = SumOn(VS(rows), I) /\ Field(f, Square) = SumOn(VQ(rows), I)
  BY <1>2, <1>3, <1>4, TotalSame
<1>6. Cardinality(I) = 0 <=> I = {}
  BY <1>2, FS_EmptySet
<1>7. Moments(f) = IF Cardinality(I) = 0 THEN NoRows
                   ELSE Mom(Cardinality(I), TotalOf(f), Css(Cardinality(I), TotalOf(f), Field(f, Square)))
  BY <1>1, Zenon DEF Moments, Mom, Css, Square
<1> QED
  BY <1>1, <1>5, <1>6, <1>7 DEF MomOf

(* What the states keep gives the property.                                *)
LEMMA TAnswered ==
  ASSUME MarksAreNoRecords, ScanInv, TInv
  PROVE  TTestsAreOfRows
<1> SUFFICES ASSUME Ended(TTests) PROVE TTestsAreOfRows
  BY DEF TTestsAreOfRows
<1> DEFINE t == job.test
           X == FirstSample(rows, t)
           Y == DOMAIN rows \ X
           x == MomOf(rows, X)
           y == MomOf(rows, Y)
           degrees == CASE t = "t_test_one" -> {x.n - 1}
                        [] t = "t_test_two_pooled" -> {x.n, y.n, x.n + y.n - 2}
                        [] OTHER -> {x.n - 1, y.n - 1}
<1>1. t \in TTests /\ result # Pending
  BY DEF Ended
<1>2. Samples(rows)
  BY <1>1, TIsScanned, TJobs DEF ScanInv, JobOf, rows
<1>3. X \in SUBSET DOMAIN rows /\ Y \in SUBSET DOMAIN rows
  BY DEF FirstSample
<1>4. /\ Where(LAMBDA r : t = "t_test_one" \/ r.first) = X
      /\ Where(LAMBDA r : ~(t = "t_test_one" \/ r.first)) = Y
  BY DEF Where, FirstSample
<1>5. Moments(ValuesAt(X)) = x /\ Moments(ValuesAt(Y)) = y
  <2> HIDE DEF X, Y
  <2> QED
    BY <1>2, <1>3, MomentsAre
<1>6. TTestsAreOfRows <=> result = IF \A d \in degrees : d > 0 THEN [x |-> x, y |-> y] ELSE Null
  <2> HIDE DEF X, Y
  <2> QED
    BY <1>1, <1>4, <1>5 DEF TTestsAreOfRows
<1>7. x.n \in Nat /\ y.n \in Nat
  <2>1. x.n = Cardinality(X) /\ y.n = Cardinality(Y)
    BY FS_EmptySet, MomFields DEF MomOf, NoRows
  <2> QED
    BY <1>2, <1>3, <2>1, MomNumbers
<1>8. result = TFinal(t, TState(x, y))
  <2>1. result = Final(t, TV(rows, t)[DOMAIN rows])
    BY <1>1 DEF TInv, ScanKept, rows
  <2>2. DOMAIN rows \cap X = X
    BY <1>3
  <2>3. TV(rows, t)[DOMAIN rows] = TState(x, y)
    BY <2>2 DEF TV, TOf
  <2> QED
    BY <1>1, <2>1, <2>3, TFinalIs
<1> HIDE DEF x, y, X, Y
<1>9. TState(x, y).x = x /\ TState(x, y).y = y /\ [x |-> x, y |-> y] = TState(x, y)
  BY TFields DEF TState
<1>10. (\A d \in degrees : d > 0) <=>
         IF t = "t_test_one" THEN x.n > 1
         ELSE IF t = "t_test_two_pooled" THEN x.n > 0 /\ y.n > 0 /\ x.n + y.n > 2
         ELSE x.n > 1 /\ y.n > 1
  <2> DEFINE m == x.n
             n == y.n
  <2>1. m \in Nat /\ n \in Nat
    BY <1>7
  <2> HIDE DEF m, n
  <2>2. CASE t = "t_test_one"
    <3>1. degrees = {m - 1}
      BY <2>2 DEF m
    <3> QED
      BY <2>1, <2>2, <3>1 DEF m, n
  <2>3. CASE t = "t_test_two_pooled"
    <3>1. degrees = {m, n, m + n - 2}
      BY <2>3 DEF m, n
    <3> QED
      BY <2>1, <2>3, <3>1 DEF m, n
  <2>4. CASE t \notin {"t_test_one", "t_test_two_pooled"}
    <3>1. degrees = {m - 1, n - 1}
      BY <2>4 DEF m, n
    <3> QED
      BY <2>1, <2>4, <3>1 DEF m, n
  <2> QED
    BY <2>2, <2>3, <2>4
<1> HIDE DEF degrees
<1> QED
  BY <1>6, <1>7, <1>8, <1>9, <1>10 DEF TFinal

(* t_test.cpp: the sums of squares that rows and segments add up are those *)
(* of all rows, however these are spread and merged.                       *)
THEOREM MomentsOfTests ==
  ASSUME MarksAreNoRecords
  PROVE  SessionSpec => []TTestsAreOfRows
<1>1. SessionInit => TInv
  BY SessionStarts, TInit
<1>2. ScanInv /\ TInv /\ [Next]_vars => TInv'
  <2>1. ASSUME TInv, UNCHANGED vars PROVE TInv'
    <3>1. PICK R, t : R = job.rows /\ t = job.test
      OBVIOUS
    <3>2. job' = job
      BY <2>1 DEF vars
    <3> QED
      BY <2>1, <3>1, <3>2, KeptStays DEF TInv
  <2> QED
    BY <2>1, TNext
<1>3. ScanInv /\ TInv => TTestsAreOfRows
  BY TAnswered
<1> QED
  BY <1>1, <1>2, <1>3, SessionScans, PTL DEF SessionSpec

-----------------------------------------------------------------------------
(* Rank tests: rows in order.                                              *)

\* A state of the Mann-Whitney test, by its fields.
MState(a, t, r, l) == [num |-> a, numTies |-> t, rankSum |-> r, last |-> l]

(* The fields of a state of the Mann-Whitney test.                         *)
LEMMA MFields ==
  ASSUME NEW a, NEW t, NEW r, NEW l, NEW s, s = MState(a, t, r, l)
  PROVE  s.num = a /\ s.numTies = t /\ s.rankSum = r /\ s.last = l
BY DEF MState

(* The total of two numbers.                                               *)
LEMMA OfTwo ==
  ASSUME NEW f, DOMAIN f = 1..2, f[1] \in Int, f[2] \in Int
  PROVE  TotalOf(f) = f[1] + f[2]
<1>1. IsFiniteSet(1..2) /\ IsFiniteSet({2}) /\ IsFiniteSet({})
  <2>1. 1 \in Int /\ 2 \in Int
    OBVIOUS
  <2>2. IsFiniteSet(1..2)
    BY <2>1, FS_Interval, Zenon
  <2> QED
    BY <2>2, FS_Singleton, FS_EmptySet
<1>2. Numbers(f, 1..2) /\ Numbers(f, {2})
  BY DEF Numbers
<1>3. 1 \in 1..2 /\ 2 \in {2} /\ (1..2) \ {1} = {2} /\ {2} \ {2} = {}
  OBVIOUS
<1>4. SumOn(f, 1..2) = f[1] + SumOn(f, {2})
  BY <1>1, <1>2, <1>3, TotalRemove
<1>5. SumOn(f, {2}) = f[2] + SumOn(f, {})
  BY <1>1, <1>2, <1>3, TotalRemove
<1>6. SumOn(f, {}) = 0
  BY SumOfNone
<1>7. TotalOf(f) = SumOn(f, 1..2)
  BY DEF TotalOf, SumOn
<1> QED
  BY <1>4, <1>5, <1>6, <1>7

\* A value of one sample grows.
More(f, k, x) == [f EXCEPT ![k] = @ + x]
RankUp(r, k, a, t) == [r EXCEPT ![k] = @ + 2 * (TotalOf(a) + 1) - TotalOf(t)]
Plus(f, g) == [i \in 1..2 |-> f[i] + g[i]]

(* What Ranked does to the fields of a state.                              *)
LEMMA MRanked ==
  ASSUME NEW a, NEW t, NEW r, NEW l, NEW k
  PROVE  Ranked(MState(a, t, r, l), k)
           = MState(More(a, k, 1), More(t, k, 1), RankUp(r, k, a, t), l)
<1> DEFINE s == MState(a, t, r, l)
           s1 == [s EXCEPT !.num[k] = @ + 1]
           s2 == [s1 EXCEPT !.numTies[k] = @ + 1]
           s3 == [s2 EXCEPT !.rankSum[k] = @ + 2 * (TotalOf(s.num) + 1) - TotalOf(s.numTies)]
<1>1. s3 = Ranked(s, k)
  BY DEF Ranked
<1>2. s.num = a /\ s.numTies = t /\ s.rankSum = r
  BY MFields
<1>3. s1 = MState(More(a, k, 1), t, r, l)
  BY DEF MState, More
<1> HIDE DEF s1
<1>4. s2 = MState(More(a, k, 1), More(t, k, 1), r, l)
  BY <1>3 DEF MState, More
<1> HIDE DEF s2
<1>5. s3 = MState(More(a, k, 1), More(t, k, 1), RankUp(r, k, a, t), l)
  BY <1>2, <1>4 DEF MState, RankUp
<1> QED
  BY <1>1, <1>5

(* What Tied does to the fields of a state.                                *)
LEMMA MTied ==
  ASSUME NEW a, NEW t, NEW r, NEW l
  PROVE  /\ Tied(MState(a, t, r, l)) = MState(a, t, Plus(r, t), l)
         /\ Untied(MState(a, t, r, l)) = MState(a, <<0, 0>>, r, l)
<1> DEFINE s == MState(a, t, r, l)
<1>1. s.rankSum = r /\ s.numTies = t
  BY MFields
<1>2. Tied(s) = [s EXCEPT !.rankSum = Plus(r, t)]
  <2> HIDE DEF s
  <2> QED
    BY <1>1, Zenon DEF Tied, Plus
<1>3. Untied(s) = [s EXCEPT !.numTies = <<0, 0>>]
  BY DEF Untied
<1>4. [s EXCEPT !.rankSum = Plus(r, t)] = MState(a, t, Plus(r, t), l)
  BY DEF MState
<1>5. [s EXCEPT !.numTies = <<0, 0>>] = MState(a, <<0, 0>>, r, l)
  BY DEF MState
<1> QED
  BY <1>2, <1>3, <1>4, <1>5

\* What a row of a value does to the state that is ready for it.
WithLast(s, v) == [s EXCEPT !.last = v]

(* The transition of the Mann-Whitney test, by fields and without an       *)
(* exception in between.                                                   *)
LEMMA MTransitionIs ==
  ASSUME NEW a, NEW t, NEW r, NEW l, NEW row, NEW v, v = row.value, NEW k, k = Sample(row.first)
  PROVE  mw_test_transition(MState(a, t, r, l), row) =
           IF l > v /\ TotalOf(a) > 0 THEN Exception
           ELSE IF l = v
           THEN MState(More(a, k, 1), More(t, k, 1), RankUp(Plus(r, t), k, a, t), v)
           ELSE IF l < v
           THEN MState(More(a, k, 1), More(<<0, 0>>, k, 1), RankUp(r, k, a, <<0, 0>>), v)
           ELSE MState(More(a, k, 1), More(t, k, 1), RankUp(r, k, a, t), v)
<1> DEFINE s == MState(a, t, r, l)
           w == IF l = v THEN Tied(s) ELSE IF l < v THEN Untied(s) ELSE s
<1>1. s.last = l /\ s.num = a
  BY MFields
<1>2. mw_test_transition(s, row) =
        IF l > v /\ TotalOf(a) > 0 THEN Exception ELSE WithLast(Ranked(w, k), v)
  <2> HIDE DEF s
  <2> QED
    BY <1>1, Zenon DEF mw_test_transition, WithLast
<1>3. \A b, c, d, m : WithLast(MState(b, c, d, m), v) = MState(b, c, d, v)
  BY DEF WithLast, MState
<1>4. w = IF l = v THEN MState(a, t, Plus(r, t), l)
          ELSE IF l < v THEN MState(a, <<0, 0>>, r, l) ELSE MState(a, t, r, l)
  BY MTied
<1> HIDE DEF s, w
<1>5. CASE l = v
  BY <1>2, <1>3, <1>4, <1>5, MRanked DEF s
<1>6. CASE l # v /\ l < v
  BY <1>2, <1>3, <1>4, <1>6, MRanked DEF s
<1>7. CASE l # v /\ ~(l < v)
  BY <1>2, <1>3, <1>4, <1>7, MRanked DEF s
<1> QED
  BY <1>5, <1>6, <1>7

\* Of some rows, how many each sample has, and how many of a value.
OfSample(R, I, k) == {i \in I : Sample(R[i].first) = k}
WithValue(R, I, k, v) == {i \in OfSample(R, I, k) : R[i].value = v}
Sizes(R, I) == [k \in 1..2 |-> Cardinality(OfSample(R, I, k))]
TiesAt(R, I, v) == [k \in 1..2 |-> Cardinality(WithValue(R, I, k, v))]

\* Pairs of a row of the first and one of the second sample, with values that are related.
PairsIn(R, I, G) ==
  {p \in I \X I : R[p[1]].first /\ ~R[p[2]].first /\ <<R[p[1]].value, R[p[2]].value>> \in G}
Below == {p \in Int \X Int : p[1] < p[2]}
Level == {p \in Int \X Int : p[1] = p[2]}
Above == {p \in Int \X Int : p[1] > p[2]}

(* A row more counts as one.                                               *)
LEMMA OneMore ==
  ASSUME NEW I, IsFiniteSet(I), NEW n, n \notin I
  PROVE  Cardinality(I \cup {n}) = Cardinality(I) + 1
BY FS_AddElement

(* Two sets without a common element have as many elements as both         *)
(* together.                                                               *)
LEMMA DisjointUnion ==
  ASSUME NEW X, IsFiniteSet(X), NEW Y, IsFiniteSet(Y), X \cap Y = {}
  PROVE  Cardinality(X \cup Y) = Cardinality(X) + Cardinality(Y)
<1>1. Cardinality(X \cup Y) = Cardinality(X) + Cardinality(Y) - Cardinality(X \cap Y)
  BY FS_Union
<1>2. Cardinality(X \cap Y) = 0
  BY FS_EmptySet
<1>3. Cardinality(X) \in Nat /\ Cardinality(Y) \in Nat
  BY FS_CardinalityType
<1> QED
  BY <1>1, <1>2, <1>3

(* A row more is one more of its sample, and one more that ties at its     *)
(* value.                                                                  *)
LEMMA SizesGrow ==
  ASSUME NEW R, NEW I, IsFiniteSet(I), NEW n, n \notin I, NEW v, R[n].value = v,
         NEW k, k = Sample(R[n].first)
  PROVE  /\ Sizes(R, I \cup {n}) = More(Sizes(R, I), k, 1)
         /\ TiesAt(R, I \cup {n}, v) = More(TiesAt(R, I, v), k, 1)
<1> DEFINE J == I \cup {n}
<1>1. k \in 1..2
  BY DEF Sample
<1>2. ASSUME NEW h \in 1..2
      PROVE  /\ IsFiniteSet(OfSample(R, I, h)) /\ IsFiniteSet(WithValue(R, I, h, v))
             /\ n \notin OfSample(R, I, h) /\ n \notin WithValue(R, I, h, v)
             /\ h # k => OfSample(R, J, h) = OfSample(R, I, h) /\ WithValue(R, J, h, v) = WithValue(R, I, h, v)
             /\ h = k => /\ OfSample(R, J, h) = OfSample(R, I, h) \cup {n}
                         /\ WithValue(R, J, h, v) = WithValue(R, I, h, v) \cup {n}
  <2>1. OfSample(R, I, h) \subseteq I /\ WithValue(R, I, h, v) \subseteq I
    BY DEF OfSample, WithValue
  <2>2. IsFiniteSet(OfSample(R, I, h)) /\ IsFiniteSet(WithValue(R, I, h, v))
    BY <2>1, FS_Subset
  <2> QED
    BY <2>1, <2>2 DEF OfSample, WithValue
<1>3. ASSUME NEW h \in 1..2
      PROVE  /\ Sizes(R, J)[h] = IF h = k THEN Sizes(R, I)[h] + 1 ELSE Sizes(R, I)[h]
             /\ TiesAt(R, J, v)[h] = IF h = k THEN TiesAt(R, I, v)[h] + 1 ELSE TiesAt(R, I, v)[h]
  <2>1. /\ Cardinality(OfSample(R, I, h) \cup {n}) = Cardinality(OfSample(R, I, h)) + 1
        /\ Cardinality(WithValue(R, I, h, v) \cup {n}) = Cardinality(WithValue(R, I, h, v)) + 1
    BY <1>2, OneMore
  <2>2. /\ Sizes(R, J)[h] = Cardinality(OfSample(R, J, h)) /\ Sizes(R, I)[h] = Cardinality(OfSample(R, I, h))
        /\ TiesAt(R, J, v)[h] = Cardinality(WithValue(R, J, h, v))
        /\ TiesAt(R, I, v)[h] = Cardinality(WithValue(R, I, h, v))
    BY DEF Sizes, TiesAt
  <2> HIDE DEF J
  <2> QED
    BY <1>2, <2>1, <2>2
<1>4. \A f, g : f \in [1..2 -> Nat] /\ g = [h \in 1..2 |-> g[h]]
                /\ (\A h \in 1..2 : g[h] = IF h = k THEN f[h] + 1 ELSE f[h]) => g = More(f, k, 1)
  BY <1>1 DEF More
<1>5. /\ Sizes(R, I) \in [1..2 -> Nat] /\ TiesAt(R, I, v) \in [1..2 -> Nat]
      /\ Sizes(R, J) = [h \in 1..2 |-> Sizes(R, J)[h]]
      /\ TiesAt(R, J, v) = [h \in 1..2 |-> TiesAt(R, J, v)[h]]
  BY <1>2, FS_CardinalityType DEF Sizes, TiesAt
<1> HIDE DEF J
<1> QED
  BY <1>3, <1>4, <1>5 DEF J

(* A row more adds the pairs that it makes with the rows of the other      *)
(* sample.                                                                 *)
LEMMA PairsGrow ==
  ASSUME NEW R, NEW I, IsFiniteSet(I), NEW n, n \notin I, NEW G, NEW S,
         S = IF R[n].first THEN {b \in I : ~R[b].first /\ <<R[n].value, R[b].value>> \in G}
             ELSE {a \in I : R[a].first /\ <<R[a].value, R[n].value>> \in G}
  PROVE  /\ IsFiniteSet(PairsIn(R, I, G)) /\ IsFiniteSet(S)
         /\ Cardinality(PairsIn(R, I \cup {n}, G)) = Cardinality(PairsIn(R, I, G)) + Cardinality(S)
<1> DEFINE J == I \cup {n}
           f == [b \in S |-> IF R[n].first THEN <<n, b>> ELSE <<b, n>>]
           N == {f[b] : b \in S}
<1>0. S \subseteq I
  OBVIOUS
<1>1. IsFiniteSet(S)
  <2>1. S \subseteq I
    OBVIOUS
  <2> QED
    BY <2>1, FS_Subset
<1>2. IsFiniteSet(PairsIn(R, I, G))
  <2>1. PairsIn(R, I, G) \subseteq I \X I
    BY DEF PairsIn
  <2> QED
    BY <2>1, FS_Product, FS_Subset
<1>3. IsFiniteSet(N) /\ Cardinality(N) = Cardinality(S)
  <2>1. f \in [S -> N]
    OBVIOUS
  <2>2. \A x, y \in S : f[x] = f[y] => x = y
    OBVIOUS
  <2>3. \A z \in N : \E x \in S : f[x] = z
    OBVIOUS
  <2> HIDE DEF f, N
  <2> QED
    BY ONLY <1>1, <2>1, <2>2, <2>3, SameCardinality
<1>4. PairsIn(R, J, G) = PairsIn(R, I, G) \cup N
  <2>1. ASSUME NEW p \in PairsIn(R, J, G), p \notin PairsIn(R, I, G)
        PROVE  p \in N
    <3>1. PICK a \in J, b \in J : p = <<a, b>>
      BY <2>1 DEF PairsIn
    <3>2. R[a].first /\ ~R[b].first /\ <<R[a].value, R[b].value>> \in G
      BY <2>1, <3>1 DEF PairsIn
    <3>3. (a = n /\ b # n /\ b \in I) \/ (b = n /\ a # n /\ a \in I)
      <4>1. ~(a \in I /\ b \in I)
        BY <2>1, <3>1, <3>2 DEF PairsIn
      <4> QED
        BY <3>1, <3>2, <4>1
    <3>4. CASE a = n /\ b # n /\ b \in I
      <4>1. b \in S /\ f[b] = p
        BY <3>1, <3>2, <3>4
      <4> QED
        BY <4>1
    <3>5. CASE b = n /\ a # n /\ a \in I
      <4>1. a \in S /\ f[a] = p
        BY <3>1, <3>2, <3>5
      <4> QED
        BY <4>1
    <3> QED
      BY <3>3, <3>4, <3>5
  <2>2. ASSUME NEW x \in S
        PROVE  f[x] \in PairsIn(R, J, G)
    <3>1. CASE R[n].first
      <4>1. f[x] = <<n, x>> /\ ~R[x].first /\ <<R[n].value, R[x].value>> \in G /\ x \in J /\ n \in J
        BY <3>1
      <4> HIDE DEF f
      <4> QED
        BY <3>1, <4>1 DEF PairsIn
    <3>2. CASE ~R[n].first
      <4>1. f[x] = <<x, n>> /\ R[x].first /\ <<R[x].value, R[n].value>> \in G /\ x \in J /\ n \in J
        BY <3>2
      <4> HIDE DEF f
      <4> QED
        BY <3>2, <4>1 DEF PairsIn
    <3> QED
      BY <3>1, <3>2
  <2>3. PairsIn(R, I, G) \subseteq PairsIn(R, J, G)
    BY DEF PairsIn
  <2> HIDE DEF f
  <2> QED
    BY <2>1, <2>2, <2>3
<1>5. PairsIn(R, I, G) \cap N = {}
  <2>1. \A x \in S : f[x] \notin I \X I
    BY <1>0
  <2>2. PairsIn(R, I, G) \subseteq I \X I
    BY DEF PairsIn
  <2> HIDE DEF f
  <2> QED
    BY <2>1, <2>2
<1> HIDE DEF N, f
<1>6. Cardinality(PairsIn(R, I, G) \cup N) = Cardinality(PairsIn(R, I, G)) + Cardinality(N)
  BY <1>2, <1>3, <1>5, DisjointUnion
<1> QED
  BY <1>1, <1>2, <1>3, <1>4, <1>6

LastOf(R, I) == IF I = {} THEN 0 ELSE R[Cardinality(I)].value
\* Twice the number of pairs that each sample wins, ties as halves, and of ranks.
Wins(R, I) ==
  [k \in 1..2 |-> 2 * Cardinality(PairsIn(R, I, IF k = 1 THEN Above ELSE Below))
                    + Cardinality(PairsIn(R, I, Level))]
RankSums(R, I) == [k \in 1..2 |-> Sizes(R, I)[k] * (Sizes(R, I)[k] + 1) + Wins(R, I)[k]]
MOf(R, I) == MState(Sizes(R, I), TiesAt(R, I, LastOf(R, I)), RankSums(R, I), LastOf(R, I))

(* The counts of a finite set of rows are natural numbers.                 *)
LEMMA CountsAre ==
  ASSUME NEW R, NEW I, IsFiniteSet(I)
  PROVE  /\ Sizes(R, I) \in [1..2 -> Nat] /\ \A v : TiesAt(R, I, v) \in [1..2 -> Nat]
         /\ Wins(R, I) \in [1..2 -> Nat] /\ RankSums(R, I) \in [1..2 -> Nat]
         /\ \A G : IsFiniteSet(PairsIn(R, I, G)) /\ Cardinality(PairsIn(R, I, G)) \in Nat
<1>1. \A k : OfSample(R, I, k) \subseteq I /\ \A v : WithValue(R, I, k, v) \subseteq I
  BY DEF OfSample, WithValue
<1>2. Sizes(R, I) \in [1..2 -> Nat] /\ \A v : TiesAt(R, I, v) \in [1..2 -> Nat]
  BY <1>1, FS_Subset, FS_CardinalityType DEF Sizes, TiesAt
<1>3. \A G : PairsIn(R, I, G) \subseteq I \X I
  BY DEF PairsIn
<1>4. \A G : IsFiniteSet(PairsIn(R, I, G)) /\ Cardinality(PairsIn(R, I, G)) \in Nat
  BY <1>3, FS_Product, FS_Subset, FS_CardinalityType
<1>5. Wins(R, I) \in [1..2 -> Nat]
  <2>1. \A k \in 1..2 : 2 * Cardinality(PairsIn(R, I, IF k = 1 THEN Above ELSE Below))
                          + Cardinality(PairsIn(R, I, Level)) \in Nat
    BY <1>4
  <2> QED
    BY <2>1 DEF Wins
<1>6. RankSums(R, I) \in [1..2 -> Nat]
  <2> DEFINE f == Sizes(R, I)
             g == Wins(R, I)
  <2>1. \A k \in 1..2 : f[k] \in Nat /\ g[k] \in Nat
    BY <1>2, <1>5
  <2> HIDE DEF f, g
  <2>2. \A k \in 1..2 : f[k] * (f[k] + 1) + g[k] \in Nat
    BY <2>1
  <2> QED
    BY <2>2 DEF RankSums, f, g
<1> QED
  BY <1>2, <1>4, <1>5, <1>6

(* A row with the largest value so far wins over what is below it and ties *)
(* with what is level.                                                     *)
LEMMA WinsGrow ==
  ASSUME NEW R, NEW I, IsFiniteSet(I), NEW n, n \notin I, NEW v \in Int, R[n].value = v,
         \A i \in I : R[i].value \in Int /\ R[i].value <= v,
         NEW k, k = Sample(R[n].first), NEW h, h = 3 - k
  PROVE  /\ Wins(R, I \cup {n})[k] = Wins(R, I)[k] + 2 * Sizes(R, I)[h] - TiesAt(R, I, v)[h]
         /\ Wins(R, I \cup {n})[h] = Wins(R, I)[h] + TiesAt(R, I, v)[h]
<1> DEFINE J == I \cup {n}
           F == OfSample(R, I, h)
           T == WithValue(R, I, h, v)
           L == F \ T
           S(G) == IF R[n].first THEN {b \in I : ~R[b].first /\ <<R[n].value, R[b].value>> \in G}
                   ELSE {a \in I : R[a].first /\ <<R[a].value, R[n].value>> \in G}
           g == IF k = 1 THEN Above ELSE Below
           w == IF k = 1 THEN Below ELSE Above
<1>1. k \in 1..2 /\ h \in 1..2 /\ h # k
  BY DEF Sample
<1>2. IsFiniteSet(F) /\ IsFiniteSet(T) /\ IsFiniteSet(L) /\ T \subseteq F
  <2>1. F \subseteq I /\ T \subseteq F /\ L \subseteq I
    BY DEF OfSample, WithValue
  <2> QED
    BY <2>1, FS_Subset
<1>3. Cardinality(L) = Cardinality(F) - Cardinality(T)
  <2>1. F = T \cup L /\ T \cap L = {}
    BY <1>2
  <2> HIDE DEF F, T, L
  <2>2. Cardinality(F) = Cardinality(T) + Cardinality(L)
    BY <1>2, <2>1, DisjointUnion
  <2> QED
    BY <1>2, <2>2, FS_CardinalityType
<1>4. S(Level) = T /\ S(g) = L /\ S(w) = {}
  <2>1. \A i \in I : <<v, R[i].value>> \in Int \X Int /\ <<R[i].value, v>> \in Int \X Int
    OBVIOUS
  <2>2. \A i \in I : /\ <<v, R[i].value>> \in Level <=> R[i].value = v
                     /\ <<R[i].value, v>> \in Level <=> R[i].value = v
                     /\ <<v, R[i].value>> \in Above <=> R[i].value # v
                     /\ <<R[i].value, v>> \in Below <=> R[i].value # v
                     /\ <<v, R[i].value>> \notin Below /\ <<R[i].value, v>> \notin Above
    BY <2>1 DEF Level, Above, Below
  <2>3. CASE R[n].first
    <3>1. k = 1 /\ h = 2 /\ \A i \in I : Sample(R[i].first) = h <=> ~R[i].first
      BY <2>3 DEF Sample
    <3> QED
      BY <2>2, <2>3, <3>1 DEF OfSample, WithValue
  <2>4. CASE ~R[n].first
    <3>1. k = 2 /\ h = 1 /\ \A i \in I : Sample(R[i].first) = h <=> R[i].first
      BY <2>4 DEF Sample
    <3>2. F = {i \in I : R[i].first} /\ T = {i \in I : R[i].first /\ R[i].value = v}
      BY <3>1 DEF OfSample, WithValue
    <3>3. g = Below /\ w = Above
      BY <3>1
    <3>4. \A G : S(G) = {i \in I : R[i].first /\ <<R[i].value, v>> \in G}
      BY <2>4
    <3> HIDE DEF S, F, T, g, w
    <3>5. S(Level) = T
      BY <2>2, <3>2, <3>4
    <3>6. S(Below) = L
      BY <2>2, <3>2, <3>4
    <3>7. S(Above) = {}
      BY <2>2, <3>4
    <3> QED
      BY <3>3, <3>5, <3>6, <3>7
  <2> QED
    BY <2>3, <2>4
<1>5. \A G : Cardinality(PairsIn(R, J, G)) = Cardinality(PairsIn(R, I, G)) + Cardinality(S(G))
  BY PairsGrow
<1> HIDE DEF J, F, T, L, S
<1>6. /\ Cardinality(PairsIn(R, J, g)) = Cardinality(PairsIn(R, I, g)) + Cardinality(L)
      /\ Cardinality(PairsIn(R, J, w)) = Cardinality(PairsIn(R, I, w))
      /\ Cardinality(PairsIn(R, J, Level)) = Cardinality(PairsIn(R, I, Level)) + Cardinality(T)
  <2>1. Cardinality({}) = 0
    BY FS_EmptySet
  <2>2. Cardinality(PairsIn(R, I, w)) \in Nat
    BY CountsAre
  <2> HIDE DEF g, w
  <2> QED
    BY <1>4, <1>5, <2>1, <2>2
<1>7. /\ Wins(R, J)[k] = 2 * Cardinality(PairsIn(R, J, g)) + Cardinality(PairsIn(R, J, Level))
      /\ Wins(R, I)[k] = 2 * Cardinality(PairsIn(R, I, g)) + Cardinality(PairsIn(R, I, Level))
      /\ Wins(R, J)[h] = 2 * Cardinality(PairsIn(R, J, w)) + Cardinality(PairsIn(R, J, Level))
      /\ Wins(R, I)[h] = 2 * Cardinality(PairsIn(R, I, w)) + Cardinality(PairsIn(R, I, Level))
  BY <1>1 DEF Wins
<1>8. Sizes(R, I)[h] = Cardinality(F) /\ TiesAt(R, I, v)[h] = Cardinality(T)
  BY <1>1 DEF Sizes, TiesAt, F, T
<1>9. /\ Cardinality(F) \in Nat /\ Cardinality(T) \in Nat
      /\ Cardinality(PairsIn(R, I, g)) \in Nat /\ Cardinality(PairsIn(R, I, w)) \in Nat
      /\ Cardinality(PairsIn(R, I, Level)) \in Nat
  BY <1>2, CountsAre, FS_CardinalityType
<1> HIDE DEF g, w
<1>10. /\ Wins(R, J)[k] = Wins(R, I)[k] + 2 * Sizes(R, I)[h] - TiesAt(R, I, v)[h]
       /\ Wins(R, J)[h] = Wins(R, I)[h] + TiesAt(R, I, v)[h]
  BY <1>3, <1>6, <1>7, <1>8, <1>9
<1> QED
  BY <1>10 DEF J

(* The rank of the row, with half a rank for every tie.                    *)
LEMMA RanksGrow ==
  ASSUME NEW R, NEW I, IsFiniteSet(I), NEW n, n \notin I, NEW v \in Int, R[n].value = v,
         \A i \in I : R[i].value \in Int /\ R[i].value <= v,
         NEW k, k = Sample(R[n].first), NEW t, t = TiesAt(R, I, v)
  PROVE  RankSums(R, I \cup {n}) = RankUp(Plus(RankSums(R, I), t), k, Sizes(R, I), t)
<1> DEFINE J == I \cup {n}
           h == 3 - k
           a == Sizes(R, I)
           b == Sizes(R, J)
           r == RankSums(R, I)
           x == Wins(R, I)
           y == Wins(R, J)
<1>1. k \in 1..2 /\ h \in 1..2 /\ h # k
  BY DEF Sample
<1>2. a \in [1..2 -> Nat] /\ t \in [1..2 -> Nat] /\ x \in [1..2 -> Nat] /\ r \in [1..2 -> Nat]
  BY CountsAre
<1>3. IsFiniteSet(J)
  BY FS_AddElement
<1>4. RankSums(R, J) \in [1..2 -> Nat]
  BY <1>3, CountsAre
<1>5. b = More(a, k, 1)
  BY SizesGrow
<1>6. y[k] = x[k] + 2 * a[h] - t[h] /\ y[h] = x[h] + t[h]
  BY <1>1, WinsGrow
<1>7. TotalOf(a) = a[k] + a[h] /\ TotalOf(t) = t[k] + t[h]
  <2>1. \A f \in [1..2 -> Nat] : TotalOf(f) = f[1] + f[2]
    BY OfTwo
  <2>2. \A f \in [1..2 -> Nat] : f[1] + f[2] = f[k] + f[h]
    BY <1>1
  <2> QED
    BY <1>2, <2>1, <2>2
<1>8. /\ RankSums(R, J)[k] = b[k] * (b[k] + 1) + y[k] /\ RankSums(R, J)[h] = b[h] * (b[h] + 1) + y[h]
      /\ r[k] = a[k] * (a[k] + 1) + x[k] /\ r[h] = a[h] * (a[h] + 1) + x[h]
  BY <1>1 DEF RankSums
<1> HIDE DEF J, h, a, b, r, x, y
<1>9. b[k] = a[k] + 1 /\ b[h] = a[h]
  BY <1>1, <1>2, <1>5 DEF More
<1>10. /\ RankSums(R, J)[k] = r[k] + t[k] + 2 * (a[k] + a[h] + 1) - (t[k] + t[h])
       /\ RankSums(R, J)[h] = r[h] + t[h]
  <2> DEFINE ak == a[k]
             ah == a[h]
             tk == t[k]
             th == t[h]
             xk == x[k]
             xh == x[h]
  <2>1. ak \in Nat /\ ah \in Nat /\ tk \in Nat /\ th \in Nat /\ xk \in Nat /\ xh \in Nat
    BY <1>1, <1>2
  <2>2. /\ RankSums(R, J)[k] = (ak + 1) * ((ak + 1) + 1) + (xk + 2 * ah - th)
        /\ RankSums(R, J)[h] = ah * (ah + 1) + (xh + th)
        /\ r[k] = ak * (ak + 1) + xk /\ r[h] = ah * (ah + 1) + xh
    BY <1>6, <1>8, <1>9
  <2> HIDE DEF ak, ah, tk, th, xk, xh
  <2>3. (ak + 1) * ((ak + 1) + 1) = ak * (ak + 1) + 2 * ak + 2
    BY <2>1
  <2>4. /\ RankSums(R, J)[k] = r[k] + tk + 2 * (ak + ah + 1) - (tk + th)
        /\ RankSums(R, J)[h] = r[h] + th
    BY <2>1, <2>2, <2>3
  <2> QED
    BY <2>4 DEF ak, ah, tk, th
<1> DEFINE f == RankUp(Plus(r, t), k, a, t)
<1>11. /\ DOMAIN f = 1..2 /\ f = [i \in 1..2 |-> f[i]]
       /\ f[k] = r[k] + t[k] + 2 * (TotalOf(a) + 1) - TotalOf(t) /\ f[h] = r[h] + t[h]
  BY <1>1, <1>2 DEF RankUp, Plus
<1> HIDE DEF f
<1>12. \A i \in 1..2 : i = k \/ i = h
  BY <1>1 DEF h
<1>13. \A i \in 1..2 : RankSums(R, J)[i] = f[i]
  BY <1>7, <1>10, <1>11, <1>12
<1>14. RankSums(R, J) = [i \in 1..2 |-> RankSums(R, J)[i]]
  BY <1>4
<1>15. RankSums(R, J) = f
  BY <1>11, <1>13, <1>14
<1> QED
  BY <1>15 DEF f, J, r, a

MV(R) == [I \in SUBSET DOMAIN R |-> MOf(R, I)]
\* Rows that are not in order.
Unordered(R) == {I \in SUBSET DOMAIN R : \E i, j \in I : i < j /\ R[i].value > R[j].value}
\* The values of rows are numbers.
Valued(R) == DOMAIN R = 1..Len(R) /\ Len(R) \in Nat /\ \A i \in DOMAIN R : R[i].value \in Int

\* The row n keeps the rows I in order, or not.
InOrder(R, I, n) == I \cup {n} \in Unordered(R) <=> (I # {} /\ LastOf(R, I) > R[n].value)

(* Without a row of a value none ties at it.                               *)
LEMMA NoneTie ==
  ASSUME NEW R, NEW I, NEW v, \A i \in I : R[i].value # v
  PROVE  TiesAt(R, I, v) = <<0, 0>>
<1>1. \A k : WithValue(R, I, k, v) = {}
  BY DEF WithValue, OfSample
<1>2. TiesAt(R, I, v) = [k \in 1..2 |-> 0]
  BY <1>1, FS_EmptySet DEF TiesAt
<1>3. [k \in 1..2 |-> 0] = <<0, 0>>
  OBVIOUS
<1> QED
  BY <1>2, <1>3

(* Every row is of one of the two samples.                                 *)
LEMMA AllInSamples ==
  ASSUME NEW R, NEW I, IsFiniteSet(I)
  PROVE  TotalOf(Sizes(R, I)) = Cardinality(I)
<1>1. I = OfSample(R, I, 1) \cup OfSample(R, I, 2) /\ OfSample(R, I, 1) \cap OfSample(R, I, 2) = {}
  BY DEF OfSample, Sample
<1>2. IsFiniteSet(OfSample(R, I, 1)) /\ IsFiniteSet(OfSample(R, I, 2))
  BY <1>1, FS_Subset
<1>3. Cardinality(I) = Cardinality(OfSample(R, I, 1)) + Cardinality(OfSample(R, I, 2))
  BY <1>1, <1>2, DisjointUnion
<1>4. /\ DOMAIN Sizes(R, I) = 1..2 /\ Sizes(R, I)[1] = Cardinality(OfSample(R, I, 1))
      /\ Sizes(R, I)[2] = Cardinality(OfSample(R, I, 2))
  BY DEF Sizes
<1>5. Cardinality(OfSample(R, I, 1)) \in Int /\ Cardinality(OfSample(R, I, 2)) \in Int
  BY <1>2, FS_CardinalityType
<1>6. TotalOf(Sizes(R, I)) = Sizes(R, I)[1] + Sizes(R, I)[2]
  BY <1>4, <1>5, OfTwo
<1> QED
  BY <1>3, <1>4, <1>6

\* The rows I come before n, the last of them has the largest value, and n keeps them in order or not.
LastIsLargest(R, I, n) ==
  /\ IsFiniteSet(I) /\ Cardinality(I) = n - 1 /\ n \notin I /\ I \in SUBSET DOMAIN R
  /\ (I # {} => n - 1 \in I /\ LastOf(R, I) = R[n - 1].value)
  /\ LastOf(R, I \cup {n}) = R[n].value /\ LastOf(R, I) \in Int /\ R[n].value \in Int
  /\ \A i \in I : R[i].value \in Int /\ R[i].value <= LastOf(R, I)
  /\ InOrder(R, I, n)

(* Of rows in order, the last has the largest value; one more keeps them   *)
(* in order if it is no smaller.                                           *)
LEMMA FirstRows ==
  ASSUME NEW R, Valued(R), NEW n \in DOMAIN R, NEW I, I = 1..n - 1, I \notin Unordered(R)
  PROVE  LastIsLargest(R, I, n)
<1> DEFINE J == I \cup {n}
<1>1. n \in 1..Len(R) /\ Len(R) \in Nat /\ I = 1..n - 1 /\ n \in Nat \ {0} /\ n - 1 \in Nat
  BY DEF Valued
<1>2. IsFiniteSet(I) /\ Cardinality(I) = n - 1
  BY <1>1, FS_Interval
<1>3. n \notin I /\ I \in SUBSET DOMAIN R /\ J \in SUBSET DOMAIN R /\ J = 1..n
  BY <1>1 DEF Valued
<1>4. Cardinality(J) = n /\ J # {}
  <2>1. Cardinality(1..n) = n
    BY <1>1, FS_Interval
  <2> QED
    BY <1>1, <1>3, <2>1
<1>5. \A i \in DOMAIN R : R[i].value \in Int
  BY DEF Valued
<1>6. I # {} => n - 1 \in I /\ LastOf(R, I) = R[n - 1].value
  BY <1>1, <1>2 DEF LastOf
<1>7. LastOf(R, J) = R[n].value
  BY <1>4 DEF LastOf
<1>8. LastOf(R, I) \in Int
  <2>1. CASE I = {}
    BY <2>1 DEF LastOf
  <2>2. CASE I # {}
    BY <1>3, <1>5, <1>6, <2>2
  <2> QED
    BY <2>1, <2>2
<1>9. ASSUME NEW i \in I
      PROVE  R[i].value \in Int /\ R[i].value <= LastOf(R, I)
  <2>1. I # {} /\ i \in DOMAIN R /\ (i < n - 1 \/ i = n - 1)
    BY <1>1, <1>3
  <2>2. R[i].value \in Int /\ R[n - 1].value \in Int
    BY <1>3, <1>5, <1>6, <2>1
  <2>3. ~(i < n - 1 /\ R[i].value > R[n - 1].value)
    BY <1>3, <1>6, <2>1 DEF Unordered
  <2> QED
    BY <1>6, <2>1, <2>2, <2>3
<1>10. J \in Unordered(R) <=> (I # {} /\ LastOf(R, I) > R[n].value)
  <2>1. ASSUME I # {}, LastOf(R, I) > R[n].value
        PROVE  J \in Unordered(R)
    <3>1. n - 1 \in J /\ n \in J /\ n - 1 < n /\ R[n - 1].value > R[n].value
      BY <1>1, <1>6, <2>1
    <3> QED
      BY <1>3, <3>1 DEF Unordered
  <2>2. ASSUME J \in Unordered(R)
        PROVE  I # {} /\ LastOf(R, I) > R[n].value
    <3>1. PICK i \in J, j \in J : i < j /\ R[i].value > R[j].value
      BY <2>2 DEF Unordered
    <3>2. i \in I
      BY <1>1, <1>3, <3>1
    <3>3. j \notin I
      BY <1>3, <3>1, <3>2 DEF Unordered
    <3>4. j = n
      BY <3>3
    <3> HIDE DEF J
    <3>5. R[i].value <= LastOf(R, I) /\ R[i].value \in Int /\ R[n].value \in Int
      BY <1>5, <1>9, <3>2
    <3> QED
      BY <1>8, <3>1, <3>2, <3>4, <3>5
  <2> QED
    BY <2>1, <2>2
<1> QED
  BY <1>2, <1>3, <1>5, <1>6, <1>7, <1>8, <1>9, <1>10 DEF InOrder, LastIsLargest

\* What the sizes, ties and rank sums of rows are with the row n.
MGrown(R, I, n, v, k, u) ==
  /\ Sizes(R, I \cup {n}) = More(Sizes(R, I), k, 1)
  /\ TiesAt(R, I \cup {n}, v) = More(u, k, 1)
  /\ RankSums(R, I \cup {n}) = RankUp(Plus(RankSums(R, I), u), k, Sizes(R, I), u)

(* A row with the largest value so far, all counts together.               *)
LEMMA Grows ==
  ASSUME NEW R, NEW I, IsFiniteSet(I), NEW n, n \notin I, NEW v \in Int, v = R[n].value,
         \A i \in I : R[i].value \in Int /\ R[i].value <= v,
         NEW k, k = Sample(R[n].first), NEW u, u = TiesAt(R, I, v)
  PROVE  MGrown(R, I, n, v, k, u)
<1>1. /\ Sizes(R, I \cup {n}) = More(Sizes(R, I), k, 1)
      /\ TiesAt(R, I \cup {n}, v) = More(TiesAt(R, I, v), k, 1)
  BY SizesGrow
<1>2. RankSums(R, I \cup {n}) = RankUp(Plus(RankSums(R, I), u), k, Sizes(R, I), u)
  BY RanksGrow
<1> QED
  BY <1>1, <1>2 DEF MGrown

(* The transition reads a row in order into the state of the rows before   *)
(* it, and raises the exception for another.                               *)
LEMMA MReads ==
  ASSUME NEW R, Valued(R), NEW n \in DOMAIN R, NEW I, I = 1..n - 1, I \notin Unordered(R)
  PROVE  Adds(MV(R), Unordered(R), I, n, mw_test_transition(MOf(R, I), R[n]))
<1>0. LastIsLargest(R, I, n)
  BY FirstRows
<1> DEFINE J == I \cup {n}
           v == R[n].value
           k == Sample(R[n].first)
           l == LastOf(R, I)
           a == Sizes(R, I)
           t == TiesAt(R, I, l)
           u == TiesAt(R, I, v)
           r == RankSums(R, I)
           value == mw_test_transition(MOf(R, I), R[n])
<1>1. /\ IsFiniteSet(I) /\ n \notin I /\ I \in SUBSET DOMAIN R
      /\ l \in Int /\ v \in Int /\ LastOf(R, J) = v
      /\ \A i \in I : R[i].value \in Int /\ R[i].value <= l
      /\ (J \in Unordered(R) <=> (I # {} /\ l > v))
  BY ONLY <1>0 DEF LastIsLargest, InOrder, J, v, l
<1>2. TotalOf(a) > 0 <=> I # {}
  <2>1. TotalOf(a) = Cardinality(I) /\ Cardinality(I) \in Nat /\ (Cardinality(I) = 0 <=> I = {})
    BY <1>1, AllInSamples, FS_CardinalityType, FS_EmptySet
  <2> QED
    BY <2>1
<1>3. value = IF l > v /\ TotalOf(a) > 0 THEN Exception
              ELSE IF l = v
              THEN MState(More(a, k, 1), More(t, k, 1), RankUp(Plus(r, t), k, a, t), v)
              ELSE IF l < v
              THEN MState(More(a, k, 1), More(<<0, 0>>, k, 1), RankUp(r, k, a, <<0, 0>>), v)
              ELSE MState(More(a, k, 1), More(t, k, 1), RankUp(r, k, a, t), v)
  BY MTransitionIs DEF MOf
<1>4. MV(R)[J] = MOf(R, J)
  BY <1>1 DEF MV
<1> HIDE DEF J, v, k, l, a, t, u, r, value
<1>5. CASE l > v /\ I # {}
  BY <1>1, <1>2, <1>3, <1>5 DEF Adds, J, value
<1>6. CASE ~(l > v /\ I # {})
  <2>1. J \notin Unordered(R) /\ ~(l > v /\ TotalOf(a) > 0)
    BY <1>1, <1>2, <1>6
  <2>2. \A i \in I : R[i].value \in Int /\ R[i].value <= v
    BY <1>1, <1>6
  <2>3. MOf(R, J) = MState(More(a, k, 1), More(u, k, 1), RankUp(Plus(r, u), k, a, u), v)
    <3>2. v = R[n].value /\ k = Sample(R[n].first) /\ u = TiesAt(R, I, v)
      BY DEF v, k, u
    <3>3. MGrown(R, I, n, v, k, u)
      BY <1>1, <2>2, <3>2, Grows
    <3>4. /\ Sizes(R, J) = More(a, k, 1) /\ TiesAt(R, J, v) = More(u, k, 1)
          /\ RankSums(R, J) = RankUp(Plus(r, u), k, a, u)
      BY <3>3 DEF MGrown, J, a, r
    <3> QED
      BY <1>1, <3>4 DEF MOf
  <2>4. CASE l = v
    <3>1. t = u
      BY <2>4 DEF t, u
    <3> QED
      BY <1>3, <2>1, <2>3, <2>4, <3>1, <1>4 DEF Adds, J, value
  <2>5. r \in [1..2 -> Nat]
    BY <1>1, CountsAre DEF r
  <2>6. Plus(r, <<0, 0>>) = r
    <3>1. \A i \in 1..2 : r[i] + <<0, 0>>[i] = r[i]
      BY <2>5
    <3>2. Plus(r, <<0, 0>>) = [i \in 1..2 |-> r[i]]
      BY <3>1 DEF Plus
    <3> QED
      BY <2>5, <3>2
  <2>7. CASE l < v
    <3>1. u = <<0, 0>>
      <4>1. \A i \in I : R[i].value # v
        BY <1>1, <2>7
      <4> QED
        BY <4>1, NoneTie DEF u
    <3>2. value = MState(More(a, k, 1), More(u, k, 1), RankUp(Plus(r, u), k, a, u), v)
      BY <1>1, <1>3, <2>1, <2>6, <2>7, <3>1
    <3> QED
      BY <1>4, <2>1, <2>3, <3>2 DEF Adds, J, value
  <2>8. CASE l > v
    <3>1. I = {}
      BY <1>6, <2>8
    <3>2. t = <<0, 0>> /\ u = <<0, 0>>
      BY <3>1, NoneTie DEF t, u
    <3>3. value = MState(More(a, k, 1), More(u, k, 1), RankUp(Plus(r, u), k, a, u), v)
      BY <1>1, <1>3, <2>1, <2>6, <2>8, <3>2
    <3> QED
      BY <1>4, <2>1, <2>3, <3>3 DEF Adds, J, value
  <2> QED
    BY <1>1, <2>4, <2>7, <2>8
<1> QED
  BY <1>5, <1>6

MInv == job.test = "mw_test" => ScanKept(MV(job.rows), Unordered(job.rows))

(* The rows of the test have numbers as values.                            *)
LEMMA MRows ==
  ASSUME NEW R \in Seq(Row("mw_test"))
  PROVE  Valued(R)
<1>1. Row("mw_test") = Sampled
  BY DEF Row, TTests, Optimizers
<1>2. \A i \in DOMAIN R : R[i] \in Sampled
  BY <1>1
<1>3. \A r \in Sampled : r.value \in Int
  BY DEF Sampled
<1>4. DOMAIN R = 1..Len(R) /\ Len(R) \in Nat
  OBVIOUS
<1> QED
  BY <1>2, <1>3, <1>4 DEF Valued

(* Every pair of the samples is above, below or level.                     *)
LEMMA AllPairs ==
  ASSUME NEW R, NEW I, IsFiniteSet(I), \A i \in I : R[i].value \in Int
  PROVE  Cardinality(PairsIn(R, I, Above)) + Cardinality(PairsIn(R, I, Below))
           + Cardinality(PairsIn(R, I, Level)) = Sizes(R, I)[1] * Sizes(R, I)[2]
<1> DEFINE F == OfSample(R, I, 1)
           G == OfSample(R, I, 2)
           X == PairsIn(R, I, Above)
           Y == PairsIn(R, I, Below)
           Z == PairsIn(R, I, Level)
<1>1. IsFiniteSet(F) /\ IsFiniteSet(G)
  <2>1. F \subseteq I /\ G \subseteq I
    BY DEF OfSample
  <2> QED
    BY <2>1, FS_Subset
<1>2. /\ IsFiniteSet(X) /\ IsFiniteSet(Y) /\ IsFiniteSet(Z)
      /\ Cardinality(X) \in Nat /\ Cardinality(Y) \in Nat /\ Cardinality(Z) \in Nat
  BY CountsAre
<1>3. \A i \in I : (i \in F <=> R[i].first) /\ (i \in G <=> ~R[i].first)
  BY DEF OfSample, Sample
<1>4. F \subseteq I /\ G \subseteq I
  BY DEF OfSample
<1>5. X \cap Y = {} /\ (X \cup Y) \cap Z = {}
  BY DEF PairsIn, Above, Below, Level
<1>6. (X \cup Y) \cup Z = F \X G
  <2>1. ASSUME NEW p \in F \X G PROVE p \in (X \cup Y) \cup Z
    <3>1. /\ p \in I \X I /\ R[p[1]].first /\ ~R[p[2]].first
          /\ R[p[1]].value \in Int /\ R[p[2]].value \in Int
      BY <1>3, <1>4
    <3>2. <<R[p[1]].value, R[p[2]].value>> \in Above \cup Below \cup Level
      BY <3>1 DEF Above, Below, Level
    <3> QED
      BY <3>1, <3>2 DEF PairsIn
  <2>2. (X \cup Y) \cup Z \subseteq F \X G
    BY <1>3 DEF PairsIn
  <2> QED
    BY <2>1, <2>2
<1>7. Cardinality(F \X G) = Cardinality(F) * Cardinality(G)
  BY <1>1, FS_Product
<1> HIDE DEF F, G, X, Y, Z
<1>8. Cardinality(X \cup Y) = Cardinality(X) + Cardinality(Y) /\ IsFiniteSet(X \cup Y)
  BY <1>2, <1>5, DisjointUnion, FS_Union
<1>9. Cardinality((X \cup Y) \cup Z) = Cardinality(X \cup Y) + Cardinality(Z)
  BY <1>2, <1>5, <1>8, DisjointUnion
<1>10. Sizes(R, I)[1] = Cardinality(F) /\ Sizes(R, I)[2] = Cardinality(G)
  BY DEF Sizes, F, G
<1> QED
  BY <1>6, <1>7, <1>8, <1>9, <1>10 DEF X, Y, Z

(* The rank sum less that of the sample within itself is the number of     *)
(* pairs won.                                                              *)
LEMMA MFinalIs ==
  ASSUME NEW R, NEW I, IsFiniteSet(I), \A i \in I : R[i].value \in Int
  PROVE  mw_test_final(MOf(R, I)) =
           [num |-> Sizes(R, I), u_statistic |-> Min({Wins(R, I)[1], Wins(R, I)[2]})]
<1> DEFINE n == Sizes(R, I)
           w == Wins(R, I)
           r == RankSums(R, I)
           s == MOf(R, I)
           a == Cardinality(PairsIn(R, I, Above))
           b == Cardinality(PairsIn(R, I, Below))
           l == Cardinality(PairsIn(R, I, Level))
<1>1. s.num = n /\ s.rankSum = r
  BY MFields DEF MOf
<1>2. w[1] = 2 * a + l /\ w[2] = 2 * b + l
  BY DEF Wins
<1>3. r[2] = n[2] * (n[2] + 1) + w[2]
  BY DEF RankSums
<1>4. a + b + l = n[1] * n[2]
  BY AllPairs
<1>5. /\ a \in Nat /\ b \in Nat /\ l \in Nat /\ n[1] \in Nat /\ n[2] \in Nat
      /\ w[1] \in Nat /\ w[2] \in Nat
  BY CountsAre
<1> HIDE DEF a, b, l, n, w, r, s
<1>6. r[2] - n[2] * (n[2] + 1) = w[2]
  <2> DEFINE q == n[2] * (n[2] + 1)
  <2>1. q \in Int
    BY <1>5
  <2> HIDE DEF q
  <2>2. r[2] = q + w[2]
    BY <1>3 DEF q
  <2>3. r[2] - q = w[2]
    BY <1>5, <2>1, <2>2
  <2> QED
    BY <2>3 DEF q
<1>7. 2 * n[1] * n[2] - w[2] = w[1]
  <2>1. 2 * n[1] * n[2] = 2 * (n[1] * n[2])
    BY <1>5
  <2> QED
    BY <1>2, <1>4, <1>5, <2>1
<1>8. mw_test_final(s) = [num |-> n, u_statistic |-> Min({w[2], w[1]})]
  <2>1. mw_test_final(s) =
          [num |-> s.num,
           u_statistic |-> Min({s.rankSum[2] - s.num[2] * (s.num[2] + 1),
                                2 * s.num[1] * s.num[2]
                                  - (s.rankSum[2] - s.num[2] * (s.num[2] + 1))})]
    BY DEF mw_test_final
  <2> QED
    BY <1>1, <1>6, <1>7, <2>1
<1>9. {w[2], w[1]} = {w[1], w[2]}
  OBVIOUS
<1> QED
  BY <1>8, <1>9 DEF s, n, w

(* A row that is out of order is so with the one before it.                *)
LEMMA DisorderedIs ==
  ASSUME Valued(rows)
  PROVE  Disordered(ValuesAt(DOMAIN rows)) <=> DOMAIN rows \in Unordered(rows)
<1> DEFINE R == rows
           D == DOMAIN R
           N == Len(R)
           s == ValuesAt(D)
<1>1. D = 1..N /\ N \in Nat /\ \A i \in D : R[i].value \in Int
  BY DEF Valued
<1>2. s \in Seq(Int) /\ Len(s) = N /\ \A i \in D : s[i] = R[i].value
  <2>1. s = [i \in D |-> R[i].value]
    BY DEF ValuesAt
  <2> HIDE DEF R, s, N
  <2>2. s \in [1..N -> Int]
    BY <1>1, <2>1
  <2>3. s \in Seq(Int) /\ Len(s) = N
    BY <1>1, <2>2
  <2> QED
    BY <2>1, <2>3
<1> HIDE DEF R, s, N
<1>3. ASSUME NEW i \in 1..N - 1, s[i] > s[i + 1]
      PROVE  D \in Unordered(R)
  <2>1. i \in D /\ i + 1 \in D /\ i < i + 1
    BY <1>1
  <2> QED
    BY <1>2, <1>3, <2>1 DEF Unordered
<1>4. ASSUME D \in Unordered(R), \A i \in 1..N - 1 : ~(s[i] > s[i + 1])
      PROVE  FALSE
  <2>1. PICK i \in D, j \in D : i < j /\ R[i].value > R[j].value
    BY <1>4 DEF Unordered
  <2> DEFINE T == {m \in D : m > i /\ R[m].value < R[i].value}
  <2>2. T \in SUBSET Nat /\ T # {}
    BY <1>1, <2>1
  <2>3. PICK m \in T : \A k \in T : m <= k
    BY <2>2, LeastNumber
  <2>4. m \in 1..N /\ i \in 1..N /\ m > i /\ R[m].value < R[i].value
    BY <1>1, <2>1, <2>3
  <2>5. m - 1 \in 1..N - 1 /\ m - 1 \in D /\ (m - 1) + 1 = m /\ m - 1 >= i /\ ~(m <= m - 1)
    BY <1>1, <2>4
  <2>6. m - 1 \notin T
    BY <2>3, <2>5
  <2>7. m - 1 = i \/ ~(R[m - 1].value < R[i].value)
    BY <2>4, <2>5, <2>6
  <2>8. ~(R[m - 1].value > R[m].value)
    <3>1. ~(s[m - 1] > s[(m - 1) + 1])
      BY <1>4, <2>5
    <3> QED
      BY <1>1, <1>2, <2>4, <2>5, <3>1
  <2>9. R[m - 1].value \in Int /\ R[m].value \in Int /\ R[i].value \in Int
    BY <1>1, <2>4, <2>5
  <2> QED
    BY <2>4, <2>7, <2>8, <2>9
<1>5. Disordered(s) <=> \E i \in 1..N - 1 : s[i] > s[i + 1]
  BY <1>2 DEF Disordered
<1> QED
  BY <1>3, <1>4, <1>5 DEF R, s

\* What is answered, of the pairs.
MAnswers(R) ==
  IF DOMAIN R \in Unordered(R) THEN result = Exception
  ELSE /\ result # Exception
       /\ result.u_statistic = Min({Wins(R, DOMAIN R)[1], Wins(R, DOMAIN R)[2]})
       /\ result.num = Sizes(R, DOMAIN R)

(* The property, by the pairs and sizes of all rows.                       *)
LEMMA MPropertyIs ==
  ASSUME Valued(rows), Ended({"mw_test"}) => MAnswers(rows)
  PROVE  UStatisticCountsPairs
<1> DEFINE R == rows
           D == DOMAIN R
           ties == Pairs(LAMBDA a, b : a = b)
           wins == Pairs(LAMBDA a, b : a > b)
           loses == Pairs(LAMBDA a, b : a < b)
<1>1. \A i \in D : R[i].value \in Int
  BY DEF Valued
<1>2. /\ ties = Cardinality(PairsIn(R, D, Level)) /\ wins = Cardinality(PairsIn(R, D, Above))
      /\ loses = Cardinality(PairsIn(R, D, Below))
  <2>1. PairsIn(R, D, Level) = {p \in D \X D : R[p[1]].first /\ ~R[p[2]].first
                                                /\ R[p[1]].value = R[p[2]].value}
    BY <1>1 DEF PairsIn, Level
  <2>2. PairsIn(R, D, Above) = {p \in D \X D : R[p[1]].first /\ ~R[p[2]].first
                                                /\ R[p[1]].value > R[p[2]].value}
    BY <1>1 DEF PairsIn, Above
  <2>3. PairsIn(R, D, Below) = {p \in D \X D : R[p[1]].first /\ ~R[p[2]].first
                                                /\ R[p[1]].value < R[p[2]].value}
    BY <1>1 DEF PairsIn, Below
  <2> QED
    BY <2>1, <2>2, <2>3 DEF Pairs
<1>3. Wins(R, D)[1] = 2 * wins + ties /\ Wins(R, D)[2] = 2 * loses + ties
  <2>1. /\ Wins(R, D)[1] = 2 * Cardinality(PairsIn(R, D, Above)) + Cardinality(PairsIn(R, D, Level))
        /\ Wins(R, D)[2] = 2 * Cardinality(PairsIn(R, D, Below)) + Cardinality(PairsIn(R, D, Level))
    BY DEF Wins
  <2> HIDE DEF ties, wins, loses, R, D
  <2> QED
    BY <1>2, <2>1
<1>4. Sizes(R, D) = <<Size(LAMBDA r : r.first), Size(LAMBDA r : ~r.first)>>
  <2>1. OfSample(R, D, 1) = Where(LAMBDA r : r.first) /\ OfSample(R, D, 2) = Where(LAMBDA r : ~r.first)
    BY DEF OfSample, Sample, Where
  <2>2. /\ Cardinality(OfSample(R, D, 1)) = Size(LAMBDA r : r.first)
        /\ Cardinality(OfSample(R, D, 2)) = Size(LAMBDA r : ~r.first)
    BY <2>1 DEF Size
  <2> QED
    BY <2>2 DEF Sizes
<1>5. Disordered(ValuesAt(D)) <=> D \in Unordered(R)
  BY DisorderedIs
<1> HIDE DEF ties, wins, loses
<1>6. SUFFICES ASSUME Ended({"mw_test"})
               PROVE  IF Disordered(ValuesAt(D)) THEN result = Exception
                      ELSE /\ result # Exception
                           /\ result.u_statistic = Min({2 * wins + ties, 2 * loses + ties})
                           /\ result.num = <<Size(LAMBDA r : r.first), Size(LAMBDA r : ~r.first)>>
  BY Zenon DEF UStatisticCountsPairs, ties, wins, loses
<1> QED
  BY <1>3, <1>4, <1>5, <1>6 DEF MAnswers

(* The state of no rows is the initial one.                                *)
LEMMA MNone ==
  ASSUME NEW R
  PROVE  MOf(R, {}) = MWState
<1>1. Sizes(R, {}) = <<0, 0>>
  <2>1. \A k : OfSample(R, {}, k) = {}
    BY DEF OfSample
  <2>2. Sizes(R, {}) = [k \in 1..2 |-> 0]
    BY <2>1, FS_EmptySet DEF Sizes
  <2>3. [k \in 1..2 |-> 0] = <<0, 0>>
    OBVIOUS
  <2> QED
    BY <2>2, <2>3
<1>2. \A v : TiesAt(R, {}, v) = <<0, 0>>
  BY NoneTie
<1>3. \A G : Cardinality(PairsIn(R, {}, G)) = 0
  <2>1. \A G : PairsIn(R, {}, G) = {}
    BY DEF PairsIn
  <2> QED
    BY <2>1, FS_EmptySet
<1>4. \A k \in 1..2 : Wins(R, {})[k] = 0
  BY <1>3 DEF Wins
<1>5. RankSums(R, {}) = <<0, 0>>
  <2>1. \A k \in 1..2 : Sizes(R, {})[k] * (Sizes(R, {})[k] + 1) + Wins(R, {})[k] = 0
    BY <1>1, <1>4
  <2>2. RankSums(R, {}) = [k \in 1..2 |-> 0]
    BY <2>1 DEF RankSums
  <2>3. [k \in 1..2 |-> 0] = <<0, 0>>
    OBVIOUS
  <2> QED
    BY <2>2, <2>3
<1>6. LastOf(R, {}) = 0
  BY DEF LastOf
<1> QED
  BY <1>1, <1>2, <1>5, <1>6 DEF MOf, MState, MWState

(* The Mann-Whitney test is an aggregate over rows in order.               *)
LEMMA MIsScanned ==
  "mw_test" \in (Tests \ Optimizers) \cap Ordered /\ "mw_test" \notin TTests
BY DEF Tests, TTests, Optimizers, Ordered

(* A state of the test is none of the marks.                               *)
LEMMA MNoMark ==
  ASSUME MarksAreNoRecords, NEW R, NEW I
  PROVE  MOf(R, I) \notin {Null, Exception, Pending}
<1>1. "num" \in DOMAIN MOf(R, I)
  BY DEF MOf, MState
<1> QED
  BY <1>1 DEF MarksAreNoRecords

(* The state is that of no rows at first.                                  *)
LEMMA MInit == Init \/ NoQuery => MInv
<1>1. NoQuery => MInv
  BY NoQueryScans, MIsScanned DEF MInv
<1>2. ASSUME Init, job.test = "mw_test" PROVE MInv
  <2>1. Initial(job.test) = MWState
    BY <1>2, MIsScanned DEF Initial, TTests, Optimizers
  <2>2. MV(job.rows)[{}] = MWState
    BY MNone DEF MV
  <2>3. {} \notin Unordered(job.rows)
    BY DEF Unordered
  <2> QED
    BY <1>2, <2>1, <2>2, <2>3, MIsScanned, KeptFromTheStart DEF MInv
<1> QED
  BY <1>1, <1>2 DEF MInv

(* Every step leaves the state that of the rows read, or ends the query as *)
(* it says.                                                                *)
LEMMA MNext ==
  ASSUME MarksAreNoRecords, ScanInv, MInv, Next
  PROVE  MInv'
<1> SUFFICES ASSUME job'.test = "mw_test" PROVE MInv'
  BY DEF MInv
<1>0. PICK R : R = job.rows
  OBVIOUS
<1> DEFINE D == DOMAIN R
           V == MV(R)
           B == Unordered(R)
<1>1. job' = job /\ job.test = "mw_test" /\ ScanKept(V, B)
  BY <1>0, ScanNext DEF MInv
<1>2. /\ R \in Seq(Row("mw_test")) /\ job.test \in Tests \ Optimizers /\ ~job.spread
  BY <1>0, <1>1, MIsScanned, JobsAre DEF ScanInv, JobOf
<1>3. \A st, r, k : Transition(job.test, st, r, k) = mw_test_transition(st, r)
  BY <1>1, MIsScanned DEF Transition, TTests, Optimizers
<1>4. \A st : Final(job.test, st) = mw_test_final(st)
  BY <1>1, MIsScanned DEF Final, TTests, Optimizers
<1>5. Valued(R)
  BY <1>2, MRows
<1>6. \A I \in SUBSET D : V[I] = MOf(R, I)
  BY DEF MV
<1>7. Unmarked(V, D)
  BY <1>6, MNoMark DEF Unmarked
<1>8. Lasting(B, D)
  <2> SUFFICES ASSUME NEW I \in SUBSET D, NEW J \in SUBSET D, I \in B, I \subseteq J
               PROVE  J \in B
    BY DEF Lasting
  <2> QED
    BY DEF Unordered
<1> HIDE DEF V, B, D
<1>9. Final(job.test, V[D]) # Pending
  <2>1. "num" \in DOMAIN mw_test_final(V[D])
    BY DEF mw_test_final
  <2> QED
    BY <1>4, <2>1 DEF MarksAreNoRecords
<1>10. AddsRows(V, B, D)
  <2> SUFFICES ASSUME NEW I \in SUBSET D, NEW n \in D, I \notin B, I = 1..n - 1
               PROVE  Adds(V, B, I, n, Transition(job.test, V[I], job.rows[n], n))
    BY <1>2 DEF AddsRows
  <2>1. Adds(MV(R), Unordered(R), I, n, mw_test_transition(MOf(R, I), R[n]))
    BY <1>5, MReads DEF B, D
  <2>2. V[I] = MOf(R, I) /\ job.rows[n] = R[n]
    BY <1>0, <1>6
  <2>3. Transition(job.test, V[I], job.rows[n], n) = mw_test_transition(MOf(R, I), R[n])
    BY <1>3, <2>2
  <2> QED
    BY <2>1, <2>3 DEF V, B
<1>11. JoinsRows(V, B, D)
  BY <1>2 DEF JoinsRows
<1>12. ScanKept(V, B)'
  <2>1. D = DOMAIN job.rows
    BY <1>0 DEF D
  <2> QED
    BY <1>1, <1>2, <1>7, <1>8, <1>9, <1>10, <1>11, <2>1, KeptByASpread
<1> QED
  BY <1>0, <1>1, <1>12 DEF MInv, V, B

(* What the state keeps gives the property.                                *)
LEMMA MAnswered ==
  ASSUME MarksAreNoRecords, ScanInv, MInv
  PROVE  UStatisticCountsPairs
<1>1. CASE ~Ended({"mw_test"})
  BY <1>1 DEF UStatisticCountsPairs
<1>2. CASE Ended({"mw_test"})
  <2>1. job.test = "mw_test" /\ result # Pending
    BY <1>2 DEF Ended
  <2>2. rows \in Seq(Row("mw_test"))
    BY <2>1, MIsScanned, JobsAre DEF ScanInv, JobOf, rows
  <2>3. \A st : Final(job.test, st) = mw_test_final(st)
    BY <2>1, MIsScanned DEF Final, TTests, Optimizers
  <2>4. Valued(rows)
    BY <2>2, MRows
  <2>5. IsFiniteSet(DOMAIN rows) /\ \A i \in DOMAIN rows : rows[i].value \in Int
    BY <2>4, FS_Interval DEF Valued
  <2>6. ScanKept(MV(rows), Unordered(rows))
    BY <2>1 DEF MInv, rows
  <2>7. MV(rows)[DOMAIN rows] = MOf(rows, DOMAIN rows)
    BY DEF MV
  <2>8. result = IF DOMAIN rows \in Unordered(rows) THEN Exception
                 ELSE mw_test_final(MOf(rows, DOMAIN rows))
    BY <2>1, <2>3, <2>6, <2>7 DEF ScanKept, rows
  <2>9. mw_test_final(MOf(rows, DOMAIN rows)) =
          [num |-> Sizes(rows, DOMAIN rows),
           u_statistic |-> Min({Wins(rows, DOMAIN rows)[1], Wins(rows, DOMAIN rows)[2]})]
    BY <2>5, MFinalIs
  <2>10. MAnswers(rows)
    <3>1. CASE DOMAIN rows \in Unordered(rows)
      BY <2>8, <3>1 DEF MAnswers
    <3>2. CASE DOMAIN rows \notin Unordered(rows)
      <4>1. result = [num |-> Sizes(rows, DOMAIN rows),
                      u_statistic |-> Min({Wins(rows, DOMAIN rows)[1], Wins(rows, DOMAIN rows)[2]})]
        BY <2>8, <2>9, <3>2
      <4>2. /\ "num" \in DOMAIN result /\ result.num = Sizes(rows, DOMAIN rows)
            /\ result.u_statistic = Min({Wins(rows, DOMAIN rows)[1], Wins(rows, DOMAIN rows)[2]})
        BY <4>1
      <4>3. result # Exception
        BY <4>2 DEF MarksAreNoRecords
      <4> QED
        BY <3>2, <4>2, <4>3 DEF MAnswers
    <3> QED
      BY <3>1, <3>2
  <2> QED
    BY <2>4, <2>10, MPropertyIs
<1> QED
  BY <1>1, <1>2

(* mann_whitney_test.cpp: ranks that were given before their tie was known *)
(* are put right by the later ties, and the U statistic is the pairs won.  *)
THEOREM UStatistic ==
  ASSUME MarksAreNoRecords
  PROVE  SessionSpec => []UStatisticCountsPairs
<1>1. SessionInit => MInv
  BY SessionStarts, MInit
<1>2. ScanInv /\ MInv /\ [Next]_vars => MInv'
  <2>1. ASSUME MInv, UNCHANGED vars PROVE MInv'
    <3>1. PICK R : R = job.rows
      OBVIOUS
    <3>2. job' = job
      BY <2>1 DEF vars
    <3> QED
      BY <2>1, <3>1, <3>2, KeptStays DEF MInv
  <2> QED
    BY <2>1, MNext
<1>3. ScanInv /\ MInv => UStatisticCountsPairs
  BY MAnswered
<1> QED
  BY <1>1, <1>2, <1>3, SessionScans, PTL DEF SessionSpec

-----------------------------------------------------------------------------
(* Kolmogorov-Smirnov test: the largest difference of any prefix of the    *)
(* rows is that of the samples, and of any value.                          *)

(* A nonempty finite set of integers has a greatest element.               *)
LEMMA GreatestNumber ==
  ASSUME NEW S, IsFiniteSet(S), S \subseteq Int, S # {}
  PROVE  Max(S) \in S /\ \A y \in S : Max(S) >= y
<1> DEFINE Tops(X) == {x \in X : \A y \in X : x >= y}
           F == {X \in SUBSET S : X # {} /\ Tops(X) = {}}
<1>1. ASSUME F # {} PROVE FALSE
  <2>1. F \in SUBSET (SUBSET S)
    OBVIOUS
  <2>2. PICK X \in F : \A Y \in F : Y \subseteq X => Y = X
    <3>1. IsFiniteSet(S) /\ F # {}
      BY <1>1
    <3> HIDE DEF F
    <3> QED
      BY ONLY <2>1, <3>1, MinimalSet
  <2>3. PICK x \in X : TRUE
    BY <2>2
  <2> DEFINE Y == X \ {x}
  <2>4. x \in Int /\ Y \subseteq X /\ Y # X /\ X \subseteq Int /\ Y \in SUBSET S
    BY <2>2, <2>3
  <2>5. CASE Y = {}
    <3>1. X = {x}
      BY <2>3, <2>5
    <3>2. x \in Tops(X)
      BY <2>4, <3>1
    <3> QED
      BY <2>2, <3>2
  <2>6. CASE Y # {}
    <3>1. Tops(Y) # {}
      BY <2>2, <2>4, <2>6
    <3>2. PICK m \in Y : \A y \in Y : m >= y
      BY <3>1
    <3>3. CASE m >= x
      <4>1. m \in Tops(X)
        BY <2>4, <3>2, <3>3
      <4> QED
        BY <2>2, <4>1
    <3>4. CASE ~(m >= x)
      <4>1. \A y \in X : x >= y
        BY <2>4, <3>2, <3>4
      <4>2. x \in Tops(X)
        BY <2>3, <4>1
      <4> QED
        BY <2>2, <4>2
    <3> QED
      BY <3>3, <3>4
  <2> QED
    BY <2>5, <2>6
<1>2. \E x \in S : \A y \in S : x >= y
  <2>1. S \in SUBSET S /\ S \notin F
    BY <1>1
  <2>2. Tops(S) # {}
    BY <2>1
  <2> QED
    BY <2>2
<1> QED
  BY <1>2 DEF Max

(* An element that is no less than the others is the greatest.             *)
LEMMA GreatestIs ==
  ASSUME NEW S, S \subseteq Int, NEW m \in S, \A y \in S : m >= y
  PROVE  Max(S) = m
<1>1. \A x \in S : (\A y \in S : x >= y) => x = m
  <2> SUFFICES ASSUME NEW x \in S, \A y \in S : x >= y PROVE x = m
    OBVIOUS
  <2>1. x >= m /\ m >= x /\ x \in Int /\ m \in Int
    OBVIOUS
  <2> QED
    BY <2>1
<1>2. Max(S) \in S /\ \A y \in S : Max(S) >= y
  BY DEF Max
<1> QED
  BY <1>1, <1>2

(* With one number more, the greatest is the larger of it and the greatest *)
(* so far.                                                                 *)
LEMMA GreatestGrows ==
  ASSUME NEW S, IsFiniteSet(S), S \subseteq Int, S # {}, NEW d \in Int
  PROVE  Max({Max(S), d}) = Max(S \cup {d})
<1>1. Max(S) \in S /\ (\A y \in S : Max(S) >= y) /\ Max(S) \in Int
  BY GreatestNumber
<1> DEFINE m == Max(S)
<1> HIDE DEF m
<1>2. m \in S /\ (\A y \in S : m >= y /\ y \in Int) /\ m \in Int
  BY <1>1 DEF m
<1>3. CASE m >= d
  <2>1. Max({m, d}) = m
    BY <1>2, <1>3, GreatestIs
  <2>2. \A y \in S \cup {d} : m >= y
    BY <1>2, <1>3
  <2>3. Max(S \cup {d}) = m
    BY <1>2, <2>2, GreatestIs
  <2> QED
    BY <2>1, <2>3 DEF m
<1>4. CASE ~(m >= d)
  <2>1. Max({m, d}) = d
    BY <1>2, <1>4, GreatestIs
  <2>2. \A y \in S \cup {d} : d >= y
    BY <1>2, <1>4
  <2>3. Max(S \cup {d}) = d
    BY <1>2, <2>2, GreatestIs
  <2> QED
    BY <2>1, <2>3 DEF m
<1> QED
  BY <1>3, <1>4

-----------------------------------------------------------------------------
\* The sizes that the rows repeat, and the largest difference of a prefix.
SizeOf(R, I) == IF I = {} THEN <<0, 0>> ELSE R[Cardinality(I)].expectedNum
Differences(R, I, size) == {Difference(Sizes(R, 1..k), size) : k \in I}
Greatest(R, I, size) == Max({0} \cup Differences(R, I, size))

KState(a, l, m, e) == [num |-> a, last |-> l, maxDiff |-> m, expectedNum |-> e]
KOf(R, I) == KState(Sizes(R, I), LastOf(R, I), Greatest(R, I, SizeOf(R, I)), SizeOf(R, I))
KV(R) == [I \in SUBSET DOMAIN R |-> KOf(R, I)]
KBad(R) == {I \in SUBSET DOMAIN R :
              I \in Unordered(R) \/ \E i, j \in I : R[i].expectedNum # R[j].expectedNum}

(* The rows of the test have numbers as values and pairs of sizes.         *)
LEMMA KRows ==
  ASSUME NEW R \in Seq(Row("ks_test"))
  PROVE  /\ Valued(R)
         /\ \A i \in DOMAIN R : /\ R[i].expectedNum \in Nat \X Nat /\ R[i].first \in BOOLEAN
                                /\ R[i].value \in Int
<1> DEFINE K == [first: BOOLEAN, value: Int, expectedNum: Nat \X Nat]
<1>1. Row("ks_test") = K
  BY DEF Row, TTests, Optimizers
<1>2. \A i \in DOMAIN R : R[i] \in K
  <2> HIDE DEF K
  <2>1. R \in Seq(K)
    BY <1>1
  <2> QED
    BY <2>1
<1>3. \A r \in K : r.value \in Int /\ r.first \in BOOLEAN /\ r.expectedNum \in Nat \X Nat
  OBVIOUS
<1>4. DOMAIN R = 1..Len(R) /\ Len(R) \in Nat
  OBVIOUS
<1> HIDE DEF K
<1> QED
  BY <1>2, <1>3, <1>4 DEF Valued

(* The difference is the absolute value of the signed one.                 *)
LEMMA DifferenceIs ==
  ASSUME NEW a, a[1] \in Int, a[2] \in Int, NEW z, z[1] \in Int, z[2] \in Int,
         NEW d, d = a[1] * z[2] - a[2] * z[1]
  PROVE  /\ Difference(a, z) = IF d < 0 THEN -d ELSE d
         /\ Difference(a, z) \in Nat /\ d \in Int
<1>1. d \in Int
  OBVIOUS
<1>2. Difference(a, z) = IF d < 0 THEN -d ELSE d
  BY DEF Difference
<1> QED
  BY <1>1, <1>2

(* The differences of the prefixes are finitely many natural numbers.      *)
LEMMA DifferencesAre ==
  ASSUME NEW R, Valued(R), NEW I \in SUBSET DOMAIN R, NEW z, z[1] \in Int, z[2] \in Int
  PROVE  /\ IsFiniteSet({0} \cup Differences(R, I, z)) /\ {0} \cup Differences(R, I, z) \subseteq Nat
         /\ Greatest(R, I, z) \in {0} \cup Differences(R, I, z) /\ Greatest(R, I, z) \in Nat
         /\ \A d \in {0} \cup Differences(R, I, z) : Greatest(R, I, z) >= d
<1> DEFINE S == Differences(R, I, z)
           f == [k \in I |-> Difference(Sizes(R, 1..k), z)]
<1>1. IsFiniteSet(I) /\ \A k \in I : k \in Nat
  <2>1. IsFiniteSet(DOMAIN R) /\ DOMAIN R \subseteq Nat
    BY FS_Interval DEF Valued
  <2> QED
    BY <2>1, FS_Subset
<1>2. \A k \in I : Difference(Sizes(R, 1..k), z) \in Nat
  <2> SUFFICES ASSUME NEW k \in I PROVE Difference(Sizes(R, 1..k), z) \in Nat
    OBVIOUS
  <2>1. IsFiniteSet(1..k)
    BY <1>1, FS_Interval
  <2>2. Sizes(R, 1..k) \in [1..2 -> Nat]
    BY <2>1, CountsAre
  <2>3. Sizes(R, 1..k)[1] \in Int /\ Sizes(R, 1..k)[2] \in Int
    BY <2>2
  <2> QED
    BY <2>3, DifferenceIs
<1>3. S \subseteq Nat
  BY <1>2 DEF Differences
<1>4. IsFiniteSet(S)
  <2>1. DOMAIN f = I /\ S = {f[k] : k \in I}
    BY DEF Differences
  <2> HIDE DEF f, S
  <2> QED
    BY <1>1, <2>1, FiniteImage
<1>5. IsFiniteSet({0} \cup S) /\ {0} \cup S \subseteq Nat /\ {0} \cup S \subseteq Int /\ {0} \cup S # {}
  <2> HIDE DEF S
  <2>1. IsFiniteSet({0})
    BY FS_Singleton
  <2>2. IsFiniteSet({0} \cup S)
    BY <1>4, <2>1, FS_Union
  <2> QED
    BY <1>3, <2>2
<1>6. Max({0} \cup S) \in {0} \cup S /\ \A d \in {0} \cup S : Max({0} \cup S) >= d
  BY <1>5, GreatestNumber
<1> QED
  BY <1>5, <1>6 DEF Greatest

(* The fields of a state of the Kolmogorov-Smirnov test.                   *)
LEMMA KFields ==
  ASSUME NEW a, NEW l, NEW m, NEW e, NEW s, s = KState(a, l, m, e)
  PROVE  s.num = a /\ s.last = l /\ s.maxDiff = m /\ s.expectedNum = e
BY DEF KState

\* A row of other sizes than those before it, or out of order.
Refused(R, I, n) == I # {} /\ (SizeOf(R, I) # R[n].expectedNum \/ LastOf(R, I) > R[n].value)

(* The transition of the Kolmogorov-Smirnov test, by fields.               *)
LEMMA KTransitionIs ==
  ASSUME NEW R, NEW I, IsFiniteSet(I), NEW n
  PROVE  ks_test_transition(KOf(R, I), R[n]) =
           IF Refused(R, I, n) THEN Exception
           ELSE KState(More(Sizes(R, I), Sample(R[n].first), 1), R[n].value,
                       Max({Greatest(R, I, SizeOf(R, I)),
                            Difference(More(Sizes(R, I), Sample(R[n].first), 1),
                                       R[n].expectedNum)}),
                       R[n].expectedNum)
<1> DEFINE s == KOf(R, I)
           row == R[n]
           b == More(Sizes(R, I), Sample(R[n].first), 1)
<1>1. /\ s.num = Sizes(R, I) /\ s.last = LastOf(R, I) /\ s.expectedNum = SizeOf(R, I)
      /\ s.maxDiff = Greatest(R, I, SizeOf(R, I))
  BY KFields DEF KOf
<1>2. TotalOf(Sizes(R, I)) > 0 <=> I # {}
  <2>1. TotalOf(Sizes(R, I)) = Cardinality(I) /\ Cardinality(I) \in Nat
    BY AllInSamples, FS_CardinalityType
  <2>2. Cardinality(I) = 0 <=> I = {}
    BY FS_EmptySet
  <2> QED
    BY <2>1, <2>2
<1>3. [Sizes(R, I) EXCEPT ![Sample(R[n].first)] = @ + 1] = b
  BY DEF More
<1> HIDE DEF s, row, b
<1>4. ks_test_transition(s, row) =
        IF TotalOf(s.num) > 0 /\ (s.expectedNum # row.expectedNum \/ s.last > row.value)
        THEN Exception
        ELSE [num |-> [s.num EXCEPT ![Sample(row.first)] = @ + 1], last |-> row.value,
              expectedNum |-> row.expectedNum,
              maxDiff |-> Max({s.maxDiff,
                 Difference([s.num EXCEPT ![Sample(row.first)] = @ + 1], row.expectedNum)})]
  BY Zenon DEF ks_test_transition
<1>5. [s.num EXCEPT ![Sample(row.first)] = @ + 1] = b
  BY <1>1, <1>3 DEF row
<1>6. TotalOf(s.num) > 0 /\ (s.expectedNum # row.expectedNum \/ s.last > row.value)
        <=> Refused(R, I, n)
  BY <1>1, <1>2 DEF Refused, row
<1>7. ks_test_transition(s, row) =
        IF Refused(R, I, n) THEN Exception
        ELSE [num |-> b, last |-> row.value, expectedNum |-> row.expectedNum,
              maxDiff |-> Max({Greatest(R, I, SizeOf(R, I)), Difference(b, row.expectedNum)})]
  BY <1>1, <1>4, <1>5, <1>6
<1> QED
  BY <1>7 DEF KState, s, row, b

(* A row is refused where the rows up to it are out of order or differ in  *)
(* their sizes.                                                            *)
LEMMA KRefused ==
  ASSUME NEW R, Valued(R), NEW n \in DOMAIN R, NEW I, I = 1..n - 1, I \notin KBad(R)
  PROVE  I \cup {n} \in KBad(R) <=> Refused(R, I, n)
<1> DEFINE J == I \cup {n}
<1>1. I \in SUBSET DOMAIN R /\ J \in SUBSET DOMAIN R
  BY DEF Valued
<1>2. I \notin Unordered(R) /\ \A i, j \in I : R[i].expectedNum = R[j].expectedNum
  BY <1>1 DEF KBad
<1>3. LastIsLargest(R, I, n)
  BY <1>2, FirstRows
<1>4. J \in Unordered(R) <=> (I # {} /\ LastOf(R, I) > R[n].value)
  BY <1>3 DEF LastIsLargest, InOrder
<1>5. I # {} => /\ n - 1 \in I /\ SizeOf(R, I) = R[n - 1].expectedNum
  BY <1>3 DEF LastIsLargest, SizeOf
<1>6. (\E i, j \in J : R[i].expectedNum # R[j].expectedNum)
        <=> (I # {} /\ SizeOf(R, I) # R[n].expectedNum)
  <2>1. ASSUME I # {}, SizeOf(R, I) # R[n].expectedNum
        PROVE  \E i, j \in J : R[i].expectedNum # R[j].expectedNum
    BY <1>5, <2>1
  <2>2. ASSUME NEW i \in J, NEW j \in J, R[i].expectedNum # R[j].expectedNum
        PROVE  I # {} /\ SizeOf(R, I) # R[n].expectedNum
    BY <1>2, <1>5, <2>2
  <2> QED
    BY <2>1, <2>2
<1>7. J \in KBad(R) <=> (J \in Unordered(R) \/ \E i, j \in J : R[i].expectedNum # R[j].expectedNum)
  BY <1>1 DEF KBad
<1> QED
  BY <1>4, <1>6, <1>7 DEF Refused

(* A row more is one more of its sample.                                   *)
LEMMA NextSizes ==
  ASSUME NEW R, NEW I, IsFiniteSet(I), NEW n, n \notin I
  PROVE  Sizes(R, I \cup {n}) = More(Sizes(R, I), Sample(R[n].first), 1)
<1>1. PICK v : R[n].value = v
  OBVIOUS
<1>2. PICK k : k = Sample(R[n].first)
  OBVIOUS
<1>3. Sizes(R, I \cup {n}) = More(Sizes(R, I), k, 1)
  BY <1>1, <1>2, SizesGrow
<1> QED
  BY <1>2, <1>3

(* The transition reads a row that fits into the state of the rows before  *)
(* it, and raises the exception for another.                               *)
LEMMA KReads ==
  ASSUME NEW R, Valued(R), NEW n \in DOMAIN R, NEW I, I = 1..n - 1, I \notin KBad(R),
         \A i \in DOMAIN R : R[i].expectedNum \in Nat \X Nat
  PROVE  Adds(KV(R), KBad(R), I, n, ks_test_transition(KOf(R, I), R[n]))
<1> DEFINE J == I \cup {n}
           b == More(Sizes(R, I), Sample(R[n].first), 1)
           z == R[n].expectedNum
           value == ks_test_transition(KOf(R, I), R[n])
<1>1. I \in SUBSET DOMAIN R /\ J \in SUBSET DOMAIN R /\ J = 1..n /\ n \in J
  BY DEF Valued
<1>2. I \notin Unordered(R)
  BY <1>1 DEF KBad
<1>3. LastIsLargest(R, I, n)
  BY <1>2, FirstRows
<1>4. /\ IsFiniteSet(I) /\ n \notin I /\ LastOf(R, J) = R[n].value /\ Cardinality(I) = n - 1
      /\ R[n].value \in Int
  BY <1>3 DEF LastIsLargest
<1>5. J \in KBad(R) <=> Refused(R, I, n)
  BY KRefused
<1>6. KV(R)[J] = KOf(R, J)
  BY <1>1 DEF KV
<1>7. CASE J \in KBad(R)
  <2>1. value = Exception
    BY <1>4, <1>5, <1>7, KTransitionIs
  <2> QED
    BY <1>7, <2>1 DEF Adds
<1>8. CASE J \notin KBad(R)
  <2>1. Sizes(R, J) = b
    BY <1>4, NextSizes
  <2>2. SizeOf(R, J) = z
    <3>1. Cardinality(J) = n /\ J # {}
      <4>1. n \in Nat
        BY DEF Valued
      <4>2. Cardinality(J) = Cardinality(I) + 1
        BY <1>4, OneMore
      <4> QED
        BY <1>1, <1>4, <4>1, <4>2
    <3> QED
      BY <3>1 DEF SizeOf
  <2>3. Differences(R, I, SizeOf(R, I)) = Differences(R, I, z)
    <3>1. I = {} \/ SizeOf(R, I) = z
      BY <1>5, <1>8 DEF Refused
    <3> QED
      BY <3>1 DEF Differences
  <2>4. z[1] \in Int /\ z[2] \in Int
    <3>1. z \in Nat \X Nat
      OBVIOUS
    <3> QED
      BY <3>1
  <2> DEFINE S == {0} \cup Differences(R, I, z)
             d == Difference(b, z)
  <2>5. IsFiniteSet(S) /\ S \subseteq Nat
    <3> HIDE DEF z
    <3> QED
      BY <1>1, <2>4, DifferencesAre
  <2>6. {0} \cup Differences(R, J, z) = S \cup {d} /\ d \in Int
    <3>1. d = Difference(Sizes(R, 1..n), z)
      BY <1>1, <2>1
    <3>2. Differences(R, J, z) = Differences(R, I, z) \cup {d}
      BY <3>1 DEF Differences
    <3>3. {0} \cup Differences(R, J, z) \subseteq Nat
      <4> HIDE DEF z
      <4> QED
        BY <1>1, <2>4, DifferencesAre
    <3>4. d \in {0} \cup Differences(R, J, z)
      BY <3>2
    <3> HIDE DEF d, z, J
    <3>5. {0} \cup Differences(R, J, z) = S \cup {d}
      BY <3>2
    <3> QED
      BY <3>3, <3>4, <3>5
  <2>7. Max({Greatest(R, I, SizeOf(R, I)), d}) = Greatest(R, J, z)
    <3>1. Greatest(R, I, SizeOf(R, I)) = Max(S) /\ Greatest(R, J, z) = Max(S \cup {d})
      BY <2>3, <2>6 DEF Greatest
    <3>2. S # {} /\ S \subseteq Int
      BY <2>5
    <3> HIDE DEF S, d
    <3> QED
      BY <2>5, <2>6, <3>1, <3>2, GreatestGrows
  <2>8. value = KState(b, R[n].value, Max({Greatest(R, I, SizeOf(R, I)), d}), z)
    BY <1>4, <1>5, <1>8, KTransitionIs
  <2>9. value = KOf(R, J)
    BY <1>4, <2>1, <2>2, <2>7, <2>8 DEF KOf
  <2> QED
    BY <1>6, <1>8, <2>9 DEF Adds
<1> QED
  BY <1>7, <1>8

\* The rows of no larger a value, and the largest difference of the samples at any value.
Upto(R, v) == {j \in DOMAIN R : R[j].value <= v}
Distances(R, z) == {Difference(Sizes(R, Upto(R, R[i].value)), z) : i \in DOMAIN R}
Distance(R, z) == Max({0} \cup Distances(R, z))
Signed(R, I, z) == Sizes(R, I)[1] * z[2] - Sizes(R, I)[2] * z[1]

(* The difference of some rows, with its sign and without.                 *)
LEMMA SignedIs ==
  ASSUME NEW R, NEW I, IsFiniteSet(I), NEW z, z[1] \in Int, z[2] \in Int
  PROVE  /\ Signed(R, I, z) \in Int /\ Difference(Sizes(R, I), z) \in Nat
         /\ Difference(Sizes(R, I), z) =
              IF Signed(R, I, z) < 0 THEN -Signed(R, I, z) ELSE Signed(R, I, z)
         /\ Sizes(R, I)[1] \in Nat /\ Sizes(R, I)[2] \in Nat
<1>1. Sizes(R, I) \in [1..2 -> Nat]
  BY CountsAre
<1>2. Sizes(R, I)[1] \in Nat /\ Sizes(R, I)[2] \in Nat
  BY <1>1
<1> DEFINE a == Sizes(R, I)
           d == Signed(R, I, z)
<1>3. d = a[1] * z[2] - a[2] * z[1]
  BY DEF Signed
<1> HIDE DEF a, d
<1>4. a[1] \in Int /\ a[2] \in Int
  BY <1>2 DEF a
<1>5. Difference(a, z) = (IF d < 0 THEN -d ELSE d) /\ Difference(a, z) \in Nat /\ d \in Int
  BY <1>3, <1>4, DifferenceIs
<1> QED
  BY <1>2, <1>5 DEF a, d

(* The distances at the values are finitely many natural numbers.          *)
LEMMA DistancesAre ==
  ASSUME NEW R, Valued(R), NEW z, z[1] \in Int, z[2] \in Int
  PROVE  /\ {0} \cup Distances(R, z) \subseteq Nat
         /\ Distance(R, z) \in {0} \cup Distances(R, z)
         /\ \A d \in {0} \cup Distances(R, z) : Distance(R, z) >= d
<1> DEFINE S == Distances(R, z)
           f == [i \in DOMAIN R |-> Difference(Sizes(R, Upto(R, R[i].value)), z)]
<1>1. IsFiniteSet(DOMAIN R)
  BY FS_Interval DEF Valued
<1>2. S \subseteq Nat
  <2>1. ASSUME NEW i \in DOMAIN R PROVE Difference(Sizes(R, Upto(R, R[i].value)), z) \in Nat
    <3>1. IsFiniteSet(Upto(R, R[i].value))
      <4>1. Upto(R, R[i].value) \subseteq DOMAIN R
        BY DEF Upto
      <4> QED
        BY <1>1, <4>1, FS_Subset
    <3> QED
      BY <3>1, SignedIs
  <2> QED
    BY <2>1 DEF Distances
<1>3. IsFiniteSet(S)
  <2>1. DOMAIN f = DOMAIN R /\ S = {f[i] : i \in DOMAIN R}
    BY DEF Distances
  <2> HIDE DEF f, S
  <2> QED
    BY <1>1, <2>1, FiniteImage
<1>4. IsFiniteSet({0} \cup S) /\ {0} \cup S \subseteq Int /\ {0} \cup S # {}
  <2> HIDE DEF S
  <2>1. IsFiniteSet({0})
    BY FS_Singleton
  <2>2. IsFiniteSet({0} \cup S)
    BY <1>3, <2>1, FS_Union
  <2> QED
    BY <1>2, <2>2
<1>5. Max({0} \cup S) \in {0} \cup S /\ \A d \in {0} \cup S : Max({0} \cup S) >= d
  BY <1>4, GreatestNumber
<1> QED
  BY <1>2, <1>5 DEF Distance

(* In order, the rows up to a value are a prefix.                          *)
LEMMA PrefixUpto ==
  ASSUME NEW R, Valued(R), DOMAIN R \notin Unordered(R), NEW i \in DOMAIN R
  PROVE  \E k \in DOMAIN R : Upto(R, R[i].value) = 1..k
<1> DEFINE U == Upto(R, R[i].value)
<1>1. DOMAIN R = 1..Len(R) /\ Len(R) \in Nat /\ \A j \in DOMAIN R : R[j].value \in Int
  BY DEF Valued
<1>2. i \in U /\ U \subseteq DOMAIN R
  BY <1>1 DEF Upto
<1>3. IsFiniteSet(U)
  <2>1. IsFiniteSet(DOMAIN R)
    BY <1>1, FS_Interval
  <2> QED
    BY <1>2, <2>1, FS_Subset
<1>4. U \subseteq Int /\ U # {}
  BY <1>1, <1>2
<1> DEFINE k == Max(U)
<1>5. k \in U /\ \A j \in U : k >= j
  <2> HIDE DEF U
  <2> QED
    BY <1>3, <1>4, GreatestNumber
<1> HIDE DEF k
<1>6. U \subseteq 1..k
  BY <1>1, <1>2, <1>5
<1>7. ASSUME NEW j \in 1..k PROVE j \in U
  <2>1. k \in DOMAIN R /\ R[k].value <= R[i].value
    BY <1>5 DEF Upto
  <2>2. j \in DOMAIN R /\ (j = k \/ j < k)
    BY <1>1, <2>1
  <2>3. ~(j < k /\ R[j].value > R[k].value)
    BY <2>1, <2>2 DEF Unordered
  <2>4. R[j].value <= R[i].value
    BY <1>1, <2>1, <2>2, <2>3
  <2> QED
    BY <2>2, <2>4 DEF Upto
<1>8. U = 1..k /\ k \in DOMAIN R
  BY <1>2, <1>5, <1>6, <1>7
<1> QED
  BY <1>8

(* The largest difference of a prefix is no less than the largest at a     *)
(* value.                                                                  *)
LEMMA NoLess ==
  ASSUME NEW R, Valued(R), DOMAIN R \notin Unordered(R), NEW z, z[1] \in Int, z[2] \in Int
  PROVE  Greatest(R, DOMAIN R, z) >= Distance(R, z)
<1>1. Distances(R, z) \subseteq Differences(R, DOMAIN R, z)
  <2> SUFFICES ASSUME NEW i \in DOMAIN R
               PROVE  Difference(Sizes(R, Upto(R, R[i].value)), z) \in Differences(R, DOMAIN R, z)
    BY DEF Distances
  <2>1. PICK k \in DOMAIN R : Upto(R, R[i].value) = 1..k
    BY PrefixUpto
  <2> QED
    BY <2>1 DEF Differences
<1>2. Distance(R, z) \in {0} \cup Distances(R, z)
  BY DistancesAre
<1>3. \A d \in {0} \cup Differences(R, DOMAIN R, z) : Greatest(R, DOMAIN R, z) >= d
  BY DifferencesAre
<1> QED
  BY <1>1, <1>2, <1>3

(* Some of the rows have no more of a sample than all of them.             *)
LEMMA FewerIn ==
  ASSUME NEW R, NEW J, IsFiniteSet(J), NEW I, I \subseteq J, NEW k \in 1..2
  PROVE  /\ IsFiniteSet(I) /\ Sizes(R, I)[k] \in Nat /\ Sizes(R, J)[k] \in Nat
         /\ Sizes(R, I)[k] <= Sizes(R, J)[k]
<1>1. IsFiniteSet(I) /\ OfSample(R, I, k) \subseteq OfSample(R, J, k) /\ OfSample(R, J, k) \subseteq J
  BY FS_Subset DEF OfSample
<1>2. IsFiniteSet(OfSample(R, J, k))
  BY <1>1, FS_Subset
<1>3. /\ Cardinality(OfSample(R, I, k)) <= Cardinality(OfSample(R, J, k))
      /\ IsFiniteSet(OfSample(R, I, k))
  BY <1>1, <1>2, FS_Subset
<1>4. Cardinality(OfSample(R, I, k)) \in Nat /\ Cardinality(OfSample(R, J, k)) \in Nat
  BY <1>2, <1>3, FS_CardinalityType
<1> QED
  BY <1>1, <1>3, <1>4 DEF Sizes

(* A larger number has the larger multiple.                                *)
LEMMA TimesMore ==
  ASSUME NEW a \in Nat, NEW b \in Nat, a <= b, NEW z \in Nat
  PROVE  a * z <= b * z /\ a * z \in Int /\ b * z \in Int
<1>1. PICK e \in Nat : b = a + e
  <2>1. b - a \in Nat /\ b = a + (b - a)
    OBVIOUS
  <2> QED
    BY <2>1
<1>2. (a + e) * z = a * z + e * z /\ a * z \in Nat /\ e * z \in Nat
  OBVIOUS
<1> QED
  BY <1>1, <1>2

(* Within a tie of one sample the difference is between those around it.   *)
LEMMA BetweenSides ==
  ASSUME NEW R, NEW L, IsFiniteSet(L), NEW K, K \subseteq L, NEW M, M \subseteq K,
         NEW z, z[1] \in Nat, z[2] \in Nat, NEW h \in 1..2,
         OfSample(R, M, h) = OfSample(R, K, h), OfSample(R, L, h) = OfSample(R, K, h)
  PROVE  \/ Difference(Sizes(R, K), z) <= Difference(Sizes(R, M), z)
         \/ Difference(Sizes(R, K), z) <= Difference(Sizes(R, L), z)
<1>0. z[1] \in Int /\ z[2] \in Int
  OBVIOUS
<1>1. IsFiniteSet(K) /\ IsFiniteSet(M)
  BY FS_Subset
<1> DEFINE p == Signed(R, M, z)
           k == Signed(R, K, z)
           l == Signed(R, L, z)
<1>2. p \in Int /\ k \in Int /\ l \in Int
  BY <1>0, <1>1, SignedIs
<1>3. /\ Difference(Sizes(R, M), z) = IF p < 0 THEN -p ELSE p
      /\ Difference(Sizes(R, K), z) = IF k < 0 THEN -k ELSE k
      /\ Difference(Sizes(R, L), z) = IF l < 0 THEN -l ELSE l
  BY <1>0, <1>1, SignedIs
<1>4. Sizes(R, M)[h] = Sizes(R, K)[h] /\ Sizes(R, L)[h] = Sizes(R, K)[h]
  BY DEF Sizes
<1>5. (p <= k /\ k <= l) \/ (l <= k /\ k <= p)
  <2> DEFINE a == Sizes(R, M)
             b == Sizes(R, K)
             c == Sizes(R, L)
  <2>1. \A i \in 1..2 : a[i] \in Nat /\ b[i] \in Nat /\ c[i] \in Nat /\ a[i] <= b[i] /\ b[i] <= c[i]
    BY <1>1, FewerIn
  <2>2. p = a[1] * z[2] - a[2] * z[1] /\ k = b[1] * z[2] - b[2] * z[1]
        /\ l = c[1] * z[2] - c[2] * z[1]
    BY DEF Signed
  <2>3. a[h] = b[h] /\ c[h] = b[h]
    BY <1>4
  <2> HIDE DEF p, k, l, a, b, c
  <2>4. /\ a[1] * z[2] <= b[1] * z[2] /\ b[1] * z[2] <= c[1] * z[2]
        /\ a[2] * z[1] <= b[2] * z[1] /\ b[2] * z[1] <= c[2] * z[1]
        /\ a[1] * z[2] \in Int /\ b[1] * z[2] \in Int /\ c[1] * z[2] \in Int
        /\ a[2] * z[1] \in Int /\ b[2] * z[1] \in Int /\ c[2] * z[1] \in Int
    BY <2>1, TimesMore
  <2>5. CASE h = 1
    BY <2>2, <2>3, <2>4, <2>5
  <2>6. CASE h = 2
    BY <2>2, <2>3, <2>4, <2>6
  <2> QED
    BY <2>5, <2>6
<1> HIDE DEF p, k, l
<1> QED
  BY <1>2, <1>3, <1>5

(* Without a value that both samples have, no prefix has a larger          *)
(* difference than every value.                                            *)
LEMMA NoMore ==
  ASSUME NEW R, Valued(R), DOMAIN R \notin Unordered(R), PairsIn(R, DOMAIN R, Level) = {},
         \A i \in DOMAIN R : R[i].first \in BOOLEAN, NEW z, z[1] \in Nat, z[2] \in Nat
  PROVE  Greatest(R, DOMAIN R, z) <= Distance(R, z)
<1> DEFINE D == DOMAIN R
           m == Distance(R, z)
<1>1. D = 1..Len(R) /\ Len(R) \in Nat /\ (\A j \in D : R[j].value \in Int) /\ IsFiniteSet(D)
  BY FS_Interval DEF Valued
<1>2. z[1] \in Int /\ z[2] \in Int
  OBVIOUS
<1>3. /\ m \in Nat /\ \A d \in {0} \cup Distances(R, z) : m >= d
      /\ {0} \cup Distances(R, z) \subseteq Nat
  BY <1>2, DistancesAre
<1>4. ASSUME NEW k \in D
      PROVE  Difference(Sizes(R, 1..k), z) <= m
  <2> DEFINE v == R[k].value
             L == Upto(R, v)
             K == 1..k
             M == {j \in D : R[j].value < v}
             h == IF R[k].first THEN 2 ELSE 1
  <2>1. K \subseteq L
    <3> SUFFICES ASSUME NEW j \in K PROVE j \in L
      OBVIOUS
    <3>1. j \in D /\ (j = k \/ j < k)
      BY <1>1
    <3>2. ~(j < k /\ R[j].value > R[k].value)
      BY <3>1 DEF Unordered
    <3> QED
      BY <1>1, <3>1, <3>2 DEF Upto
  <2>2. M \subseteq K
    <3> SUFFICES ASSUME NEW j \in M PROVE j \in K
      OBVIOUS
    <3>1. ~(k < j /\ R[k].value > R[j].value)
      BY DEF Unordered
    <3> QED
      BY <1>1, <3>1
  <2>3. IsFiniteSet(L) /\ L \subseteq D
    <3>1. L \subseteq D
      BY DEF Upto
    <3> QED
      BY <1>1, <3>1, FS_Subset
  <2>4. \A j \in L : j \in M \/ R[j].value = v
    BY <1>1 DEF Upto
  <2>5. ASSUME NEW j \in L, R[j].value = v PROVE Sample(R[j].first) # h
    <3>1. j \in D /\ R[k].value = R[j].value /\ R[j].value \in Int
      BY <1>1, <2>3, <2>5
    <3>2. <<R[k].value, R[j].value>> \in Level /\ <<R[j].value, R[k].value>> \in Level
      BY <3>1 DEF Level
    <3>3. <<k, j>> \notin PairsIn(R, D, Level) /\ <<j, k>> \notin PairsIn(R, D, Level)
      OBVIOUS
    <3>4. ~(R[k].first /\ ~R[j].first) /\ ~(R[j].first /\ ~R[k].first)
      BY <3>1, <3>2, <3>3 DEF PairsIn
    <3> QED
      BY <3>1, <3>4 DEF Sample
  <2>6. OfSample(R, M, h) = OfSample(R, K, h) /\ OfSample(R, L, h) = OfSample(R, K, h)
    BY <2>1, <2>2, <2>4, <2>5 DEF OfSample
  <2>7. h \in 1..2
    OBVIOUS
  <2>8. Difference(Sizes(R, L), z) <= m /\ Difference(Sizes(R, L), z) \in Nat
    <3>1. Difference(Sizes(R, L), z) \in Distances(R, z)
      BY DEF Distances
    <3> HIDE DEF m
    <3> QED
      BY <1>3, <3>1
  <2>9. Difference(Sizes(R, M), z) <= m /\ Difference(Sizes(R, M), z) \in Nat
    <3>1. CASE M = {}
      <4>1. Sizes(R, M)[1] = 0 /\ Sizes(R, M)[2] = 0
        <5>1. \A i : OfSample(R, {}, i) = {}
          BY DEF OfSample
        <5>2. \A i \in 1..2 : Sizes(R, {})[i] = 0
          BY <5>1, FS_EmptySet DEF Sizes
        <5> HIDE DEF M
        <5> QED
          BY <3>1, <5>2
      <4>2. Difference(Sizes(R, M), z) = 0
        BY <1>2, <4>1 DEF Difference
      <4> QED
        BY <1>3, <4>2
    <3>2. CASE M # {}
      <4> DEFINE f == [j \in M |-> R[j].value]
                 V == {f[j] : j \in M}
                 w == Max(V)
      <4>1. IsFiniteSet(M) /\ M \subseteq D
        BY <2>2, <2>3, <2>1, FS_Subset
      <4>2. IsFiniteSet(V) /\ V # {} /\ V \subseteq Int
        <5>1. V # {} /\ V \subseteq Int
          BY <1>1, <3>2
        <5>2. DOMAIN f = M
          OBVIOUS
        <5> HIDE DEF f, M
        <5> QED
          BY <4>1, <5>1, <5>2, FiniteImage
      <4>3. w \in V /\ \A y \in V : w >= y
        <5> HIDE DEF V
        <5> QED
          BY <4>2, GreatestNumber
      <4> HIDE DEF w
      <4>4. PICK i \in M : w = R[i].value
        BY <4>3
      <4>5. \A j \in M : R[j].value <= R[i].value
        BY <1>1, <4>1, <4>3, <4>4
      <4>6. M = Upto(R, R[i].value)
        <5>1. M \subseteq Upto(R, R[i].value)
          BY <4>1, <4>5 DEF Upto
        <5>2. Upto(R, R[i].value) \subseteq M
          BY <1>1, <4>1 DEF Upto
        <5> QED
          BY <5>1, <5>2
      <4>7. Difference(Sizes(R, M), z) \in Distances(R, z)
        BY <4>1, <4>6 DEF Distances
      <4> HIDE DEF m, M
      <4> QED
        BY <1>3, <4>7
    <3> QED
      BY <3>1, <3>2
  <2>10. Difference(Sizes(R, K), z) \in Nat
    <3>1. IsFiniteSet(K)
      BY <2>1, <2>3, FS_Subset
    <3> HIDE DEF K
    <3> QED
      BY <1>2, <3>1, SignedIs
  <2> HIDE DEF v, L, K, M, h, m
  <2>11. \/ Difference(Sizes(R, K), z) <= Difference(Sizes(R, M), z)
         \/ Difference(Sizes(R, K), z) <= Difference(Sizes(R, L), z)
    BY <2>1, <2>2, <2>3, <2>6, <2>7, BetweenSides
  <2>12. Difference(Sizes(R, K), z) <= m
    BY <1>3, <2>8, <2>9, <2>10, <2>11
  <2> QED
    BY <2>12 DEF K
<1>5. Greatest(R, D, z) \in {0} \cup Differences(R, D, z)
  BY <1>2, DifferencesAre
<1> QED
  <2> HIDE DEF m
  <2>1. \A d \in {0} \cup Differences(R, D, z) : d <= m
    BY <1>3, <1>4 DEF Differences
  <2> QED
    BY <1>5, <2>1 DEF m

\* What is answered, of the distances.
KAnswers(R) ==
  LET z == SizeOf(R, DOMAIN R)
  IN IF DOMAIN R \in KBad(R) \/ z # Sizes(R, DOMAIN R) THEN result = Exception
     ELSE /\ result # Exception /\ result >= Distance(R, z)
          /\ PairsIn(R, DOMAIN R, Level) = {} => result = Distance(R, z)

(* What the last state gives is what the distances say.                    *)
LEMMA KEnd ==
  ASSUME NEW R, R \in Seq(Row("ks_test")),
         result = IF DOMAIN R \in KBad(R) THEN Exception ELSE ks_test_final(KOf(R, DOMAIN R))
  PROVE  KAnswers(R)
<1> DEFINE D == DOMAIN R
           z == SizeOf(R, D)
           s == KOf(R, D)
<1>1. /\ Valued(R) /\ \A i \in D : R[i].expectedNum \in Nat \X Nat /\ R[i].first \in BOOLEAN
  BY KRows
<1>2. D = 1..Len(R) /\ Len(R) \in Nat /\ IsFiniteSet(D) /\ Cardinality(D) = Len(R)
  BY <1>1, FS_Interval DEF Valued
<1>3. z[1] \in Nat /\ z[2] \in Nat
  <2>1. z \in Nat \X Nat
    <3>1. CASE D = {}
      BY <3>1 DEF SizeOf
    <3>2. CASE D # {}
      <4>1. Cardinality(D) \in D
        BY <1>2, <3>2
      <4> QED
        BY <1>1, <3>2, <4>1 DEF SizeOf
    <3> QED
      BY <3>1, <3>2
  <2> QED
    BY <2>1
<1>4. s.num = Sizes(R, D) /\ s.expectedNum = z /\ s.maxDiff = Greatest(R, D, z)
  BY KFields DEF KOf
<1>5. ks_test_final(s) = IF Sizes(R, D) # z THEN Exception ELSE Greatest(R, D, z)
  BY <1>4 DEF ks_test_final
<1> HIDE DEF s, z
<1>6. z[1] \in Int /\ z[2] \in Int
  BY <1>3
<1>7. Greatest(R, D, z) \in Nat /\ Distance(R, z) \in Nat
  <2>1. Greatest(R, D, z) \in Nat
    BY <1>1, <1>6, DifferencesAre
  <2>2. Distance(R, z) \in Nat
    BY <1>1, <1>6, DistancesAre
  <2> QED
    BY <2>1, <2>2
<1>8. CASE D \in KBad(R) \/ z # Sizes(R, D)
  <2>1. result = Exception
    BY <1>5, <1>8 DEF s
  <2> QED
    BY <1>8, <2>1 DEF KAnswers, z
<1>9. CASE ~(D \in KBad(R) \/ z # Sizes(R, D))
  <2>1. result = Greatest(R, D, z)
    BY <1>5, <1>9 DEF s
  <2>2. D \notin Unordered(R)
    BY <1>9 DEF KBad
  <2>3. Greatest(R, D, z) >= Distance(R, z)
    BY <1>1, <1>6, <2>2, NoLess
  <2>4. PairsIn(R, D, Level) = {} => Greatest(R, D, z) <= Distance(R, z)
    BY <1>1, <1>3, <2>2, NoMore
  <2>5. result # Exception
    BY <1>7, <2>1, ConstantsAre
  <2>6. /\ result >= Distance(R, z)
        /\ PairsIn(R, D, Level) = {} => result = Distance(R, z)
    BY <1>7, <2>1, <2>3, <2>4
  <2> QED
    BY <1>9, <2>5, <2>6 DEF KAnswers, z
<1> QED
  BY <1>8, <1>9

(* The rows of a table are as many as its length says.                     *)
LEMMA LengthIsSize ==
  ASSUME NEW R, Valued(R)
  PROVE  /\ DOMAIN R = 1..Len(R) /\ Len(R) \in Nat /\ IsFiniteSet(DOMAIN R)
         /\ Cardinality(DOMAIN R) = Len(R)
<1>1. DOMAIN R = 1..Len(R) /\ Len(R) \in Nat
  BY DEF Valued
<1>2. IsFiniteSet(1..Len(R))
  BY <1>1, FS_Interval
<1>3. Cardinality(1..Len(R)) = IF 1 > Len(R) THEN 0 ELSE Len(R) - 1 + 1
  <2>1. 1 \in Int /\ Len(R) \in Int
    BY <1>1
  <2> QED
    BY <2>1, FS_Interval, Zenon
<1> QED
  BY <1>1, <1>2, <1>3

(* The property, by the distances of all rows.                             *)
LEMMA KPropertyIs ==
  ASSUME rows \in Seq(Row("ks_test")), Ended({"ks_test"}) => KAnswers(rows)
  PROVE  KSIsMaxDiff
<1> DEFINE R == rows
           D == DOMAIN R
           z == SizeOf(R, D)
           size == IF rows = << >> THEN <<0, 0>> ELSE rows[1].expectedNum
           Difference2(v) ==
             Size(LAMBDA r : r.first /\ r.value <= v) * size[2]
               - Size(LAMBDA r : ~r.first /\ r.value <= v) * size[1]
           largest == Max({0} \cup UNION {{Difference2(rows[i].value), -Difference2(rows[i].value)} :
                                            i \in DOMAIN rows})
           bad == Disordered(ValuesAt(DOMAIN rows)) \/ ~Constant(rows, LAMBDA r : r.expectedNum)
           ends == size # <<Size(LAMBDA r : r.first), Size(LAMBDA r : ~r.first)>>
           ties == Pairs(LAMBDA a, b : a = b)
<1>1. /\ Valued(R)
      /\ \A i \in D : /\ R[i].expectedNum \in Nat \X Nat /\ R[i].first \in BOOLEAN
                      /\ R[i].value \in Int
  BY KRows
<1>2. D = 1..Len(R) /\ Len(R) \in Nat /\ IsFiniteSet(D) /\ Cardinality(D) = Len(R)
  BY <1>1, LengthIsSize
<1>3. bad <=> D \in KBad(R)
  <2>1. Disordered(ValuesAt(D)) <=> D \in Unordered(R)
    BY <1>1, DisorderedIs
  <2>2. Constant(R, LAMBDA r : r.expectedNum) <=> \A i, j \in D : R[i].expectedNum = R[j].expectedNum
    BY DEF Constant
  <2>3. D \in KBad(R) <=> (D \in Unordered(R) \/ \E i, j \in D : R[i].expectedNum # R[j].expectedNum)
    BY DEF KBad
  <2> QED
    BY <2>1, <2>2, <2>3
<1>4. D \notin KBad(R) => size = z
  <2>1. CASE R = << >>
    <3>1. D = {}
      BY <1>2, <2>1
    <3> QED
      BY <2>1, <3>1 DEF SizeOf
  <2>2. CASE R # << >>
    <3>1. 1 \in D /\ Cardinality(D) \in D /\ D # {}
      BY <1>2, <2>2
    <3> QED
      BY <2>2, <3>1 DEF SizeOf, KBad
  <2> QED
    BY <2>1, <2>2
<1>5. Sizes(R, D) = <<Size(LAMBDA r : r.first), Size(LAMBDA r : ~r.first)>>
  <2>1. /\ OfSample(R, D, 1) = Where(LAMBDA r : r.first)
        /\ OfSample(R, D, 2) = Where(LAMBDA r : ~r.first)
    BY DEF OfSample, Sample, Where
  <2>2. /\ Cardinality(OfSample(R, D, 1)) = Size(LAMBDA r : r.first)
        /\ Cardinality(OfSample(R, D, 2)) = Size(LAMBDA r : ~r.first)
    BY <2>1 DEF Size
  <2> QED
    BY <2>2 DEF Sizes
<1>6. ties = 0 <=> PairsIn(R, D, Level) = {}
  <2>1. PairsIn(R, D, Level) = {p \in D \X D : R[p[1]].first /\ ~R[p[2]].first
                                                /\ R[p[1]].value = R[p[2]].value}
    BY <1>1 DEF PairsIn, Level
  <2>2. ties = Cardinality(PairsIn(R, D, Level))
    BY <2>1 DEF Pairs
  <2>3. IsFiniteSet(PairsIn(R, D, Level))
    BY <1>2, CountsAre
  <2> QED
    BY <2>2, <2>3, FS_EmptySet
<1>7. \A i \in D : Difference2(R[i].value) = Signed(R, Upto(R, R[i].value), size)
  <2> SUFFICES ASSUME NEW i \in D
               PROVE  Difference2(R[i].value) = Signed(R, Upto(R, R[i].value), size)
    OBVIOUS
  <2> DEFINE v == R[i].value
  <2>1. /\ OfSample(R, Upto(R, v), 1) = Where(LAMBDA r : r.first /\ r.value <= v)
        /\ OfSample(R, Upto(R, v), 2) = Where(LAMBDA r : ~r.first /\ r.value <= v)
    BY DEF OfSample, Sample, Where, Upto
  <2>2. /\ Sizes(R, Upto(R, v))[1] = Size(LAMBDA r : r.first /\ r.value <= v)
        /\ Sizes(R, Upto(R, v))[2] = Size(LAMBDA r : ~r.first /\ r.value <= v)
    BY <2>1 DEF Size, Sizes
  <2> HIDE DEF size
  <2> QED
    BY <2>2 DEF Signed
<1>8. z[1] \in Int /\ z[2] \in Int
  <2>1. z \in Nat \X Nat
    <3>1. CASE D = {}
      BY <3>1 DEF SizeOf
    <3>2. CASE D # {}
      <4>1. Cardinality(D) \in D
        BY <1>2, <3>2
      <4> QED
        BY <1>1, <3>2, <4>1 DEF SizeOf
    <3> QED
      BY <3>1, <3>2
  <2> QED
    BY <2>1
<1>9. D \notin KBad(R) => largest = Distance(R, z)
  <2> DEFINE T == {0} \cup UNION {{Difference2(rows[i].value), -Difference2(rows[i].value)} :
                                     i \in DOMAIN rows}
             m == Distance(R, z)
  <2> SUFFICES ASSUME size = z PROVE Max(T) = m
    BY <1>4
  <2> HIDE DEF z, size, Difference2
  <2>1. /\ {0} \cup Distances(R, z) \subseteq Nat /\ m \in {0} \cup Distances(R, z)
        /\ \A d \in {0} \cup Distances(R, z) : m >= d
    BY <1>1, <1>8, DistancesAre
  <2>2. ASSUME NEW i \in D
        PROVE  /\ Difference2(R[i].value) \in Int
               /\ Difference(Sizes(R, Upto(R, R[i].value)), z) =
                    IF Difference2(R[i].value) < 0 THEN -Difference2(R[i].value)
                    ELSE Difference2(R[i].value)
    <3>1. IsFiniteSet(Upto(R, R[i].value))
      <4>1. Upto(R, R[i].value) \subseteq D
        BY DEF Upto
      <4> QED
        BY <1>2, <4>1, FS_Subset
    <3>2. Difference2(R[i].value) = Signed(R, Upto(R, R[i].value), z)
      BY <1>7
    <3> HIDE DEF R
    <3> QED
      BY <1>8, <3>1, <3>2, SignedIs
  <2>3. m \in T
    <3>1. CASE m = 0
      BY <3>1
    <3>2. CASE m \in Distances(R, z)
      <4>1. PICK i \in D : m = Difference(Sizes(R, Upto(R, R[i].value)), z)
        BY <3>2 DEF Distances
      <4>2. m = Difference2(R[i].value) \/ m = -Difference2(R[i].value)
        BY <2>2, <4>1
      <4> QED
        BY <4>2
    <3> QED
      BY <2>1, <3>1, <3>2
  <2>4. ASSUME NEW y \in T PROVE m >= y /\ y \in Int
    <3>1. m \in Nat
      BY <2>1
    <3>2. CASE y = 0
      BY <3>1, <3>2
    <3>3. CASE y # 0
      <4>1. PICK i \in D : y = Difference2(R[i].value) \/ y = -Difference2(R[i].value)
        BY <3>3
      <4>2. m >= Difference(Sizes(R, Upto(R, R[i].value)), z)
        BY <2>1 DEF Distances
      <4> DEFINE d == Difference2(R[i].value)
                 e == Difference(Sizes(R, Upto(R, R[i].value)), z)
      <4>3. d \in Int /\ e = (IF d < 0 THEN -d ELSE d) /\ (y = d \/ y = -d) /\ m >= e
        BY <2>2, <4>1, <4>2
      <4> HIDE DEF d, e, m
      <4> QED
        BY <3>1, <4>3
    <3> QED
      BY <3>2, <3>3
  <2> HIDE DEF T, m
  <2> QED
    BY <2>3, <2>4, GreatestIs
<1> HIDE DEF size, largest, ties
<1>10. SUFFICES ASSUME Ended({"ks_test"})
                PROVE  IF bad \/ ends THEN result = Exception
                       ELSE /\ result # Exception /\ result >= largest
                            /\ ties = 0 => result = largest
  BY Zenon DEF KSIsMaxDiff, size, largest, ties
<1>11. KAnswers(R)
  BY <1>10
<1>12. (bad \/ ends) <=> (D \in KBad(R) \/ z # Sizes(R, D))
  BY <1>3, <1>4, <1>5
<1>13. CASE bad \/ ends
  BY <1>11, <1>12, <1>13 DEF KAnswers
<1>14. CASE ~(bad \/ ends)
  BY <1>3, <1>6, <1>9, <1>11, <1>12, <1>14 DEF KAnswers
<1> QED
  BY <1>13, <1>14

(* The state of no rows is the initial one.                                *)
LEMMA KNone ==
  ASSUME NEW R
  PROVE  KOf(R, {}) = KSState
<1>1. Sizes(R, {}) = <<0, 0>>
  <2>1. MOf(R, {}).num = Sizes(R, {}) /\ MWState.num = <<0, 0>>
    BY DEF MOf, MState, MWState
  <2> QED
    BY <2>1, MNone
<1>2. LastOf(R, {}) = 0 /\ SizeOf(R, {}) = <<0, 0>>
  BY DEF LastOf, SizeOf
<1>3. \A z : Greatest(R, {}, z) = 0
  <2>1. \A z : {0} \cup Differences(R, {}, z) = {0}
    BY DEF Differences
  <2>2. Max({0}) = 0
    BY GreatestIs
  <2> QED
    BY <2>1, <2>2 DEF Greatest
<1> QED
  BY <1>1, <1>2, <1>3 DEF KOf, KState, KSState

(* The Kolmogorov-Smirnov test is an aggregate over rows in order.         *)
LEMMA KIsScanned ==
  "ks_test" \in (Tests \ Optimizers) \cap Ordered /\ "ks_test" \notin TTests
BY DEF Tests, TTests, Optimizers, Ordered

(* A state of the test is none of the marks.                               *)
LEMMA KNoMark ==
  ASSUME MarksAreNoRecords, NEW R, NEW I
  PROVE  KOf(R, I) \notin {Null, Exception, Pending}
<1>1. "num" \in DOMAIN KOf(R, I)
  BY DEF KOf, KState
<1> QED
  BY <1>1 DEF MarksAreNoRecords

KInv == job.test = "ks_test" => ScanKept(KV(job.rows), KBad(job.rows))

(* The final function ends the query.                                      *)
LEMMA KEnds ==
  ASSUME NEW R \in Seq(Row("ks_test"))
  PROVE  ks_test_final(KOf(R, DOMAIN R)) # Pending
<1> DEFINE D == DOMAIN R
           z == SizeOf(R, D)
           s == KOf(R, D)
<1>1. Valued(R) /\ \A i \in D : R[i].expectedNum \in Nat \X Nat
  BY KRows
<1>2. D = 1..Len(R) /\ Len(R) \in Nat /\ Cardinality(D) = Len(R)
  BY <1>1, FS_Interval DEF Valued
<1>3. z \in Nat \X Nat
  <2>1. CASE D = {}
    BY <2>1 DEF SizeOf
  <2>2. CASE D # {}
    <3>1. Cardinality(D) \in D
      BY <1>2, <2>2
    <3> QED
      BY <1>1, <2>2, <3>1 DEF SizeOf
  <2> QED
    BY <2>1, <2>2
<1>4. z[1] \in Int /\ z[2] \in Int
  BY <1>3
<1>5. s.maxDiff = Greatest(R, D, z)
  BY KFields DEF KOf
<1> HIDE DEF z, s
<1>6. Greatest(R, D, z) \in Nat
  BY <1>1, <1>4, DifferencesAre
<1>7. ks_test_final(s) = Exception \/ ks_test_final(s) \in Int
  BY <1>5, <1>6 DEF ks_test_final
<1> QED
  BY <1>7, ConstantsAre DEF s

(* The state is that of no rows at first.                                  *)
LEMMA KInit == Init \/ NoQuery => KInv
<1>1. NoQuery => KInv
  BY NoQueryScans, KIsScanned DEF KInv
<1>2. ASSUME Init, job.test = "ks_test" PROVE KInv
  <2>1. Initial(job.test) = KSState
    BY <1>2, KIsScanned DEF Initial, TTests, Optimizers
  <2>2. KV(job.rows)[{}] = KSState
    BY KNone DEF KV
  <2>3. {} \notin KBad(job.rows)
    BY DEF KBad, Unordered
  <2> QED
    BY <1>2, <2>1, <2>2, <2>3, KIsScanned, KeptFromTheStart DEF KInv
<1> QED
  BY <1>1, <1>2 DEF KInv

(* Every step leaves the state that of the rows read, or ends the query as *)
(* it says.                                                                *)
LEMMA KNext ==
  ASSUME MarksAreNoRecords, ScanInv, KInv, Next
  PROVE  KInv'
<1> SUFFICES ASSUME job'.test = "ks_test" PROVE KInv'
  BY DEF KInv
<1>0. PICK R : R = job.rows
  OBVIOUS
<1> DEFINE D == DOMAIN R
           V == KV(R)
           B == KBad(R)
<1>1. job' = job /\ job.test = "ks_test" /\ ScanKept(V, B)
  BY <1>0, ScanNext DEF KInv
<1>2. /\ R \in Seq(Row("ks_test")) /\ job.test \in Tests \ Optimizers /\ ~job.spread
  BY <1>0, <1>1, KIsScanned, JobsAre DEF ScanInv, JobOf
<1>3. \A st, r, k : Transition(job.test, st, r, k) = ks_test_transition(st, r)
  BY <1>1, KIsScanned DEF Transition, TTests, Optimizers
<1>4. \A st : Final(job.test, st) = ks_test_final(st)
  BY <1>1, KIsScanned DEF Final, TTests, Optimizers
<1>5. Valued(R) /\ \A i \in D : R[i].expectedNum \in Nat \X Nat
  BY <1>2, KRows
<1>6. \A I \in SUBSET D : V[I] = KOf(R, I)
  BY DEF KV
<1>7. Unmarked(V, D)
  BY <1>6, KNoMark DEF Unmarked
<1>8. Lasting(B, D)
  <2> SUFFICES ASSUME NEW I \in SUBSET D, NEW J \in SUBSET D, I \in B, I \subseteq J
               PROVE  J \in B
    BY DEF Lasting
  <2> QED
    BY DEF KBad, Unordered
<1>9. Final(job.test, V[D]) # Pending
  <2>1. ks_test_final(KOf(R, D)) # Pending
    BY <1>2, KEnds
  <2>2. V[D] = KOf(R, D)
    BY <1>6
  <2> QED
    BY <1>4, <2>1, <2>2
<1> HIDE DEF V, B, D
<1>10. AddsRows(V, B, D)
  <2> SUFFICES ASSUME NEW I \in SUBSET D, NEW n \in D, I \notin B, I = 1..n - 1
               PROVE  Adds(V, B, I, n, Transition(job.test, V[I], job.rows[n], n))
    BY <1>2 DEF AddsRows
  <2>1. Adds(KV(R), KBad(R), I, n, ks_test_transition(KOf(R, I), R[n]))
    BY <1>5, KReads DEF B, D
  <2>2. V[I] = KOf(R, I) /\ job.rows[n] = R[n]
    BY <1>0, <1>6
  <2>3. Transition(job.test, V[I], job.rows[n], n) = ks_test_transition(KOf(R, I), R[n])
    BY <1>3, <2>2
  <2> QED
    BY <2>1, <2>3 DEF V, B
<1>11. JoinsRows(V, B, D)
  BY <1>2 DEF JoinsRows
<1>12. ScanKept(V, B)'
  <2>1. D = DOMAIN job.rows
    BY <1>0 DEF D
  <2> QED
    BY <1>1, <1>2, <1>7, <1>8, <1>9, <1>10, <1>11, <2>1, KeptByASpread
<1> QED
  BY <1>0, <1>1, <1>12 DEF KInv, V, B

(* What the state keeps gives the property.                                *)
LEMMA KAnswered ==
  ASSUME ScanInv, KInv
  PROVE  KSIsMaxDiff
<1>1. CASE ~Ended({"ks_test"})
  BY <1>1 DEF KSIsMaxDiff
<1>2. CASE Ended({"ks_test"})
  <2>1. job.test = "ks_test" /\ result # Pending
    BY <1>2 DEF Ended
  <2>2. rows \in Seq(Row("ks_test"))
    BY <2>1, KIsScanned, JobsAre DEF ScanInv, JobOf, rows
  <2>3. \A st : Final(job.test, st) = ks_test_final(st)
    BY <2>1, KIsScanned DEF Final, TTests, Optimizers
  <2>4. ScanKept(KV(rows), KBad(rows))
    BY <2>1 DEF KInv, rows
  <2>5. KV(rows)[DOMAIN rows] = KOf(rows, DOMAIN rows)
    BY DEF KV
  <2>6. result = IF DOMAIN rows \in KBad(rows) THEN Exception
                 ELSE ks_test_final(KOf(rows, DOMAIN rows))
    BY <2>1, <2>3, <2>4, <2>5 DEF ScanKept, rows
  <2>7. KAnswers(rows)
    <3>1. PICK R : R = rows
      OBVIOUS
    <3> QED
      BY <2>2, <2>6, <3>1, KEnd
  <2> QED
    BY <2>2, <2>7, KPropertyIs
<1> QED
  BY <1>1, <1>2

(* kolmogorov_smirnov_test.cpp: comparing the samples after every row does *)
(* no less than comparing them at every value, and the same without a      *)
(* value that both have; rows that do not fit end the query.               *)
THEOREM KolmogorovSmirnov ==
  ASSUME MarksAreNoRecords
  PROVE  SessionSpec => []KSIsMaxDiff
<1>1. SessionInit => KInv
  BY SessionStarts, KInit
<1>2. ScanInv /\ KInv /\ [Next]_vars => KInv'
  <2>1. ASSUME KInv, UNCHANGED vars PROVE KInv'
    <3>1. PICK R : R = job.rows
      OBVIOUS
    <3>2. job' = job
      BY <2>1 DEF vars
    <3> QED
      BY <2>1, <3>1, <3>2, KeptStays DEF KInv
  <2> QED
    BY <2>1, KNext
<1>3. ScanInv /\ KInv => KSIsMaxDiff
  BY KAnswered
<1> QED
  BY <1>1, <1>2, <1>3, SessionScans, PTL DEF SessionSpec

-----------------------------------------------------------------------------
(* Functions of arrays: the walk on the elements and its cursor, integers  *)
(* that wrap, and pairs of arrays.                                         *)

(* The powers of two are positive and double.                              *)
LEMMA PowerStep ==
  /\ TwoTo[0] = 1
  /\ \A k \in Nat : TwoTo[k] \in Nat /\ TwoTo[k] >= 1 /\ TwoTo[k + 1] = 2 * TwoTo[k]
<1>1. TwoTo = [k \in Nat |-> IF k = 0 THEN 1 ELSE 2 * TwoTo[k - 1]]
  <2> DEFINE F(g) == g = [k \in Nat |-> IF k = 0 THEN 1 ELSE 2 * g[k - 1]]
  <2>1. F(CHOOSE g : F(g))
    <3>1. PICK f : F(f)
      BY PowersExist
    <3> HIDE DEF F
    <3> QED
      BY <3>1
  <2> QED
    BY <2>1 DEF TwoTo
<1>2. TwoTo[0] = 1 /\ \A k \in Nat : TwoTo[k + 1] = 2 * TwoTo[k]
  <2>1. TwoTo[0] = 1
    BY <1>1
  <2>2. ASSUME NEW k \in Nat PROVE TwoTo[k + 1] = 2 * TwoTo[k]
    <3>1. k + 1 \in Nat /\ k + 1 # 0 /\ (k + 1) - 1 = k
      OBVIOUS
    <3> QED
      BY <1>1, <3>1
  <2> QED
    BY <2>1, <2>2
<1> DEFINE S == {k \in Nat : TwoTo[k] \in Nat /\ TwoTo[k] >= 1}
<1>3. 0 \in S /\ \A n \in Nat : n \in S => n + 1 \in S
  BY <1>2
<1> HIDE DEF S
<1>4. Nat \subseteq S
  BY <1>3, NatInduct
<1> QED
  BY <1>2, <1>4 DEF S

\* The types of arrays, and the integers that one of them has.
Types == {"int2", "float8"}
Half == TwoTo[IntBits - 1]
Whole == TwoTo[IntBits]

(* The integers of few bits are two halves of a power of two.              *)
LEMMA HalfAndWhole ==
  ASSUME IntBits \in Nat \ {0}
  PROVE  Half \in Nat /\ Half >= 1 /\ Whole \in Nat /\ Whole >= 1 /\ Whole = 2 * Half
<1>1. IntBits - 1 \in Nat /\ (IntBits - 1) + 1 = IntBits
  OBVIOUS
<1>2. TwoTo[(IntBits - 1) + 1] = 2 * TwoTo[IntBits - 1]
  BY <1>1, PowerStep
<1>3. TwoTo[IntBits - 1] \in Nat /\ TwoTo[IntBits - 1] >= 1
  BY <1>1, PowerStep
<1> QED
  BY <1>1, <1>2, <1>3 DEF Half, Whole

\* What fits a type: any integer a double, and an integer of few bits its range.
Serves(type, r) == r \in Int /\ (type = "int2" => -Half <= r /\ r < Half)
Same(type, r, n) == IF type = "float8" THEN r = n ELSE Congruent(r, n, Whole)

(* To fit a type is to be of its range, and the same up to a multiple.     *)
LEMMA FitsIs ==
  ASSUME IntBits \in Nat \ {0}, NEW type \in Types, NEW r \in Int, NEW n \in Int
  PROVE  Fits(type, r, n) <=> Serves(type, r) /\ Same(type, r, n)
<1>1. Half \in Nat /\ Whole \in Nat /\ Whole >= 1
  BY HalfAndWhole
<1>2. Congruent(r, n, Whole) <=> (r - n) % Whole = 0
  BY <1>1, CongruentMod
<1>3. CASE type = "float8"
  BY <1>3 DEF Fits, Serves, Same
<1>4. CASE type = "int2"
  <2>1. Fits(type, r, n) <=> r \in -Half..Half - 1 /\ (r - n) % Whole = 0
    BY <1>4 DEF Fits, Half, Whole
  <2>2. r \in -Half..Half - 1 <=> -Half <= r /\ r < Half
    BY <1>1
  <2> QED
    BY <1>2, <1>4, <2>1, <2>2 DEF Serves, Same
<1> QED
  BY <1>3, <1>4 DEF Types

(* What is stored is in the range of the type and the same up to a         *)
(* multiple.                                                               *)
LEMMA WrapIs ==
  ASSUME IntBits \in Nat \ {0}, NEW type \in Types, NEW n \in Int
  PROVE  Serves(type, Wrap(type, n)) /\ Same(type, Wrap(type, n), n)
<1>1. Half \in Nat /\ Half >= 1 /\ Whole \in Nat /\ Whole >= 1 /\ Whole = 2 * Half
  BY HalfAndWhole
<1>2. CASE type = "float8"
  BY <1>2 DEF Wrap, Serves, Same, Types
<1>3. CASE type = "int2"
  <2> DEFINE r == (n + Half) % Whole
             q == (n + Half) \div Whole
  <2>1. /\ q \in Int /\ r \in Int /\ n + Half = Whole * q + r /\ 0 <= r /\ r < Whole
    <3>1. n + Half \in Int
      BY <1>1
    <3> QED
      BY <1>1, <3>1, Division
  <2>2. Wrap(type, n) = r - Half
    BY <1>3 DEF Wrap, Half, Whole
  <2> HIDE DEF q, r
  <2>3. Whole * q \in Int /\ (-q) * Whole = -(Whole * q) /\ -q \in Int
    BY <1>1, <2>1
  <2>4. r - Half = n + (-q) * Whole
    BY <1>1, <2>1, <2>3
  <2>5. Congruent(r - Half, n, Whole)
    BY <2>3, <2>4 DEF Congruent
  <2>6. r - Half \in Int /\ -Half <= r - Half /\ r - Half < Half
    BY <1>1, <2>1
  <2> QED
    BY <1>3, <2>2, <2>5, <2>6 DEF Serves, Same
<1> QED
  BY <1>2, <1>3 DEF Types

(* So an integer that wraps fits what it was computed from.                *)
LEMMA WrapFits ==
  ASSUME IntBits \in Nat \ {0}, NEW type \in Types, NEW n \in Int
  PROVE  Wrap(type, n) \in Int /\ Fits(type, Wrap(type, n), n)
<1>1. Serves(type, Wrap(type, n)) /\ Same(type, Wrap(type, n), n)
  BY WrapIs
<1>2. Wrap(type, n) \in Int
  BY <1>1 DEF Serves
<1> QED
  BY <1>1, <1>2, FitsIs

(* There is one such integer in the range.                                 *)
LEMMA WrapUnique ==
  ASSUME IntBits \in Nat \ {0}, NEW type \in Types, NEW r \in Int, NEW n \in Int,
         Serves(type, r), Same(type, r, n)
  PROVE  r = Wrap(type, n)
<1>1. Half \in Nat /\ Half >= 1 /\ Whole \in Nat /\ Whole >= 1 /\ Whole = 2 * Half
  BY HalfAndWhole
<1> DEFINE w == Wrap(type, n)
<1>2. Serves(type, w) /\ Same(type, w, n)
  BY WrapIs
<1> HIDE DEF w
<1>3. CASE type = "float8"
  BY <1>2, <1>3 DEF Same, w
<1>4. CASE type = "int2"
  <2>1. Congruent(r, n, Whole) /\ Congruent(w, n, Whole) /\ w \in Int
    BY <1>2, <1>4 DEF Same, Serves
  <2>2. Congruent(n, w, Whole)
    BY <1>1, <2>1, CongruentSum
  <2>3. Congruent(r, w, Whole)
    BY <1>1, <2>1, <2>2, CongruentSum
  <2>4. -Half \in Int /\ -Half <= r /\ r < -Half + Whole /\ -Half <= w /\ w < -Half + Whole
    BY <1>1, <1>2, <1>4 DEF Serves
  <2>5. r = w
    BY <1>1, <2>1, <2>3, <2>4, CongruentUnique
  <2> QED
    BY <2>5 DEF w
<1> QED
  BY <1>3, <1>4 DEF Types

(* To wrap a summand first changes nothing.                                *)
LEMMA WrapSum ==
  ASSUME IntBits \in Nat \ {0}, NEW type \in Types, NEW a \in Int, NEW b \in Int
  PROVE  Wrap(type, Wrap(type, a) + b) = Wrap(type, a + b)
<1> DEFINE w == Wrap(type, a)
           u == Wrap(type, w + b)
<1>1. Serves(type, w) /\ Same(type, w, a)
  BY WrapIs
<1> HIDE DEF w
<1>2. w \in Int /\ w + b \in Int /\ a + b \in Int
  BY <1>1 DEF Serves
<1>3. Serves(type, u) /\ Same(type, u, w + b)
  BY <1>2, WrapIs
<1> HIDE DEF u
<1>4. u \in Int
  BY <1>3 DEF Serves
<1>5. Same(type, u, a + b)
  <2>1. CASE type = "float8"
    BY <1>1, <1>3, <2>1 DEF Same
  <2>2. CASE type = "int2"
    <3>1. Whole \in Nat
      BY HalfAndWhole
    <3>2. Congruent(w, a, Whole) /\ Congruent(u, w + b, Whole)
      BY <1>1, <1>3, <2>2 DEF Same
    <3>3. Congruent(w + b, a + b, Whole)
      BY <1>2, <3>1, <3>2, CongruentSum
    <3>4. Congruent(u, a + b, Whole)
      BY <1>2, <1>4, <3>1, <3>2, <3>3, CongruentSum
    <3> QED
      BY <2>2, <3>4 DEF Same
  <2> QED
    BY <2>1, <2>2 DEF Types
<1>6. u = Wrap(type, a + b)
  BY <1>2, <1>3, <1>4, <1>5, WrapUnique
<1> QED
  BY <1>6 DEF u, w

\* What an element and those before it are walked to, from what those are.
Walked(v, op, extra, f, i) ==
  IF i = 0 THEN <<0, 0>>
  ELSE IF v.elements[f[i - 1][2] + 1] = Null THEN f[i - 1]
  ELSE <<ElementOp(op, v.type, v.elements[f[i - 1][2] + 1], f[i - 1][1], f[i - 1][2] > 0, extra),
         f[i - 1][2] + 1>>
IsWalk(f, v, op, extra) == f = [i \in 0..Len(v.elements) |-> Walked(v, op, extra, f, i)]

(* The recursive function of the walk is a solution of its equation.       *)
LEMMA WalkChosen ==
  ASSUME NEW v, NEW op, NEW extra
  PROVE  General_Array_to_Element(v, op, extra) =
           (CHOOSE f : IsWalk(f, v, op, extra))[Len(v.elements)]
BY Zenon DEF General_Array_to_Element, IsWalk, Walked

(* The equation has one solution.                                          *)
LEMMA WalkUnique ==
  ASSUME NEW v, Len(v.elements) \in Nat, NEW op, NEW extra, NEW f, NEW g,
         IsWalk(f, v, op, extra), IsWalk(g, v, op, extra)
  PROVE  f[Len(v.elements)] = g[Len(v.elements)]
<1> DEFINE n == Len(v.elements)
<1>1. \A i \in 0..n : f[i] = Walked(v, op, extra, f, i) /\ g[i] = Walked(v, op, extra, g, i)
  BY DEF IsWalk
<1> DEFINE S == {k \in Nat : k <= n => f[k] = g[k]}
<1> HIDE DEF n
<1>n. n \in Nat
  BY DEF n
<1>2. 0 \in S
  <2>1. 0 \in 0..n
    BY <1>n
  <2>2. Walked(v, op, extra, f, 0) = Walked(v, op, extra, g, 0)
    BY DEF Walked
  <2> QED
    BY <1>1, <2>1, <2>2
<1>3. ASSUME NEW k \in Nat, k \in S PROVE k + 1 \in S
  <2>1. CASE k + 1 <= n
    <3>1. f[k] = g[k] /\ k + 1 \in 0..n /\ (k + 1) - 1 = k
      BY <1>3, <2>1, <1>n
    <3>2. Walked(v, op, extra, f, k + 1) = Walked(v, op, extra, g, k + 1)
      BY <3>1, Zenon DEF Walked
    <3> QED
      BY <1>1, <3>1, <3>2
  <2>2. CASE ~(k + 1 <= n)
    BY <2>2
  <2> QED
    BY <2>1, <2>2
<1> HIDE DEF S
<1>4. Nat \subseteq S
  BY <1>2, <1>3, NatInduct
<1> QED
  BY <1>n, <1>4 DEF S, n

\* The elements are those up to m, and NULLs.
ElementsUpto(E, m) ==
  /\ Len(E) \in Nat /\ m \in 0..Len(E)
  /\ \A i \in 1..Len(E) : E[i] = Null <=> m < i

\* G[k] is the result of the first k elements.
Results(G, v, op, extra, m) ==
  /\ G[0] = 0
  /\ \A k \in 1..m : G[k] = ElementOp(op, v.type, v.elements[k], G[k - 1], k - 1 > 0, extra)

(* Where NULLs come last, the walk takes every element before them.        *)
LEMMA WalkIs ==
  ASSUME NEW v, NEW m, ElementsUpto(v.elements, m), NEW op, NEW extra, NEW G,
         Results(G, v, op, extra, m)
  PROVE  General_Array_to_Element(v, op, extra) = <<G[m], m>>
<1> DEFINE n == Len(v.elements)
           Stop(i) == IF i <= m THEN i ELSE m
           g == [i \in 0..n |-> <<G[Stop(i)], Stop(i)>>]
<1>1. n \in Nat /\ m \in 0..n /\ \A i \in 1..n : v.elements[i] = Null <=> m < i
  BY DEF ElementsUpto
<1>2. ASSUME NEW i \in 0..n PROVE <<G[Stop(i)], Stop(i)>> = Walked(v, op, extra, g, i)
  <2> HIDE DEF n
  <2>1. CASE i = 0
    <3>1. Stop(i) = 0 /\ G[0] = 0
      BY <1>1, <2>1 DEF Results
    <3> QED
      BY <2>1, <3>1 DEF Walked
  <2>2. CASE i # 0
    <3>1. i - 1 \in 0..n
      BY <1>1, <2>2
    <3>2. g[i - 1] = <<G[Stop(i - 1)], Stop(i - 1)>>
      BY <3>1
    <3>3. g[i - 1][2] = Stop(i - 1) /\ g[i - 1][1] = G[Stop(i - 1)]
      BY <3>2
    <3>4. CASE i <= m
      <4>1. Stop(i - 1) = i - 1 /\ Stop(i) = i /\ (i - 1) + 1 = i /\ i \in 1..m /\ i \in 1..n
        BY <1>1, <2>2, <3>4
      <4>2. v.elements[i] # Null
        BY <1>1, <3>4, <4>1
      <4>3. Walked(v, op, extra, g, i) =
              <<ElementOp(op, v.type, v.elements[i], G[i - 1], i - 1 > 0, extra), i>>
        <5> HIDE DEF g, Stop
        <5> QED
          BY <2>2, <3>3, <4>1, <4>2, Zenon DEF Walked
      <4>4. G[i] = ElementOp(op, v.type, v.elements[i], G[i - 1], i - 1 > 0, extra)
        BY <4>1 DEF Results
      <4> QED
        BY <4>1, <4>3, <4>4
    <3>5. CASE ~(i <= m)
      <4>1. Stop(i - 1) = m /\ Stop(i) = m /\ m + 1 \in 1..n /\ m < m + 1
        BY <1>1, <2>2, <3>5
      <4>2. v.elements[m + 1] = Null
        BY <1>1, <4>1
      <4>3. Walked(v, op, extra, g, i) = g[i - 1]
        <5> HIDE DEF g, Stop
        <5> QED
          BY <2>2, <3>3, <4>1, <4>2, Zenon DEF Walked
      <4> QED
        BY <3>2, <4>1, <4>3
    <3> QED
      BY <3>4, <3>5
  <2> QED
    BY <2>1, <2>2
<1>3. IsWalk(g, v, op, extra)
  BY <1>2, Zenon DEF IsWalk
<1>4. g[n] = <<G[m], m>>
  <2>1. n \in 0..n /\ Stop(n) = m
    BY <1>1
  <2> QED
    BY <2>1
<1> HIDE DEF g
<1> DEFINE f == CHOOSE f : IsWalk(f, v, op, extra)
<1>5. IsWalk(f, v, op, extra)
  BY <1>3
<1> HIDE DEF f
<1>6. f[n] = g[n]
  BY <1>1, <1>3, <1>5, WalkUnique
<1> QED
  BY <1>4, <1>6, WalkChosen DEF f

(* The elements of an array are NULLs or integers of its type.             *)
LEMMA ArrayIs ==
  ASSUME Null \notin Int, IntBits \in Nat \ {0}, NEW type \in Types, NEW v \in Array(type)
  PROVE  /\ v.type = type /\ v.lb \in Int
         /\ Len(v.elements) \in Nat /\ DOMAIN v.elements = 1..Len(v.elements)
         /\ \A i \in 1..Len(v.elements) :
              v.elements[i] # Null => v.elements[i] \in Int /\ Serves(type, v.elements[i])
<1> DEFINE T == {Null} \cup
             (IF type = "int2" THEN -TwoTo[IntBits - 1]..TwoTo[IntBits - 1] - 1 ELSE Int)
           E == v.elements
<1>1. v.type = type /\ v.lb \in Int /\ E \in Seq(T)
  BY DEF Array
<1>2. ASSUME NEW x \in T, x # Null PROVE x \in Int /\ Serves(type, x)
  <2>1. Half \in Nat
    BY HalfAndWhole
  <2>2. CASE type = "int2"
    <3>1. x \in -Half..Half - 1
      BY <1>2, <2>2 DEF Half
    <3> QED
      BY <2>1, <3>1 DEF Serves
  <2>3. CASE type # "int2"
    BY <1>2, <2>3 DEF Serves
  <2> QED
    BY <2>2, <2>3
<1> HIDE DEF T, E
<1>3. Len(E) \in Nat /\ DOMAIN E = 1..Len(E) /\ \A i \in 1..Len(E) : E[i] \in T
  BY <1>1
<1>4. \A i \in 1..Len(E) : E[i] # Null => E[i] \in Int /\ Serves(type, E[i])
  BY <1>2, <1>3
<1> QED
  BY <1>1, <1>3, <1>4 DEF E

(* An array without an element after a NULL has its elements up to some    *)
(* place.                                                                  *)
LEMMA UptoExists ==
  ASSUME NEW E, Len(E) \in Nat, DOMAIN E = 1..Len(E),
         \A i, j \in DOMAIN E : i < j /\ E[i] = Null => E[j] = Null
  PROVE  \E m \in 0..Len(E) : ElementsUpto(E, m)
<1> DEFINE T == {i \in 1..Len(E) : E[i] = Null}
<1>1. CASE T = {}
  <2>1. Len(E) \in 0..Len(E) /\ \A i \in 1..Len(E) : E[i] # Null /\ ~(Len(E) < i)
    BY <1>1
  <2> QED
    BY <2>1 DEF ElementsUpto
<1>2. CASE T # {}
  <2>1. PICK k \in T : \A i \in T : k <= i
    <3>1. T \in SUBSET Nat
      OBVIOUS
    <3> HIDE DEF T
    <3> QED
      BY <1>2, <3>1, LeastNumber
  <2>2. k - 1 \in 0..Len(E)
    BY <2>1
  <2>3. ASSUME NEW i \in 1..Len(E) PROVE E[i] = Null <=> k - 1 < i
    <3>1. E[i] = Null => k <= i
      BY <2>1
    <3>2. k < i => E[i] = Null
      BY <2>1
    <3>3. k = i => E[i] = Null
      BY <2>1
    <3> QED
      BY <2>1, <3>1, <3>2, <3>3
  <2> QED
    BY <2>2, <2>3 DEF ElementsUpto
<1> QED
  BY <1>1, <1>2

(* The sums of longer and longer prefixes.                                 *)
LEMMA PrefixSum ==
  ASSUME NEW m \in Nat, NEW f, Numbers(f, 1..m)
  PROVE  /\ SumOn(f, 1..0) = 0 /\ SumOn(f, 1..m) \in Int
         /\ \A k \in 1..m : SumOn(f, 1..(k - 1)) \in Int /\ f[k] \in Int
                            /\ SumOn(f, 1..k) = SumOn(f, 1..(k - 1)) + f[k]
<1>1. IsFiniteSet(1..m)
  BY FS_Interval
<1>2. SumOn(f, 1..0) = 0
  <2>1. 1..0 = {}
    OBVIOUS
  <2> QED
    BY <2>1, SumOfNone
<1>3. SumOn(f, 1..m) \in Int
  BY <1>1, TotalIsInt
<1>4. ASSUME NEW k \in 1..m
      PROVE  SumOn(f, 1..(k - 1)) \in Int /\ f[k] \in Int
             /\ SumOn(f, 1..k) = SumOn(f, 1..(k - 1)) + f[k]
  <2> DEFINE T == 1..(k - 1)
  <2>1. T \in SUBSET (1..m) /\ k \notin T /\ 1..k = T \cup {k}
    OBVIOUS
  <2>2. Numbers(f, T) /\ f[k] \in Int
    BY <2>1 DEF Numbers
  <2>3. IsFiniteSet(T)
    BY FS_Interval
  <2> HIDE DEF T
  <2>4. SumOn(f, T \cup {k}) = f[k] + SumOn(f, T)
    BY <1>1, <2>1, TotalAdd
  <2>5. SumOn(f, T) \in Int
    BY <2>2, <2>3, TotalIsInt
  <2>6. SumOn(f, 1..k) = f[k] + SumOn(f, T)
    BY <2>1, <2>4
  <2>7. f[k] + SumOn(f, T) = SumOn(f, T) + f[k]
    BY <2>2, <2>5
  <2> QED
    BY <2>2, <2>5, <2>6, <2>7 DEF T
<1> QED
  BY <1>2, <1>3, <1>4

(* element_sum: the sum of the elements taken, wrapped once.               *)
LEMMA SumWalked ==
  ASSUME IntBits \in Nat \ {0}, NEW v, v.type \in Types, NEW m, ElementsUpto(v.elements, m),
         Numbers(v.elements, 1..m), NEW extra
  PROVE  General_Array_to_Element(v, "sum", extra) =
           <<Wrap(v.type, SumOn(v.elements, 1..m)), m>>
<1> DEFINE E == v.elements
           type == v.type
           G == [k \in 0..m |-> Wrap(type, SumOn(E, 1..k))]
<1>1. m \in Nat /\ m \in 0..m /\ 0 \in 0..m
  BY DEF ElementsUpto
<1>2. /\ SumOn(E, 1..0) = 0 /\ SumOn(E, 1..m) \in Int
      /\ \A k \in 1..m : SumOn(E, 1..(k - 1)) \in Int /\ E[k] \in Int
                         /\ SumOn(E, 1..k) = SumOn(E, 1..(k - 1)) + E[k]
  BY <1>1, PrefixSum
<1>3. G[0] = 0
  <2>1. Half \in Nat /\ Half >= 1 /\ Whole \in Nat
    BY HalfAndWhole
  <2>2. 0 = 0 + 0 * Whole /\ 0 \in Int
    BY <2>1
  <2>3. Serves(type, 0) /\ Same(type, 0, 0)
    BY <2>1, <2>2 DEF Serves, Same, Congruent
  <2>4. 0 = Wrap(type, 0)
    BY <2>2, <2>3, WrapUnique
  <2> QED
    BY <1>1, <1>2, <2>4
<1>4. ASSUME NEW k \in 1..m
      PROVE  G[k] = ElementOp("sum", type, E[k], G[k - 1], k - 1 > 0, extra)
  <2> DEFINE s == SumOn(E, 1..(k - 1))
  <2>1. s \in Int /\ E[k] \in Int /\ SumOn(E, 1..k) = s + E[k]
    BY <1>2
  <2>2. k - 1 \in 0..m /\ k \in 0..m
    BY <1>1
  <2>3. G[k - 1] = Wrap(type, s) /\ G[k] = Wrap(type, SumOn(E, 1..k))
    BY <2>2
  <2> HIDE DEF G, s, E, type
  <2>4. Wrap(type, Wrap(type, s) + E[k]) = Wrap(type, s + E[k])
    BY <2>1, WrapSum DEF type
  <2>5. ElementOp("sum", type, E[k], G[k - 1], k - 1 > 0, extra) = Wrap(type, G[k - 1] + E[k])
    BY DEF ElementOp
  <2> QED
    BY <2>1, <2>3, <2>4, <2>5
<1>5. G[m] = Wrap(type, SumOn(E, 1..m))
  BY <1>1
<1> HIDE DEF G
<1>6. Results(G, v, "sum", extra, m)
  BY <1>3, <1>4 DEF Results
<1> QED
  BY <1>5, <1>6, WalkIs

(* A nonempty finite set of integers has a least element.                  *)
LEMMA LeastInSet ==
  ASSUME NEW S, IsFiniteSet(S), S \subseteq Int, S # {}
  PROVE  Min(S) \in S /\ \A y \in S : Min(S) <= y
<1> DEFINE f == [x \in S |-> -x]
           T == {f[x] : x \in S}
<1>1. DOMAIN f = S
  OBVIOUS
<1>2. IsFiniteSet(T)
  <2> HIDE DEF f
  <2> QED
    BY <1>1, FiniteImage
<1>3. T \subseteq Int /\ T # {}
  <2>1. \A x \in S : f[x] = -x /\ -x \in Int
    OBVIOUS
  <2>2. T \subseteq Int
    BY <2>1
  <2>3. T # {}
    OBVIOUS
  <2> QED
    BY <2>2, <2>3
<1>4. PICK m \in T : \A y \in T : m >= y
  <2> HIDE DEF T
  <2> QED
    BY <1>2, <1>3, GreatestNumber
<1>5. PICK x \in S : m = -x
  OBVIOUS
<1>6. \A y \in S : x <= y
  <2> SUFFICES ASSUME NEW y \in S PROVE x <= y
    OBVIOUS
  <2>1. -y \in T
    OBVIOUS
  <2>2. -x >= -y /\ x \in Int /\ y \in Int
    BY <1>4, <1>5, <2>1
  <2> QED
    BY <2>2
<1> QED
  BY <1>6 DEF Min

(* An element that is no more than the others is the least.                *)
LEMMA LeastIs ==
  ASSUME NEW S, S \subseteq Int, NEW m \in S, \A y \in S : m <= y
  PROVE  Min(S) = m
<1>1. \A x \in S : (\A y \in S : x <= y) => x = m
  <2> SUFFICES ASSUME NEW x \in S, \A y \in S : x <= y PROVE x = m
    OBVIOUS
  <2>1. x <= m /\ m <= x /\ x \in Int /\ m \in Int
    OBVIOUS
  <2> QED
    BY <2>1
<1>2. Min(S) \in S /\ \A y \in S : Min(S) <= y
  BY DEF Min
<1> QED
  BY <1>1, <1>2

(* With one number more, the least is the smaller of it and the least so   *)
(* far.                                                                    *)
LEMMA LeastGrows ==
  ASSUME NEW S, IsFiniteSet(S), S \subseteq Int, S # {}, NEW d \in Int
  PROVE  Min({Min(S), d}) = Min(S \cup {d})
<1>1. Min(S) \in S /\ (\A y \in S : Min(S) <= y) /\ Min(S) \in Int
  BY LeastInSet
<1> DEFINE m == Min(S)
<1> HIDE DEF m
<1>2. m \in S /\ (\A y \in S : m <= y /\ y \in Int) /\ m \in Int
  BY <1>1 DEF m
<1>3. CASE m <= d
  <2>1. Min({m, d}) = m
    BY <1>2, <1>3, LeastIs
  <2>2. \A y \in S \cup {d} : m <= y
    BY <1>2, <1>3
  <2>3. Min(S \cup {d}) = m
    BY <1>2, <2>2, LeastIs
  <2> QED
    BY <2>1, <2>3 DEF m
<1>4. CASE ~(m <= d)
  <2>1. Min({m, d}) = d
    BY <1>2, <1>4, LeastIs
  <2>2. \A y \in S \cup {d} : d <= y
    BY <1>2, <1>4
  <2>3. Min(S \cup {d}) = d
    BY <1>2, <2>2, LeastIs
  <2> QED
    BY <2>1, <2>3 DEF m
<1> QED
  BY <1>3, <1>4

\* The elements up to k.
Taken(E, k) == {E[i] : i \in 1..k}

(* One more place has one more element.                                    *)
LEMMA TakenGrows ==
  ASSUME NEW m \in Nat, NEW E, Numbers(E, 1..m), NEW k \in 1..m
  PROVE  /\ Taken(E, k) = Taken(E, k - 1) \cup {E[k]} /\ E[k] \in Int
         /\ Taken(E, k - 1) \subseteq Int /\ IsFiniteSet(Taken(E, k - 1))
         /\ k - 1 > 0 => Taken(E, k - 1) # {}
<1>1. 1..k = 1..(k - 1) \cup {k} /\ 1..(k - 1) \subseteq 1..m
  OBVIOUS
<1>2. Taken(E, k) = Taken(E, k - 1) \cup {E[k]}
  BY <1>1 DEF Taken
<1>3. Taken(E, k - 1) \subseteq Int /\ E[k] \in Int
  BY <1>1 DEF Taken, Numbers
<1>4. k - 1 > 0 => Taken(E, k - 1) # {}
  <2>1. k - 1 > 0 => 1 \in 1..(k - 1)
    OBVIOUS
  <2> QED
    BY <2>1 DEF Taken
<1>5. IsFiniteSet(Taken(E, k - 1))
  <2> DEFINE f == [i \in 1..(k - 1) |-> E[i]]
             T == {f[i] : i \in 1..(k - 1)}
  <2>1. T = Taken(E, k - 1)
    BY DEF Taken
  <2>2. DOMAIN f = 1..(k - 1) /\ IsFiniteSet(1..(k - 1))
    BY FS_Interval
  <2>3. IsFiniteSet(T)
    <3> HIDE DEF f
    <3> QED
      BY <2>2, FiniteImage
  <2> QED
    BY <2>1, <2>3
<1> QED
  BY <1>2, <1>3, <1>4, <1>5

(* element_min: the least of the elements taken.                           *)
LEMMA LeastWalked ==
  ASSUME NEW v, NEW m, ElementsUpto(v.elements, m), Numbers(v.elements, 1..m), NEW extra
  PROVE  General_Array_to_Element(v, "min", extra) =
           <<IF m = 0 THEN 0 ELSE Min(Taken(v.elements, m)), m>>
<1> DEFINE E == v.elements
           G == [k \in 0..m |-> IF k = 0 THEN 0 ELSE Min(Taken(E, k))]
<1>1. m \in Nat /\ m \in 0..m /\ 0 \in 0..m
  BY DEF ElementsUpto
<1>2. G[0] = 0 /\ G[m] = IF m = 0 THEN 0 ELSE Min(Taken(E, m))
  BY <1>1
<1>3. ASSUME NEW k \in 1..m
      PROVE  G[k] = ElementOp("min", v.type, E[k], G[k - 1], k - 1 > 0, extra)
  <2> DEFINE T == Taken(E, k - 1)
  <2>1. /\ Taken(E, k) = T \cup {E[k]} /\ E[k] \in Int
        /\ T \subseteq Int /\ IsFiniteSet(T) /\ (k - 1 > 0 => T # {})
    BY <1>1, TakenGrows
  <2>2. k - 1 \in 0..m /\ k \in 0..m /\ k # 0
    BY <1>1
  <2>3. G[k] = Min(T \cup {E[k]})
    <3>1. G[k] = Min(Taken(E, k))
      BY <2>2
    <3> QED
      BY <2>1, <3>1
  <2>4. CASE k - 1 > 0
    <3>1. G[k - 1] = Min(T)
      BY <2>2, <2>4
    <3> HIDE DEF G, T, E
    <3>2. ElementOp("min", v.type, E[k], G[k - 1], TRUE, extra) = Min({E[k], G[k - 1]})
      BY DEF ElementOp
    <3>3. Min({Min(T), E[k]}) = Min(T \cup {E[k]})
      BY <2>1, <2>4, LeastGrows
    <3>4. {E[k], G[k - 1]} = {Min(T), E[k]}
      BY <3>1
    <3> QED
      BY <2>3, <2>4, <3>2, <3>3, <3>4
  <2>5. CASE ~(k - 1 > 0)
    <3>1. k - 1 = 0
      BY <2>2, <2>5
    <3>2. T = {}
      <4>1. 1..(k - 1) = {}
        BY <3>1
      <4> QED
        BY <4>1 DEF Taken
    <3> HIDE DEF G, T, E
    <3>3. ElementOp("min", v.type, E[k], G[k - 1], FALSE, extra) = E[k]
      BY DEF ElementOp
    <3>4. Min({E[k]}) = E[k]
      <4>1. ASSUME NEW e \in Int PROVE Min({e}) = e
        BY LeastIs
      <4> QED
        BY <2>1, <4>1
    <3>5. T \cup {E[k]} = {E[k]}
      BY <3>2
    <3>6. (k - 1 > 0) = FALSE
      BY <2>5, <3>1
    <3> QED
      BY <2>3, <3>3, <3>4, <3>5, <3>6
  <2> QED
    BY <2>4, <2>5
<1> HIDE DEF G
<1>4. Results(G, v, "min", extra, m)
  BY <1>2, <1>3 DEF Results
<1> QED
  BY <1>2, <1>4, WalkIs
(* element_max: the greatest of the elements taken.                        *)
LEMMA GreatestWalked ==
  ASSUME NEW v, NEW m, ElementsUpto(v.elements, m), Numbers(v.elements, 1..m), NEW extra
  PROVE  General_Array_to_Element(v, "max", extra) =
           <<IF m = 0 THEN 0 ELSE Max(Taken(v.elements, m)), m>>
<1> DEFINE E == v.elements
           G == [k \in 0..m |-> IF k = 0 THEN 0 ELSE Max(Taken(E, k))]
<1>1. m \in Nat /\ m \in 0..m /\ 0 \in 0..m
  BY DEF ElementsUpto
<1>2. G[0] = 0 /\ G[m] = IF m = 0 THEN 0 ELSE Max(Taken(E, m))
  BY <1>1
<1>3. ASSUME NEW k \in 1..m
      PROVE  G[k] = ElementOp("max", v.type, E[k], G[k - 1], k - 1 > 0, extra)
  <2> DEFINE T == Taken(E, k - 1)
  <2>1. /\ Taken(E, k) = T \cup {E[k]} /\ E[k] \in Int
        /\ T \subseteq Int /\ IsFiniteSet(T) /\ (k - 1 > 0 => T # {})
    BY <1>1, TakenGrows
  <2>2. k - 1 \in 0..m /\ k \in 0..m /\ k # 0
    BY <1>1
  <2>3. G[k] = Max(T \cup {E[k]})
    <3>1. G[k] = Max(Taken(E, k))
      BY <2>2
    <3> QED
      BY <2>1, <3>1
  <2>4. CASE k - 1 > 0
    <3>1. G[k - 1] = Max(T)
      BY <2>2, <2>4
    <3> HIDE DEF G, T, E
    <3>2. ElementOp("max", v.type, E[k], G[k - 1], TRUE, extra) = Max({E[k], G[k - 1]})
      BY DEF ElementOp
    <3>3. Max({Max(T), E[k]}) = Max(T \cup {E[k]})
      BY <2>1, <2>4, GreatestGrows
    <3>4. {E[k], G[k - 1]} = {Max(T), E[k]}
      BY <3>1
    <3> QED
      BY <2>3, <2>4, <3>2, <3>3, <3>4
  <2>5. CASE ~(k - 1 > 0)
    <3>1. k - 1 = 0
      BY <2>2, <2>5
    <3>2. T = {}
      <4>1. 1..(k - 1) = {}
        BY <3>1
      <4> QED
        BY <4>1 DEF Taken
    <3> HIDE DEF G, T, E
    <3>3. ElementOp("max", v.type, E[k], G[k - 1], FALSE, extra) = E[k]
      BY DEF ElementOp
    <3>4. Max({E[k]}) = E[k]
      <4>1. ASSUME NEW e \in Int PROVE Max({e}) = e
        BY GreatestIs
      <4> QED
        BY <2>1, <4>1
    <3>5. T \cup {E[k]} = {E[k]}
      BY <3>2
    <3>6. (k - 1 > 0) = FALSE
      BY <2>5, <3>1
    <3> QED
      BY <2>3, <3>3, <3>4, <3>5, <3>6
  <2> QED
    BY <2>4, <2>5
<1> HIDE DEF G
<1>4. Results(G, v, "max", extra, m)
  BY <1>2, <1>3 DEF Results
<1> QED
  BY <1>2, <1>4, WalkIs

\* Every element squared.
ElementSquares(E, m) == [i \in 1..m |-> Square(E[i])]

\* What an aggregate returns, by the number of elements before the NULLs.
AggregateIs(function, v, m, r) ==
  LET E == v.elements
      S == SumOn(E, 1..m)
      Q == SumOn(ElementSquares(E, m), 1..m)
  IN CASE function = "array_sum" -> Fits(v.type, r, S)
       [] function \in {"array_min", "array_max"} /\ m = 0 -> r = 0
       [] function = "array_min" /\ m > 0 -> r = Min(Taken(E, m))
       [] function = "array_max" /\ m > 0 -> r = Max(Taken(E, m))
       [] function = "array_mean" -> r[1] * m = S * r[2]
       [] function = "array_stddev" -> r[1] * Square(m) = r[2] * (m * Q - Square(S))

(* The property of an aggregate, by the elements before the NULLs.         *)
LEMMA AggregateMeans ==
  ASSUME NEW function, NEW v, NEW m, ElementsUpto(v.elements, m), Numbers(v.elements, 1..m),
         DOMAIN v.elements = 1..Len(v.elements)
  PROVE  IsAggregate(function, v) <=> AggregateIs(function, v, m, result)
<1> DEFINE E == v.elements
           I == {i \in DOMAIN v.elements : v.elements[i] # Null}
           taken == [i \in I |-> v.elements[i]]
<1>1. m \in Nat /\ I = 1..m
  BY DEF ElementsUpto
<1>2. IsFiniteSet(1..m) /\ Cardinality(1..m) = m
  BY <1>1, FS_Interval
<1>3. Cardinality(I) = m
  BY <1>1, <1>2
<1>4. TotalOf(taken) = SumOn(E, 1..m)
  <2>1. Agree(taken, E, 1..m) /\ DOMAIN taken = 1..m
    BY <1>1 DEF Agree
  <2> HIDE DEF taken
  <2>2. SumOn(taken, 1..m) = SumOn(E, 1..m)
    BY <1>2, <2>1, TotalSame
  <2> QED
    BY <2>1, <2>2 DEF TotalOf, SumOn
<1>5. Field(taken, Square) = SumOn(ElementSquares(E, m), 1..m)
  <2>1. DOMAIN taken = 1..m
    BY <1>1
  <2>2. [i \in DOMAIN taken |-> Square(taken[i])] = ElementSquares(E, m)
    BY <1>1 DEF ElementSquares
  <2>3. DOMAIN ElementSquares(E, m) = 1..m
    BY DEF ElementSquares
  <2> HIDE DEF taken
  <2>4. Field(taken, Square) = TotalOf(ElementSquares(E, m))
    BY <2>2, Zenon DEF Field
  <2> QED
    BY <2>3, <2>4 DEF TotalOf, SumOn
<1>6. Range(taken) = Taken(E, m)
  BY <1>1 DEF Range, Taken
<1>7. IsAggregate(function, v) <=>
        CASE function = "array_sum" -> Fits(v.type, result, TotalOf(taken))
          [] function \in {"array_min", "array_max"} /\ Cardinality(I) = 0 -> result = 0
          [] function = "array_min" /\ Cardinality(I) > 0 -> result = Min(Range(taken))
          [] function = "array_max" /\ Cardinality(I) > 0 -> result = Max(Range(taken))
          [] function = "array_mean" -> result[1] * Cardinality(I) = TotalOf(taken) * result[2]
          [] function = "array_stddev" ->
               result[1] * Square(Cardinality(I)) =
                 result[2] * (Cardinality(I) * Field(taken, Square) - Square(TotalOf(taken)))
  BY Zenon DEF IsAggregate
<1> HIDE DEF I, taken
<1> QED
  BY <1>3, <1>4, <1>5, <1>6, <1>7, Zenon DEF AggregateIs

\* The squares of the distances from the mean s / n, times the square of n.
MeanDistances(E, m, s, n) == [i \in 1..m |-> Square(n * E[i] - s)]

(* element_diff: the sum of the squares of the distances.                  *)
LEMMA DistancesWalked ==
  ASSUME NEW v, NEW m, ElementsUpto(v.elements, m), Numbers(v.elements, 1..m),
         NEW s \in Int, NEW n \in Int
  PROVE  General_Array_to_Element(v, "diff", <<s, n>>) =
           <<SumOn(MeanDistances(v.elements, m, s, n), 1..m), m>>
<1> DEFINE E == v.elements
           X == MeanDistances(E, m, s, n)
           G == [k \in 0..m |-> SumOn(X, 1..k)]
<1>1. m \in Nat /\ m \in 0..m /\ 0 \in 0..m
  BY DEF ElementsUpto
<1>2. \A i \in 1..m : X[i] = Square(n * E[i] - s)
  BY DEF MeanDistances
<1>3. Numbers(X, 1..m)
  <2>1. ASSUME NEW i \in 1..m PROVE X[i] \in Int
    <3>1. E[i] \in Int
      BY DEF Numbers
    <3>2. n * E[i] - s \in Int
      BY <3>1
    <3>3. \A z \in Int : z * z \in Int
      OBVIOUS
    <3> QED
      BY <1>2, <3>2, <3>3 DEF Square
  <2> QED
    BY <2>1 DEF Numbers
<1> HIDE DEF X
<1>4. SumOn(X, 1..0) = 0 /\ \A k \in 1..m : SumOn(X, 1..k) = SumOn(X, 1..(k - 1)) + X[k]
  BY <1>1, <1>3, PrefixSum
<1>5. G[0] = 0 /\ G[m] = SumOn(X, 1..m)
  BY <1>1, <1>4
<1>6. ASSUME NEW k \in 1..m
      PROVE  G[k] = ElementOp("diff", v.type, E[k], G[k - 1], k - 1 > 0, <<s, n>>)
  <2>1. k - 1 \in 0..m /\ k \in 0..m
    BY <1>1
  <2>2. G[k - 1] = SumOn(X, 1..(k - 1)) /\ G[k] = SumOn(X, 1..k)
    BY <2>1
  <2>3. ElementOp("diff", v.type, E[k], G[k - 1], k - 1 > 0, <<s, n>>)
          = G[k - 1] + Square(n * E[k] - s)
    <3>1. <<s, n>>[1] = s /\ <<s, n>>[2] = n
      OBVIOUS
    <3> HIDE DEF G, E
    <3> QED
      BY <3>1 DEF ElementOp
  <2> HIDE DEF G, E
  <2> QED
    BY <1>2, <1>4, <2>2, <2>3
<1> HIDE DEF G
<1>7. Results(G, v, "diff", <<s, n>>, m)
  BY <1>5, <1>6 DEF Results
<1> QED
  BY <1>5, <1>7, WalkIs DEF X

(* As many units have that sum.                                            *)
LEMMA SumOfUnits ==
  ASSUME NEW m \in Nat, NEW u, \A i \in 1..m : u[i] = 1
  PROVE  SumOn(u, 1..m) = m
<1>1. Numbers(u, 1..m)
  BY DEF Numbers
<1>2. SumOn(u, 1..0) = 0 /\ \A k \in 1..m : SumOn(u, 1..k) = SumOn(u, 1..(k - 1)) + u[k]
  BY <1>1, PrefixSum
<1> DEFINE F == {k \in Nat : k <= m => SumOn(u, 1..k) = k}
<1>3. 0 \in F
  BY <1>2
<1>4. ASSUME NEW k \in Nat, k \in F PROVE k + 1 \in F
  <2>1. CASE k + 1 <= m
    <3>1. k + 1 \in 1..m /\ (k + 1) - 1 = k /\ SumOn(u, 1..k) = k
      BY <1>4, <2>1
    <3>2. SumOn(u, 1..(k + 1)) = SumOn(u, 1..((k + 1) - 1)) + u[k + 1]
      BY <1>2, <3>1
    <3>3. SumOn(u, 1..((k + 1) - 1)) = k
      BY <3>1
    <3> QED
      BY <3>1, <3>2, <3>3
  <2>2. CASE ~(k + 1 <= m)
    BY <2>2
  <2> QED
    BY <2>1, <2>2
<1> HIDE DEF F
<1>5. Nat \subseteq F
  BY <1>3, <1>4, NatInduct
<1> QED
  BY <1>5 DEF F

\* The square of the distance, multiplied out.
Parts(n, s, x, y, z) == (n * n) * x + (-(2 * n * s)) * y + (s * s) * z

(* The square of one distance.                                             *)
LEMMA PartsOfSquare ==
  ASSUME NEW n \in Int, NEW e \in Int, NEW s \in Int
  PROVE  (n * e - s) * (n * e - s) = Parts(n, s, e * e, e, 1)
BY DEF Parts

(* Summed up, the distances are from the mean.                             *)
LEMMA PartsOfSum ==
  ASSUME NEW n \in Int, NEW z \in Int, NEW s \in Int
  PROVE  Parts(n, s, z, s, n) = n * (n * z - s * s)
BY DEF Parts

(* The squares of the distances from the mean, by the sum and the sum of   *)
(* squares.                                                                *)
LEMMA MeanDistancesAre ==
  ASSUME NEW m \in Nat, NEW E, Numbers(E, 1..m), NEW s, s = SumOn(E, 1..m)
  PROVE  /\ SumOn(ElementSquares(E, m), 1..m) \in Int /\ s \in Int
         /\ SumOn(MeanDistances(E, m, s, m), 1..m) =
              m * (m * SumOn(ElementSquares(E, m), 1..m) - s * s)
<1> DEFINE u == [i \in 1..m |-> 1]
           q == ElementSquares(E, m)
           d == MeanDistances(E, m, s, m)
<1>1. IsFiniteSet(1..m)
  BY FS_Interval
<1>2. s \in Int
  BY <1>1, TotalIsInt
<1>3. \A i \in 1..m : E[i] \in Int
  BY DEF Numbers
<1>4. \A i \in 1..m : q[i] = E[i] * E[i] /\ u[i] = 1
                      /\ d[i] = (m * E[i] - s) * (m * E[i] - s)
  BY DEF ElementSquares, MeanDistances, Square
<1> HIDE DEF u, q, d
<1>5. Numbers(q, 1..m) /\ Numbers(u, 1..m)
  BY <1>3, <1>4 DEF Numbers
<1>6. ASSUME NEW i \in 1..m
      PROVE  d[i] = Parts(m, s, q[i], E[i], u[i])
  <2>1. PICK e \in Int : e = E[i]
    BY <1>3
  <2>2. (m * e - s) * (m * e - s) = Parts(m, s, e * e, e, 1)
    <3>1. m \in Int
      OBVIOUS
    <3> QED
      BY <1>2, <3>1, PartsOfSquare, Zenon
  <2>3. q[i] = e * e /\ u[i] = 1 /\ d[i] = (m * e - s) * (m * e - s)
    BY <1>4, <2>1
  <2> QED
    BY ONLY <2>1, <2>2, <2>3
<1>7. Combines(d, q, E, u, m * m, -(2 * m * s), s * s, 1..m)
  BY <1>6 DEF Combines, Parts
<1>8. m * m \in Int /\ -(2 * m * s) \in Int /\ s * s \in Int
  BY <1>2
<1>9. SumOn(d, 1..m) = Parts(m, s, SumOn(q, 1..m), SumOn(E, 1..m), SumOn(u, 1..m))
  BY <1>1, <1>5, <1>7, <1>8, TotalLinear DEF Parts
<1>10. SumOn(u, 1..m) = m
  BY <1>4, SumOfUnits
<1>11. PICK z \in Int : z = SumOn(q, 1..m)
  BY <1>1, <1>5, TotalIsInt
<1>12. Parts(m, s, z, s, m) = m * (m * z - s * s)
  <2>1. m \in Int
    OBVIOUS
  <2> QED
    BY <1>2, <2>1, PartsOfSum, Zenon
<1>13. SumOn(d, 1..m) = m * (m * z - s * s)
  BY ONLY <1>9, <1>10, <1>11, <1>12, s = SumOn(E, 1..m)
<1> QED
  BY <1>2, <1>11, <1>13 DEF q, d

(* array_sum returns what fits the sum.                                    *)
LEMMA SumReturned ==
  ASSUME NEW v, v.type \in Types, NEW m, ElementsUpto(v.elements, m),
         Numbers(v.elements, 1..m)
  PROVE  AggregateIs("array_sum", v, m, array_sum(v))
<1> DEFINE s == SumOn(v.elements, 1..m)
           w == Wrap(v.type, s)
<1>1. IntBits \in Nat \ {0}
  BY ConstantsAre
<1>2. m \in Nat
  BY DEF ElementsUpto
<1>3. s \in Int
  BY <1>2, PrefixSum
<1>4. General_Array_to_Element(v, "sum", 0) = <<w, m>>
  BY <1>1, SumWalked
<1>5. Fits(v.type, w, s)
  BY <1>1, <1>3, WrapFits
<1> HIDE DEF w
<1>6. array_sum(v) = w
  BY <1>4 DEF array_sum
<1> QED
  BY <1>5, <1>6, Zenon DEF AggregateIs

(* array_min and array_max return the ends, or zero without an element.    *)
LEMMA EndsReturned ==
  ASSUME NEW v, NEW m, ElementsUpto(v.elements, m), Numbers(v.elements, 1..m)
  PROVE  /\ AggregateIs("array_min", v, m, array_min(v))
         /\ AggregateIs("array_max", v, m, array_max(v))
<1> DEFINE a == IF m = 0 THEN 0 ELSE Min(Taken(v.elements, m))
           b == IF m = 0 THEN 0 ELSE Max(Taken(v.elements, m))
<1>1. m \in Nat
  BY DEF ElementsUpto
<1>2. /\ General_Array_to_Element(v, "min", 0) = <<a, m>>
      /\ General_Array_to_Element(v, "max", 0) = <<b, m>>
  BY LeastWalked, GreatestWalked
<1>3. (m = 0 => a = 0 /\ b = 0)
      /\ (m > 0 => a = Min(Taken(v.elements, m)) /\ b = Max(Taken(v.elements, m)))
  BY <1>1
<1> HIDE DEF a, b
<1>4. array_min(v) = a /\ array_max(v) = b
  BY <1>2 DEF array_min, array_max
<1>5. m = 0 \/ m > 0
  BY <1>1
<1>6. m = 0 => ~(m > 0)
  BY <1>1
<1> QED
  BY <1>3, <1>4, <1>5, <1>6 DEF AggregateIs

(* Factors in another order.                                               *)
LEMMA CubeTimes ==
  ASSUME NEW m \in Nat, NEW t \in Int
  PROVE  (m * t) * (m * m) = (m * (m * m)) * t
OBVIOUS

(* array_mean and array_stddev return the mean and the deviation.          *)
LEMMA MeansReturned ==
  ASSUME NEW v, v.type = "float8", NEW m, ElementsUpto(v.elements, m),
         Numbers(v.elements, 1..m), v.elements = << >> => m = 0
  PROVE  /\ AggregateIs("array_mean", v, m, array_mean(v))
         /\ AggregateIs("array_stddev", v, m, array_stddev(v))
<1> DEFINE E == v.elements
           s == SumOn(E, 1..m)
           q == SumOn(ElementSquares(E, m), 1..m)
           d == SumOn(MeanDistances(E, m, s, m), 1..m)
           Mean(r) == r[1] * m = s * r[2]
           Stddev(r) == r[1] * Square(m) = r[2] * (m * q - Square(s))
<1>1. m \in Nat
  BY DEF ElementsUpto
<1>2. q \in Int /\ s \in Int /\ d = m * (m * q - s * s)
  BY <1>1, MeanDistancesAre
<1>3. \A r : /\ AggregateIs("array_mean", v, m, r) <=> Mean(r)
             /\ AggregateIs("array_stddev", v, m, r) <=> Stddev(r)
  BY Zenon DEF AggregateIs
<1>4. m = 0 => s = 0
  <2>1. SumOn(E, 1..0) = 0
    BY <1>1, PrefixSum
  <2> QED
    BY <2>1
<1>5. General_Array_to_Element(v, "sum", 0) = <<s, m>>
  <2>1. IntBits \in Nat \ {0} /\ v.type \in Types
    BY ConstantsAre DEF Types
  <2>2. Wrap(v.type, s) = s
    BY DEF Wrap
  <2> QED
    BY <2>1, <2>2, SumWalked
<1>6. General_Array_to_Element(v, "diff", <<s, m>>) = <<d, m>>
  <2>1. m \in Int
    BY <1>1
  <2> QED
    BY <1>2, <2>1, DistancesWalked
<1> HIDE DEF E, s, q, d
<1>7. CASE v.elements = << >>
  <2>1. m = 0 /\ s = 0
    BY <1>4, <1>7
  <2>2. array_mean(v) = <<0, 1>> /\ array_stddev(v) = <<0, 1>>
    BY <1>7 DEF array_mean, array_stddev
  <2>3. Mean(<<0, 1>>) /\ Stddev(<<0, 1>>)
    BY <1>2, <2>1 DEF Square
  <2> QED
    BY <1>3, <2>2, <2>3
<1>8. CASE v.elements # << >>
  <2>1. array_mean(v) = <<s, m>>
    BY <1>5, <1>8 DEF array_mean
  <2>2. array_stddev(v) = <<d, m * Square(m)>>
    <3>1. array_stddev(v) =
            <<General_Array_to_Element(v, "diff", array_mean(v))[1],
              General_Array_to_Element(v, "diff", array_mean(v))[2] * Square(array_mean(v)[2])>>
      BY <1>8, Zenon DEF array_stddev
    <3>2. <<s, m>>[2] = m /\ <<d, m>>[1] = d /\ <<d, m>>[2] = m
      OBVIOUS
    <3> QED
      BY <1>6, <2>1, <3>1, <3>2
  <2>3. Mean(<<s, m>>)
    BY <1>1, <1>2
  <2>4. Stddev(<<d, m * Square(m)>>)
    <3>1. PICK t \in Int : t = m * q - s * s
      BY <1>1, <1>2
    <3>2. (m * t) * (m * m) = (m * (m * m)) * t
      BY <1>1, CubeTimes
    <3>3. d * Square(m) = (m * Square(m)) * (m * q - Square(s))
      BY <1>2, <3>1, <3>2 DEF Square
    <3> QED
      BY <3>3
  <2> HIDE DEF Mean, Stddev
  <2> QED
    BY <1>3, <2>1, <2>2, <2>3, <2>4
<1> QED
  BY <1>7, <1>8

\* Without the sign.
Absolute(a) == IF a < 0 THEN -a ELSE a

(* The quotient that is cut off leaves less than the divisor, of the sign  *)
(* of the dividend.                                                        *)
LEMMA TruncatedQuotient ==
  ASSUME NEW a \in Int, NEW b \in Int, b # 0, NEW d, d = Absolute(a) \div Absolute(b),
         NEW q, q = IF (a < 0) = (b < 0) THEN d ELSE -d
  PROVE  /\ q \in Int /\ -Absolute(a) <= q /\ q <= Absolute(a)
         /\ Square(a - q * b) < Square(b) /\ (a - q * b) * a >= 0
<1> DEFINE x == Absolute(a)
           y == Absolute(b)
           e == x % y
<1>0. d = x \div y
  OBVIOUS
<1>1. x \in Nat /\ y \in Nat /\ y >= 1
  BY DEF Absolute
<1>2. (a < 0 => a = -x) /\ (~(a < 0) => a = x) /\ (b < 0 => b = -y) /\ (~(b < 0) => b = y)
  BY DEF Absolute
<1>3. d \in Int /\ e \in Int /\ x = y * d + e /\ 0 <= e /\ e < y
  <2> HIDE DEF x, y
  <2>1. /\ x \div y \in Int /\ x % y \in Int /\ x = y * (x \div y) + (x % y)
        /\ 0 <= x % y /\ x % y < y
    BY <1>1, Division
  <2> QED
    BY <1>0, <2>1
<1> HIDE DEF x, y, e
<1>4. PICK z \in Int : z = y * d
  BY <1>1, <1>3
<1>5. d >= 0
  <2> SUFFICES ASSUME d < 0 PROVE FALSE
    BY <1>3
  <2>1. d * y + y <= 0 * y
    BY <1>1, <1>3, TimesGrows
  <2>2. d * y = z
    BY <1>1, <1>3, <1>4
  <2> QED
    BY <1>1, <1>3, <1>4, <2>1, <2>2
<1>6. d <= x
  <2>1. (y - 1) * d \in Nat /\ y * d = (y - 1) * d + d
    BY <1>1, <1>3, <1>5
  <2> QED
    BY <1>1, <1>3, <2>1
<1>7. q \in Int /\ -x <= q /\ q <= x
  BY <1>1, <1>3, <1>5, <1>6
<1>8. a - q * b = IF a < 0 THEN -e ELSE e
  <2>1. CASE a < 0 /\ b < 0
    <3>1. q = d /\ a = -x /\ b = -y
      BY <1>2, <2>1
    <3>2. q * b = -z
      BY <1>1, <1>3, <1>4, <3>1
    <3> QED
      BY <1>1, <1>3, <1>4, <2>1, <3>1, <3>2
  <2>2. CASE a < 0 /\ ~(b < 0)
    <3>1. q = -d /\ a = -x /\ b = y
      BY <1>2, <2>2
    <3>2. q * b = -z
      BY <1>1, <1>3, <1>4, <3>1
    <3> QED
      BY <1>1, <1>3, <1>4, <2>2, <3>1, <3>2
  <2>3. CASE ~(a < 0) /\ b < 0
    <3>1. q = -d /\ a = x /\ b = -y
      BY <1>2, <2>3
    <3>2. q * b = z
      BY <1>1, <1>3, <1>4, <3>1
    <3> QED
      BY <1>1, <1>3, <1>4, <2>3, <3>1, <3>2
  <2>4. CASE ~(a < 0) /\ ~(b < 0)
    <3>1. q = d /\ a = x /\ b = y
      BY <1>2, <2>4
    <3>2. q * b = z
      BY <1>1, <1>3, <1>4, <3>1
    <3> QED
      BY <1>1, <1>3, <1>4, <2>4, <3>1, <3>2
  <2> QED
    BY <2>1, <2>2, <2>3, <2>4
<1>9. PICK r \in Int : r = a - q * b
  BY <1>3, <1>8
<1>10. r * r = e * e /\ b * b = y * y /\ r * a = e * x
  <2>1. (r = e \/ r = -e) /\ (b = y \/ b = -y)
        /\ ((r = e /\ a = x) \/ (r = -e /\ a = -x))
    BY <1>2, <1>8, <1>9
  <2>2. (-e) * (-e) = e * e /\ (-y) * (-y) = y * y /\ (-e) * (-x) = e * x
    BY <1>1, <1>3
  <2> QED
    BY <2>1, <2>2
<1>11. e * e < y * y
  <2>1. e * e <= e * y /\ e * y + y <= y * y
    <3>1. PICK f \in Nat : y = e + 1 + f
      <4>1. y - e - 1 \in Nat /\ y = e + 1 + (y - e - 1)
        BY <1>1, <1>3
      <4> QED
        BY <4>1
    <3>2. e * y = e * e + e + e * f /\ y * y = e * y + y + f * y
      BY <1>1, <1>3, <3>1
    <3>3. e * f \in Nat /\ f * y \in Nat /\ e * e \in Int /\ e * y \in Int
      BY <1>1, <1>3
    <3> QED
      BY <1>1, <1>3, <3>2, <3>3
  <2>2. e * e \in Int /\ e * y \in Int /\ y * y \in Int
    BY <1>1, <1>3
  <2> QED
    BY <1>1, <2>1, <2>2
<1>12. e * x >= 0
  BY <1>1, <1>3
<1> QED
  BY <1>7, <1>9, <1>10, <1>11, <1>12 DEF Square, x

(* The quotient of two integers of few bits, wrapped.                      *)
LEMMA QuotientReturned ==
  ASSUME NEW a \in Int, NEW b \in Int, b # 0, Serves("int2", a)
  PROVE  IsElement("array_div", "int2", a, b, Quotient("int2", a, b))
<1> DEFINE d == Absolute(a) \div Absolute(b)
           q == IF (a < 0) = (b < 0) THEN d ELSE -d
           Rest(z) == a - z * b
<1>1. /\ q \in Int /\ -Absolute(a) <= q /\ q <= Absolute(a)
      /\ Square(Rest(q)) < Square(b) /\ Rest(q) * a >= 0
  BY TruncatedQuotient
<1>2. Quotient("int2", a, b) = Wrap("int2", q)
  BY Zenon DEF Quotient, Absolute
<1> HIDE DEF q
<1>3. IntBits \in Nat \ {0} /\ "int2" \in Types
  BY ConstantsAre DEF Types
<1>4. Half \in Nat /\ -Half <= a /\ a < Half
  BY <1>3, HalfAndWhole DEF Serves
<1>5. q \in -Half..Half
  BY <1>1, <1>4 DEF Absolute
<1>6. Fits("int2", Wrap("int2", q), q)
  BY <1>1, <1>3, WrapFits
<1>7. \E z \in -Half..Half :
        Fits("int2", Wrap("int2", q), z) /\ Square(Rest(z)) < Square(b) /\ Rest(z) * a >= 0
  BY <1>1, <1>5, <1>6
<1>8. IsElement("array_div", "int2", a, b, Wrap("int2", q)) <=>
        \E z \in -Half..Half :
          Fits("int2", Wrap("int2", q), z) /\ Square(Rest(z)) < Square(b) /\ Rest(z) * a >= 0
  BY DEF IsElement, Half
<1> QED
  BY <1>2, <1>7, <1>8

\* The functions that return an array of what they do to every pair of elements.
Elementwise == {"array_add", "array_sub", "array_mult", "array_div"}

(* Every function of two elements returns what it should.                  *)
LEMMA ElementReturned ==
  ASSUME NEW op \in Elementwise \cup Scalings, NEW type \in Types, NEW a \in Int, NEW b \in Int,
         Serves(type, a), op = "array_div" => b # 0
  PROVE  IsElement(op, type, a, b, ElementPair(op, type, a, b))
<1>1. IntBits \in Nat \ {0} /\ a + b \in Int /\ a - b \in Int /\ a * b \in Int
  BY ConstantsAre
<1>2. /\ Fits(type, Wrap(type, a + b), a + b) /\ Fits(type, Wrap(type, a - b), a - b)
      /\ Fits(type, Wrap(type, a * b), a * b)
  BY <1>1, WrapFits
<1>3. CASE op = "array_add"
  BY <1>2, <1>3 DEF IsElement, ElementPair
<1>4. CASE op = "array_sub"
  BY <1>2, <1>4 DEF IsElement, ElementPair
<1>5. CASE op \in {"array_mult", "array_scalar_mult"}
  BY <1>2, <1>5 DEF IsElement, ElementPair
<1>6. CASE op = "array_fill"
  BY <1>6 DEF IsElement, ElementPair
<1>7. CASE op = "array_div"
  <2>1. ElementPair(op, type, a, b) = Quotient(type, a, b)
    BY <1>7 DEF ElementPair
  <2>2. CASE type = "int2"
    BY <1>7, <2>1, <2>2, QuotientReturned
  <2>3. CASE type = "float8"
    BY <1>7, <2>1, <2>3 DEF IsElement, Quotient
  <2> QED
    BY <2>2, <2>3 DEF Types
<1> QED
  BY <1>3, <1>4, <1>5, <1>6, <1>7 DEF Elementwise, Scalings

\* A well-formed array of a type.
Sound(v, type) ==
  /\ "elements" \in DOMAIN v /\ v.type = type /\ DOMAIN v.elements = 1..Len(v.elements) /\ Len(v.elements) \in Nat
  /\ v.elements = << >> <=> Len(v.elements) = 0
  /\ \A i \in DOMAIN v.elements :
       v.elements[i] # Null => v.elements[i] \in Int /\ Serves(type, v.elements[i])

(* An array of a call is well-formed.                                      *)
LEMMA ArrayIsSound ==
  ASSUME NEW type \in Types, NEW v \in Array(type)
  PROVE  Sound(v, type)
<1>1. IntBits \in Nat \ {0} /\ Null \notin Int
  BY ConstantsAre
<1>2. /\ v.type = type /\ Len(v.elements) \in Nat /\ DOMAIN v.elements = 1..Len(v.elements)
      /\ \A i \in 1..Len(v.elements) :
           v.elements[i] # Null => v.elements[i] \in Int /\ Serves(type, v.elements[i])
  BY <1>1, ArrayIs
<1>3. v.elements = << >> <=> Len(v.elements) = 0
  <2> DEFINE T == {Null} \cup
               (IF type = "int2" THEN -TwoTo[IntBits - 1]..TwoTo[IntBits - 1] - 1 ELSE Int)
  <2>1. v.elements \in Seq(T)
    BY DEF Array
  <2> HIDE DEF T
  <2>2. PICK E \in Seq(T) : E = v.elements
    BY <2>1
  <2>3. E = << >> <=> Len(E) = 0
    BY EmptySeq
  <2> QED
    BY <2>2, <2>3
<1>4. "elements" \in DOMAIN v
  BY DEF Array
<1> QED
  BY <1>2, <1>3, <1>4 DEF Sound

\* The shape that an array shares with another.
Shape(u, v) == <<Len(u.elements), u.elements # << >> => u.lb = v.lb>>

(* An array has a NULL where its elements have one.                        *)
LEMMA NullInRange ==
  ASSUME NEW v
  PROVE  HasNull(v) <=> Null \in Range(v.elements)
BY DEF HasNull, Range

(* The test of two arrays is for NULLs and for one shape.                  *)
LEMMA CompatibleIs ==
  ASSUME NEW type, NEW v, NEW w, Sound(v, type), Sound(w, type)
  PROVE  Compatible(v, w) <=> /\ Null \notin Range(v.elements) \cup Range(w.elements)
                              /\ Shape(w, v) = Shape(v, v)
<1>1. /\ v.elements = << >> <=> Len(v.elements) = 0
      /\ w.elements = << >> <=> Len(w.elements) = 0
  BY DEF Sound
<1>2. Shape(w, v) = Shape(v, v) <=>
        Len(w.elements) = Len(v.elements) /\ (w.elements # << >> => w.lb = v.lb)
  BY DEF Shape
<1>3. HasNull(v) <=> Null \in Range(v.elements)
  BY NullInRange
<1>4. HasNull(w) <=> Null \in Range(w.elements)
  BY NullInRange
<1> QED
  BY <1>1, <1>2, <1>3, <1>4 DEF Compatible

\* What a function of two arrays, or of an array and a number, returns.
PairMeans(f, type, E, w, clash, r) ==
  IF \/ Null \in Range(E) \cup Range(w) \/ clash
     \/ f = "array_div" /\ 0 \in Range(w)
  THEN r = Exception
  ELSE IF f = "array_dot" THEN r = TotalOf([i \in DOMAIN E |-> E[i] * w[i]])
  ELSE IF f = "array_contains" THEN r = (\A i \in DOMAIN E : w[i] # 0 => E[i] = w[i])
  ELSE /\ r # Exception /\ DOMAIN r.elements = DOMAIN E
       /\ \A i \in DOMAIN E : IsElement(f, type, E[i], w[i], r.elements[i])

(* An array is no exception.                                               *)
LEMMA NoArrayIsAMark ==
  ASSUME MarksAreNoRecords, NEW v, "elements" \in DOMAIN v
  PROVE  v # Exception
BY DEF MarksAreNoRecords

(* A constructed array has its elements.                                   *)
LEMMA ConstructedIs ==
  ASSUME NEW type, NEW elements
  PROVE  /\ "elements" \in DOMAIN Constructed(type, elements)
         /\ Constructed(type, elements).elements = elements
BY DEF Constructed

(* No element counts as a difference exactly if each is contained.         *)
LEMMA ContainsIs ==
  ASSUME NEW n \in Nat, NEW E, NEW w
  PROVE  TotalOf([i \in 1..n |-> IF w[i] \in {E[i], 0} THEN 0 ELSE 1]) = 0
           <=> \A i \in 1..n : w[i] # 0 => E[i] = w[i]
<1> DEFINE f == [i \in 1..n |-> IF w[i] \in {E[i], 0} THEN 0 ELSE 1]
<1>1. IsFiniteSet(1..n)
  BY FS_Interval
<1>2. DOMAIN f = 1..n
  OBVIOUS
<1>3. \A i \in 1..n : /\ (w[i] # 0 => E[i] = w[i]) => f[i] = 0
                      /\ ~(w[i] # 0 => E[i] = w[i]) => f[i] = 1
  OBVIOUS
<1> HIDE DEF f
<1>4. TotalOf(f) = SumOn(f, 1..n)
  BY <1>2 DEF TotalOf, SumOn
<1>5. Counts(f, 1..n)
  BY <1>3 DEF Counts
<1>6. ASSUME \A i \in 1..n : w[i] # 0 => E[i] = w[i] PROVE SumOn(f, 1..n) = 0
  <2>1. \A i \in 1..n : f[i] = 0
    BY <1>3, <1>6
  <2> QED
    BY <1>1, <2>1, SumOfZeros
<1>7. ASSUME NEW i \in 1..n, ~(w[i] # 0 => E[i] = w[i]) PROVE SumOn(f, 1..n) # 0
  <2>1. f[i] <= SumOn(f, 1..n) /\ f[i] = 1 /\ SumOn(f, 1..n) \in Nat
    BY <1>1, <1>3, <1>5, <1>7, SumAtLeast, SumIsNat
  <2> QED
    BY <2>1
<1> QED
  BY <1>4, <1>6, <1>7 DEF f

(* An array that is constructed element by element is what it should be.   *)
LEMMA ElementsReturned ==
  ASSUME MarksAreNoRecords, NEW f \in Elementwise \cup Scalings, NEW type \in Types,
         NEW v, Sound(v, type), NEW w, \A i \in DOMAIN v.elements : v.elements[i] # Null,
         \A i \in DOMAIN v.elements : w[i] \in Int /\ (f = "array_div" => w[i] # 0),
         NEW r, r = Constructed(v.type, [i \in DOMAIN v.elements |->
                                  ElementPair(f, v.type, v.elements[i], w[i])])
                \/ (r = v /\ v.elements = << >>)
  PROVE  /\ r # Exception /\ DOMAIN r.elements = DOMAIN v.elements
         /\ \A i \in DOMAIN v.elements : IsElement(f, type, v.elements[i], w[i], r.elements[i])
<1> DEFINE E == v.elements
           p == [i \in DOMAIN E |-> ElementPair(f, v.type, E[i], w[i])]
<1>1. /\ "elements" \in DOMAIN v /\ v.type = type /\ DOMAIN E = 1..Len(E)
      /\ (E = << >> <=> Len(E) = 0)
      /\ \A i \in DOMAIN E : E[i] \in Int /\ Serves(type, E[i])
  BY DEF Sound
<1>2. CASE r = Constructed(v.type, p)
  <2>1. "elements" \in DOMAIN r /\ r.elements = p
    <3> HIDE DEF p
    <3> QED
      BY <1>2, ConstructedIs
  <2>2. r # Exception
    BY <2>1, NoArrayIsAMark
  <2>3. DOMAIN p = DOMAIN E
    OBVIOUS
  <2>4. ASSUME NEW i \in DOMAIN E PROVE IsElement(f, type, E[i], w[i], r.elements[i])
    <3>1. r.elements[i] = ElementPair(f, type, E[i], w[i])
      BY <1>1, <2>1
    <3>2. E[i] \in Int /\ Serves(type, E[i]) /\ w[i] \in Int /\ (f = "array_div" => w[i] # 0)
      BY <1>1
    <3>3. IsElement(f, type, E[i], w[i], ElementPair(f, type, E[i], w[i]))
      <4> HIDE DEF E
      <4> QED
        BY <3>2, ElementReturned
    <3> QED
      BY <3>1, <3>3
  <2> QED
    BY <2>1, <2>2, <2>3, <2>4
<1>3. CASE r = v /\ E = << >>
  <2>1. DOMAIN E = {}
    BY <1>1, <1>3
  <2>2. r # Exception
    BY <1>1, <1>3, NoArrayIsAMark
  <2> QED
    BY <1>3, <2>1, <2>2
<1> QED
  BY <1>2, <1>3

(* Functions of an array and a number.                                     *)
LEMMA ScalingReturned ==
  ASSUME MarksAreNoRecords, NEW f \in Scalings, NEW type \in Types, NEW v, Sound(v, type),
         NEW k \in Int
  PROVE  PairMeans(f, type, v.elements, [i \in DOMAIN v.elements |-> k], FALSE,
                   General_Array_to_Array(f, v, k))
<1> DEFINE E == v.elements
           w == [i \in DOMAIN E |-> k]
           r == General_Array_to_Array(f, v, k)
<1>1. k # Null /\ f \notin {"array_div", "array_dot", "array_contains"}
  BY ConstantsAre DEF Scalings
<1>2. DOMAIN w = DOMAIN E /\ \A i \in DOMAIN E : w[i] = k
  OBVIOUS
<1>3. Null \in Range(E) \cup Range(w) <=> HasNull(v)
  BY <1>1, <1>2, NullInRange DEF Range
<1>4. CASE HasNull(v)
  <2>1. E # << >>
    <3>1. E = << >> <=> Len(E) = 0
      BY DEF Sound
    <3>2. DOMAIN E = 1..Len(E) /\ DOMAIN E # {}
      BY <1>4 DEF Sound, HasNull
    <3> QED
      BY <3>1, <3>2
  <2>2. r = Exception
    BY <1>4, <2>1 DEF General_Array_to_Array
  <2> HIDE DEF r, E, w
  <2> QED
    BY <1>3, <1>4, <2>2, Zenon DEF PairMeans, r, E, w
<1>5. CASE ~HasNull(v)
  <2>1. \A i \in DOMAIN E : E[i] # Null
    BY <1>5 DEF HasNull
  <2>2. r = Constructed(v.type, [i \in DOMAIN E |-> ElementPair(f, v.type, E[i], w[i])])
        \/ (r = v /\ E = << >>)
    <3>1. [i \in DOMAIN E |-> ElementPair(f, v.type, E[i], k)]
            = [i \in DOMAIN E |-> ElementPair(f, v.type, E[i], w[i])]
      OBVIOUS
    <3>2. r = IF E = << >> THEN v
              ELSE Constructed(v.type, [i \in DOMAIN E |-> ElementPair(f, v.type, E[i], k)])
      BY <1>5, Zenon DEF General_Array_to_Array
    <3> HIDE DEF r, E, w
    <3> QED
      BY <3>1, <3>2
  <2>3. \A i \in DOMAIN E : w[i] \in Int /\ (f = "array_div" => w[i] # 0)
    BY <1>1
  <2> HIDE DEF r, w
  <2>4. /\ r # Exception /\ DOMAIN r.elements = DOMAIN E
        /\ \A i \in DOMAIN E : IsElement(f, type, E[i], w[i], r.elements[i])
    BY <2>1, <2>2, <2>3, ElementsReturned
  <2>5. PairMeans(f, type, E, w, FALSE, r)
    <3> HIDE DEF E
    <3> QED
      BY <1>1, <1>3, <1>5, <2>4 DEF PairMeans
  <2> QED
    BY <2>5 DEF r, w
<1> QED
  BY <1>4, <1>5

(* Functions of two arrays.                                                *)
LEMMA PairsReturned ==
  ASSUME MarksAreNoRecords, NEW f \in Pairwise, NEW type \in Types,
         NEW v, Sound(v, type), NEW u, Sound(u, type), NEW r,
         r = IF f = "array_dot" THEN array_dot(v, u)
             ELSE IF f = "array_contains" THEN array_contains(v, u)
             ELSE General_2Array_to_Array(f, v, u)
  PROVE  PairMeans(f, type, v.elements, u.elements, Shape(u, v) # Shape(v, v), r)
<1> DEFINE E == v.elements
           w == u.elements
           Divided == f = "array_div" /\ 0 \in Range(w)
           Clash == Null \in Range(E) \cup Range(w) \/ Shape(u, v) # Shape(v, v)
<1>1. Compatible(v, u) <=> ~Clash
  BY CompatibleIs
<1>2. 0 \in Range(w) <=> \E i \in DOMAIN u.elements : u.elements[i] = 0
  BY DEF Range
<1>3. CASE Clash \/ Divided
  <2>1. r = Exception
    <3>1. CASE f = "array_dot"
      BY <1>1, <1>3, <3>1 DEF array_dot
    <3>2. CASE f = "array_contains"
      BY <1>1, <1>3, <3>2 DEF array_contains
    <3>3. CASE f \notin {"array_dot", "array_contains"}
      <4>1. r = General_2Array_to_Array(f, v, u)
        BY <3>3
      <4> QED
        BY <1>1, <1>2, <1>3, <4>1 DEF General_2Array_to_Array
    <3> QED
      BY <3>1, <3>2, <3>3
  <2> QED
    BY <1>3, <2>1, Zenon DEF PairMeans
<1>4. CASE ~(Clash \/ Divided)
  <2>1. Compatible(v, u)
    BY <1>1, <1>4
  <2>2. /\ DOMAIN E = 1..Len(E) /\ Len(E) \in Nat /\ v.type = type
        /\ Len(w) = Len(E) /\ DOMAIN w = DOMAIN E
        /\ \A i \in DOMAIN E : E[i] # Null /\ w[i] # Null /\ w[i] \in Int
    <3>1. ~HasNull(v) /\ ~HasNull(u)
      BY <2>1 DEF Compatible
    <3>2. /\ DOMAIN E = 1..Len(E) /\ Len(E) \in Nat /\ v.type = type
          /\ DOMAIN w = 1..Len(w) /\ (w = << >> <=> Len(w) = 0) /\ (E = << >> <=> Len(E) = 0)
          /\ \A i \in DOMAIN w : w[i] # Null => w[i] \in Int
      BY DEF Sound
    <3>3. Len(w) = Len(E)
      BY <2>1, <3>2 DEF Compatible
    <3> QED
      BY <3>1, <3>2, <3>3 DEF HasNull
  <2>3. CASE f = "array_dot"
    <3>1. r = TotalOf([i \in DOMAIN E |-> E[i] * w[i]])
      BY <2>1, <2>3 DEF array_dot
    <3> QED
      BY <1>4, <2>3, <3>1, Zenon DEF PairMeans
  <2>4. CASE f = "array_contains"
    <3>1. r = (TotalOf([i \in DOMAIN E |-> IF w[i] \in {E[i], 0} THEN 0 ELSE 1]) = 0)
      BY <2>1, <2>4 DEF array_contains
    <3>2. TotalOf([i \in DOMAIN E |-> IF w[i] \in {E[i], 0} THEN 0 ELSE 1]) = 0
            <=> \A i \in DOMAIN E : w[i] # 0 => E[i] = w[i]
      <4>1. PICK n \in Nat : n = Len(E) /\ DOMAIN E = 1..n
        BY <2>2
      <4> HIDE DEF E, w
      <4>2. TotalOf([i \in 1..n |-> IF w[i] \in {E[i], 0} THEN 0 ELSE 1]) = 0
              <=> \A i \in 1..n : w[i] # 0 => E[i] = w[i]
        BY ContainsIs
      <4> QED
        BY <4>1, <4>2
    <3>3. r = (\A i \in DOMAIN E : w[i] # 0 => E[i] = w[i])
      <4> DEFINE a == TotalOf([i \in DOMAIN E |-> IF w[i] \in {E[i], 0} THEN 0 ELSE 1]) = 0
                 b == \A i \in DOMAIN E : w[i] # 0 => E[i] = w[i]
      <4>1. a \in BOOLEAN /\ b \in BOOLEAN /\ (a <=> b) /\ r = a
        BY <3>1, <3>2
      <4> HIDE DEF a, b
      <4>2. r = b
        BY <4>1
      <4> QED
        BY <4>2 DEF b
    <3>4. f # "array_dot" /\ f # "array_div"
      BY <2>4
    <3> QED
      BY <1>4, <2>4, <3>3, <3>4, Zenon DEF PairMeans
  <2>5. CASE f \in Elementwise
    <3>1. f \notin {"array_dot", "array_contains"}
      BY <2>5 DEF Elementwise
    <3>2. r = Constructed(v.type, [i \in DOMAIN E |-> ElementPair(f, v.type, E[i], w[i])])
          \/ (r = v /\ E = << >>)
      <4>1. r = General_2Array_to_Array(f, v, u)
        BY <3>1
      <4>2. ~(f = "array_div" /\ \E i \in DOMAIN u.elements : u.elements[i] = 0)
        BY <1>2, <1>4
      <4>3. r = IF E = << >> THEN v
                ELSE Constructed(v.type, [i \in DOMAIN E |-> ElementPair(f, v.type, E[i], w[i])])
        BY <2>1, <4>1, <4>2, Zenon DEF General_2Array_to_Array
      <4> HIDE DEF E, w
      <4> QED
        BY <4>3
    <3>3. \A i \in DOMAIN E : w[i] \in Int /\ (f = "array_div" => w[i] # 0)
      BY <1>2, <1>4, <2>2
    <3>4. f \in Elementwise \cup Scalings
      BY <2>5
    <3>n. \A i \in DOMAIN E : E[i] # Null
      BY <2>2
    <3> HIDE DEF w, Clash, Divided
    <3>5. /\ r # Exception /\ DOMAIN r.elements = DOMAIN E
          /\ \A i \in DOMAIN E : IsElement(f, type, E[i], w[i], r.elements[i])
      BY ONLY <3>n, <3>2, <3>3, <3>4, ElementsReturned, MarksAreNoRecords, type \in Types, Sound(v, type)
    <3> HIDE DEF E
    <3>6. PairMeans(f, type, E, w, Shape(u, v) # Shape(v, v), r)
      BY <1>4, <3>1, <3>5 DEF PairMeans, Clash, Divided
    <3> QED
      BY <3>6 DEF E, w
  <2> QED
    BY <2>3, <2>4, <2>5 DEF Pairwise, Elementwise
<1> QED
  BY <1>3, <1>4

\* The arguments of a call without NULLs, by what is called.
CalledWith(f, args, type) ==
  \/ /\ f \in Aggregates /\ \E v \in Array(type) : args = <<v>>
     /\ f \in {"array_mean", "array_stddev"} => type = "float8"
  \/ f \in Scalings /\ \E v \in Array(type), k \in Int : args = <<v, k>>
  \/ f \in Pairwise /\ \E v, u \in Array(type) : args = <<v, u>>

(* No function is of two kinds.                                            *)
LEMMA KindsOfCalls ==
  /\ Aggregates \cap (Scalings \cup Pairwise) = {} /\ Scalings \cap Pairwise = {}
  /\ {"array_mean", "array_stddev"} \subseteq Aggregates
BY DEF Aggregates, Scalings, Pairwise

(* A call without NULLs has arguments of its kind and of one type.         *)
LEMMA CallsWithoutNull ==
  ASSUME NEW f \in DOMAIN Calls, NEW args \in Calls[f], \A k \in DOMAIN args : args[k] # Null
  PROVE  \E type \in Types : CalledWith(f, args, type)
<1>1. PICK type \in Types :
        args \in Arguments(f, type) /\ (f \in {"array_mean", "array_stddev"} => type = "float8")
  <2>1. \/ args \in Arguments(f, "float8")
        \/ f \notin {"array_mean", "array_stddev"} /\ args \in Arguments(f, "int2")
    BY QueriesAssumption DEF QueriesAssumption
  <2> QED
    BY <2>1 DEF Types
<1>2. f \in Aggregates \cup Scalings \cup Pairwise
  BY FunctionsAreNoTests
<1> DEFINE V == {Null} \cup Array(type)
           K == {Null} \cup Int
<1>3. args \in IF f \in Aggregates THEN {a \in Seq(V) : Len(a) = 1}
               ELSE IF f \in Scalings THEN V \X K ELSE V \X V
  BY <1>1, Zenon DEF Arguments
<1>4. CASE f \in Aggregates
  <2>1. args \in Seq(V) /\ Len(args) = 1
    BY <1>3, <1>4
  <2>2. args[1] \in V /\ args = <<args[1]>> /\ 1 \in DOMAIN args
    <3> HIDE DEF V
    <3> QED
      BY <2>1
  <2>3. args[1] \in Array(type)
    BY <2>2
  <2> QED
    BY <1>1, <1>4, <2>2, <2>3 DEF CalledWith
<1>5. CASE f \in Scalings
  <2>1. args \in V \X K
    BY <1>3, <1>5, KindsOfCalls
  <2>2. PICK v \in V, k \in K : args = <<v, k>>
    <3> HIDE DEF V, K
    <3> QED
      BY <2>1
  <2>3. args[1] = v /\ args[2] = k /\ 1 \in DOMAIN args /\ 2 \in DOMAIN args
    BY <2>2
  <2>4. v \in Array(type) /\ k \in Int
    BY <2>3
  <2> QED
    BY <1>5, <2>2, <2>4 DEF CalledWith
<1>6. CASE f \in Pairwise
  <2>1. args \in V \X V
    BY <1>3, <1>6, KindsOfCalls
  <2>2. PICK v \in V, u \in V : args = <<v, u>>
    <3> HIDE DEF V
    <3> QED
      BY <2>1
  <2>3. args[1] = v /\ args[2] = u /\ 1 \in DOMAIN args /\ 2 \in DOMAIN args
    BY <2>2
  <2>4. v \in Array(type) /\ u \in Array(type)
    BY <2>3
  <2> QED
    BY <1>6, <2>2, <2>4 DEF CalledWith
<1> QED
  BY <1>2, <1>4, <1>5, <1>6

\* What the property assumes of an array and compares with.
NoneAfterNull(E) == \A i, j \in DOMAIN E : i < j /\ E[i] = Null => E[j] = Null
Others(f, args) ==
  IF f \in {"array_fill", "array_scalar_mult"} THEN [i \in DOMAIN args[1].elements |-> args[2]]
  ELSE args[2].elements
Clashing(f, args) ==
  ~(f \in {"array_fill", "array_scalar_mult"}) /\ Shape(args[2], args[1]) # Shape(args[1], args[1])

(* The property of a call, by its first arguments.                         *)
LEMMA ArraysPropertyIs ==
  ASSUME NEW f, f = job.test, NEW args, args = job.rows,
         Len(args) = 1 => (NoneAfterNull(args[1].elements) => IsAggregate(f, args[1])),
         Len(args) # 1 => PairMeans(f, args[1].type, args[1].elements, Others(f, args),
                                    Clashing(f, args), result)
  PROVE  ArraysAreElementwise
<1> DEFINE Both == PairMeans(f, args[1].type, args[1].elements, Others(f, args),
                             Clashing(f, args), result)
           One1 == NoneAfterNull(args[1].elements) => IsAggregate(f, args[1])
<1>1. ArraysAreElementwise <=>
        (f \notin Tests /\ result # Pending /\ (\A k \in DOMAIN args : args[k] # Null)
           => IF Len(args) = 1 THEN One1 ELSE Both)
  BY Zenon DEF ArraysAreElementwise, rows, NoneAfterNull, Others, Clashing, PairMeans, Shape
<1> QED
  BY <1>1

(* A call of an aggregate returns what it should.                          *)
LEMMA AggregatesAnswered ==
  ASSUME NEW type \in Types, NEW v \in Array(type), NEW f \in Aggregates,
         f \in {"array_mean", "array_stddev"} => type = "float8",
         NoneAfterNull(v.elements), result = ArrayCall(f, <<v>>), v # Null
  PROVE  IsAggregate(f, v)
<1>1. Sound(v, type)
  BY ArrayIsSound
<1>2. /\ v.type = type /\ Len(v.elements) \in Nat /\ DOMAIN v.elements = 1..Len(v.elements)
      /\ (v.elements = << >> <=> Len(v.elements) = 0)
      /\ \A i \in DOMAIN v.elements : v.elements[i] # Null => v.elements[i] \in Int
  BY <1>1 DEF Sound
<1>3. PICK m \in 0..Len(v.elements) : ElementsUpto(v.elements, m)
  BY <1>2, UptoExists DEF NoneAfterNull
<1>4. m \in Nat /\ Numbers(v.elements, 1..m) /\ (v.elements = << >> => m = 0)
  <2>1. \A i \in 1..m : i \in DOMAIN v.elements /\ v.elements[i] # Null
    BY <1>2, <1>3 DEF ElementsUpto
  <2> QED
    BY <1>2, <1>3, <2>1 DEF Numbers
<1>5. IsAggregate(f, v) <=> AggregateIs(f, v, m, result)
  BY <1>2, <1>3, <1>4, AggregateMeans
<1>6. result = CASE f = "array_sum" -> array_sum(v)
                 [] f = "array_min" -> array_min(v)
                 [] f = "array_max" -> array_max(v)
                 [] f = "array_mean" -> array_mean(v)
                 [] f = "array_stddev" -> array_stddev(v)
  <2>1. \A k \in DOMAIN <<v>> : <<v>>[k] # Null
    OBVIOUS
  <2>2. <<v>>[1] = v
    OBVIOUS
  <2> QED
    BY <2>1, <2>2 DEF ArrayCall, Aggregates
<1>7. CASE f = "array_sum"
  <2>1. AggregateIs("array_sum", v, m, array_sum(v))
    BY <1>2, <1>3, <1>4, SumReturned
  <2> QED
    BY <1>5, <1>6, <1>7, <2>1
<1>8. CASE f \in {"array_min", "array_max"}
  <2>1. /\ AggregateIs("array_min", v, m, array_min(v))
        /\ AggregateIs("array_max", v, m, array_max(v))
    BY <1>3, <1>4, EndsReturned
  <2> QED
    BY <1>5, <1>6, <1>8, <2>1
<1>9. CASE f \in {"array_mean", "array_stddev"}
  <2>1. /\ AggregateIs("array_mean", v, m, array_mean(v))
        /\ AggregateIs("array_stddev", v, m, array_stddev(v))
    BY <1>2, <1>3, <1>4, <1>9, MeansReturned
  <2> QED
    BY <1>5, <1>6, <1>9, <2>1
<1> QED
  BY <1>7, <1>8, <1>9 DEF Aggregates

(* Every call of a function of arrays returns what it should.              *)
LEMMA ArraysAnswered ==
  ASSUME MarksAreNoRecords, job.test \in DOMAIN Calls, job.rows \in Calls[job.test],
         result = ArrayCall(job.test, job.rows)
  PROVE  ArraysAreElementwise
<1>1. PICK f : f = job.test
  OBVIOUS
<1>2. PICK args : args = job.rows
  OBVIOUS
<1>3. f \in DOMAIN Calls /\ args \in Calls[f] /\ result = ArrayCall(f, args)
  BY <1>1, <1>2
<1>4. CASE ~(\A k \in DOMAIN args : args[k] # Null)
  BY <1>2, <1>4 DEF ArraysAreElementwise, rows
<1>5. CASE \A k \in DOMAIN args : args[k] # Null
  <2>1. PICK type \in Types : CalledWith(f, args, type)
    BY <1>3, <1>5, CallsWithoutNull
  <2>2. ASSUME f \in Aggregates, NEW v \in Array(type), args = <<v>>,
               f \in {"array_mean", "array_stddev"} => type = "float8"
        PROVE  ArraysAreElementwise
    <3>1. Len(args) = 1 /\ args[1] = v /\ 1 \in DOMAIN args
      BY <2>2
    <3>2. v # Null
      BY <1>5, <3>1
    <3>3. NoneAfterNull(v.elements) => IsAggregate(f, v)
      BY <1>3, <2>2, <3>2, AggregatesAnswered
    <3> QED
      BY <1>1, <1>2, <3>1, <3>3, ArraysPropertyIs
  <2>3. ASSUME f \in Scalings, NEW v \in Array(type), NEW k \in Int, args = <<v, k>>
        PROVE  ArraysAreElementwise
    <3>1. Len(args) = 2 /\ args[1] = v /\ args[2] = k
      BY <2>3
    <3>2. Sound(v, type) /\ v.type = type
      BY ArrayIsSound DEF Sound
    <3>3. result = General_Array_to_Array(f, v, k)
      <4>1. f \notin Aggregates /\ f \in {"array_fill", "array_scalar_mult"}
            /\ f \notin {"array_dot", "array_contains"}
        BY <2>3 DEF Scalings, Aggregates
      <4> QED
        BY <1>3, <1>5, <3>1, <4>1 DEF ArrayCall
    <3>4. PairMeans(f, type, v.elements, [i \in DOMAIN v.elements |-> k], FALSE,
                    General_Array_to_Array(f, v, k))
      BY <2>3, <3>2, ScalingReturned
    <3>5. Others(f, args) = [i \in DOMAIN v.elements |-> k] /\ Clashing(f, args) = FALSE
      BY <2>3, <3>1 DEF Others, Clashing, Scalings
    <3>6. PairMeans(f, args[1].type, args[1].elements, Others(f, args), Clashing(f, args), result)
      BY <3>1, <3>2, <3>3, <3>4, <3>5
    <3> QED
      BY <1>1, <1>2, <3>1, <3>6, ArraysPropertyIs
  <2>4. ASSUME f \in Pairwise, NEW v \in Array(type), NEW u \in Array(type), args = <<v, u>>
        PROVE  ArraysAreElementwise
    <3>1. Len(args) = 2 /\ args[1] = v /\ args[2] = u
      BY <2>4
    <3>2. Sound(v, type) /\ v.type = type /\ Sound(u, type)
      BY ArrayIsSound DEF Sound
    <3>3. f \notin {"array_fill", "array_scalar_mult"}
      BY <2>4 DEF Pairwise
    <3>4. result = IF f = "array_dot" THEN array_dot(v, u)
                   ELSE IF f = "array_contains" THEN array_contains(v, u)
                   ELSE General_2Array_to_Array(f, v, u)
      <4>1. f \notin Aggregates
        BY <2>4 DEF Pairwise, Aggregates
      <4> QED
        BY <1>3, <1>5, <3>1, <3>3, <4>1 DEF ArrayCall, Aggregates
    <3>5. PairMeans(f, type, v.elements, u.elements, Shape(u, v) # Shape(v, v), result)
      BY <2>4, <3>2, <3>4, PairsReturned
    <3>6. Others(f, args) = u.elements /\ Clashing(f, args) = (Shape(u, v) # Shape(v, v))
      BY <3>1, <3>3 DEF Others, Clashing
    <3>7. PairMeans(f, args[1].type, args[1].elements, Others(f, args), Clashing(f, args), result)
      BY <3>1, <3>2, <3>5, <3>6
    <3> QED
      BY <1>1, <1>2, <3>1, <3>7, ArraysPropertyIs
  <2> QED
    BY <2>1, <2>2, <2>3, <2>4 DEF CalledWith
<1> QED
  BY <1>4, <1>5

\* A session that calls a function of arrays has no result, or what it returns.
ArrayInv ==
  /\ called # "query" => result = Pending
  /\ called = "query" /\ job.test \notin Tests =>
       /\ job.test \in DOMAIN Calls /\ job.rows \in Calls[job.test]
       /\ result = Pending \/ result = ArrayCall(job.test, job.rows)

(* Nothing is returned at first.                                           *)
LEMMA ArrayInvStarts == SessionInit => ArrayInv
<1>1. ASSUME called = "query", Init PROVE ArrayInv
  <2>1. CASE \E f \in DOMAIN Calls : \E args \in Calls[f] :
               job = [test |-> f, rows |-> args, spread |-> FALSE]
    BY <1>1, <2>1 DEF Init, ArrayInv
  <2>2. CASE \E t \in DOMAIN Jobs : \E R \in Jobs[t] : \E spread, limit, converges :
               job = [test |-> t, rows |-> R, spread |-> spread,
                      limit |-> limit, converges |-> converges]
    <3>1. job.test \in Tests
      BY <2>2, JobsAre
    <3> QED
      BY <1>1, <3>1 DEF ArrayInv
  <2> QED
    BY <1>1, <2>1, <2>2 DEF Init
<1>2. ASSUME called # "query", NoQuery PROVE ArrayInv
  BY <1>2 DEF NoQuery, ArrayInv
<1> QED
  BY <1>1, <1>2 DEF SessionInit

(* A call ends the query with what the function returns.                   *)
LEMMA ArrayInvNext ==
  ASSUME ArrayInv, [SessionNext]_SessionVars
  PROVE  ArrayInv'
<1>1. CASE RunsQuery
  <2>1. called = "query" /\ called' = called /\ Next
    BY <1>1 DEF RunsQuery
  <2>2. job' = job
    BY <2>1 DEF Next, Reject, Call, Finish, Iterate, Read, MergeStates, Returns, EndIteration
  <2>3. CASE job.test \in Tests
    BY <2>1, <2>2, <2>3 DEF ArrayInv
  <2>4. CASE job.test \notin Tests
    <3>1. job.test \notin Optimizers
      BY <2>4 DEF Tests
    <3>2. Call
      BY <2>1, <2>4, <3>1 DEF Next, Reject, Finish, Iterate, Read, MergeStates, Running
    <3>3. result' = ArrayCall(job.test, job.rows)
      BY <3>2 DEF Call, Returns
    <3>4. ArrayCall(job.test, job.rows)' = ArrayCall(job.test, job.rows)
      BY <2>2
    <3> QED
      BY <2>1, <2>2, <2>4, <3>3 DEF ArrayInv
  <2> QED
    BY <2>3, <2>4
<1>2. ASSUME UNCHANGED <<job, result>>, called' = called PROVE ArrayInv'
  BY <1>2 DEF ArrayInv
<1>3. CASE RunsAssocRules \/ RunsPLDA
  BY <1>2, <1>3 DEF RunsAssocRules, RunsPLDA, vars
<1>4. CASE UNCHANGED SessionVars
  BY <1>2, <1>4 DEF SessionVars, vars
<1> QED
  BY <1>1, <1>3, <1>4 DEF SessionNext

(* array_ops.c: every function of arrays does what it is called to every   *)
(* element, or raises an error for arrays of different shapes, NULLs it    *)
(* does not take and divisors of zero; integers of any number of bits wrap.*)
THEOREM ArrayFunctions ==
  ASSUME MarksAreNoRecords
  PROVE  SessionSpec => []ArraysAreElementwise
<1>1. SessionInit => ArrayInv
  BY ArrayInvStarts
<1>2. ArrayInv /\ [SessionNext]_SessionVars => ArrayInv'
  BY ArrayInvNext
<1>3. ArrayInv => ArraysAreElementwise
  <2> SUFFICES ASSUME ArrayInv, job.test \notin Tests, result # Pending
               PROVE  ArraysAreElementwise
    BY DEF ArraysAreElementwise
  <2> QED
    BY ArraysAnswered DEF ArrayInv
<1> QED
  BY <1>1, <1>2, <1>3, PTL DEF SessionSpec

-----------------------------------------------------------------------------
(* Analysis of variance: groups in order, and the places of their moments. *)

\* The groups are the numbers below this one.
Top == TwoTo[GroupBits]

(* There is room for a group.                                              *)
LEMMA TopIs == GroupBits \in Nat \ {0} /\ Top \in Nat /\ Top >= 1
BY TestsAssumption, PowerStep DEF TestsAssumption, Top

(* A greater power of two is twice as great, or more.                      *)
LEMMA PowersGrow ==
  ASSUME NEW i \in Nat, NEW j \in Nat, i < j
  PROVE  2 * TwoTo[i] <= TwoTo[j]
<1> DEFINE S == {k \in Nat : i < k => 2 * TwoTo[i] <= TwoTo[k]}
<1>1. 0 \in S
  OBVIOUS
<1>2. ASSUME NEW k \in Nat, k \in S PROVE k + 1 \in S
  <2>1. /\ TwoTo[i] \in Nat /\ TwoTo[k] \in Nat /\ TwoTo[k] >= 1
        /\ TwoTo[k + 1] = 2 * TwoTo[k] /\ k + 1 \in Nat
    BY PowerStep
  <2>2. CASE i = k
    BY <2>1, <2>2
  <2>3. CASE i # k
    <3>1. i < k + 1 => i < k
      BY <2>3
    <3> QED
      BY <1>2, <2>1, <3>1
  <2> QED
    BY <2>2, <2>3
<1> HIDE DEF S
<1>3. Nat \subseteq S
  BY <1>1, <1>2, NatInduct
<1> QED
  BY <1>3 DEF S

\* The least power of two of these that is no less than n is the one of k.
Power(k, n) ==
  /\ k \in 0..GroupBits /\ n <= TwoTo[k]
  /\ \A j \in 0..GroupBits : n <= TwoTo[j] => TwoTo[k] <= TwoTo[j]

(* nextPowerOfTwo is the least power of two that is no less.               *)
LEMMA PowerIs ==
  ASSUME NEW n \in Nat \ {0}, NEW k, Power(k, n)
  PROVE  nextPowerOfTwo(n) = TwoTo[k]
<1> DEFINE S == {TwoTo[j] : j \in 0..GroupBits} \ 0..n - 1
<1>1. \A j \in 0..GroupBits : TwoTo[j] \in Nat
  BY TopIs, PowerStep
<1>2. \A x \in Nat : x \notin 0..n - 1 <=> n <= x
  OBVIOUS
<1>3. TwoTo[k] \in S /\ \A x \in S : TwoTo[k] <= x
  BY <1>1, <1>2 DEF Power
<1>4. \A x \in S : x \in Int
  BY <1>1
<1>5. nextPowerOfTwo(n) = Min(S)
  BY DEF nextPowerOfTwo
<1> HIDE DEF S
<1>6. Min(S) = TwoTo[k]
  BY <1>3, <1>4, LeastIs
<1> QED
  BY <1>5, <1>6

(* There is one as long as the groups fit.                                 *)
LEMMA PowerExists ==
  ASSUME NEW n \in Nat, n <= Top
  PROVE  \E k : Power(k, n)
<1> DEFINE T == {j \in 0..GroupBits : n <= TwoTo[j]}
<1>1. GroupBits \in T
  BY TopIs DEF Top
<1>2. T \in SUBSET Nat /\ T # {}
  BY <1>1, TopIs
<1> HIDE DEF T
<1>3. PICK k \in T : \A j \in T : k <= j
  BY <1>2, LeastNumber
<1>4. ASSUME NEW j \in 0..GroupBits, n <= TwoTo[j]
      PROVE  TwoTo[k] <= TwoTo[j]
  <2>1. j \in T /\ k \in Nat /\ j \in Nat
    BY <1>2, <1>4 DEF T
  <2>2. k = j \/ k < j
    BY <1>3, <2>1
  <2>3. TwoTo[k] \in Nat /\ TwoTo[j] \in Nat /\ (k < j => 2 * TwoTo[k] <= TwoTo[j])
    BY <2>1, PowerStep, PowersGrow
  <2> QED
    BY <2>2, <2>3
<1>5. k \in 0..GroupBits /\ n <= TwoTo[k]
  BY DEF T
<1> QED
  BY <1>4, <1>5 DEF Power

(* The room that an insertion makes is that of the power of two for one    *)
(* group more.                                                             *)
LEMMA RoomIs ==
  ASSUME NEW n \in Nat, n + 1 <= Top
  PROVE  /\ Room(n) = nextPowerOfTwo(n + 1) /\ Room(n) \in Nat /\ nextPowerOfTwo(n) \in Nat
         /\ nextPowerOfTwo(n) <= Room(n) /\ n + 1 <= Room(n) /\ n <= nextPowerOfTwo(n)
<1>0. GroupBits \in Nat /\ Top \in Nat /\ n + 1 \in Nat \ {0} /\ n <= Top
  BY TopIs
<1>1. CASE n = 0
  <2>1. nextPowerOfTwo(0) = 0
    BY DEF nextPowerOfTwo
  <2>2. Room(0) = Max({1, 0})
    BY <2>1 DEF Room
  <2>3. Max({1, 0}) = 1
    BY DEF Max
  <2>4. Power(0, 1)
    <3>1. 0 \in 0..GroupBits /\ TwoTo[0] = 1
      BY <1>0, PowerStep
    <3> QED
      BY <1>0, <3>1 DEF Power
  <2>5. nextPowerOfTwo(1) = 1
    BY <2>4, PowerIs, PowerStep
  <2> QED
    BY <1>1, <2>1, <2>2, <2>3, <2>5
<1>2. CASE n # 0
  <2>1. PICK k : Power(k, n)
    BY <1>0, PowerExists
  <2>2. nextPowerOfTwo(n) = TwoTo[k]
    BY <1>2, <2>1, PowerIs
  <2>3. /\ k \in Nat /\ k \in 0..GroupBits /\ TwoTo[k] \in Nat /\ n <= TwoTo[k]
        /\ k + 1 \in Nat /\ TwoTo[k + 1] = 2 * TwoTo[k] /\ TwoTo[k] >= 1
    BY <1>0, <2>1, PowerStep DEF Power
  <2>4. CASE n < TwoTo[k]
    <3>1. Room(n) = TwoTo[k]
      BY <2>2, <2>3, <2>4 DEF Room
    <3>2. ASSUME NEW j \in 0..GroupBits, n + 1 <= TwoTo[j] PROVE TwoTo[k] <= TwoTo[j]
      <4>1. TwoTo[j] \in Nat
        BY <1>0, PowerStep
      <4>2. n <= TwoTo[j]
        BY <3>2, <4>1
      <4> QED
        BY <2>1, <4>2 DEF Power
    <3>3. n + 1 <= TwoTo[k]
      BY <2>3, <2>4
    <3>4. Power(k, n + 1)
      BY <2>3, <3>2, <3>3 DEF Power
    <3>5. nextPowerOfTwo(n + 1) = TwoTo[k]
      BY <1>0, <3>4, PowerIs
    <3> QED
      BY <2>2, <2>3, <3>1, <3>3, <3>5
  <2>5. CASE n = TwoTo[k]
    <3>1. Room(n) = 2 * TwoTo[k]
      <4>1. Room(n) = Max({1, 2 * TwoTo[k]})
        BY <2>2, <2>3, <2>5 DEF Room
      <4> DEFINE d == 2 * TwoTo[k]
      <4>2. d \in Nat /\ d >= 1
        BY <2>3
      <4> HIDE DEF d
      <4>3. Max({1, d}) = d
        BY <4>2 DEF Max
      <4> QED
        BY <4>1, <4>3 DEF d
    <3>2. k < GroupBits
      <4>1. k # GroupBits
        BY <1>0, <2>5 DEF Top
      <4> QED
        BY <1>0, <2>3, <4>1
    <3>3. ASSUME NEW j \in 0..GroupBits, n + 1 <= TwoTo[j] PROVE TwoTo[k + 1] <= TwoTo[j]
      <4>1. TwoTo[j] \in Nat /\ j \in Nat
        BY <1>0, PowerStep
      <4>2. j # k /\ (j < k => 2 * TwoTo[j] <= TwoTo[k])
        BY <2>3, <2>5, <3>3, <4>1, PowersGrow
      <4>3. k < j
        BY <2>3, <2>5, <3>3, <4>1, <4>2
      <4> QED
        BY <2>3, <4>1, <4>3, PowersGrow
    <3>4. n + 1 <= TwoTo[k + 1]
      BY <2>3, <2>5
    <3>5. Power(k + 1, n + 1)
      BY <1>0, <2>3, <3>2, <3>3, <3>4 DEF Power
    <3>6. nextPowerOfTwo(n + 1) = TwoTo[k + 1]
      BY <1>0, <3>5, PowerIs
    <3> QED
      BY <2>2, <2>3, <2>5, <3>1, <3>4, <3>6
  <2> QED
    BY <2>3, <2>4, <2>5
<1> QED
  BY <1>1, <1>2

\* A sequence is another with e at place i.
Inserted(t, s, i, e) ==
  \A k \in 1..Len(s) + 1 : t[k] = IF k < i THEN s[k] ELSE IF k = i THEN e ELSE s[k - 1]

(* What InsertAt makes has the new element in its place and the others     *)
(* around it.                                                              *)
LEMMA InsertIs ==
  ASSUME NEW S, NEW s \in Seq(S), NEW e \in S, NEW i \in 1..Len(s) + 1
  PROVE  /\ InsertAt(s, i, e) \in Seq(S) /\ Len(InsertAt(s, i, e)) = Len(s) + 1
         /\ Inserted(InsertAt(s, i, e), s, i, e)
<1> DEFINE n == Len(s)
           l == SubSeq(s, 1, i - 1)
           r == SubSeq(s, i, Len(s))
           m == <<e>>
           u == l \o m
           t == u \o r
<1>0. n \in Nat /\ i \in 1..n + 1 /\ i \in Int
  OBVIOUS
<1>1. /\ l \in Seq(S) /\ Len(l) = i - 1 /\ \A k \in 1..i - 1 : l[k] = s[k]
  <2>1. \A k \in 1..i - 1 : s[k] \in S
    BY <1>0
  <2>2. /\ SubSeq(s, 1, i - 1) \in Seq(S)
        /\ Len(SubSeq(s, 1, i - 1)) = IF 1 <= i - 1 THEN i - 1 - 1 + 1 ELSE 0
        /\ \A k \in 1..i - 1 - 1 + 1 : SubSeq(s, 1, i - 1)[k] = s[1 + k - 1]
    BY <1>0, <2>1, SubSeqProperties
  <2> HIDE DEF l
  <2>3. \A k \in 1..i - 1 : k \in 1..i - 1 - 1 + 1 /\ 1 + k - 1 = k
    BY <1>0
  <2>4. Len(l) = i - 1
    BY <1>0, <2>2 DEF l
  <2> QED
    BY <2>2, <2>3, <2>4 DEF l
<1>2. /\ r \in Seq(S) /\ Len(r) = n - i + 1 /\ \A k \in 1..n - i + 1 : r[k] = s[i + k - 1]
  <2>1. \A k \in i..n : s[k] \in S
    BY <1>0
  <2>2. /\ SubSeq(s, i, n) \in Seq(S)
        /\ Len(SubSeq(s, i, n)) = IF i <= n THEN n - i + 1 ELSE 0
        /\ \A k \in 1..n - i + 1 : SubSeq(s, i, n)[k] = s[i + k - 1]
    BY <1>0, <2>1, SubSeqProperties
  <2> QED
    BY <1>0, <2>2
<1>3. m \in Seq(S) /\ Len(m) = 1 /\ m[1] = e
  OBVIOUS
<1>4. InsertAt(s, i, e) = t
  BY DEF InsertAt
<1> HIDE DEF l, r, m, n
<1>5. /\ u \in Seq(S) /\ Len(u) = i
      /\ \A k \in 1..i : u[k] = IF k <= i - 1 THEN l[k] ELSE m[k - (i - 1)]
  <2>1. Len(l) + Len(m) = i
    BY <1>0, <1>1, <1>3
  <2>2. /\ l \o m \in Seq(S) /\ Len(l \o m) = Len(l) + Len(m)
        /\ \A k \in 1..Len(l) + Len(m) :
             (l \o m)[k] = IF k <= Len(l) THEN l[k] ELSE m[k - Len(l)]
    BY <1>1, <1>3, ConcatProperties
  <2>3. Len(l) = i - 1
    BY <1>1
  <2> HIDE DEF u
  <2>4. u = l \o m
    BY DEF u
  <2> QED
    BY <2>1, <2>2, <2>3, <2>4
<1> HIDE DEF u
<1>6. /\ t \in Seq(S) /\ Len(t) = n + 1
      /\ \A k \in 1..n + 1 : t[k] = IF k <= i THEN u[k] ELSE r[k - i]
  <2>1. Len(u) + Len(r) = n + 1
    BY <1>0, <1>2, <1>5
  <2>2. /\ u \o r \in Seq(S) /\ Len(u \o r) = Len(u) + Len(r)
        /\ \A k \in 1..Len(u) + Len(r) :
             (u \o r)[k] = IF k <= Len(u) THEN u[k] ELSE r[k - Len(u)]
    BY <1>2, <1>5, ConcatProperties
  <2>3. Len(u) = i
    BY <1>5
  <2> HIDE DEF t
  <2>4. t = u \o r
    BY DEF t
  <2> QED
    BY <2>1, <2>2, <2>3, <2>4
<1> HIDE DEF t
<1>7. ASSUME NEW k \in 1..n + 1
      PROVE  t[k] = IF k < i THEN s[k] ELSE IF k = i THEN e ELSE s[k - 1]
  <2>1. CASE k < i
    BY <1>0, <1>1, <1>5, <1>6, <2>1
  <2>2. CASE k = i
    <3>1. ~(k <= i - 1) /\ k - (i - 1) = 1
      BY <1>0, <2>2
    <3> QED
      BY <1>0, <1>3, <1>5, <1>6, <2>2, <3>1
  <2>3. CASE k > i
    <3>1. ~(k <= i) /\ k - i \in 1..n - i + 1 /\ i + (k - i) - 1 = k - 1 /\ ~(k < i) /\ k # i
      BY <1>0, <2>3
    <3> QED
      BY <1>2, <1>6, <3>1
  <2> QED
    BY <1>0, <2>1, <2>2, <2>3
<1> QED
  BY <1>4, <1>6, <1>7 DEF Inserted, n

\* Groups in ascending order.
Ascending(g, n) ==
  /\ n \in Nat /\ g \in Seq(0..Top - 1) /\ Len(g) = n
  /\ \A i, j \in 1..n : i < j => g[i] < g[j]

(* Groups in ascending order are no more than there are.                   *)
LEMMA AscendingFits ==
  ASSUME NEW g, NEW n, Ascending(g, n)
  PROVE  n <= Top /\ DOMAIN g = 1..n /\ \A k \in 1..n : g[k] \in 0..Top - 1
<1>1. Top \in Nat /\ Top >= 1
  BY TopIs
<1> DEFINE T == 0..Top - 1
<1>2. n \in Nat /\ g \in [1..n -> T]
  <2>1. n \in Nat /\ g \in Seq(T) /\ Len(g) = n
    BY DEF Ascending
  <2> HIDE DEF T
  <2> QED
    BY <2>1, LenProperties
<1>3. \A i, j \in 1..n : g[i] = g[j] => i = j
  <2> SUFFICES ASSUME NEW i \in 1..n, NEW j \in 1..n, g[i] = g[j], i # j PROVE FALSE
    OBVIOUS
  <2>1. g[i] \in Int /\ g[j] \in Int
    BY <1>1, <1>2
  <2>2. i < j \/ j < i
    BY <1>2
  <2> QED
    BY <2>1, <2>2 DEF Ascending
<1>4. g \in Injection(1..n, T)
  BY <1>2, <1>3 DEF Injection, IsInjective
<1>5. IsFiniteSet(T) /\ Cardinality(T) = Top
  BY <1>1, FS_Interval
<1>6. Cardinality(1..n) = n
  BY <1>2, FS_Interval
<1> HIDE DEF T
<1>7. Cardinality(1..n) <= Cardinality(T)
  BY <1>4, <1>5, FS_Injection
<1> QED
  BY <1>2, <1>5, <1>6, <1>7 DEF T

\* The place of a group is l.
PlaceOf(g, n, v, l) == l \in 1..n + 1 /\ \A k \in 1..n : g[k] < v <=> k < l

(* The groups that are less than one are the first ones.                   *)
LEMMA PlaceExists ==
  ASSUME NEW g, NEW n, Ascending(g, n), NEW v \in Int
  PROVE  LET l == 1 + Cardinality({k \in DOMAIN g : g[k] < v}) IN PlaceOf(g, n, v, l)
<1> DEFINE C == {k \in DOMAIN g : g[k] < v}
           T == {k \in 1..n : ~(g[k] < v)}
<1>1. n \in Nat /\ DOMAIN g = 1..n /\ \A k \in 1..n : g[k] \in Int
  BY AscendingFits, TopIs DEF Ascending
<1>2. CASE T = {}
  <2>1. C = 1..n /\ \A k \in 1..n : g[k] < v
    BY <1>1, <1>2
  <2>2. Cardinality(1..n) = n
    BY <1>1, FS_Interval
  <2>3. 1 + n \in 1..n + 1 /\ \A k \in 1..n : k < 1 + n
    BY <1>1
  <2> QED
    BY <2>1, <2>2, <2>3 DEF PlaceOf
<1>3. CASE T # {}
  <2>1. PICK m \in T : \A k \in T : m <= k
    <3>1. T \in SUBSET Nat
      OBVIOUS
    <3> HIDE DEF T
    <3> QED
      BY <1>3, <3>1, LeastNumber
  <2>2. ASSUME NEW k \in 1..n PROVE g[k] < v <=> k < m
    <3>1. k < m => g[k] < v
      BY <2>1
    <3>2. k = m => ~(g[k] < v)
      BY <2>1
    <3>3. ASSUME m < k PROVE ~(g[k] < v)
      <4>1. m \in 1..n /\ ~(g[m] < v)
        BY <2>1
      <4>2. g[m] < g[k]
        BY <3>3, <4>1 DEF Ascending
      <4> QED
        BY <1>1, <4>1, <4>2
    <3> QED
      BY <1>1, <3>1, <3>2, <3>3
  <2>3. C = 1..m - 1
    <3>1. m \in 1..n
      BY <2>1
    <3>2. \A k : k \in 1..m - 1 <=> k \in 1..n /\ k < m
      BY <1>1, <3>1
    <3> QED
      BY <1>1, <2>2, <3>2
  <2>4. Cardinality(1..m - 1) = m - 1
    BY <1>1, <2>1, FS_Interval
  <2>5. 1 + (m - 1) = m /\ m \in 1..n + 1
    BY <1>1, <2>1
  <2> HIDE DEF C
  <2> QED
    BY <2>2, <2>3, <2>4, <2>5 DEF PlaceOf, C
<1> QED
  BY <1>2, <1>3

\* Every group has an index of its own.
Indexed(p, n) ==
  /\ p \in Seq(1..n) /\ Len(p) = n
  /\ \A i, j \in 1..n : p[i] = p[j] => i = j
  /\ \A x \in 1..n : \E i \in 1..n : p[i] = x

\* The moments have the room of a power of two, those of every group are where its index
\* says, and the others are none.
Furnished(m, g, p, n, N) ==
  /\ m = [k \in 1..nextPowerOfTwo(n) |-> m[k]]
  /\ \A k \in 1..n : m[p[k]] = N[g[k]]
  /\ \A k \in 1..nextPowerOfTwo(n) : n < k => m[k] = NoRows

\* Other groups have no rows.
NoOthers(g, n, N) == \A v \in 0..Top - 1 : (\A k \in 1..n : g[k] # v) => N[v] = NoRows

\* A state of the analysis of variance, by its fields.
OState(g, p, m) == [groupValues |-> g, posToIndices |-> p, moments |-> m]
OParts(g, p, m, n, N) ==
  Ascending(g, n) /\ Indexed(p, n) /\ Furnished(m, g, p, n, N) /\ NoOthers(g, n, N)

\* A state whose groups have these numbers.
OKeeps(s, N) ==
  /\ s = OState(s.groupValues, s.posToIndices, s.moments)
  /\ OParts(s.groupValues, s.posToIndices, s.moments, Len(s.groupValues), N)

\* Index and position agree.
InPlace(p, n) == \A k \in 1..n : p[k] = k

(* The fields of a state of the analysis of variance.                      *)
LEMMA OFields ==
  ASSUME NEW g, NEW p, NEW m, NEW s, s = OState(g, p, m)
  PROVE  s.groupValues = g /\ s.posToIndices = p /\ s.moments = m
BY DEF OState

(* An index is one of a group.                                             *)
LEMMA IndexesAre ==
  ASSUME NEW p, NEW n, Indexed(p, n)
  PROVE  DOMAIN p = 1..n /\ \A k \in 1..n : p[k] \in 1..n
<1> DEFINE S == 1..n
<1>1. p \in Seq(S) /\ Len(p) = n
  BY DEF Indexed
<1> HIDE DEF S
<1>2. p \in [1..n -> S]
  BY <1>1, LenProperties
<1> QED
  BY <1>2 DEF S

(* A new group at its place leaves the groups in ascending order.          *)
LEMMA AscendingInserted ==
  ASSUME NEW g, NEW n, Ascending(g, n), NEW v \in 0..Top - 1, \A k \in 1..n : g[k] # v,
         NEW l, PlaceOf(g, n, v, l), NEW t, t \in Seq(0..Top - 1), Len(t) = n + 1, Inserted(t, g, l, v)
  PROVE  Ascending(t, n + 1) /\ t[l] = v /\ l \in 1..n + 1
<1>1. n \in Nat /\ Len(g) = n /\ l \in 1..n + 1 /\ v \in Int
  BY TopIs DEF Ascending, PlaceOf
<1>2. \A k \in 1..n : g[k] \in Int /\ (k < l => g[k] < v) /\ (~(k < l) => v < g[k])
  <2> SUFFICES ASSUME NEW k \in 1..n
               PROVE  g[k] \in Int /\ (k < l => g[k] < v) /\ (~(k < l) => v < g[k])
    OBVIOUS
  <2>1. g[k] \in Int /\ g[k] # v /\ (g[k] < v <=> k < l)
    BY AscendingFits, TopIs DEF PlaceOf
  <2> QED
    BY <1>1, <2>1
<1>3. \A k \in 1..n + 1 : t[k] = IF k < l THEN g[k] ELSE IF k = l THEN v ELSE g[k - 1]
  BY <1>1 DEF Inserted
<1>4. \A i, j \in 1..n : i < j => g[i] < g[j]
  BY DEF Ascending
<1>5. ASSUME NEW i \in 1..n + 1, NEW j \in 1..n + 1, i < j PROVE t[i] < t[j]
  <2>1. CASE i < l /\ j < l
    <3>1. i \in 1..n /\ j \in 1..n
      BY <1>1, <2>1
    <3> QED
      BY <1>3, <1>4, <1>5, <2>1, <3>1
  <2>2. CASE i < l /\ j = l
    <3>1. i \in 1..n
      BY <1>1, <2>2
    <3> QED
      BY <1>2, <1>3, <2>2, <3>1
  <2>3. CASE i < l /\ l < j
    <3>1. i \in 1..n /\ j - 1 \in 1..n /\ ~(j - 1 < l) /\ ~(j < l) /\ j # l
      BY <1>1, <2>3
    <3>2. g[i] < v /\ v < g[j - 1] /\ g[i] \in Int /\ g[j - 1] \in Int
      BY <1>2, <2>3, <3>1
    <3>3. t[i] = g[i] /\ t[j] = g[j - 1]
      BY <1>3, <2>3, <3>1
    <3> QED
      BY <1>1, <3>2, <3>3
  <2>4. CASE i = l
    <3>1. j - 1 \in 1..n /\ ~(j - 1 < l) /\ ~(j < l) /\ j # l
      BY <1>1, <1>5, <2>4
    <3> QED
      BY <1>2, <1>3, <2>4, <3>1
  <2>5. CASE l < i
    <3>1. /\ i - 1 \in 1..n /\ j - 1 \in 1..n /\ i - 1 < j - 1
          /\ ~(i < l) /\ i # l /\ ~(j < l) /\ j # l
      BY <1>1, <1>5, <2>5
    <3>2. g[i - 1] < g[j - 1]
      BY <1>4, <3>1
    <3> QED
      BY <1>3, <3>1, <3>2
  <2> QED
    BY <1>1, <1>5, <2>1, <2>2, <2>3, <2>4, <2>5
<1>6. t[l] = v
  BY <1>1, <1>3
<1>7. n + 1 \in Nat
  BY <1>1
<1> QED
  BY <1>1, <1>5, <1>6, <1>7 DEF Ascending

(* The next index, inserted at the place of a new group, leaves one of its *)
(* own to each; at the end, it agrees with its place.                      *)
LEMMA IndexedInserted ==
  ASSUME NEW p, NEW n \in Nat, Indexed(p, n), NEW l \in 1..n + 1,
         NEW q, q \in Seq(1..n + 1), Len(q) = n + 1, Inserted(q, p, l, n + 1)
  PROVE  /\ Indexed(q, n + 1)
         /\ l = n + 1 /\ InPlace(p, n) => InPlace(q, n + 1)
<1>1. \A k \in 1..n : p[k] \in 1..n
  BY IndexesAre
<1>2. \A k \in 1..n + 1 : q[k] = IF k < l THEN p[k] ELSE IF k = l THEN n + 1 ELSE p[k - 1]
  BY DEF Indexed, Inserted
<1>3. ASSUME NEW i \in 1..n + 1, NEW j \in 1..n + 1, q[i] = q[j] PROVE i = j
  <2> DEFINE From(k) == IF k < l THEN k ELSE k - 1
  <2>1. \A k \in 1..n + 1 : k # l => From(k) \in 1..n /\ q[k] = p[From(k)] /\ q[k] # n + 1
    <3> SUFFICES ASSUME NEW k \in 1..n + 1, k # l
                 PROVE  From(k) \in 1..n /\ q[k] = p[From(k)] /\ q[k] # n + 1
      OBVIOUS
    <3>1. From(k) \in 1..n
      OBVIOUS
    <3>2. q[k] = p[From(k)]
      BY <1>2
    <3>3. p[From(k)] \in 1..n
      BY <1>1, <3>1
    <3> QED
      BY <3>1, <3>2, <3>3
  <2>2. q[l] = n + 1
    BY <1>2
  <2>3. CASE i = l \/ j = l
    BY <1>3, <2>1, <2>2, <2>3
  <2>4. CASE i # l /\ j # l
    <3>1. From(i) = From(j)
      <4>1. /\ From(i) \in 1..n /\ From(j) \in 1..n /\ p[From(i)] = p[From(j)]
        BY <1>3, <2>1, <2>4
      <4> HIDE DEF From
      <4> QED
        BY <4>1 DEF Indexed
    <3> QED
      BY <2>4, <3>1
  <2> QED
    BY <2>3, <2>4
<1>4. ASSUME NEW x \in 1..n + 1 PROVE \E i \in 1..n + 1 : q[i] = x
  <2>1. CASE x = n + 1
    BY <1>2, <2>1
  <2>2. CASE x # n + 1
    <3>1. x \in 1..n
      BY <2>2
    <3>2. PICK i \in 1..n : p[i] = x
      BY <3>1 DEF Indexed
    <3>3. CASE i < l
      <4>1. i \in 1..n + 1
        OBVIOUS
      <4>2. q[i] = IF i < l THEN p[i] ELSE IF i = l THEN n + 1 ELSE p[i - 1]
        BY <1>2, <4>1
      <4> QED
        BY <3>2, <3>3, <4>1, <4>2
    <3>4. CASE ~(i < l)
      <4>1. i + 1 \in 1..n + 1 /\ ~(i + 1 < l) /\ i + 1 # l /\ (i + 1) - 1 = i
        BY <3>4
      <4> DEFINE j == i + 1
      <4>2. j \in 1..n + 1 /\ ~(j < l) /\ j # l /\ j - 1 = i
        BY <4>1
      <4> HIDE DEF j
      <4>3. q[j] = IF j < l THEN p[j] ELSE IF j = l THEN n + 1 ELSE p[j - 1]
        BY <1>2, <4>2
      <4> QED
        BY <3>2, <4>2, <4>3
    <3> QED
      BY <3>3, <3>4
  <2> QED
    BY <2>1, <2>2
<1>5. ASSUME l = n + 1, InPlace(p, n), NEW k \in 1..n + 1 PROVE q[k] = k
  <2>1. CASE k = n + 1
    BY <1>2, <1>5, <2>1
  <2>2. CASE k # n + 1
    <3>1. k \in 1..n /\ k < l
      BY <1>5, <2>2
    <3> QED
      BY <1>2, <1>5, <3>1 DEF InPlace
  <2> QED
    BY <2>1, <2>2
<1> QED
  BY <1>3, <1>4, <1>5 DEF Indexed, InPlace

\* The moments with room for one group more.
Roomy(m, n) == [k \in 1..Room(n) |-> IF k \in DOMAIN m THEN m[k] ELSE NoRows]

(* With room for one group more, the moments stay where the indexes say.   *)
LEMMA FurnishedInserted ==
  ASSUME NEW m, NEW g, NEW p, NEW n \in Nat, n + 1 <= Top, NEW N, Len(g) = n,
         Furnished(m, g, p, n, N), Indexed(p, n),
         NEW v, N[v] = NoRows, NEW l \in 1..n + 1,
         NEW t, Inserted(t, g, l, v), NEW q, Inserted(q, p, l, n + 1)
  PROVE  Furnished(Roomy(m, n), t, q, n + 1, N)
<1> DEFINE r == nextPowerOfTwo(n)
           z == nextPowerOfTwo(n + 1)
           w == Roomy(m, n)
<1>1. Room(n) = z /\ z \in Nat /\ r \in Nat /\ r <= z /\ n + 1 <= z /\ n <= r
  BY RoomIs
<1> HIDE DEF r, z
<1>2. DOMAIN m = 1..r
  BY DEF Furnished, r
<1>3. w = [k \in 1..z |-> IF k \in 1..r THEN m[k] ELSE NoRows]
  BY <1>1, <1>2 DEF Roomy
<1> HIDE DEF w
<1>4. w = [k \in 1..z |-> w[k]]
  BY <1>3
<1>5. \A k \in 1..n : p[k] \in 1..n /\ m[p[k]] = N[g[k]]
  BY IndexesAre DEF Furnished
<1>6. \A k \in 1..r : n < k => m[k] = NoRows
  BY DEF Furnished, r
<1>7. /\ \A k \in 1..n + 1 : t[k] = IF k < l THEN g[k] ELSE IF k = l THEN v ELSE g[k - 1]
      /\ \A k \in 1..n + 1 : q[k] = IF k < l THEN p[k] ELSE IF k = l THEN n + 1 ELSE p[k - 1]
  BY DEF Inserted, Indexed
<1>8. ASSUME NEW k \in 1..n PROVE w[p[k]] = N[g[k]]
  <2>1. p[k] \in 1..z /\ p[k] \in 1..r
    BY <1>1, <1>5
  <2> QED
    BY <1>3, <1>5, <2>1
<1>9. ASSUME NEW k \in 1..z, n < k PROVE w[k] = NoRows
  BY <1>3, <1>6, <1>9
<1>10. ASSUME NEW k \in 1..n + 1 PROVE w[q[k]] = N[t[k]]
  <2>1. CASE k < l
    <3>1. k \in 1..n /\ q[k] = p[k] /\ t[k] = g[k]
      BY <1>7, <2>1
    <3> QED
      BY <1>8, <3>1
  <2>2. CASE k = l
    <3>1. q[k] = n + 1 /\ t[k] = v
      BY <1>7, <2>2
    <3>2. n + 1 \in 1..z /\ n < n + 1
      BY <1>1
    <3> QED
      BY <1>9, <3>1, <3>2
  <2>3. CASE l < k
    <3>1. k - 1 \in 1..n /\ ~(k < l) /\ k # l
      BY <2>3
    <3>2. q[k] = p[k - 1] /\ t[k] = g[k - 1]
      BY <1>7, <3>1
    <3> QED
      BY <1>8, <3>1, <3>2
  <2> QED
    BY <2>1, <2>2, <2>3
<1>11. \A k \in 1..z : n + 1 < k => w[k] = NoRows
  BY <1>1, <1>9
<1> QED
  BY <1>4, <1>10, <1>11 DEF Furnished, w, z

\* M has the numbers N, but for c of the group v.
Renumbered(M, N, v, c) == \A x \in 0..Top - 1 : M[x] = IF x = v THEN c ELSE N[x]

(* The moments at the index of a group are those of no other.              *)
LEMMA FurnishedUpdated ==
  ASSUME NEW m, NEW g, NEW p, NEW n, n <= Top, NEW N, Ascending(g, n), Indexed(p, n),
         Furnished(m, g, p, n, N), NEW l \in 1..n, NEW c, NEW M, Renumbered(M, N, g[l], c)
  PROVE  Furnished([m EXCEPT ![p[l]] = c], g, p, n, M)
<1> DEFINE r == nextPowerOfTwo(n)
           w == [m EXCEPT ![p[l]] = c]
<1>1. /\ n \in Nat /\ \A k \in 1..n : g[k] \in 0..Top - 1
      /\ \A i, j \in 1..n : i < j => g[i] < g[j]
  BY AscendingFits DEF Ascending
<1>2. r \in Nat /\ n <= r
  <2>1. CASE n = 0
    BY <2>1 DEF nextPowerOfTwo
  <2>2. CASE n # 0
    <3>1. n - 1 \in Nat /\ (n - 1) + 1 <= Top /\ (n - 1) + 1 = n
      BY <1>1, <2>2, TopIs
    <3>2. Room(n - 1) = nextPowerOfTwo(n) /\ Room(n - 1) \in Nat /\ n <= Room(n - 1)
      BY <3>1, RoomIs
    <3> QED
      BY <3>2
  <2> QED
    BY <2>1, <2>2
<1> HIDE DEF r
<1>3. m = [k \in 1..r |-> m[k]]
  BY DEF Furnished, r
<1>4. \A k \in 1..n : p[k] \in 1..n /\ p[k] \in 1..r
  <2>1. \A k \in 1..n : p[k] \in 1..n
    BY IndexesAre
  <2> QED
    BY <1>1, <1>2, <2>1
<1>5. w = [k \in 1..r |-> IF k = p[l] THEN c ELSE m[k]]
  <2>1. DOMAIN m = 1..r /\ p[l] \in 1..r
    BY <1>3, <1>4
  <2> QED
    BY <1>3, <2>1
<1> HIDE DEF w
<1>6. ASSUME NEW k \in 1..n PROVE w[p[k]] = M[g[k]]
  <2>1. CASE k = l
    BY <1>1, <1>4, <1>5, <2>1 DEF Renumbered
  <2>2. CASE k # l
    <3>1. p[k] # p[l]
      BY <2>2 DEF Indexed
    <3>2. g[k] # g[l]
      <4>1. k < l \/ l < k
        BY <1>1, <2>2
      <4>2. g[k] \in Int /\ g[l] \in Int
        BY <1>1, TopIs
      <4> QED
        BY <1>1, <4>1, <4>2
    <3>3. m[p[k]] = N[g[k]]
      BY DEF Furnished
    <3>4. M[g[k]] = N[g[k]]
      BY <1>1, <3>2 DEF Renumbered
    <3> QED
      BY <1>4, <1>5, <3>1, <3>3, <3>4
  <2> QED
    BY <2>1, <2>2
<1>7. ASSUME NEW k \in 1..r, n < k PROVE w[k] = NoRows
  <2>1. p[l] \in 1..n /\ k # p[l]
    BY <1>1, <1>4, <1>7
  <2> QED
    BY <1>5, <1>7, <2>1 DEF Furnished, r
<1>8. w = [k \in 1..r |-> w[k]]
  BY <1>5
<1> QED
  BY <1>6, <1>7, <1>8 DEF Furnished, w, r

(* lower_bound finds the place of a group.                                 *)
LEMMA LowerBoundIs ==
  ASSUME NEW s, NEW n, Ascending(s.groupValues, n), NEW v \in Int
  PROVE  PlaceOf(s.groupValues, n, v, lower_bound(s, v))
BY PlaceExists DEF lower_bound

(* It finds the group, where the state holds it.                           *)
LEMMA HeldAtBound ==
  ASSUME NEW g, NEW n, Ascending(g, n), NEW v \in 0..Top - 1, NEW k \in 1..n, g[k] = v,
         NEW l, PlaceOf(g, n, v, l)
  PROVE  l = k
<1>1. /\ n \in Nat /\ \A i \in 1..n : g[i] \in Int
      /\ \A i, j \in 1..n : i < j => g[i] < g[j]
  BY AscendingFits, TopIs DEF Ascending
<1>2. l \in 1..n + 1 /\ \A i \in 1..n : g[i] < v <=> i < l
  BY DEF PlaceOf
<1>3. ~(k < l)
  BY <1>1, <1>2
<1>4. ASSUME l < k PROVE FALSE
  <2>1. l \in 1..n
    BY <1>1, <1>2, <1>4
  <2>2. g[l] < g[k]
    BY <1>1, <1>4, <2>1
  <2> QED
    BY <1>2, <2>1, <2>2
<1> QED
  BY <1>1, <1>2, <1>3, <1>4

(* The parts of a state that has the numbers N.                            *)
LEMMA KeptParts ==
  ASSUME NEW s, NEW N, OKeeps(s, N), NEW n, n = Len(s.groupValues)
  PROVE  /\ s = OState(s.groupValues, s.posToIndices, s.moments)
         /\ OParts(s.groupValues, s.posToIndices, s.moments, n, N)
         /\ n \in Nat /\ n <= Top /\ DOMAIN s.groupValues = 1..n
         /\ \A v : Holds(s, v) <=> \E k \in 1..n : s.groupValues[k] = v
<1>1. /\ s = OState(s.groupValues, s.posToIndices, s.moments)
      /\ OParts(s.groupValues, s.posToIndices, s.moments, n, N)
  BY DEF OKeeps
<1>2. Ascending(s.groupValues, n)
  BY <1>1 DEF OParts
<1>3. n \in Nat /\ n <= Top /\ DOMAIN s.groupValues = 1..n
  BY <1>2, AscendingFits DEF Ascending
<1> QED
  BY <1>1, <1>3 DEF Holds

(* Such parts make such a state.                                           *)
LEMMA PartsKept ==
  ASSUME NEW g, NEW p, NEW m, NEW n, NEW N, OParts(g, p, m, n, N), NEW s, s = OState(g, p, m)
  PROVE  OKeeps(s, N) /\ Len(s.groupValues) = n
<1>1. s.groupValues = g /\ s.posToIndices = p /\ s.moments = m
  BY OFields
<1>2. Len(g) = n
  BY DEF OParts, Ascending
<1> QED
  BY <1>1, <1>2 DEF OKeeps

\* The places of the groups of s are their indexes.
Straight(s) == InPlace(s.posToIndices, Len(s.groupValues))
\* The groups of s are less than v.
Under(s, v) == \A k \in 1..Len(s.groupValues) : s.groupValues[k] < v

(* The insertion of a group keeps the numbers of all and adds this one,    *)
(* without rows; the places stay the indexes where it is above the others. *)
LEMMA WithGroupIs ==
  ASSUME NEW s, NEW N, OKeeps(s, N), NEW v \in 0..Top - 1, ~Holds(s, v)
  PROVE  /\ OKeeps(WithGroup(s, v), N)
         /\ \A x : Holds(WithGroup(s, v), x) <=> Holds(s, x) \/ x = v
         /\ Straight(s) /\ Under(s, v) => Straight(WithGroup(s, v))
<1> DEFINE g == s.groupValues
           p == s.posToIndices
           m == s.moments
           n == Len(g)
           l == lower_bound(s, v)
           t == InsertAt(g, l, v)
           q == InsertAt(p, l, n + 1)
           w == Roomy(m, n)
           z == WithGroup(s, v)
<1>1. /\ OParts(g, p, m, n, N)
      /\ n \in Nat /\ n <= Top /\ \A x : Holds(s, x) <=> \E k \in 1..n : g[k] = x
  BY KeptParts
<1>2. Ascending(g, n) /\ Indexed(p, n) /\ Furnished(m, g, p, n, N) /\ NoOthers(g, n, N)
  BY <1>1 DEF OParts
<1>3. PlaceOf(g, n, v, l)
  <2>1. Ascending(s.groupValues, n) /\ v \in Int
    BY <1>2, TopIs
  <2> HIDE DEF n
  <2> QED
    BY <2>1, LowerBoundIs
<1>4. z = OState(t, q, w)
  BY Zenon DEF WithGroup, OState, Roomy
<1>5. \A k \in 1..n : g[k] # v
  BY <1>1
<1> HIDE DEF g, p, m, n, l, t, q, w, z
<1>6. g \in Seq(0..Top - 1) /\ Len(g) = n /\ l \in 1..n + 1
  BY <1>2, <1>3 DEF Ascending, PlaceOf
<1>7. t \in Seq(0..Top - 1) /\ Len(t) = n + 1 /\ Inserted(t, g, l, v)
  <2> DEFINE S == 0..Top - 1
  <2>1. g \in Seq(S) /\ v \in S /\ l \in 1..Len(g) + 1
    BY <1>6
  <2> HIDE DEF S
  <2>2. /\ InsertAt(g, l, v) \in Seq(S) /\ Len(InsertAt(g, l, v)) = Len(g) + 1
        /\ Inserted(InsertAt(g, l, v), g, l, v)
    BY <2>1, InsertIs
  <2> QED
    BY <1>6, <2>2 DEF S, t
<1>8. q \in Seq(1..n + 1) /\ Len(q) = n + 1 /\ Inserted(q, p, l, n + 1)
  <2> DEFINE S == 1..n + 1
             e == n + 1
  <2>1. p \in Seq(1..n) /\ Len(p) = n /\ 1..n \subseteq S /\ e \in S
    BY <1>1, <1>2 DEF Indexed
  <2> HIDE DEF S, e
  <2>2. p \in Seq(S) /\ l \in 1..Len(p) + 1
    BY <1>6, <2>1, SeqMonotonic
  <2>3. /\ InsertAt(p, l, e) \in Seq(S) /\ Len(InsertAt(p, l, e)) = Len(p) + 1
        /\ Inserted(InsertAt(p, l, e), p, l, e)
    BY <2>1, <2>2, InsertIs
  <2> QED
    BY <2>1, <2>3 DEF S, e, q
<1>9. Ascending(t, n + 1) /\ t[l] = v
  BY <1>2, <1>3, <1>5, <1>7, AscendingInserted
<1>10. n + 1 <= Top
  BY <1>9, AscendingFits
<1>11. Indexed(q, n + 1) /\ (l = n + 1 /\ InPlace(p, n) => InPlace(q, n + 1))
  BY <1>1, <1>2, <1>6, <1>8, IndexedInserted
<1>12. Furnished(w, t, q, n + 1, N)
  <2>1. N[v] = NoRows
    BY <1>2, <1>5 DEF NoOthers
  <2> QED
    BY <1>1, <1>2, <1>6, <1>7, <1>8, <1>10, <2>1, FurnishedInserted DEF w
<1>13. \A x : (\E k \in 1..n + 1 : t[k] = x) <=> (\E k \in 1..n : g[k] = x) \/ x = v
  <2>1. \A k \in 1..n + 1 : t[k] = IF k < l THEN g[k] ELSE IF k = l THEN v ELSE g[k - 1]
    BY <1>6, <1>7 DEF Inserted
  <2>2. ASSUME NEW k \in 1..n + 1, t[k] # v PROVE \E j \in 1..n : g[j] = t[k]
    <3>1. CASE k < l
      <4>1. k \in 1..n /\ t[k] = g[k]
        BY <1>1, <1>6, <2>1, <3>1
      <4> QED
        BY <4>1
    <3>2. CASE ~(k < l)
      <4>1. k # l
        BY <1>9, <2>2
      <4>2. k - 1 \in 1..n /\ t[k] = g[k - 1]
        BY <1>1, <1>6, <2>1, <3>2, <4>1
      <4> QED
        BY <4>2
    <3> QED
      BY <3>1, <3>2
  <2>3. ASSUME NEW j \in 1..n PROVE \E k \in 1..n + 1 : t[k] = g[j]
    <3>1. CASE j < l
      <4>1. j \in 1..n + 1
        BY <1>1
      <4> QED
        BY <2>1, <3>1, <4>1
    <3>2. CASE ~(j < l)
      <4> DEFINE k == j + 1
      <4>1. k \in 1..n + 1 /\ ~(k < l) /\ k # l /\ k - 1 = j
        BY <1>1, <1>6, <3>2
      <4> HIDE DEF k
      <4>2. t[k] = g[j]
        BY <2>1, <4>1
      <4> QED
        BY <4>1, <4>2
    <3> QED
      BY <3>1, <3>2
  <2>4. \E k \in 1..n + 1 : t[k] = v
    BY <1>6, <1>9
  <2> QED
    BY <2>2, <2>3, <2>4
<1>14. NoOthers(t, n + 1, N)
  BY <1>2, <1>13 DEF NoOthers
<1>15. OKeeps(z, N) /\ Len(z.groupValues) = n + 1
  <2>1. OParts(t, q, w, n + 1, N)
    BY <1>9, <1>11, <1>12, <1>14 DEF OParts
  <2> QED
    BY <1>4, <2>1, PartsKept
<1>16. z.groupValues = t /\ z.posToIndices = q
  BY <1>4, OFields
<1>17. \A x : Holds(z, x) <=> Holds(s, x) \/ x = v
  <2>1. \A x : Holds(z, x) <=> \E k \in 1..n + 1 : t[k] = x
    BY <1>15, <1>16, KeptParts
  <2> QED
    BY <1>1, <1>13, <2>1
<1>18. ASSUME Straight(s), Under(s, v) PROVE Straight(z)
  <2>1. InPlace(p, n)
    BY <1>18 DEF Straight, p, n, g
  <2>2. l = n + 1
    <3>1. \A k \in 1..n : g[k] < v
      BY <1>18 DEF Under, g, n
    <3>2. l \in 1..n => ~(g[l] < v)
      BY <1>3 DEF PlaceOf
    <3>3. l \notin 1..n
      BY <3>1, <3>2
    <3> QED
      BY <1>1, <1>6, <3>3
  <2> QED
    BY <1>11, <1>15, <1>16, <2>1, <2>2 DEF Straight
<1> QED
  BY <1>15, <1>17, <1>18 DEF z

\* One group of s gets the numbers c.
WithMoments(s, l, c) == [s EXCEPT !.moments[s.posToIndices[l]] = c]

(* New numbers at the index of a group are those of this group alone.      *)
LEMMA WithMomentsIs ==
  ASSUME NEW s, NEW N, OKeeps(s, N), NEW v \in 0..Top - 1, Holds(s, v), NEW c,
         NEW M, Renumbered(M, N, v, c), NEW l, l = lower_bound(s, v)
  PROVE  /\ OKeeps(WithMoments(s, l, c), M) /\ s.moments[s.posToIndices[l]] = N[v]
         /\ \A x : Holds(WithMoments(s, l, c), x) <=> Holds(s, x)
         /\ Straight(s) => Straight(WithMoments(s, l, c))
<1> DEFINE g == s.groupValues
           p == s.posToIndices
           m == s.moments
           n == Len(g)
           w == [m EXCEPT ![p[l]] = c]
           z == WithMoments(s, l, c)
<1>1. /\ s = OState(g, p, m) /\ OParts(g, p, m, n, N)
      /\ n \in Nat /\ n <= Top /\ \A x : Holds(s, x) <=> \E k \in 1..n : g[k] = x
  BY KeptParts
<1>2. Ascending(g, n) /\ Indexed(p, n) /\ Furnished(m, g, p, n, N) /\ NoOthers(g, n, N)
  BY <1>1 DEF OParts
<1>3. l \in 1..n /\ g[l] = v
  <2>1. PICK k \in 1..n : g[k] = v
    BY <1>1
  <2>2. PlaceOf(g, n, v, l)
    <3>1. Ascending(s.groupValues, n) /\ v \in Int
      BY <1>2, TopIs
    <3> HIDE DEF n
    <3> QED
      BY <3>1, LowerBoundIs
  <2>3. l = k
    BY <1>2, <2>1, <2>2, HeldAtBound
  <2> QED
    BY <2>1, <2>3
<1>4. z = OState(g, p, w)
  <2>1. z = [s EXCEPT !.moments = w]
    BY DEF WithMoments
  <2> HIDE DEF w, z, g, p, m
  <2> QED
    BY <1>1, <2>1 DEF OState
<1> HIDE DEF g, p, m, n, w, z
<1>5. Furnished(w, g, p, n, M)
  BY <1>1, <1>2, <1>3, FurnishedUpdated DEF w
<1>6. NoOthers(g, n, M)
  <2>1. \A x \in 0..Top - 1 : (\A k \in 1..n : g[k] # x) => x # v
    BY <1>3
  <2> QED
    BY <1>2, <2>1 DEF NoOthers, Renumbered
<1>7. OKeeps(z, M) /\ Len(z.groupValues) = n
  <2>1. OParts(g, p, w, n, M)
    BY <1>2, <1>5, <1>6 DEF OParts
  <2> QED
    BY <1>4, <2>1, PartsKept
<1>8. z.groupValues = g /\ z.posToIndices = p
  BY <1>4, OFields
<1>9. \A x : Holds(z, x) <=> Holds(s, x)
  <2>1. \A x : Holds(z, x) <=> \E k \in 1..n : g[k] = x
    BY <1>7, <1>8, KeptParts
  <2> QED
    BY <1>1, <2>1
<1>10. m[p[l]] = N[v]
  BY <1>2, <1>3 DEF Furnished
<1>11. Straight(s) => Straight(z)
  BY <1>7, <1>8 DEF Straight, p, n, g
<1> QED
  BY <1>7, <1>9, <1>10, <1>11 DEF m, p, z

(* What idxOfGroup of a state that may change and the update after it do:  *)
(* the group gets its new numbers, and is inserted before that where it is *)
(* new.                                                                    *)
LEMMA UpdatedIs ==
  ASSUME NEW s, NEW N, OKeeps(s, N), NEW v \in 0..Top - 1, NEW right,
         NEW M, Renumbered(M, N, v, updateCorrectedSumOfSquares(N[v], right))
  PROVE  /\ OKeeps(Updated(s, v, right), M)
         /\ \A x : Holds(Updated(s, v, right), x) <=> Holds(s, x) \/ x = v
         /\ Straight(s) /\ (Holds(s, v) \/ Under(s, v)) => Straight(Updated(s, v, right))
<1> DEFINE t == IF Holds(s, v) THEN s ELSE WithGroup(s, v)
           l == lower_bound(t, v)
           c == updateCorrectedSumOfSquares(t.moments[t.posToIndices[l]], right)
<1>1. /\ OKeeps(t, N) /\ \A x : Holds(t, x) <=> Holds(s, x) \/ x = v
      /\ Straight(s) /\ (Holds(s, v) \/ Under(s, v)) => Straight(t)
  <2>1. CASE Holds(s, v)
    BY <2>1
  <2>2. CASE ~Holds(s, v)
    BY <2>2, WithGroupIs
  <2> QED
    BY <2>1, <2>2
<1>2. Updated(s, v, right) = WithMoments(t, l, c)
  <2>1. Updated(s, v, right) =
          [t EXCEPT !.moments[t.posToIndices[lower_bound(t, v)]] =
                      updateCorrectedSumOfSquares(@, right)]
    BY Zenon DEF Updated
  <2> HIDE DEF t
  <2> QED
    BY <2>1, Zenon DEF WithMoments
<1> HIDE DEF t, l, c
<1>3. Holds(t, v)
  BY <1>1
<1>4. t.moments[t.posToIndices[l]] = N[v]
  <2>1. PICK d, K : Renumbered(K, N, v, d)
    <3> DEFINE K == [x \in 0..Top - 1 |-> IF x = v THEN 0 ELSE N[x]]
    <3>1. Renumbered(K, N, v, 0)
      BY DEF Renumbered
    <3> QED
      BY <3>1
  <2> QED
    BY <1>1, <1>3, <2>1, WithMomentsIs DEF l
<1>5. Renumbered(M, N, v, c)
  BY <1>4 DEF c
<1>6. /\ OKeeps(WithMoments(t, l, c), M)
      /\ \A x : Holds(WithMoments(t, l, c), x) <=> Holds(t, x)
      /\ Straight(t) => Straight(WithMoments(t, l, c))
  BY <1>1, <1>3, <1>5, WithMomentsIs DEF l
<1> QED
  BY <1>1, <1>2, <1>6

\* What the group at i of the right state makes of the left one.
Joining(left, right, f, i) ==
  IF i = 0 THEN left
  ELSE Updated(f[i - 1], right.groupValues[i],
               right.moments[idxOfGroup(right, right.groupValues[i])])
Joinings(f, left, right, n) == f = [i \in 0..n |-> Joining(left, right, f, i)]

(* The merge is the last of the states that the groups of the right one    *)
(* make, one after the other.                                              *)
LEMMA JoiningChosen ==
  ASSUME NEW left, NEW right
  PROVE  one_way_anova_merge_states(left, right) =
           (CHOOSE f : Joinings(f, left, right, Len(right.groupValues)))[Len(right.groupValues)]
BY Zenon DEF one_way_anova_merge_states, Joinings, Joining

(* There are such states.                                                  *)
LEMMA JoiningExists ==
  ASSUME NEW left, NEW right, NEW n \in Nat
  PROVE  \E f : Joinings(f, left, right, n)
<1> DEFINE S == {k \in Nat : \E f : Joinings(f, left, right, k)}
<1>1. 0 \in S
  <2> DEFINE f == [i \in 0..0 |-> left]
  <2>1. \A i \in 0..0 : left = Joining(left, right, f, i)
    BY DEF Joining
  <2>2. Joinings(f, left, right, 0)
    BY <2>1, Zenon DEF Joinings
  <2> HIDE DEF f
  <2> QED
    BY <2>2
<1>2. ASSUME NEW k \in Nat, k \in S PROVE k + 1 \in S
  <2>1. PICK f : Joinings(f, left, right, k)
    BY <1>2
  <2> DEFINE e == Joining(left, right, f, k + 1)
             h == [i \in 0..k + 1 |-> IF i = k + 1 THEN e ELSE f[i]]
  <2>2. \A i \in 0..k : f[i] = Joining(left, right, f, i)
    BY <2>1 DEF Joinings
  <2>3. ASSUME NEW i \in 0..k + 1
        PROVE  (IF i = k + 1 THEN e ELSE f[i]) = Joining(left, right, h, i)
    <3>1. CASE i = 0
      <4>1. i \in 0..k /\ i # k + 1
        BY <3>1
      <4>2. f[i] = left /\ Joining(left, right, h, i) = left
        BY <2>2, <3>1, <4>1, Zenon DEF Joining
      <4> QED
        BY <4>1, <4>2
    <3>2. CASE i # 0
      <4>1. i - 1 \in 0..k + 1 /\ i - 1 # k + 1
        BY <3>2
      <4>2. h[i - 1] = f[i - 1]
        BY <4>1
      <4> HIDE DEF h, e
      <4>3. Joining(left, right, h, i) = Joining(left, right, f, i)
        BY <3>2, <4>2, Zenon DEF Joining
      <4>4. CASE i = k + 1
        BY <4>3, <4>4 DEF e
      <4>5. CASE i # k + 1
        <5>1. i \in 0..k
          BY <4>5
        <5> QED
          BY <2>2, <4>3, <4>5, <5>1
      <4> QED
        BY <4>4, <4>5
    <3> QED
      BY <3>1, <3>2
  <2>4. Joinings(h, left, right, k + 1)
    <3> HIDE DEF e
    <3> QED
      BY <2>3, Zenon DEF Joinings
  <2> HIDE DEF h
  <2> QED
    BY <2>4
<1> HIDE DEF S
<1>3. Nat \subseteq S
  BY <1>1, <1>2, NatInduct
<1> QED
  BY <1>3 DEF S

\* The numbers when the first k groups of the right state are joined.
ShareOf(right, x) == right.moments[idxOfGroup(right, x)]
Partly(N, right, k) ==
  [x \in 0..Top - 1 |->
     IF \E j \in 1..k : right.groupValues[j] = x
     THEN updateCorrectedSumOfSquares(N[x], ShareOf(right, x)) ELSE N[x]]

(* Without a group of the right state, the left one has its own numbers.   *)
LEMMA PartlyNone ==
  ASSUME NEW s, NEW N, OKeeps(s, N), NEW right
  PROVE  OKeeps(s, Partly(N, right, 0))
<1> DEFINE g == s.groupValues
           p == s.posToIndices
           m == s.moments
           n == Len(g)
           M == Partly(N, right, 0)
<1>1. s = OState(g, p, m) /\ OParts(g, p, m, n, N)
  BY KeptParts
<1>2. \A x \in 0..Top - 1 : M[x] = N[x]
  BY DEF Partly
<1> HIDE DEF g, p, m, n, M
<1>3. \A k \in 1..n : M[g[k]] = N[g[k]]
  BY <1>1, <1>2, AscendingFits DEF OParts
<1>4. OParts(g, p, m, n, M)
  BY <1>1, <1>2, <1>3 DEF OParts, Furnished, NoOthers
<1> QED
  BY <1>1, <1>4, PartsKept DEF M

(* The next group of the right state adds its share.                       *)
LEMMA PartlyMore ==
  ASSUME NEW right, NEW n, Ascending(right.groupValues, n), NEW k \in Nat, k + 1 <= n,
         NEW N, NEW v, v = right.groupValues[k + 1]
  PROVE  /\ v \in 0..Top - 1
         /\ Renumbered(Partly(N, right, k + 1), Partly(N, right, k), v,
                       updateCorrectedSumOfSquares(Partly(N, right, k)[v], ShareOf(right, v)))
<1> DEFINE g == right.groupValues
<1>1. /\ n \in Nat /\ \A j \in 1..n : g[j] \in 0..Top - 1 /\ g[j] \in Int
      /\ \A i, j \in 1..n : i < j => g[i] < g[j]
  BY AscendingFits, TopIs DEF Ascending
<1>2. k + 1 \in 1..n /\ v = g[k + 1] /\ v \in 0..Top - 1 /\ v \in Int
  BY <1>1
<1> HIDE DEF g
<1>3. \A j \in 1..k : g[j] # v
  <2> SUFFICES ASSUME NEW j \in 1..k PROVE g[j] # v
    OBVIOUS
  <2>1. j \in 1..n /\ j < k + 1
    BY <1>1
  <2>2. g[j] < g[k + 1] /\ g[j] \in Int
    BY <1>1, <1>2, <2>1
  <2> QED
    BY <1>2, <2>2
<1>4. \A x : (\E j \in 1..k + 1 : g[j] = x) <=> x = v \/ \E j \in 1..k : g[j] = x
  <2>1. \A j : j \in 1..k + 1 <=> j \in 1..k \/ j = k + 1
    OBVIOUS
  <2> QED
    BY <1>2, <2>1
<1> DEFINE M == Partly(N, right, k)
           K == Partly(N, right, k + 1)
           u == updateCorrectedSumOfSquares(N[v], ShareOf(right, v))
<1>5. /\ \A x \in 0..Top - 1 : M[x] = IF \E j \in 1..k : g[j] = x
           THEN updateCorrectedSumOfSquares(N[x], ShareOf(right, x)) ELSE N[x]
      /\ \A x \in 0..Top - 1 : K[x] = IF \E j \in 1..k + 1 : g[j] = x
           THEN updateCorrectedSumOfSquares(N[x], ShareOf(right, x)) ELSE N[x]
  BY Zenon DEF Partly, g
<1>6. M[v] = N[v]
  BY <1>2, <1>3, <1>5
<1> HIDE DEF M, K
<1>7. \A x \in 0..Top - 1 : K[x] = IF x = v THEN u ELSE M[x]
  BY <1>4, <1>5
<1> QED
  BY <1>2, <1>6, <1>7 DEF Renumbered, M, K

(* The merged state has the numbers of the left one, and those that the    *)
(* right one has at the positions of its groups; it holds the groups of    *)
(* both.                                                                   *)
LEMMA MergeIs ==
  ASSUME NEW left, NEW N, OKeeps(left, N), NEW right, NEW K, OKeeps(right, K), NEW s,
         s = one_way_anova_merge_states(left, right), NEW n, n = Len(right.groupValues)
  PROVE  /\ OKeeps(s, Partly(N, right, n))
         /\ \A x : Holds(s, x) <=> Holds(left, x) \/ Holds(right, x)
<1> DEFINE g == right.groupValues
           f == CHOOSE h : Joinings(h, left, right, n)
<1>1. /\ n \in Nat /\ Ascending(g, n) /\ \A x : Holds(right, x) <=> \E j \in 1..n : g[j] = x
  BY KeptParts DEF OParts
<1>2. Joinings(f, left, right, n)
  BY <1>1, JoiningExists
<1>3. s = f[n]
  BY JoiningChosen
<1> HIDE DEF f
<1>4. \A i \in 0..n : f[i] = Joining(left, right, f, i)
  BY <1>2 DEF Joinings
<1> DEFINE Good(k) ==
             /\ OKeeps(f[k], Partly(N, right, k))
             /\ \A x : Holds(f[k], x) <=> Holds(left, x) \/ \E j \in 1..k : g[j] = x
           S == {k \in Nat : k <= n => Good(k)}
<1>5. 0 \in S
  <2>1. f[0] = left
    BY <1>1, <1>4 DEF Joining
  <2> QED
    BY <2>1, PartlyNone
<1>6. ASSUME NEW k \in Nat, k \in S PROVE k + 1 \in S
  <2>1. SUFFICES ASSUME k + 1 <= n PROVE Good(k + 1)
    OBVIOUS
  <2>2. Good(k)
    BY <1>1, <1>6, <2>1
  <2> DEFINE v == g[k + 1]
             r == ShareOf(right, v)
             M == Partly(N, right, k)
             L == Partly(N, right, k + 1)
  <2>3. v \in 0..Top - 1 /\ Renumbered(L, M, v, updateCorrectedSumOfSquares(M[v], r))
    BY <1>1, <2>1, PartlyMore
  <2>4. f[k + 1] = Updated(f[k], v, r)
    <3>1. k + 1 \in 0..n /\ k + 1 # 0 /\ (k + 1) - 1 = k
      BY <1>1, <2>1
    <3>2. Joining(left, right, f, k + 1) = Updated(f[k], v, r)
      BY <3>1, Zenon DEF Joining, ShareOf
    <3> QED
      BY <1>4, <3>1, <3>2
  <2> HIDE DEF v, r, M, L, g
  <2>5. /\ OKeeps(f[k + 1], L) /\ \A x : Holds(f[k + 1], x) <=> Holds(f[k], x) \/ x = v
    <3> DEFINE y == f[k]
               z == Updated(y, v, r)
    <3>1. OKeeps(y, M)
      BY <2>2 DEF M
    <3> HIDE DEF y
    <3>2. OKeeps(z, L) /\ \A x : Holds(z, x) <=> Holds(y, x) \/ x = v
      BY <2>3, <3>1, UpdatedIs
    <3> QED
      BY <2>4, <3>2 DEF y
  <2>6. \A x : (\E j \in 1..k + 1 : g[j] = x) <=> x = v \/ \E j \in 1..k : g[j] = x
    <3>1. \A j : j \in 1..k + 1 <=> j \in 1..k \/ j = k + 1
      OBVIOUS
    <3> QED
      BY <3>1 DEF v
  <2> QED
    BY <2>2, <2>5, <2>6 DEF L
<1> HIDE DEF S
<1>7. Nat \subseteq S
  BY <1>5, <1>6, NatInduct
<1>8. Good(n)
  <2> HIDE DEF Good
  <2> QED
    BY <1>1, <1>7 DEF S
<1> QED
  BY <1>1, <1>3, <1>8

\* M has the numbers of both.
Both(M, N, K) == \A x \in 0..Top - 1 : M[x] = updateCorrectedSumOfSquares(N[x], K[x])

(* No rows add nothing.                                                    *)
LEMMA NoneAdded ==
  ASSUME NEW a
  PROVE  updateCorrectedSumOfSquares(a, NoRows) = a
<1>1. NoRows.n = 0
  BY DEF NoRows
<1> QED
  BY <1>1, Zenon DEF updateCorrectedSumOfSquares

(* Where the places of the right state are its indexes, these are its      *)
(* numbers.                                                                *)
LEMMA StraightMerge ==
  ASSUME NEW right, NEW K, OKeeps(right, K), Straight(right), NEW N,
         NEW n, n = Len(right.groupValues)
  PROVE  Both(Partly(N, right, n), N, K)
<1> DEFINE g == right.groupValues
           p == right.posToIndices
           m == right.moments
<1>1. /\ n \in Nat /\ OParts(g, p, m, n, K)
  BY KeptParts
<1>2. Ascending(g, n) /\ Furnished(m, g, p, n, K) /\ NoOthers(g, n, K)
  BY <1>1 DEF OParts
<1>3. ASSUME NEW j \in 1..n PROVE ShareOf(right, g[j]) = K[g[j]]
  <2>1. g[j] \in 0..Top - 1 /\ g[j] \in Int
    BY <1>2, AscendingFits, TopIs
  <2>2. PlaceOf(g, n, g[j], lower_bound(right, g[j]))
    BY <1>2, <2>1, LowerBoundIs
  <2> HIDE DEF g
  <2>3. lower_bound(right, g[j]) = j
    BY <1>2, <2>1, <2>2, HeldAtBound
  <2>4. p[j] = j
    BY DEF Straight, InPlace
  <2>5. m[p[j]] = K[g[j]]
    BY <1>2 DEF Furnished
  <2> QED
    BY <2>3, <2>4, <2>5 DEF ShareOf, idxOfGroup
<1>4. ASSUME NEW x \in 0..Top - 1
      PROVE  Partly(N, right, n)[x] = updateCorrectedSumOfSquares(N[x], K[x])
  <2>1. Partly(N, right, n)[x] = IF \E j \in 1..n : g[j] = x
           THEN updateCorrectedSumOfSquares(N[x], ShareOf(right, x)) ELSE N[x]
    BY Zenon DEF Partly
  <2>2. CASE \E j \in 1..n : g[j] = x
    <3>1. ShareOf(right, x) = K[x]
      BY <1>3, <2>2
    <3> QED
      BY <2>1, <2>2, <3>1
  <2>3. CASE ~\E j \in 1..n : g[j] = x
    <3>1. K[x] = NoRows
      BY <1>2, <2>3 DEF NoOthers
    <3> QED
      BY <2>1, <2>3, <3>1, NoneAdded
  <2> QED
    BY <2>2, <2>3
<1> QED
  BY <1>4 DEF Both

-----------------------------------------------------------------------------
(* Types: the fields of the states, and the well-formed ones of the        *)
(* analysis of variance.                                                   *)

(* The fields of the states of the tests of means and variances stay.      *)
LEMMA TTestFields ==
  ASSUME NEW s, NEW row, NEW r
  PROVE  /\ DOMAIN t_test_one_transition(s, row) = DOMAIN s
         /\ DOMAIN t_test_two_transition(s, row) = DOMAIN s
         /\ DOMAIN t_test_merge_states(s, r) = DOMAIN TTestState
<1>1. DOMAIN t_test_one_transition(s, row) = DOMAIN s
  BY DEF t_test_one_transition
<1>2. DOMAIN t_test_two_transition(s, row) = DOMAIN s
  <2>1. CASE row.first
    BY <1>1, <2>1 DEF t_test_two_transition
  <2>2. CASE ~row.first
    BY <2>2 DEF t_test_two_transition
  <2> QED
    BY <2>1, <2>2
<1>3. DOMAIN t_test_merge_states(s, r) = DOMAIN TTestState
  BY DEF t_test_merge_states, TTestState
<1> QED
  BY <1>1, <1>2, <1>3

(* The fields of the states of the chi-squared test stay.                  *)
LEMMA ChiFieldsStay ==
  ASSUME NEW s, NEW row, NEW r, NEW value,
         \/ value = chi2_gof_test_transition(s, row) \/ value = chi2_gof_test_merge_states(s, r)
  PROVE  value = Exception \/ DOMAIN value = DOMAIN s
<1>1. \A x, y : DOMAIN updateSumSquaredDeviations(x, y) = DOMAIN x
  BY DEF updateSumSquaredDeviations
<1>2. CASE value = chi2_gof_test_transition(s, row)
  <2> DEFINE df == IF row.df = Null THEN -1 ELSE row.df
             t == [s EXCEPT !.uniformDist = (row.expected = Null), !.df = df]
  <2>1. DOMAIN t = DOMAIN s
    OBVIOUS
  <2>2. value = Exception \/ \E y : value = updateSumSquaredDeviations(t, y)
    BY <1>2, Zenon DEF chi2_gof_test_transition
  <2> HIDE DEF t
  <2> QED
    BY <1>1, <2>1, <2>2
<1>3. CASE value = chi2_gof_test_merge_states(s, r)
  <2> DEFINE t == IF s.numRows = 0
                  THEN [s EXCEPT !.uniformDist = r.uniformDist, !.df = r.df] ELSE s
  <2>1. DOMAIN t = DOMAIN s
    OBVIOUS
  <2>2. value = Exception \/ value = updateSumSquaredDeviations(t, r)
    BY <1>3, Zenon DEF chi2_gof_test_merge_states
  <2> HIDE DEF t
  <2> QED
    BY <1>1, <2>1, <2>2
<1> QED
  BY <1>2, <1>3

(* The fields of those of the Kolmogorov-Smirnov test are those of its     *)
(* struct.                                                                 *)
LEMMA KSFields ==
  ASSUME NEW s, NEW row, NEW value, value = ks_test_transition(s, row)
  PROVE  value = Exception \/ DOMAIN value = DOMAIN KSState
<1>1. value = Exception \/ \E a, b, c, d :
        value = [num |-> a, last |-> b, expectedNum |-> c, maxDiff |-> d]
  BY Zenon DEF ks_test_transition
<1> QED
  BY <1>1 DEF KSState

(* The fields of those of the rank tests stay.                             *)
LEMMA RankFields ==
  ASSUME NEW s, NEW row, NEW value,
         value = mw_test_transition(s, row) \/ value = wsr_test_transition(s, row)
  PROVE  value = Exception \/ DOMAIN value = DOMAIN s
<1>1. /\ \A x, k : DOMAIN Ranked(x, k) = DOMAIN x
      /\ \A x : DOMAIN Tied(x) = DOMAIN x /\ DOMAIN Untied(x) = DOMAIN x
  BY DEF Ranked, Tied, Untied
<1>2. CASE value = mw_test_transition(s, row)
  <2>1. value = Exception \/ \E k, e : \E x \in {Tied(s), Untied(s), s} :
          value = [Ranked(x, k) EXCEPT !.last = e]
    BY <1>2, Zenon DEF mw_test_transition
  <2>2. CASE value # Exception
    <3>1. PICK k, e, x : x \in {Tied(s), Untied(s), s} /\ value = [Ranked(x, k) EXCEPT !.last = e]
      BY <2>1, <2>2
    <3>2. DOMAIN value = DOMAIN Ranked(x, k)
      BY <3>1
    <3> QED
      BY <1>1, <3>1, <3>2
  <2> QED
    BY <2>2
<1>3. CASE value = wsr_test_transition(s, row)
  <2> DEFINE Reduced(x, e) == [x EXCEPT !.reduceVariance = e]
             After(x, a, b) == [x EXCEPT !.lastAbs = a, !.lastAbsUpperBound = b]
  <2>1. \A x, a, b : DOMAIN Reduced(x, a) = DOMAIN x /\ DOMAIN After(x, a, b) = DOMAIN x
    OBVIOUS
  <2>2. \E e : [Tied(s) EXCEPT !.reduceVariance = @ + TotalOf(s.numTies) * (TotalOf(s.numTies) + 1)]
                 = Reduced(Tied(s), e)
    BY Zenon
  <2>3. PICK e : [Tied(s) EXCEPT !.reduceVariance = @ + TotalOf(s.numTies) * (TotalOf(s.numTies) + 1)]
                 = Reduced(Tied(s), e)
    BY <2>2
  <2>4. value = Exception \/ value = s \/ \E k, a, b : \E x \in {Reduced(Tied(s), e), Untied(s), s} :
          value = After(Ranked(x, k), a, b)
    BY <1>3, <2>3, Zenon DEF wsr_test_transition
  <2> HIDE DEF Reduced, After
  <2> QED
    BY <1>1, <2>1, <2>4
<1> QED
  BY <1>2, <1>3

(* The fields of those of the linear regression stay.                      *)
LEMMA LinFieldsStay ==
  ASSUME NEW s, NEW row, NEW r, DOMAIN r = DOMAIN s, NEW value,
         value = linregr_transition(s, row) \/ value = linregr_merge_states(s, r),
         DOMAIN s = DOMAIN LinRegrState
  PROVE  value = Exception \/ DOMAIN value = DOMAIN s
<1>1. \A x, y, z : DOMAIN Grown(x, y, z) = DOMAIN x
  BY DEF Grown
<1>2. \A x, y : DOMAIN RowsJoined(x, y) = DOMAIN x
  BY DEF RowsJoined
<1>3. \A w : DOMAIN initialize(w) = DOMAIN LinRegrState
  BY DEF initialize
<1>4. CASE value = linregr_transition(s, row)
  <2> DEFINE t == IF s.numRows = 0 THEN initialize(Len(row.x)) ELSE s
  <2>1. DOMAIN t = DOMAIN s
    BY <1>3
  <2>2. value = Exception \/ value = Grown(t, row.x, row.y)
    BY <1>4, Zenon DEF linregr_transition, Grown
  <2> HIDE DEF t
  <2> QED
    BY <1>1, <2>1, <2>2
<1>5. CASE value = linregr_merge_states(s, r)
  <2>1. value \in {Exception, r, s, RowsJoined(s, r)}
    BY <1>5, Zenon DEF linregr_merge_states, RowsJoined
  <2> QED
    BY <1>2, <2>1
<1> QED
  BY <1>4, <1>5

(* The fields of those of the logistic regression stay.                    *)
LEMMA LogRegrFields ==
  ASSUME NEW s, NEW r, DOMAIN r = DOMAIN s, NEW p, p = Null \/ DOMAIN p = DOMAIN s,
         NEW n, NEW i, NEW value,
         value \in {logregr_cg_step_transition(s, n, p), logregr_irls_step_transition(s, n, p),
                    logregr_igd_step_transition(s, n, p, i), logregr_cg_step_merge_states(s, r),
                    logregr_irls_step_merge_states(s, r), logregr_igd_step_merge_states(s, r)}
  PROVE  DOMAIN value = DOMAIN s
<1>1. DOMAIN Begun(s, p) = DOMAIN s
  <2>1. DOMAIN reset(p) = DOMAIN p
    BY DEF reset
  <2>2. \A e : DOMAIN [s EXCEPT !.coef = e] = DOMAIN s
    OBVIOUS
  <2>3. Begun(s, p) = IF p = Null THEN [s EXCEPT !.coef = (<<0>> :> Share)] ELSE reset(p)
    BY DEF Begun
  <2> QED
    BY <2>1, <2>2, <2>3
<1>2. DOMAIN Joined(s, r) = DOMAIN s
  BY DEF Joined
<1> DEFINE b == IF s.numRows = 0 THEN Begun(s, p) ELSE s
           c == logregr_cg_step_transition(s, n, p)
           m == logregr_cg_step_merge_states(s, r)
<1>3. DOMAIN b = DOMAIN s
  BY <1>1
<1>4. DOMAIN c = DOMAIN s
  <2> DEFINE Cg(x) == [x EXCEPT !.numRows = @ + 1, !.gradient = Add(@, n, Only(x.coef)),
               !.hessian = Add(@, n, Only(x.coef)), !.logLikelihood = Add(@, n, Only(x.coef))]
  <2>1. c = Cg(b)
    BY Zenon DEF logregr_cg_step_transition
  <2>2. \A x : DOMAIN Cg(x) = DOMAIN x
    OBVIOUS
  <2> HIDE DEF Cg, b, c
  <2> QED
    BY <1>3, <2>1, <2>2
<1>5. DOMAIN logregr_igd_step_transition(s, n, p, i) = DOMAIN s
  <2> DEFINE old == <<i - 1>>
             Old(x) == [x EXCEPT !.coef = (old :> Share)]
             h == IF s.numRows = 0 THEN Old(Begun(s, p)) ELSE s
             Igd(x) == [x EXCEPT !.numRows = @ + 1,
               !.coef = IF x.stepsize THEN (Append(Only(@), n) :> Share) ELSE @,
               !.hessian = IF p = Null THEN @ ELSE Add(@, n, old),
               !.logLikelihood = IF p = Null THEN @ ELSE Add(@, n, old)]
  <2>1. logregr_igd_step_transition(s, n, p, i) = Igd(h)
    BY Zenon DEF logregr_igd_step_transition
  <2>2. \A x : DOMAIN Igd(x) = DOMAIN x /\ DOMAIN Old(x) = DOMAIN x
    OBVIOUS
  <2> HIDE DEF Igd, Old
  <2> QED
    BY <1>1, <2>1, <2>2
<1>6. DOMAIN m = DOMAIN s
  <2>1. m \in {r, s, Joined(s, r)}
    BY Zenon DEF logregr_cg_step_merge_states
  <2> QED
    BY <1>2, <2>1
<1>7. DOMAIN logregr_igd_step_merge_states(s, r) = DOMAIN s
  <2> DEFINE Averaged(x) == [x EXCEPT !.coef = Average(s, r)]
  <2>1. \A x : DOMAIN Averaged(x) = DOMAIN x
    OBVIOUS
  <2>2. logregr_igd_step_merge_states(s, r) \in {m, Averaged(Joined(s, r))}
    BY Zenon DEF logregr_igd_step_merge_states
  <2> HIDE DEF Averaged, m
  <2> QED
    BY <1>2, <1>6, <2>1, <2>2
<1>8. logregr_irls_step_transition(s, n, p) = c /\ logregr_irls_step_merge_states(s, r) = m
  BY DEF logregr_irls_step_transition, logregr_irls_step_merge_states
<1> HIDE DEF b, c, m
<1> QED
  BY <1>4, <1>5, <1>6, <1>7, <1>8 DEF c, m

\* A state of the analysis of variance, of some numbers.
OSound(s) == \E N : OKeeps(s, N)

(* A state of some numbers is well-formed.                                 *)
LEMMA OWellFormed ==
  ASSUME NEW s, OSound(s)
  PROVE  WellFormedOWA(s) /\ DOMAIN s = DOMAIN OWAState
<1>1. PICK N : OKeeps(s, N)
  BY DEF OSound
<1> DEFINE g == s.groupValues
           p == s.posToIndices
           m == s.moments
           n == Len(g)
           r == nextPowerOfTwo(n)
<1>2. s = OState(g, p, m) /\ OParts(g, p, m, n, N) /\ n \in Nat /\ n <= Top
  BY <1>1, KeptParts
<1>3. Ascending(g, n) /\ Indexed(p, n) /\ Furnished(m, g, p, n, N)
  BY <1>2 DEF OParts
<1>4. DOMAIN s = DOMAIN OWAState
  <2> HIDE DEF g, p, m
  <2> QED
    BY <1>2 DEF OState, OWAState
<1> HIDE DEF g, p, m, n
<1>5. \A i \in 1..n - 1 : g[i] < g[i + 1]
  <2> SUFFICES ASSUME NEW i \in 1..n - 1 PROVE g[i] < g[i + 1]
    OBVIOUS
  <2>1. i \in 1..n /\ i + 1 \in 1..n /\ i < i + 1
    BY <1>2
  <2> QED
    BY <1>3, <2>1 DEF Ascending
<1>6. Len(p) = n /\ {p[i] : i \in 1..n} = 1..n
  <2>1. \A i \in 1..n : p[i] \in 1..n
    BY <1>3, IndexesAre
  <2>2. Len(p) = n /\ \A x \in 1..n : \E i \in 1..n : p[i] = x
    BY <1>3 DEF Indexed
  <2> QED
    BY <2>1, <2>2
<1>7. r \in Nat
  <2>1. CASE n = 0
    BY <2>1 DEF nextPowerOfTwo
  <2>2. CASE n # 0
    <3>1. n - 1 \in Nat /\ (n - 1) + 1 <= Top /\ (n - 1) + 1 = n
      BY <1>2, <2>2, TopIs
    <3>2. Room(n - 1) = nextPowerOfTwo(n) /\ Room(n - 1) \in Nat
      BY <3>1, RoomIs
    <3> QED
      BY <3>2
  <2> QED
    BY <2>1, <2>2
<1>8. Len(m) = r
  <2>1. m = [k \in 1..r |-> m[k]]
    BY <1>3 DEF Furnished
  <2> HIDE DEF r
  <2> DEFINE T == {m[k] : k \in 1..r}
  <2>2. m \in [1..r -> T]
    BY <2>1
  <2> HIDE DEF T
  <2>3. m \in Seq(T) /\ Len(m) = r
    BY <1>7, <2>2
  <2> QED
    BY <2>3
<1> QED
  BY <1>4, <1>5, <1>6, <1>8 DEF WellFormedOWA, g, p, m, n

(* The state without rows has the numbers of none.                         *)
LEMMA ONone ==
  OKeeps(OWAState, [x \in 0..Top - 1 |-> NoRows])
<1> DEFINE N == [x \in 0..Top - 1 |-> NoRows]
           e == << >>
<1>1. OWAState = OState(e, e, e)
  BY DEF OWAState, OState
<1>2. Ascending(e, 0)
  BY EmptySeq DEF Ascending
<1>3. Indexed(e, 0)
  BY EmptySeq DEF Indexed
<1>4. nextPowerOfTwo(0) = 0
  BY DEF nextPowerOfTwo
<1>5. Furnished(e, e, e, 0, N)
  <2>1. e = [k \in 1..0 |-> e[k]]
    OBVIOUS
  <2> QED
    BY <1>4, <2>1 DEF Furnished
<1>6. NoOthers(e, 0, N)
  BY DEF NoOthers
<1> HIDE DEF N, e
<1>7. OParts(e, e, e, 0, N)
  BY <1>2, <1>3, <1>5, <1>6 DEF OParts
<1> QED
  BY <1>1, <1>7, PartsKept DEF N

(* A row leaves a state one of some numbers.                               *)
LEMMA OTransitionSound ==
  ASSUME NEW s, OSound(s), NEW row, row.group \in Int
  PROVE  OSound(one_way_anova_transition(s, row))
<1> DEFINE v == row.group % TwoTo[GroupBits]
           right == One(row.value)
<1>1. PICK N : OKeeps(s, N)
  BY DEF OSound
<1>2. v \in 0..Top - 1
  BY TopIs DEF Top
<1>3. one_way_anova_transition(s, row) = Updated(s, v, right)
  BY DEF one_way_anova_transition
<1> HIDE DEF v, right
<1> DEFINE M == [x \in 0..Top - 1 |->
                  IF x = v THEN updateCorrectedSumOfSquares(N[v], right) ELSE N[x]]
<1>4. Renumbered(M, N, v, updateCorrectedSumOfSquares(N[v], right))
  BY DEF Renumbered
<1> HIDE DEF M
<1>5. OKeeps(Updated(s, v, right), M)
  BY <1>1, <1>2, <1>4, UpdatedIs
<1> QED
  BY <1>3, <1>5 DEF OSound

(* So does a merge.                                                        *)
LEMMA OMergeSound ==
  ASSUME NEW s, OSound(s), NEW r, OSound(r)
  PROVE  OSound(one_way_anova_merge_states(s, r))
<1>1. PICK N, K : OKeeps(s, N) /\ OKeeps(r, K)
  BY DEF OSound
<1>2. OKeeps(one_way_anova_merge_states(s, r), Partly(N, r, Len(r.groupValues)))
  BY <1>1, MergeIs
<1> QED
  BY <1>2 DEF OSound

\* The states and the one in the driver's table have the type of their structs.
Typed(t, s) == DOMAIN s = DOMAIN Initial(t) /\ (t = "one_way_anova" => OSound(s))
PreviousTyped(t) == t \in Optimizers => previous = Null \/ Typed(t, previous)

(* A row leaves every state one of its type.                               *)
LEMMA TransitionTypes ==
  ASSUME NEW t \in Tests, NEW s, Typed(t, s), PreviousTyped(t), NEW row,
         t = "one_way_anova" => row.group \in Int, NEW n, NEW value,
         value = Transition(t, s, row, n)
  PROVE  value = Exception \/ Typed(t, value)
<1>1. CASE t \in TTests
  <2>1. value \in {t_test_one_transition(s, row), t_test_two_transition(s, row)}
    BY <1>1 DEF Transition, TTests, Optimizers
  <2> QED
    BY <1>1, <2>1, TTestFields DEF Typed, TTests
<1>2. CASE t = "one_way_anova"
  <2>1. value = one_way_anova_transition(s, row) /\ Initial(t) = OWAState
    BY <1>2 DEF Transition, Initial, TTests, Optimizers
  <2>2. OSound(value)
    BY <1>2, <2>1, OTransitionSound DEF Typed
  <2> QED
    BY <2>1, <2>2, OWellFormed DEF Typed
<1>3. CASE t = "chi2_gof_test"
  <2>1. value = chi2_gof_test_transition(s, row)
    BY <1>3 DEF Transition, TTests, Optimizers
  <2>2. value = Exception \/ DOMAIN value = DOMAIN s
    BY <2>1, ChiFieldsStay
  <2> QED
    BY <1>3, <2>2 DEF Typed
<1>4. CASE t = "ks_test"
  <2>1. value = ks_test_transition(s, row) /\ Initial(t) = KSState
    BY <1>4 DEF Transition, Initial, TTests, Optimizers
  <2>2. value = Exception \/ DOMAIN value = DOMAIN Initial(t)
    BY <2>1, KSFields
  <2> QED
    BY <1>4, <2>2 DEF Typed
<1>5. CASE t \in {"mw_test", "wsr_test"}
  <2>1. value = mw_test_transition(s, row) \/ value = wsr_test_transition(s, row)
    BY <1>5 DEF Transition, TTests, Optimizers
  <2>2. value = Exception \/ DOMAIN value = DOMAIN s
    BY <2>1, RankFields
  <2> QED
    BY <1>5, <2>2 DEF Typed
<1>6. CASE t = "linregr"
  <2>1. value = linregr_transition(s, row) /\ Initial(t) = LinRegrState
    BY <1>6 DEF Transition, Initial, TTests, Optimizers
  <2>2. DOMAIN s = DOMAIN LinRegrState
    BY <2>1 DEF Typed
  <2>3. value = Exception \/ DOMAIN value = DOMAIN s
    BY <2>1, <2>2, LinFieldsStay
  <2> QED
    BY <1>6, <2>3 DEF Typed
<1>7. CASE t \in Optimizers
  <2>1. value \in {Exception, logregr_cg_step_transition(s, n, previous),
                   logregr_irls_step_transition(s, n, previous),
                   logregr_igd_step_transition(s, n, previous, iteration)}
    BY <1>7 DEF Transition, TTests, Optimizers
  <2>2. previous = Null \/ DOMAIN previous = DOMAIN s
    BY <1>7 DEF PreviousTyped, Typed
  <2>3. value = Exception \/ DOMAIN value = DOMAIN s
    BY <2>1, <2>2, LogRegrFields
  <2>4. t # "one_way_anova"
    BY <1>7 DEF Optimizers
  <2> QED
    BY <2>3, <2>4 DEF Typed
<1> QED
  BY <1>1, <1>2, <1>3, <1>4, <1>5, <1>6, <1>7 DEF Tests, Ordered

(* So does a merge.                                                        *)
LEMMA MergeTypes ==
  ASSUME NEW t \in Tests \ Ordered, NEW s, Typed(t, s), NEW r, Typed(t, r), NEW value,
         value = Merge(t, s, r)
  PROVE  value = Exception \/ Typed(t, value)
<1>0. DOMAIN r = DOMAIN s
  BY DEF Typed
<1>1. CASE t \in TTests
  <2>1. value = t_test_merge_states(s, r) /\ Initial(t) = TTestState
    BY <1>1 DEF Merge, Initial, TTests, Optimizers
  <2>2. DOMAIN value = DOMAIN Initial(t)
    BY <2>1, TTestFields
  <2> QED
    BY <1>1, <2>2 DEF Typed, TTests
<1>2. CASE t = "one_way_anova"
  <2>1. value = one_way_anova_merge_states(s, r) /\ Initial(t) = OWAState
    BY <1>2 DEF Merge, Initial, TTests, Optimizers
  <2>2. OSound(value)
    BY <1>2, <2>1, OMergeSound DEF Typed
  <2> QED
    BY <2>1, <2>2, OWellFormed DEF Typed
<1>3. CASE t = "chi2_gof_test"
  <2>1. value = chi2_gof_test_merge_states(s, r)
    BY <1>3 DEF Merge, TTests, Optimizers
  <2>2. value = Exception \/ DOMAIN value = DOMAIN s
    BY <2>1, ChiFieldsStay
  <2> QED
    BY <1>3, <2>2 DEF Typed
<1>4. CASE t = "linregr"
  <2>1. value = linregr_merge_states(s, r) /\ Initial(t) = LinRegrState
    BY <1>4 DEF Merge, Initial, TTests, Optimizers
  <2>2. DOMAIN s = DOMAIN LinRegrState
    BY <2>1 DEF Typed
  <2>3. value = Exception \/ DOMAIN value = DOMAIN s
    BY <1>0, <2>1, <2>2, LinFieldsStay
  <2> QED
    BY <1>4, <2>3 DEF Typed
<1>5. CASE t \in Optimizers
  <2>1. value \in {logregr_cg_step_merge_states(s, r), logregr_irls_step_merge_states(s, r),
                   logregr_igd_step_merge_states(s, r)}
    BY <1>5 DEF Merge, TTests, Optimizers
  <2>2. DOMAIN value = DOMAIN s
    BY <1>0, <2>1, LogRegrFields
  <2>3. t # "one_way_anova"
    BY <1>5 DEF Optimizers
  <2> QED
    BY <2>2, <2>3 DEF Typed
<1> QED
  BY <1>1, <1>2, <1>3, <1>4, <1>5 DEF Tests

(* The state that an iteration leaves has the type of its test.            *)
LEMMA FinalTypes ==
  ASSUME job.test \in Optimizers, NEW s, Typed(job.test, s), NEW value \in StepFinals(s)
  PROVE  value \in {Null, Exception} \/ Typed(job.test, value)
<1>1. job.test # "one_way_anova"
  BY DEF Optimizers
<1>2. CASE job.test = "cg"
  <2>1. value \in logregr_cg_step_final(s, iteration)
    BY <1>2 DEF StepFinals
  <2>2. \/ value \in {Null, Exception}
        \/ value = [s EXCEPT !.coef = (<<iteration>> :> Share), !.grad = s.gradient,
                             !.iteration = @ + 1]
    BY <2>1 DEF logregr_cg_step_final
  <2> QED
    BY <1>1, <2>2 DEF Typed
<1>3. CASE job.test = "irls"
  <2>1. value \in logregr_irls_step_final(s, iteration)
    BY <1>3 DEF StepFinals
  <2>2. \/ value \in {Null, Exception}
        \/ value = [s EXCEPT !.coef = (<<iteration>> :> Share), !.gradient = s.hessian]
    BY <2>1 DEF logregr_irls_step_final
  <2> QED
    BY <1>1, <2>2 DEF Typed
<1>4. CASE job.test = "igd"
  <2>1. value = s
    BY <1>4 DEF StepFinals
  <2> QED
    BY <2>1
<1> QED
  BY <1>2, <1>3, <1>4 DEF Optimizers

(* The initial state of a test has its type.                               *)
LEMMA InitialTypes ==
  ASSUME NEW t
  PROVE  Typed(t, Initial(t))
<1>1. CASE t = "one_way_anova"
  <2>1. Initial(t) = OWAState
    BY <1>1 DEF Initial, TTests
  <2> QED
    BY <2>1, ONone DEF Typed, OSound
<1> QED
  BY <1>1 DEF Typed

TypesInv ==
  /\ iteration \in 1..Horizon
  /\ job.test \in Tests =>
       /\ \A s \in 0..Segments : Typed(job.test, state[s])
       /\ PreviousTyped(job.test)

(* The steps that change no state.                                         *)
LEMMA TypesStay ==
  ASSUME TypesInv, job' = job, state' = state, iteration' = iteration, previous' = previous
  PROVE  TypesInv'
<1>1. /\ Typed(job.test, state)' = Typed(job.test, state)
      /\ \A s \in 0..Segments : Typed(job.test, state[s])' = Typed(job.test, state[s])
      /\ Typed(job.test, previous)' = Typed(job.test, previous)
  BY DEF Typed, Initial
<1> QED
  BY <1>1 DEF TypesInv, PreviousTyped

(* A state gets a value of its type.                                       *)
LEMMA TypesChange ==
  ASSUME ScanInv, TypesInv, job.test \in Tests, NEW s \in 0..Segments, NEW value,
         value = Exception \/ Typed(job.test, value), Becomes(s, value),
         job' = job, iteration' = iteration, previous' = previous
  PROVE  TypesInv'
<1>1. \/ state' = state
      \/ /\ value # Exception /\ state'[s] = value
         /\ \A t \in 0..Segments : t # s => state'[t] = state[t]
  BY DEF Becomes, ScanInv
<1>2. \A t \in 0..Segments : Typed(job.test, state'[t])
  BY <1>1 DEF TypesInv
<1>3. PICK u, p : u = job.test /\ p = previous
  OBVIOUS
<1>4. PreviousTyped(job.test)'
  BY DEF TypesInv, PreviousTyped, Typed, Initial
<1>5. \A t \in 0..Segments : Typed(job'.test, state'[t])
  BY <1>2
<1> QED
  BY <1>4, <1>5 DEF TypesInv, Typed, Initial

(* Every state has its type at the start.                                  *)
LEMMA FreshTypes ==
  ASSUME NEW t
  PROVE  DOMAIN Fresh(t) = 0..Segments /\ \A s \in 0..Segments : Typed(t, Fresh(t)[s])
BY InitialTypes DEF Fresh

(* All states have their type at the start.                                *)
LEMMA TypesInit == Init \/ NoQuery => TypesInv
<1>1. ASSUME Init PROVE TypesInv
  <2>1. iteration = 1 /\ previous = Null
    BY <1>1 DEF Init
  <2>2. iteration \in 1..Horizon
    BY <2>1, ConstantsAre
  <2>3. CASE \E t \in DOMAIN Jobs : \E R \in Jobs[t] :
          \E spread \in IF t \in Ordered THEN {FALSE} ELSE BOOLEAN :
            \E limit \in IF t \in Optimizers THEN Limits ELSE {1},
               converges \in IF t \in Optimizers THEN BOOLEAN ELSE {FALSE} :
              /\ job = [test |-> t, rows |-> R, spread |-> spread,
                        limit |-> limit, converges |-> converges]
              /\ state = Fresh(t) /\ waiting = Places(spread)
    <3>1. PICK t \in DOMAIN Jobs : \E R \in Jobs[t] :
          \E spread \in IF t \in Ordered THEN {FALSE} ELSE BOOLEAN :
            \E limit \in IF t \in Optimizers THEN Limits ELSE {1},
               converges \in IF t \in Optimizers THEN BOOLEAN ELSE {FALSE} :
              /\ job = [test |-> t, rows |-> R, spread |-> spread,
                        limit |-> limit, converges |-> converges]
              /\ state = Fresh(t) /\ waiting = Places(spread)
      BY <2>3
    <3>2. job.test = t /\ state = Fresh(t)
      BY <3>1
    <3> QED
      BY <2>1, <2>2, <3>2, FreshTypes DEF TypesInv, PreviousTyped
  <2>4. CASE \E f \in DOMAIN Calls : \E args \in Calls[f] :
          /\ job = [test |-> f, rows |-> args, spread |-> FALSE]
          /\ state = << >> /\ waiting = {}
    <3>1. PICK f \in DOMAIN Calls : \E args \in Calls[f] :
          job = [test |-> f, rows |-> args, spread |-> FALSE]
      BY <2>4
    <3>2. job.test = f
      BY <3>1
    <3> QED
      BY <2>2, <3>2, FunctionsAreNoTests DEF TypesInv
  <2> QED
    BY <1>1, <2>3, <2>4 DEF Init
<1>2. ASSUME NoQuery PROVE TypesInv
  <2>1. iteration = 1
    BY <1>2 DEF NoQuery
  <2>2. iteration \in 1..Horizon
    BY <2>1, ConstantsAre
  <2> QED
    BY <1>2, <2>2, NoQueryScans DEF TypesInv
<1> QED
  BY <1>1, <1>2

(* A row that is read leaves the state of its segment one of its type.     *)
LEMMA ReadTypes ==
  ASSUME ScanInv, TypesInv, NEW s \in 0..Segments, Read(s)
  PROVE  TypesInv'
<1>1. job.test \in Tests /\ JobOf(job.test)
  BY DEF Read, Running, ScanInv
<1> DEFINE n == Len(placed')
           row == job.rows[n]
           value == Transition(job.test, state[s], row, n)
<1>2. job' = job /\ n \in DOMAIN job.rows /\ Becomes(s, value)
  BY ReadPlaces
<1>3. iteration' = iteration /\ previous' = previous
  BY DEF Read
<1>4. row \in Row(job.test)
  <2>1. job.rows \in Seq(Row(job.test))
    BY <1>1, JobsAre DEF JobOf
  <2> QED
    BY <1>2, <2>1
<1>5. job.test = "one_way_anova" => row.group \in Int
  <2>1. ASSUME job.test = "one_way_anova" PROVE Row(job.test) = [group: Int, value: Int]
    BY <2>1 DEF Row, TTests, Optimizers
  <2> HIDE DEF row
  <2> QED
    BY <1>4, <2>1
<1>6. Typed(job.test, state[s]) /\ PreviousTyped(job.test)
  BY <1>1 DEF TypesInv
<1>7. PICK u : u = state[s]
  OBVIOUS
<1>8. PICK r : r = row
  OBVIOUS
<1>9. PICK v : v = value
  OBVIOUS
<1> HIDE DEF n, row, value
<1>10. v = Transition(job.test, u, r, n)
  BY <1>7, <1>8, <1>9 DEF value
<1>11. Typed(job.test, u) /\ (job.test = "one_way_anova" => r.group \in Int)
  BY <1>5, <1>6, <1>7, <1>8
<1>12. v = Exception \/ Typed(job.test, v)
  BY <1>1, <1>6, <1>10, <1>11, TransitionTypes
<1>13. Becomes(s, v)
  BY <1>2, <1>9
<1> QED
  BY <1>1, <1>2, <1>3, <1>12, <1>13, TypesChange

(* The merged state gets one of its type.                                  *)
LEMMA MergedTypes ==
  ASSUME ScanInv, TypesInv, NEW s \in 0..Segments, MergeStates(s)
  PROVE  TypesInv'
<1>1. job.test \in Tests /\ JobOf(job.test)
  BY DEF MergeStates, Running, ScanInv
<1> DEFINE value == Merge(job.test, state[0], state[s])
<1>2. job' = job /\ s \in waiting /\ Becomes(0, value)
  BY MergePlaces
<1>3. iteration' = iteration /\ previous' = previous
  BY DEF MergeStates
<1>4. job.test \in Tests \ Ordered
  BY <1>1, <1>2 DEF JobOf, ScanInv, Places
<1>5. 0 \in 0..Segments
  BY ConstantsAre
<1>6. Typed(job.test, state[0]) /\ Typed(job.test, state[s])
  BY <1>1, <1>5 DEF TypesInv
<1>7. PICK u, v, w : u = state[0] /\ v = state[s] /\ w = value
  OBVIOUS
<1>8. w = Merge(job.test, u, v) /\ Typed(job.test, u) /\ Typed(job.test, v)
  BY <1>6, <1>7
<1> HIDE DEF value
<1>9. w = Exception \/ Typed(job.test, w)
  BY <1>4, <1>8, MergeTypes
<1>10. Becomes(0, w)
  BY <1>2, <1>7
<1> QED
  BY <1>1, <1>2, <1>3, <1>5, <1>9, <1>10, TypesChange

(* The driver keeps a state of its type, and counts no further than the    *)
(* horizon.                                                                *)
LEMMA IterateTypes ==
  ASSUME ScanInv, TypesInv, Iterate
  PROVE  TypesInv'
<1>1. job.test \in Tests /\ job.test \in Optimizers
  BY DEF Iterate, Running
<1>2. PICK s \in StepFinals(state[0]) : EndIteration(s)
  BY DEF Iterate
<1>3. 0 \in 0..Segments
  BY ConstantsAre
<1>4. Typed(job.test, state[0])
  BY <1>1, <1>3 DEF TypesInv
<1>5. s \in {Null, Exception} \/ Typed(job.test, s)
  BY <1>1, <1>2, <1>4, FinalTypes
<1>6. job' = job
  BY <1>2 DEF EndIteration, Returns
<1>7. CASE Returns(s)
  <2>1. UNCHANGED <<state, iteration, previous>>
    BY <1>7 DEF Returns
  <2> QED
    BY <1>6, <2>1, TypesStay
<1>8. ASSUME s \notin {Null, Exception}, previous' = s, NEW i \in 1..Horizon, iteration' = i,
             state' = state \/ state' = Fresh(job.test)
      PROVE  TypesInv'
  <2>1. Typed(job.test, s)
    BY <1>5, <1>8
  <2>2. \A t \in 0..Segments : Typed(job.test, state'[t])
    BY <1>1, <1>8, FreshTypes DEF TypesInv
  <2>3. PICK u, v : u = s /\ v = job.test
    OBVIOUS
  <2>4. job'.test = v /\ previous' = u /\ Typed(v, u)
    BY <1>6, <1>8, <2>1, <2>3
  <2>5. PreviousTyped(job.test)'
    BY <2>4 DEF PreviousTyped, Typed, Initial
  <2>6. \A t \in 0..Segments : Typed(job'.test, state'[t])
    BY <1>6, <2>2
  <2> QED
    BY <1>8, <2>5, <2>6 DEF TypesInv, Typed, Initial
<1>9. iteration \in 1..Horizon
  BY DEF TypesInv
<1>10. iteration < Horizon => iteration + 1 \in 1..Horizon
  BY <1>9, ConstantsAre
<1>11. CASE s \notin {Null, Exception} /\ iteration < Horizon /\ previous' = s
            /\ iteration' = iteration + 1 /\ state' = Fresh(job.test)
  BY <1>8, <1>10, <1>11
<1>12. CASE s \notin {Null, Exception} /\ previous' = s
            /\ UNCHANGED <<state, iteration>>
  BY <1>8, <1>9, <1>12
<1> QED
  BY <1>2, <1>7, <1>11, <1>12 DEF EndIteration

(* No step of a query leaves a state without its type.                     *)
LEMMA TypesNext ==
  ASSUME ScanInv, TypesInv, [Next]_vars
  PROVE  TypesInv'
<1>1. CASE Reject \/ Call \/ Finish
  <2>1. UNCHANGED <<job, state, iteration, previous>>
    BY <1>1 DEF Reject, Call, Finish, Returns
  <2> QED
    BY <2>1, TypesStay
<1>2. CASE UNCHANGED vars
  <2>1. UNCHANGED <<job, state, iteration, previous>>
    BY <1>2 DEF vars
  <2> QED
    BY <2>1, TypesStay
<1> QED
  BY <1>1, <1>2, ReadTypes, MergedTypes, IterateTypes DEF Next

(* What TypeOK says follows.                                               *)
LEMMA TypesAreOK ==
  ASSUME ScanInv, TypesInv
  PROVE  TypeOK
<1>1. placed \in Seq(0..Segments) /\ waiting \subseteq 1..Segments /\ Len(placed) <= Len(rows)
  BY DEF ScanInv, Places, rows
<1>2. iteration \in 1..Horizon
  BY DEF TypesInv
<1>3. job.test \in Tests => DOMAIN state = 0..Segments
  BY DEF ScanInv
<1>4. job.test \in Tests =>
        \A s \in 0..Segments : DOMAIN state[s] = DOMAIN Initial(job.test)
  BY DEF TypesInv, Typed
<1>5. ASSUME job.test = "one_way_anova", NEW s \in DOMAIN state
      PROVE  WellFormedOWA(state[s])
  <2>1. job.test \in Tests
    BY <1>5 DEF Tests
  <2>2. OSound(state[s])
    BY <1>3, <1>5, <2>1 DEF TypesInv, Typed
  <2>3. PICK u : u = state[s]
    OBVIOUS
  <2>4. WellFormedOWA(u)
    BY <2>2, <2>3, OWellFormed
  <2> QED
    BY <2>3, <2>4
<1> QED
  BY <1>1, <1>2, <1>3, <1>4, <1>5 DEF TypeOK

(* The type of every state of a query: rows are placed in segments, the    *)
(* driver of logistic regression counts within the horizon, each state has *)
(* the fields of its struct, and the numbers, positions and sorted values  *)
(* that OWATransitionState keeps (one_way_anova.cpp) always match, through *)
(* insertion, growth and merge.                                            *)
THEOREM QueryTypes == SessionSpec => []TypeOK
<1>1. SessionInit => TypesInv
  BY SessionStarts, TypesInit
<1>2. ScanInv /\ TypesInv /\ [Next]_vars => TypesInv'
  BY TypesNext
<1>3. SessionSpec => []TypesInv
  BY <1>1, <1>2, SessionScans, PTL DEF SessionSpec
<1>4. ScanInv /\ TypesInv => TypeOK
  BY TypesAreOK
<1> QED
  BY <1>3, <1>4, SessionScans, PTL

-----------------------------------------------------------------------------
(* Analysis of variance: the numbers of every group.                       *)

\* The group of row i, and the rows of I in group g.
GroupOf(R, i) == R[i].group % Top
GroupIn(R, I, g) == {i \in I : GroupOf(R, i) = g}
NumbersOf(R, I) == [g \in 0..Top - 1 |-> MomOf(R, GroupIn(R, I, g))]

\* A state of the rows I: it has the numbers of each of their groups, and no other group.
OKept(R, s, I) ==
  /\ OKeeps(s, NumbersOf(R, I))
  /\ \A g \in 0..Top - 1 : Holds(s, g) <=> GroupIn(R, I, g) # {}

\* The rows of I have their groups in ascending order, but for those that came before.
InOrderOf(R, I) ==
  \A i, j \in I : i < j /\ GroupOf(R, i) > GroupOf(R, j) =>
    \E k \in I : k <= i /\ GroupOf(R, k) = GroupOf(R, j)

\* Rows of groups and values, few enough for Scale.
Grouped(R) ==
  Samples(R) /\ ScaleServes(R) /\ \A k \in DOMAIN R : R[k].group \in Int

(* A group is one of those that there is room for.                         *)
LEMMA GroupFits ==
  ASSUME NEW R, Grouped(R), NEW i \in DOMAIN R
  PROVE  GroupOf(R, i) \in 0..Top - 1
<1> DEFINE x == R[i].group
<1>1. x \in Int
  BY DEF Grouped
<1> HIDE DEF x
<1>2. x % Top \in 0..Top - 1
  BY <1>1, TopIs
<1> QED
  BY <1>2 DEF GroupOf, x

(* Only the numbers of groups count.                                       *)
LEMMA KeepsTheSame ==
  ASSUME NEW s, NEW N, OKeeps(s, N), NEW M, \A x \in 0..Top - 1 : M[x] = N[x]
  PROVE  OKeeps(s, M)
<1> DEFINE g == s.groupValues
           p == s.posToIndices
           m == s.moments
           n == Len(g)
<1>1. s = OState(g, p, m) /\ OParts(g, p, m, n, N)
  BY KeptParts
<1> HIDE DEF g, p, m, n
<1>2. Ascending(g, n) /\ Furnished(m, g, p, n, N) /\ NoOthers(g, n, N)
  BY <1>1 DEF OParts
<1>3. Furnished(m, g, p, n, M)
  BY <1>2, AscendingFits DEF Furnished
<1>4. NoOthers(g, n, M)
  BY <1>2 DEF NoOthers
<1>5. OParts(g, p, m, n, M)
  BY <1>1, <1>3, <1>4 DEF OParts
<1> QED
  BY <1>1, <1>5, PartsKept

(* A row adds to the numbers of its group.                                 *)
LEMMA RowAdds ==
  ASSUME NEW R, Grouped(R), NEW I \in SUBSET DOMAIN R, NEW n \in DOMAIN R, n \notin I,
         NEW v, v = GroupOf(R, n)
  PROVE  /\ \A g : g # v => GroupIn(R, I \cup {n}, g) = GroupIn(R, I, g)
         /\ GroupIn(R, I \cup {n}, v) = GroupIn(R, I, v) \cup {n}
         /\ Renumbered(NumbersOf(R, I \cup {n}), NumbersOf(R, I), v,
                       updateCorrectedSumOfSquares(NumbersOf(R, I)[v], One(R[n].value)))
<1>1. \A g : g # v => GroupIn(R, I \cup {n}, g) = GroupIn(R, I, g)
  BY DEF GroupIn
<1>2. GroupIn(R, I \cup {n}, v) = GroupIn(R, I, v) \cup {n}
  BY DEF GroupIn
<1> DEFINE J == GroupIn(R, I, v)
<1>3. J \in SUBSET DOMAIN R /\ {n} \in SUBSET DOMAIN R /\ J \cap {n} = {}
  BY DEF GroupIn
<1>4. v \in 0..Top - 1
  BY GroupFits
<1> HIDE DEF J
<1>5. updateCorrectedSumOfSquares(MomOf(R, J), MomOf(R, {n})) = MomOf(R, J \cup {n})
  BY <1>3, MomUnion DEF Grouped
<1>6. One(R[n].value) = MomOf(R, {n})
  BY MomOfOne DEF Grouped
<1>7. NumbersOf(R, I)[v] = MomOf(R, J)
  BY <1>4 DEF NumbersOf, J
<1>8. ASSUME NEW x \in 0..Top - 1
      PROVE  NumbersOf(R, I \cup {n})[x] =
               IF x = v THEN MomOf(R, J \cup {n}) ELSE NumbersOf(R, I)[x]
  <2>1. /\ NumbersOf(R, I \cup {n})[x] = MomOf(R, GroupIn(R, I \cup {n}, x))
        /\ NumbersOf(R, I)[x] = MomOf(R, GroupIn(R, I, x))
    BY DEF NumbersOf
  <2> QED
    BY <1>1, <1>2, <2>1 DEF J
<1> QED
  BY <1>1, <1>2, <1>5, <1>6, <1>7, <1>8 DEF Renumbered

(* Rows that come later leave those before them in order, or not.          *)
LEMMA OrderOfFirst ==
  ASSUME NEW R, Grouped(R), NEW I \in SUBSET DOMAIN R, NEW n \in DOMAIN R,
         \A i \in I : i < n, InOrderOf(R, I \cup {n})
  PROVE  InOrderOf(R, I)
<1> SUFFICES ASSUME NEW i \in I, NEW j \in I, i < j, GroupOf(R, i) > GroupOf(R, j)
             PROVE  \E k \in I : k <= i /\ GroupOf(R, k) = GroupOf(R, j)
  BY DEF InOrderOf
<1>1. PICK k \in I \cup {n} : k <= i /\ GroupOf(R, k) = GroupOf(R, j)
  BY DEF InOrderOf
<1>2. i \in Int /\ n \in Int /\ i < n
  BY DEF Grouped, Samples
<1> QED
  BY <1>1, <1>2

(* A new group of rows in order is above all before it.                    *)
LEMMA NewGroupIsAbove ==
  ASSUME NEW R, Grouped(R), NEW I \in SUBSET DOMAIN R, NEW n \in DOMAIN R,
         \A i \in I : i < n, NEW s, OKept(R, s, I), InOrderOf(R, I \cup {n}),
         NEW v, v = GroupOf(R, n)
  PROVE  Holds(s, v) \/ Under(s, v)
<1>0. DOMAIN R \subseteq Int
  BY DEF Grouped, Samples
<1>1. ASSUME ~Holds(s, v), NEW l \in 1..Len(s.groupValues)
      PROVE  s.groupValues[l] < v
  <2> DEFINE g == s.groupValues
             m == Len(g)
             x == g[l]
  <2>1. OParts(g, s.posToIndices, s.moments, m, NumbersOf(R, I))
        /\ \A u : Holds(s, u) <=> \E k \in 1..m : g[k] = u
    BY KeptParts DEF OKept
  <2>2. x \in 0..Top - 1
    <3>1. Ascending(g, m)
      BY <2>1 DEF OParts
    <3> QED
      BY <1>1, <3>1, AscendingFits
  <2>3. Holds(s, x)
    BY <1>1, <2>1
  <2>4. x # v
    BY <1>1, <2>3
  <2> HIDE DEF x
  <2>5. PICK i \in I : GroupOf(R, i) = x
    BY <2>2, <2>3 DEF OKept, GroupIn
  <2>6. v \in 0..Top - 1
    BY GroupFits
  <2>7. ~(x > v)
    <3> SUFFICES ASSUME x > v PROVE FALSE
      OBVIOUS
    <3>1. PICK k \in I \cup {n} : k <= i /\ GroupOf(R, k) = v
      BY <2>5 DEF InOrderOf
    <3>2. i \in Int /\ n \in Int /\ i < n
      BY <1>0
    <3>3. k \in I
      BY <3>1, <3>2
    <3>4. GroupIn(R, I, v) # {}
      BY <3>1, <3>3 DEF GroupIn
    <3> QED
      BY <1>1, <2>6, <3>4 DEF OKept
  <2>8. x < v
    BY <2>2, <2>4, <2>6, <2>7, TopIs
  <2> QED
    BY <2>8 DEF x
<1> QED
  BY <1>1 DEF Under

(* A row leaves a state that of the rows with it.                          *)
LEMMA ReadKeeps ==
  ASSUME NEW R, Grouped(R), NEW I \in SUBSET DOMAIN R, NEW n \in DOMAIN R, n \notin I,
         \A i \in I : i < n, NEW s, OKept(R, s, I), NEW t, t = one_way_anova_transition(s, R[n])
  PROVE  /\ OKept(R, t, I \cup {n})
         /\ (InOrderOf(R, I) => Straight(s)) /\ InOrderOf(R, I \cup {n}) => Straight(t)
<1> DEFINE v == GroupOf(R, n)
           right == One(R[n].value)
           N == NumbersOf(R, I)
           M == NumbersOf(R, I \cup {n})
<1>1. t = Updated(s, v, right)
  BY DEF one_way_anova_transition, GroupOf, Top
<1>2. v \in 0..Top - 1
  BY GroupFits
<1>3. /\ \A g : g # v => GroupIn(R, I \cup {n}, g) = GroupIn(R, I, g)
      /\ GroupIn(R, I \cup {n}, v) = GroupIn(R, I, v) \cup {n}
      /\ Renumbered(M, N, v, updateCorrectedSumOfSquares(N[v], right))
  BY RowAdds
<1>4. OKeeps(s, N) /\ \A g \in 0..Top - 1 : Holds(s, g) <=> GroupIn(R, I, g) # {}
  BY DEF OKept
<1>5. InOrderOf(R, I \cup {n}) => InOrderOf(R, I) /\ (Holds(s, v) \/ Under(s, v))
  BY OrderOfFirst, NewGroupIsAbove
<1> HIDE DEF v, right, N, M
<1>6. /\ OKeeps(t, M) /\ \A x : Holds(t, x) <=> Holds(s, x) \/ x = v
      /\ Straight(s) /\ (Holds(s, v) \/ Under(s, v)) => Straight(t)
  BY <1>1, <1>2, <1>3, <1>4, UpdatedIs
<1>7. \A g \in 0..Top - 1 : Holds(t, g) <=> GroupIn(R, I \cup {n}, g) # {}
  BY <1>3, <1>4, <1>6
<1> QED
  BY <1>5, <1>6, <1>7 DEF OKept, M

(* A state without rows is one of none, with its groups in their places.   *)
LEMMA KeepsNone ==
  ASSUME NEW R
  PROVE  OKept(R, OWAState, {}) /\ Straight(OWAState)
<1>1. \A g : GroupIn(R, {}, g) = {}
  BY DEF GroupIn
<1>2. \A x \in 0..Top - 1 : NumbersOf(R, {})[x] = NoRows
  BY <1>1 DEF NumbersOf, MomOf
<1>3. OKeeps(OWAState, NumbersOf(R, {}))
  BY <1>2, ONone, KeepsTheSame
<1>4. OWAState.groupValues = << >> /\ OWAState.posToIndices = << >>
  BY DEF OWAState
<1>5. \A g : ~Holds(OWAState, g)
  BY <1>4 DEF Holds
<1>6. Straight(OWAState)
  BY <1>4 DEF Straight, InPlace
<1> QED
  BY <1>1, <1>3, <1>5, <1>6 DEF OKept

(* Where the places of the right state are its indexes, the merged state   *)
(* is that of the rows of both.                                            *)
LEMMA MergeKeeps ==
  ASSUME NEW R, Grouped(R), NEW I \in SUBSET DOMAIN R, NEW J \in SUBSET DOMAIN R, I \cap J = {},
         NEW a, OKept(R, a, I), NEW b, OKept(R, b, J), Straight(b),
         NEW t, t = one_way_anova_merge_states(a, b)
  PROVE  OKept(R, t, I \cup J)
<1> DEFINE N == NumbersOf(R, I)
           K == NumbersOf(R, J)
           M == NumbersOf(R, I \cup J)
           n == Len(b.groupValues)
<1>1. /\ OKeeps(a, N) /\ \A g \in 0..Top - 1 : Holds(a, g) <=> GroupIn(R, I, g) # {}
      /\ OKeeps(b, K) /\ \A g \in 0..Top - 1 : Holds(b, g) <=> GroupIn(R, J, g) # {}
  BY DEF OKept
<1>2. \A g : GroupIn(R, I \cup J, g) = GroupIn(R, I, g) \cup GroupIn(R, J, g)
  BY DEF GroupIn
<1>3. ASSUME NEW x \in 0..Top - 1
      PROVE  M[x] = updateCorrectedSumOfSquares(N[x], K[x])
  <2> DEFINE X == GroupIn(R, I, x)
             Y == GroupIn(R, J, x)
  <2>1. X \in SUBSET DOMAIN R /\ Y \in SUBSET DOMAIN R /\ X \cap Y = {}
    BY DEF GroupIn
  <2>2. M[x] = MomOf(R, X \cup Y) /\ N[x] = MomOf(R, X) /\ K[x] = MomOf(R, Y)
    BY <1>2 DEF NumbersOf
  <2> HIDE DEF X, Y, M, N, K
  <2>3. updateCorrectedSumOfSquares(MomOf(R, X), MomOf(R, Y)) = MomOf(R, X \cup Y)
    BY <2>1, MomUnion DEF Grouped
  <2> QED
    BY <2>2, <2>3
<1> HIDE DEF M, N, K, n
<1>4. /\ OKeeps(t, Partly(N, b, n))
      /\ \A x : Holds(t, x) <=> Holds(a, x) \/ Holds(b, x)
  BY <1>1, MergeIs DEF n
<1>5. Both(Partly(N, b, n), N, K)
  BY <1>1, StraightMerge DEF n
<1>6. \A x \in 0..Top - 1 : M[x] = Partly(N, b, n)[x]
  BY <1>3, <1>5 DEF Both
<1>7. OKeeps(t, M)
  BY <1>4, <1>6, KeepsTheSame
<1>8. \A g \in 0..Top - 1 : Holds(t, g) <=> GroupIn(R, I \cup J, g) # {}
  BY <1>1, <1>2, <1>4
<1> QED
  BY <1>7, <1>8 DEF OKept, M

\* How often a function has each of its values.
Histogram(f) == [m \in Range(f) |-> Cardinality({k \in DOMAIN f : f[k] = m})]

(* Functions that have the same values, one to one, have them as often.    *)
LEMMA HistogramsAgree ==
  ASSUME NEW D, IsFiniteSet(D), NEW f, DOMAIN f = D, NEW E, NEW h, DOMAIN h = E,
         NEW b \in [D -> E], \A x, y \in D : b[x] = b[y] => x = y,
         \A z \in E : \E x \in D : b[x] = z, \A x \in D : h[b[x]] = f[x]
  PROVE  Histogram(f) = Histogram(h)
<1>1. Range(f) = Range(h)
  BY DEF Range
<1>2. ASSUME NEW m
      PROVE  Cardinality({k \in DOMAIN f : f[k] = m}) = Cardinality({k \in DOMAIN h : h[k] = m})
  <2> DEFINE S == {k \in DOMAIN f : f[k] = m}
             T == {k \in DOMAIN h : h[k] = m}
             c == [x \in S |-> b[x]]
  <2>1. IsFiniteSet(S)
    <3>1. S \subseteq DOMAIN f
      OBVIOUS
    <3> QED
      BY <3>1, FS_Subset
  <2>2. c \in [S -> T]
    OBVIOUS
  <2>3. \A x, y \in S : c[x] = c[y] => x = y
    OBVIOUS
  <2>4. \A z \in T : \E x \in S : c[x] = z
    OBVIOUS
  <2> HIDE DEF S, T, c
  <2>5. Cardinality(T) = Cardinality(S)
    BY ONLY <2>1, <2>2, <2>3, <2>4, SameCardinality
  <2> QED
    BY <2>5 DEF S, T
<1> QED
  BY <1>1, <1>2 DEF Histogram

(* A state of all rows gives the statistic of the numbers of every group.  *)
LEMMA FinalIs ==
  ASSUME NEW R, Grouped(R), NEW s, OKept(R, s, DOMAIN R), NEW C, C = {GroupOf(R, i) : i \in DOMAIN R}
  PROVE  /\ s.groupValues = << >> <=> DOMAIN R = {}
         /\ one_way_anova_final(s) =
              IF DOMAIN R = {} THEN Null
              ELSE Histogram([g \in C |-> MomOf(R, GroupIn(R, DOMAIN R, g))])
<1> DEFINE g == s.groupValues
           p == s.posToIndices
           m == s.moments
           n == Len(g)
           N == NumbersOf(R, DOMAIN R)
           h == [x \in C |-> MomOf(R, GroupIn(R, DOMAIN R, x))]
           q == SubSeq(m, 1, n)
           f == [j \in 1..n |-> m[p[j]]]
<1>1. /\ OParts(g, p, m, n, N) /\ n \in Nat /\ DOMAIN g = 1..n
      /\ \A v : Holds(s, v) <=> \E k \in 1..n : g[k] = v
  BY KeptParts DEF OKept
<1>2. Ascending(g, n) /\ Indexed(p, n) /\ Furnished(m, g, p, n, N)
  BY <1>1 DEF OParts
<1>3. \A k \in 1..n : g[k] \in 0..Top - 1
  BY <1>2, AscendingFits
<1>4. C \subseteq 0..Top - 1
  BY GroupFits
<1>5. \A x \in 0..Top - 1 : Holds(s, x) <=> x \in C
  BY DEF OKept, GroupIn
<1>6. \A k \in 1..n : g[k] \in C
  BY <1>1, <1>3, <1>5
<1>7. \A x \in C : \E k \in 1..n : g[k] = x
  BY <1>1, <1>4, <1>5
<1>8. \A x \in C : N[x] = h[x]
  BY <1>4 DEF NumbersOf
<1>9. g = << >> <=> DOMAIN R = {}
  <2>1. g = << >> <=> n = 0
    <3>1. g \in Seq(0..Top - 1)
      BY <1>2 DEF Ascending
    <3> QED
      BY <3>1, EmptySeq
  <2>2. C = {} <=> DOMAIN R = {}
    OBVIOUS
  <2>3. n = 0 <=> C = {}
    <3>1. n # 0 => 1 \in 1..n
      BY <1>1
    <3> QED
      BY <1>6, <1>7, <3>1
  <2> QED
    BY <2>1, <2>2, <2>3
<1>10. one_way_anova_final(s) = IF g = << >> THEN Null ELSE Histogram(q)
  BY Zenon DEF one_way_anova_final, Histogram
<1> HIDE DEF g, p, m, n, N, h
<1>11. \A k \in 1..n : p[k] \in 1..n
  BY <1>2, IndexesAre
<1>12. DOMAIN q = 1..n /\ \A k \in 1..n : q[k] = m[k]
  <2> DEFINE T == {m[k] : k \in 1..n}
  <2>1. \A k \in 1..n : m[k] \in T
    OBVIOUS
  <2> HIDE DEF T
  <2>2. q \in Seq(T) /\ Len(q) = n /\ \A k \in 1..n : q[k] = m[k]
    BY <1>1, <2>1, SubSeqProperties
  <2> HIDE DEF q
  <2> QED
    BY <2>2
<1>13. DOMAIN f = 1..n /\ IsFiniteSet(1..n) /\ DOMAIN h = C
  BY <1>1, FS_Interval DEF h
<1>14. Histogram(f) = Histogram(q)
  <2> DEFINE b == [j \in 1..n |-> p[j]]
  <2>1. b \in [1..n -> 1..n]
    BY <1>11
  <2>2. \A x, y \in 1..n : b[x] = b[y] => x = y
    BY <1>2 DEF Indexed
  <2>3. \A z \in 1..n : \E x \in 1..n : b[x] = z
    BY <1>2 DEF Indexed
  <2>4. \A x \in 1..n : q[b[x]] = f[x]
    BY <1>11, <1>12
  <2> DEFINE D == 1..n
  <2>5. /\ b \in [D -> D] /\ (\A x, y \in D : b[x] = b[y] => x = y)
        /\ (\A z \in D : \E x \in D : b[x] = z) /\ (\A x \in D : q[b[x]] = f[x])
        /\ IsFiniteSet(D) /\ DOMAIN f = D /\ DOMAIN q = D
    BY <1>12, <1>13, <2>1, <2>2, <2>3, <2>4
  <2> HIDE DEF b, f, q, D
  <2> QED
    BY ONLY <2>5, HistogramsAgree
<1>15. Histogram(f) = Histogram(h)
  <2> DEFINE b == [j \in 1..n |-> g[j]]
  <2>1. b \in [1..n -> C]
    BY <1>6
  <2>2. \A x, y \in 1..n : b[x] = b[y] => x = y
    <3> SUFFICES ASSUME NEW x \in 1..n, NEW y \in 1..n, x # y PROVE g[x] # g[y]
      OBVIOUS
    <3>1. g[x] \in 0..Top - 1 /\ g[y] \in 0..Top - 1
      BY <1>3
    <3>2. x < y \/ y < x
      BY <1>1
    <3>3. g[x] < g[y] \/ g[y] < g[x]
      BY <1>2, <3>2 DEF Ascending
    <3> QED
      BY <3>1, <3>3, TopIs
  <2>3. \A z \in C : \E x \in 1..n : b[x] = z
    BY <1>7
  <2>4. \A x \in 1..n : h[b[x]] = f[x]
    BY <1>2, <1>6, <1>8 DEF Furnished
  <2> DEFINE D == 1..n
  <2>5. /\ b \in [D -> C] /\ (\A x, y \in D : b[x] = b[y] => x = y)
        /\ (\A z \in C : \E x \in D : b[x] = z) /\ (\A x \in D : h[b[x]] = f[x])
        /\ IsFiniteSet(D) /\ DOMAIN f = D /\ DOMAIN h = C
    BY <1>13, <2>1, <2>2, <2>3, <2>4
  <2> HIDE DEF b, f, q, D
  <2> QED
    BY ONLY <2>5, HistogramsAgree
<1> QED
  BY <1>9, <1>10, <1>14, <1>15 DEF g, h

\* The statistic of the numbers of every group.
AnovaOf(R) ==
  IF DOMAIN R = {} THEN Null
  ELSE Histogram([g \in {GroupOf(R, i) : i \in DOMAIN R} |-> MomOf(R, GroupIn(R, DOMAIN R, g))])

\* Where rows are spread, every segment met its groups in order.
GoodOrder(R) == job.spread => \A s \in 1..Segments : InOrderOf(R, KeptBy(s))

\* Every segment has the numbers of the groups of its rows, in place where it met them in
\* order; where all did, the merged state and what is returned have those of all.
OStates(R) ==
  /\ \A s \in waiting : /\ OKept(R, state[s], KeptBy(s))
                        /\ InOrderOf(R, KeptBy(s)) => Straight(state[s])
  /\ GoodOrder(R) => OKept(R, state[0], KeptBy(0))
OReturned(R) == GoodOrder(R) /\ result # Pending => result = AnovaOf(R)
OInv == job.test = "one_way_anova" => OStates(job.rows) /\ OReturned(job.rows)

(* Rows of an analysis of variance.                                        *)
LEMMA OJobs ==
  ASSUME ScanInv, job.test = "one_way_anova"
  PROVE  Grouped(job.rows) /\ job.test \in Tests \ Optimizers /\ job.test \notin TTests
<1>1. job.test \in Tests \ Optimizers /\ job.test \notin TTests
  BY DEF Tests, Optimizers, TTests
<1>2. JobOf(job.test)
  BY <1>1 DEF ScanInv
<1>3. PICK R : R = job.rows
  OBVIOUS
<1>4. R \in Seq(Row("one_way_anova")) /\ ScaleServes(R)
  BY <1>2, <1>3, JobsAre, ScaleOfJobs DEF JobOf
<1>5. Row("one_way_anova") = [group: Int, value: Int]
  BY DEF Row, TTests, Optimizers
<1> DEFINE T == [group: Int, value: Int]
<1>6. \A e \in T : e.value \in Int /\ e.group \in Int
  OBVIOUS
<1> HIDE DEF T
<1>7. R \in Seq(T)
  BY <1>4, <1>5 DEF T
<1>8. Len(R) \in Nat /\ DOMAIN R = 1..Len(R) /\ \A k \in DOMAIN R : R[k] \in T
  BY <1>7
<1>9. Grouped(R)
  BY <1>4, <1>6, <1>8 DEF Grouped, Samples
<1> QED
  BY <1>1, <1>3, <1>9

(* A state is no mark of an exception.                                     *)
LEMMA OUnmarked ==
  ASSUME MarksAreNoRecords, NEW s, NEW N, OKeeps(s, N)
  PROVE  s # Exception
<1>1. "groupValues" \notin DOMAIN Exception
  BY DEF MarksAreNoRecords
<1>2. s = OState(s.groupValues, s.posToIndices, s.moments)
  BY DEF OKeeps
<1>3. "groupValues" \in DOMAIN s
  BY <1>2 DEF OState
<1> QED
  BY <1>1, <1>3

(* All states are those of no rows at first.                               *)
LEMMA OInit == Init \/ NoQuery => OInv
<1>1. NoQuery => OInv
  <2>1. "one_way_anova" \in Tests
    BY DEF Tests
  <2> QED
    BY <2>1, NoQueryScans DEF OInv
<1>2. ASSUME Init, job.test = "one_way_anova" PROVE OInv
  <2>1. job.test \in Tests
    BY <1>2 DEF Tests
  <2>2. Initial(job.test) = OWAState
    BY <1>2 DEF Initial, TTests, Optimizers
  <2>3. /\ result = Pending
        /\ \A s \in {0} \cup waiting : state[s] = OWAState /\ KeptBy(s) = {}
    BY <1>2, <2>1, <2>2, ScanStarts
  <2>4. \A s \in {0} \cup waiting : OKept(job.rows, state[s], KeptBy(s)) /\ Straight(state[s])
    BY <2>3, KeepsNone
  <2> QED
    BY <2>3, <2>4 DEF OInv, OStates, OReturned
<1> QED
  BY <1>1, <1>2 DEF OInv

(* What changes nothing of the scan keeps its states.                      *)
LEMMA OStay ==
  ASSUME NEW R, OStates(R), job' = job, placed' = placed, state' = state, waiting' = waiting
  PROVE  OStates(R)' /\ (GoodOrder(R)' <=> GoodOrder(R))
<1>1. \A s : KeptBy(s)' = KeptBy(s)
  BY DEF KeptBy
<1>2. GoodOrder(R)' <=> GoodOrder(R)
  BY <1>1 DEF GoodOrder
<1> QED
  BY <1>1, <1>2 DEF OStates

(* A row that a segment reads keeps every state that of its rows.          *)
LEMMA OReads ==
  ASSUME MarksAreNoRecords, ScanInv, job.test = "one_way_anova", NEW R, R = job.rows,
         OStates(R), NEW s \in 0..Segments, Read(s)
  PROVE  OStates(R)' /\ result' = result
<1>1. Grouped(R) /\ job.test \in Tests \ Optimizers /\ job.test \notin TTests
  BY OJobs
<1> DEFINE n == Len(placed')
           I == KeptBy(s)
           value == Transition(job.test, state[s], job.rows[n], n)
<1>2. /\ job' = job /\ waiting' = waiting /\ n = Len(placed) + 1 /\ n \in DOMAIN R
      /\ Becomes(s, value) /\ KeptBy(s)' = I \cup {n} /\ n \notin I
      /\ \A t \in {0} \cup waiting : t # s => KeptBy(t)' = KeptBy(t)
  BY ReadPlaces
<1>3. \A t : KeptBy(t) \subseteq DOMAIN R
  BY <1>1, KeptAreRows
<1>4. \A i \in I : i < n
  <2>1. DOMAIN placed = 1..Len(placed) /\ Len(placed) \in Nat
    BY DEF ScanInv
  <2> QED
    BY <1>2, <2>1 DEF KeptBy
<1>5. IF job.spread THEN s \in waiting /\ waiting = 1..Segments /\ s # 0
      ELSE s = 0 /\ waiting = {}
  BY <1>1, ConstantsAre DEF Read, ScanInv, Places
<1>6. {0} \cup waiting \subseteq 0..Segments
  BY ConstantsAre DEF ScanInv, Places
<1>7. value = one_way_anova_transition(state[s], R[n])
  BY DEF Transition, TTests, Optimizers
<1>8. PICK u, v : u = state[s] /\ v = value
  OBVIOUS
<1> HIDE DEF n, I, value
<1>9. I \in SUBSET DOMAIN R
  BY <1>3 DEF I
<1>10. OKept(R, u, I) => /\ OKept(R, v, I \cup {n})
                         /\ (InOrderOf(R, I) => Straight(u)) /\ InOrderOf(R, I \cup {n}) => Straight(v)
  <2>1. v = one_way_anova_transition(u, R[n])
    BY <1>7, <1>8
  <2>2. n \in DOMAIN R /\ n \notin I
    BY <1>2
  <2> QED
    BY <1>1, <1>4, <1>9, <2>1, <2>2, ReadKeeps
<1>11. InOrderOf(R, I \cup {n}) => InOrderOf(R, I)
  BY <1>1, <1>2, <1>4, <1>9, OrderOfFirst
<1>12. OKept(R, u, I)
  <2>1. CASE job.spread
    BY <1>5, <1>8, <2>1 DEF OStates, I
  <2>2. CASE ~job.spread
    BY <1>5, <1>8, <2>2 DEF OStates, GoodOrder, I
  <2> QED
    BY <2>1, <2>2
<1>13. v # Exception
  BY <1>10, <1>12, OUnmarked DEF OKept
<1>14. /\ result' = result /\ state'[s] = v
       /\ \A t \in 0..Segments : t # s => state'[t] = state[t]
  <2>1. Becomes(s, v)
    BY <1>2, <1>8
  <2> QED
    BY <1>1, <1>13, <2>1, Changes
<1>15. ASSUME NEW t \in waiting
       PROVE  /\ OKept(R, state'[t], KeptBy(t)')
              /\ InOrderOf(R, KeptBy(t)') => Straight(state'[t])
  <2>1. CASE t = s
    <3>1. InOrderOf(R, I) => Straight(u)
      BY <1>8, <1>15, <2>1 DEF OStates, I
    <3>2. KeptBy(t)' = I \cup {n} /\ state'[t] = v
      BY <1>2, <1>14, <2>1
    <3> QED
      BY <1>10, <1>11, <1>12, <3>1, <3>2
  <2>2. CASE t # s
    <3>1. KeptBy(t)' = KeptBy(t) /\ state'[t] = state[t]
      BY <1>2, <1>6, <1>14, <2>2
    <3> QED
      BY <3>1 DEF OStates
  <2> QED
    BY <2>1, <2>2
<1>16. GoodOrder(R)' => OKept(R, state'[0], KeptBy(0)')
  <2>1. CASE job.spread
    <3>1. KeptBy(0)' = KeptBy(0) /\ state'[0] = state[0]
      BY <1>2, <1>5, <1>6, <1>14, <2>1
    <3>2. ASSUME NEW t \in 1..Segments, InOrderOf(R, KeptBy(t)') PROVE InOrderOf(R, KeptBy(t))
      <4>1. CASE t = s
        <5>1. KeptBy(t)' = I \cup {n} /\ KeptBy(t) = I
          BY <1>2, <4>1 DEF I
        <5> QED
          BY <1>11, <3>2, <5>1
      <4>2. CASE t # s
        BY <1>2, <1>5, <2>1, <3>2, <4>2
      <4> QED
        BY <4>1, <4>2
    <3>3. GoodOrder(R)' => GoodOrder(R)
      BY <1>2, <2>1, <3>2 DEF GoodOrder
    <3> QED
      BY <3>1, <3>3 DEF OStates
  <2>2. CASE ~job.spread
    <3>1. KeptBy(0)' = I \cup {n} /\ state'[0] = v
      BY <1>2, <1>5, <1>14, <2>2
    <3> QED
      BY <1>10, <1>12, <3>1
  <2> QED
    BY <2>1, <2>2
<1>17. OStates(R)'
  BY <1>2, <1>15, <1>16 DEF OStates
<1> QED
  BY <1>14, <1>17

(* A segment that is merged adds its rows to the merged state, where it    *)
(* met its groups in order.                                                *)
LEMMA OMerges ==
  ASSUME MarksAreNoRecords, ScanInv, job.test = "one_way_anova", NEW R, R = job.rows,
         OStates(R), NEW s \in 0..Segments, MergeStates(s), OSound(state[0]), OSound(state[s])
  PROVE  OStates(R)' /\ result' = result
<1>1. Grouped(R) /\ job.test \in Tests \ Optimizers /\ job.test \notin TTests
  BY OJobs
<1> DEFINE I == KeptBy(0)
           J == KeptBy(s)
           value == Merge(job.test, state[0], state[s])
<1>2. /\ job' = job /\ s \in waiting /\ waiting' = waiting \ {s} /\ s # 0
      /\ Becomes(0, value) /\ KeptBy(0)' = I \cup J /\ I \cap J = {}
      /\ \A t \in waiting : KeptBy(t)' = KeptBy(t)
  BY MergePlaces
<1>3. I \in SUBSET DOMAIN R /\ J \in SUBSET DOMAIN R
  BY <1>1, KeptAreRows
<1>4. job.spread /\ s \in 1..Segments /\ waiting \subseteq 1..Segments
  BY <1>2 DEF ScanInv, Places
<1>5. value = one_way_anova_merge_states(state[0], state[s])
  BY DEF Merge, TTests, Optimizers
<1>6. PICK a, b, v : a = state[0] /\ b = state[s] /\ v = value
  OBVIOUS
<1> HIDE DEF value
<1>7. v = one_way_anova_merge_states(a, b) /\ OSound(a) /\ OSound(b)
  BY <1>5, <1>6
<1>8. v # Exception
  BY <1>7, OMergeSound, OUnmarked DEF OSound
<1>9. 0 \in 0..Segments
  BY ConstantsAre
<1>10. /\ result' = result /\ state'[0] = v
       /\ \A t \in 0..Segments : t # 0 => state'[t] = state[t]
  <2>1. Becomes(0, v)
    BY <1>2, <1>6
  <2> QED
    BY <1>1, <1>8, <1>9, <2>1, Changes
<1>11. ASSUME NEW t \in waiting'
       PROVE  /\ OKept(R, state'[t], KeptBy(t)')
              /\ InOrderOf(R, KeptBy(t)') => Straight(state'[t])
  <2>1. t \in waiting /\ t \in 0..Segments /\ t # 0
    BY <1>2, <1>4, ConstantsAre
  <2>2. KeptBy(t)' = KeptBy(t) /\ state'[t] = state[t]
    BY <1>2, <1>10, <2>1
  <2> QED
    BY <2>1, <2>2 DEF OStates
<1>12. GoodOrder(R)' => GoodOrder(R)
  <2>1. placed' = placed
    BY DEF MergeStates
  <2>2. \A t \in 1..Segments : KeptBy(t)' = KeptBy(t)
    BY <2>1 DEF KeptBy
  <2> QED
    BY <1>2, <2>2 DEF GoodOrder
<1>13. GoodOrder(R) => OKept(R, v, I \cup J)
  <2> SUFFICES ASSUME GoodOrder(R) PROVE OKept(R, v, I \cup J)
    OBVIOUS
  <2>1. OKept(R, a, I) /\ OKept(R, b, J) /\ Straight(b)
    BY <1>2, <1>4, <1>6 DEF OStates, GoodOrder
  <2> HIDE DEF I, J
  <2> QED
    BY <1>1, <1>2, <1>3, <1>7, <2>1, MergeKeeps
<1>14. OStates(R)'
  BY <1>2, <1>10, <1>11, <1>12, <1>13 DEF OStates
<1> QED
  BY <1>10, <1>14

(* A state of all rows gives what the property says.                       *)
LEMMA OFinishes ==
  ASSUME ScanInv, job.test = "one_way_anova", NEW R, R = job.rows, OStates(R), Finish
  PROVE  OStates(R)' /\ OReturned(R)'
<1>1. Grouped(R) /\ job.test \in Tests \ Optimizers
  BY OJobs
<1>2. /\ AllRead /\ waiting = {} /\ result' = Final(job.test, state[0])
      /\ UNCHANGED <<job, placed, state, waiting>>
  BY FinishReturns
<1>3. KeptBy(0) = DOMAIN R
  BY <1>1, <1>2, KeptInTheEnd
<1>4. PICK s : s = state[0]
  OBVIOUS
<1>5. result' = one_way_anova_final(s)
  BY <1>2, <1>4 DEF Final, TTests
<1>6. GoodOrder(R) => OKept(R, s, DOMAIN R)
  BY <1>3, <1>4 DEF OStates
<1>7. GoodOrder(R) => result' = AnovaOf(R)
  <2> SUFFICES ASSUME GoodOrder(R) PROVE one_way_anova_final(s) = AnovaOf(R)
    BY <1>5
  <2> DEFINE C == {GroupOf(R, i) : i \in DOMAIN R}
  <2>1. AnovaOf(R) = IF DOMAIN R = {} THEN Null
                     ELSE Histogram([g \in C |-> MomOf(R, GroupIn(R, DOMAIN R, g))])
    BY Zenon DEF AnovaOf
  <2>2. PICK D : D = {GroupOf(R, i) : i \in DOMAIN R}
    OBVIOUS
  <2>3. OKept(R, s, DOMAIN R)
    BY <1>6
  <2>4. one_way_anova_final(s) = IF DOMAIN R = {} THEN Null
                     ELSE Histogram([g \in D |-> MomOf(R, GroupIn(R, DOMAIN R, g))])
    BY ONLY <1>1, <2>2, <2>3, FinalIs, Zenon
  <2>5. C = D
    BY <2>2
  <2> HIDE DEF C
  <2> QED
    BY <2>1, <2>4, <2>5
<1>8. OStates(R)' /\ (GoodOrder(R)' <=> GoodOrder(R))
  BY <1>2, OStay
<1> QED
  BY <1>7, <1>8 DEF OReturned

(* Every step of the query keeps the numbers of the groups.                *)
LEMMA ONext ==
  ASSUME MarksAreNoRecords, ScanInv, TypesInv, OInv, [Next]_vars
  PROVE  OInv'
<1>1. CASE UNCHANGED vars
  <2>1. /\ UNCHANGED <<job, placed, state, waiting, result>>
    BY <1>1 DEF vars
  <2> SUFFICES ASSUME job'.test = "one_way_anova" PROVE OStates(job.rows)' /\ OReturned(job.rows)'
    BY DEF OInv
  <2>2. PICK R : R = job.rows
    OBVIOUS
  <2>3. OStates(R) /\ OReturned(R)
    BY <2>1, <2>2 DEF OInv
  <2>4. OStates(R)' /\ (GoodOrder(R)' <=> GoodOrder(R))
    BY <2>1, <2>3, OStay
  <2>5. OReturned(R)'
    BY <2>1, <2>3, <2>4 DEF OReturned
  <2> QED
    BY <2>1, <2>2, <2>4, <2>5
<1>2. CASE Next
  <2>1. job' = job
    BY <1>2, ScanNext
  <2> SUFFICES ASSUME job.test = "one_way_anova" PROVE OStates(job.rows)' /\ OReturned(job.rows)'
    BY <2>1 DEF OInv
  <2>2. PICK R : R = job.rows
    OBVIOUS
  <2>3. OStates(R)
    BY <2>2 DEF OInv
  <2>4. job.test \in Tests \ Optimizers
    BY OJobs
  <2>5. /\ result = Pending
        /\ Finish \/ \E s \in 0..Segments : Read(s) \/ MergeStates(s)
    BY <1>2, <2>4, StepsOfAScan
  <2>6. ASSUME NEW s \in 0..Segments, MergeStates(s) PROVE OStates(R)' /\ result' = result
    <3>1. OSound(state[0]) /\ OSound(state[s])
      BY <2>4, ConstantsAre DEF TypesInv, Typed
    <3> QED
      BY <2>2, <2>3, <2>6, <3>1, OMerges
  <2>7. OStates(R)' /\ (result' = Pending \/ OReturned(R)')
    BY <2>2, <2>3, <2>5, <2>6, OReads, OFinishes
  <2>8. OReturned(R)'
    BY <2>7 DEF OReturned
  <2> QED
    BY <2>1, <2>2, <2>7, <2>8
<1> QED
  BY <1>1, <1>2

(* What is returned is what the property says.                             *)
LEMMA OAnswered ==
  ASSUME ScanInv, OInv
  PROVE  AnovaOfOrderedGroups
<1> SUFFICES ASSUME Ended({"one_way_anova"}), job.spread => \A s \in 1..Segments : MetInOrder(s)
             PROVE  result = AnovaOfRows
  BY DEF AnovaOfOrderedGroups
<1>1. job.test = "one_way_anova" /\ result # Pending
  BY DEF Ended
<1>2. Grouped(rows) /\ Samples(rows)
  BY <1>1, OJobs DEF rows, Grouped
<1>3. \A i : Group(i) = GroupOf(rows, i)
  BY DEF Group, GroupOf, Top
<1>4. ASSUME NEW s \in 1..Segments, MetInOrder(s)
      PROVE  InOrderOf(rows, KeptBy(s))
  <2>1. s # 0 /\ DOMAIN placed = 1..Len(placed) /\ Len(placed) \in Nat
    BY DEF ScanInv
  <2>2. KeptBy(s) = {k \in DOMAIN placed : placed[k] = s}
    BY <2>1 DEF KeptBy
  <2> SUFFICES ASSUME NEW i \in KeptBy(s), NEW j \in KeptBy(s), i < j,
                      GroupOf(rows, i) > GroupOf(rows, j)
               PROVE  \E k \in KeptBy(s) : k <= i /\ GroupOf(rows, k) = GroupOf(rows, j)
    BY DEF InOrderOf
  <2>3. PICK k \in 1..i : placed[k] = s /\ Group(k) = Group(j)
    BY <1>3, <1>4, <2>2 DEF MetInOrder
  <2> QED
    BY <1>3, <2>1, <2>2, <2>3
<1>5. GoodOrder(rows)
  BY <1>4 DEF GoodOrder
<1>6. result = AnovaOf(rows)
  BY <1>1, <1>5 DEF OInv, OReturned, rows
<1> DEFINE groups == {Group(i) : i \in DOMAIN rows}
           M(g) == Moments(ValuesAt({i \in DOMAIN rows : Group(i) = g}))
           h == [g \in groups |-> M(g)]
<1>7. groups = {GroupOf(rows, i) : i \in DOMAIN rows}
  BY <1>3
<1>8. \A g : M(g) = MomOf(rows, GroupIn(rows, DOMAIN rows, g))
  <2> SUFFICES ASSUME NEW g PROVE M(g) = MomOf(rows, GroupIn(rows, DOMAIN rows, g))
    OBVIOUS
  <2>1. {i \in DOMAIN rows : Group(i) = g} = GroupIn(rows, DOMAIN rows, g)
    BY <1>3 DEF GroupIn
  <2>2. GroupIn(rows, DOMAIN rows, g) \in SUBSET DOMAIN rows
    BY DEF GroupIn
  <2> QED
    BY <1>2, <2>1, <2>2, MomentsAre
<1>9. AnovaOfRows = IF rows = << >> THEN Null
        ELSE [m \in {M(g) : g \in groups} |-> Cardinality({g \in groups : M(g) = m})]
  BY Zenon DEF AnovaOfRows
<1> HIDE DEF M, groups
<1>10. Range(h) = {M(g) : g \in groups}
       /\ \A m : {k \in DOMAIN h : h[k] = m} = {g \in groups : M(g) = m}
  BY DEF Range
<1>11. Histogram(h) = [m \in {M(g) : g \in groups} |-> Cardinality({g \in groups : M(g) = m})]
  BY <1>10 DEF Histogram
<1>12. h = [g \in {GroupOf(rows, i) : i \in DOMAIN rows} |->
              MomOf(rows, GroupIn(rows, DOMAIN rows, g))]
  BY <1>7, <1>8
<1>13. rows = << >> <=> DOMAIN rows = {}
  <2>1. rows \in Seq(Row("one_way_anova"))
    BY <1>1, OJobs, JobsAre DEF ScanInv, JobOf, rows
  <2> QED
    BY <2>1
<1> HIDE DEF h
<1> QED
  BY <1>6, <1>9, <1>11, <1>12, <1>13 DEF AnovaOf

(* one_way_anova.cpp: without a merge, or where every segment met its      *)
(* groups in ascending order, what is returned is the statistic of the     *)
(* numbers of every group over all rows, whatever groups are inserted      *)
(* where, however often the room for them grows, and however the rows are  *)
(* spread and their states merged.                                         *)
THEOREM AnovaOfGroups ==
  ASSUME MarksAreNoRecords
  PROVE  SessionSpec => []AnovaOfOrderedGroups
<1>1. SessionInit => OInv /\ TypesInv
  BY SessionStarts, OInit, TypesInit
<1>2. ScanInv /\ TypesInv /\ OInv /\ [Next]_vars => OInv' /\ TypesInv'
  BY ONext, TypesNext
<1>3. ScanInv /\ OInv => AnovaOfOrderedGroups
  BY OAnswered
<1> QED
  BY <1>1, <1>2, <1>3, SessionScans, PTL DEF SessionSpec
=============================================================================
