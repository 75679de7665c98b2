------------------------------ MODULE Queries -------------------------------
(***************************************************************************)
(* One query that calls an aggregate of HypothesisTests or Regression, the *)
(* driver of logistic regression (logistic.py_in), which calls one per     *)
(* iteration, or a function of ArrayOps.                                   *)
(*                                                                         *)
(* Greenplum spreads the rows over segments, each with a state of its own, *)
(* and merges these into one that starts from the initial state; what      *)
(* PostgreSQL and ordered aggregates do has no segments.                   *)
(***************************************************************************)
EXTENDS HypothesisTests, Regression, ArrayOps

CONSTANTS
  Jobs,       \* of every test: the sequences of rows it is called with
  Calls,      \* of every function of arrays: the sequences of its arguments
  Segments,   \* the number of segments
  Limits,     \* values of maxNumIterations
  Pending,    \* the result until there is one
  Horizon     \* bound of the instance: iterations

TTests == {"t_test_one", "t_test_two_pooled", "t_test_two_unpooled", "f_test"}
Ordered == {"ks_test", "mw_test", "wsr_test"}
Optimizers == {"cg", "irls", "igd"}
Tests == TTests \cup Ordered \cup Optimizers \cup {"one_way_anova", "chi2_gof_test", "linregr"}

\* The rows of a table that each is called with.  Rows of the logistic regression
\* stand for themselves; of chi2_gof_test, those whose quotients have no remainder.
Sampled == [first: BOOLEAN, value: Int]
Row(test) ==
  CASE test \in TTests \cup {"mw_test"} -> Sampled
    [] test = "one_way_anova" -> [group: Int, value: Int]
    [] test = "chi2_gof_test" ->
         {r \in [observed: Int, expected: {Null} \cup (Nat \ {0}), df: {Null} \cup Int] :
            r.expected # Null => Square(r.observed) % r.expected = 0}
    [] test = "ks_test" -> [first: BOOLEAN, value: Int, expectedNum: Nat \X Nat]
    [] test = "wsr_test" -> [value: Int, precision: {Null} \cup Int]
    [] test = "linregr" -> [y: {NotFinite} \cup Int, x: Seq({NotFinite} \cup Int)]
    [] test \in Optimizers -> {TRUE, NotFinite}

\* The arguments of the functions of arrays; both arrays of two have one type.
Array(type) ==
  [type: {type}, lb: Int,
   elements: Seq({Null} \cup
     (IF type = "int2" THEN -TwoTo[IntBits - 1]..TwoTo[IntBits - 1] - 1 ELSE Int))]
Aggregates == {"array_sum", "array_min", "array_max", "array_mean", "array_stddev"}
Scalings == {"array_fill", "array_scalar_mult"}
Pairwise == {"array_dot", "array_contains", "array_add", "array_sub", "array_mult", "array_div"}
Arguments(function, type) ==
  LET v == {Null} \cup Array(type)
  IN IF function \in Aggregates THEN {args \in Seq(v) : Len(args) = 1}
     ELSE IF function \in Scalings THEN v \X ({Null} \cup Int) ELSE v \X v

\* The divisions of updateCorrectedSumOfSquares and of the average of models have no
\* remainder either; the mean of integers is not that of doubles.
QueriesAssumption ==
  /\ Segments \in Nat /\ Horizon \in Nat \ {0} /\ Limits \subseteq Int /\ MaxWidth \in Nat
  /\ IntBits \in Nat \ {0} /\ {Null, NotFinite, Exception, Pending} \cap Int = {}
  /\ Exception # Null /\ Pending \notin {Null, Exception}
  /\ DOMAIN Jobs \subseteq Tests /\ DOMAIN Calls \subseteq Aggregates \cup Scalings \cup Pairwise
  /\ \A t \in DOMAIN Jobs : Jobs[t] \subseteq Seq(Row(t))
  /\ \A f \in DOMAIN Calls : \A args \in Calls[f] :
       \/ args \in Arguments(f, "float8")
       \/ f \notin {"array_mean", "array_stddev"} /\ args \in Arguments(f, "int2")
  /\ \A t \in DOMAIN Jobs : \A rows \in Jobs[t] : \A l, r \in 1..Len(rows) :
       l + r <= Len(rows) => Scale % (l * r * (l + r)) = 0 /\ Share % (l + r) = 0
ASSUME QueriesAssumption

VARIABLES
  job,         \* what is called, on what
  placed,      \* the rows that were read, by the segment of each; 0 without
  state,       \* the state of every segment, and at 0 the merged one
  waiting,     \* the segments that are not merged yet
  iteration,
  previous,    \* the state that the last iteration left, in the driver's table
  result
vars == <<job, placed, state, waiting, iteration, previous, result>>

-----------------------------------------------------------------------------
Initial(test) ==
  CASE test \in TTests -> TTestState
    [] test = "one_way_anova" -> OWAState
    [] test = "chi2_gof_test" -> Chi2State
    [] test = "ks_test" -> KSState
    [] test = "mw_test" -> MWState
    [] test = "wsr_test" -> WSRState
    [] test = "linregr" -> LinRegrState
    [] test = "cg" -> LogRegrCGState
    [] test = "irls" -> LogRegrIRLSState
    [] test = "igd" -> LogRegrIGDState

Transition(test, s, row, number) ==
  CASE test = "t_test_one" -> t_test_one_transition(s, row)
    [] test \in TTests \ {"t_test_one"} -> t_test_two_transition(s, row)
    [] test = "one_way_anova" -> one_way_anova_transition(s, row)
    [] test = "chi2_gof_test" -> chi2_gof_test_transition(s, row)
    [] test = "ks_test" -> ks_test_transition(s, row)
    [] test = "mw_test" -> mw_test_transition(s, row)
    [] test = "wsr_test" -> wsr_test_transition(s, row)
    [] test = "linregr" -> linregr_transition(s, row)
    [] test \in Optimizers /\ row = NotFinite -> Exception
    [] test = "cg" -> logregr_cg_step_transition(s, number, previous)
    [] test = "irls" -> logregr_irls_step_transition(s, number, previous)
    [] test = "igd" -> logregr_igd_step_transition(s, number, previous, iteration)

Merge(test, left, right) ==
  CASE test \in TTests -> t_test_merge_states(left, right)
    [] test = "one_way_anova" -> one_way_anova_merge_states(left, right)
    [] test = "chi2_gof_test" -> chi2_gof_test_merge_states(left, right)
    [] test = "linregr" -> linregr_merge_states(left, right)
    [] test = "cg" -> logregr_cg_step_merge_states(left, right)
    [] test = "irls" -> logregr_irls_step_merge_states(left, right)
    [] test = "igd" -> logregr_igd_step_merge_states(left, right)

Final(test, s) ==
  CASE test = "t_test_one" -> t_test_one_final(s)
    [] test = "t_test_two_pooled" -> t_test_two_pooled_final(s)
    [] test = "t_test_two_unpooled" -> t_test_two_unpooled_final(s)
    [] test = "f_test" -> f_test_final(s)
    [] test = "one_way_anova" -> one_way_anova_final(s)
    [] test = "chi2_gof_test" -> chi2_gof_test_final(s)
    [] test = "ks_test" -> ks_test_final(s)
    [] test = "mw_test" -> mw_test_final(s)
    [] test = "wsr_test" -> wsr_test_final(s)
    [] test = "linregr" -> linregr_final(s)

StepFinals(s) ==
  CASE job.test = "cg" -> logregr_cg_step_final(s, iteration)
    [] job.test = "irls" -> logregr_irls_step_final(s, iteration)
    [] job.test = "igd" -> {s}

ArrayCall(function, args) ==
  IF \E k \in DOMAIN args : args[k] = Null THEN Null
  ELSE CASE function = "array_sum" -> array_sum(args[1])
         [] function = "array_min" -> array_min(args[1])
         [] function = "array_max" -> array_max(args[1])
         [] function = "array_mean" -> array_mean(args[1])
         [] function = "array_stddev" -> array_stddev(args[1])
         [] function = "array_dot" -> array_dot(args[1], args[2])
         [] function = "array_contains" -> array_contains(args[1], args[2])
         [] function \in {"array_fill", "array_scalar_mult"} ->
              General_Array_to_Array(function, args[1], args[2])
         [] OTHER -> General_2Array_to_Array(function, args[1], args[2])

-----------------------------------------------------------------------------
\* A scan of the rows begins.
Places(spread) == IF spread THEN 1..Segments ELSE {}
Fresh(test) == [s \in 0..Segments |-> Initial(test)]

\* A negative precision switches the test for convergence off.
Init ==
  /\ \/ \E t \in DOMAIN Jobs : \E rows \in Jobs[t] :
          \E spread \in IF t \in Ordered THEN {FALSE} ELSE BOOLEAN :
            \E limit \in IF t \in Optimizers THEN Limits ELSE {1},
               converges \in IF t \in Optimizers THEN BOOLEAN ELSE {FALSE} :
              /\ job = [test |-> t, rows |-> rows, spread |-> spread,
                        limit |-> limit, converges |-> converges]
              /\ state = Fresh(t) /\ waiting = Places(spread)
     \/ \E f \in DOMAIN Calls : \E args \in Calls[f] :
          /\ job = [test |-> f, rows |-> args, spread |-> FALSE]
          /\ state = << >> /\ waiting = {}
  /\ placed = << >> /\ iteration = 1 /\ previous = Null /\ result = Pending

Running == result = Pending /\ job.test \in Tests /\ job.limit >= 1
AllRead == Len(placed) = Len(job.rows)
Returns(value) == result' = value /\ UNCHANGED <<job, placed, state, waiting, iteration, previous>>

Becomes(s, value) ==
  IF value = Exception THEN result' = Exception /\ UNCHANGED state
  ELSE state' = [state EXCEPT ![s] = value] /\ UNCHANGED result

\* compute_logregr.
Reject == result = Pending /\ job.test \in Optimizers /\ job.limit < 1 /\ Returns(Exception)

Call == result = Pending /\ job.test \notin Tests /\ Returns(ArrayCall(job.test, job.rows))

Read(s) ==
  /\ Running /\ ~AllRead
  /\ s \in IF job.spread THEN 1..Segments ELSE {0}
  /\ placed' = Append(placed, s)
  /\ Becomes(s, Transition(job.test, state[s], job.rows[Len(placed')], Len(placed')))
  /\ UNCHANGED <<job, waiting, iteration, previous>>

MergeStates(s) ==
  /\ Running /\ AllRead /\ s \in waiting
  /\ waiting' = waiting \ {s}
  /\ Becomes(0, Merge(job.test, state[0], state[s]))
  /\ UNCHANGED <<job, placed, iteration, previous>>

Finish ==
  /\ Running /\ AllRead /\ waiting = {} /\ job.test \notin Optimizers
  /\ Returns(Final(job.test, state[0]))

-----------------------------------------------------------------------------
\* Mutant: waits for the limit itself.
AtLimit_equal(n, limit) == n = limit
AtLimit(n, limit) == n >= limit

(* What __runIterativeAlg does with the state of an iteration: the first   *)
(* is never the last one, unless its state is NULL.                        *)
EndIteration(s) ==
  \/ /\ s \in {Null, Exception}
     /\ Returns(s)
  \/ /\ s \notin {Null, Exception} /\ iteration > 1
     /\ AtLimit(iteration, job.limit) \/ job.converges
     /\ previous' = s /\ result' = s
     /\ UNCHANGED <<job, placed, state, waiting, iteration>>
  \/ /\ s \notin {Null, Exception} /\ iteration < Horizon
     /\ iteration = 1 \/ ~AtLimit(iteration, job.limit)
     /\ previous' = s /\ iteration' = iteration + 1
     /\ placed' = << >> /\ state' = Fresh(job.test) /\ waiting' = Places(job.spread)
     /\ UNCHANGED <<job, result>>

Iterate ==
  /\ Running /\ AllRead /\ waiting = {} /\ job.test \in Optimizers
  /\ \E s \in StepFinals(state[0]) : EndIteration(s)

Next ==
  \/ Reject \/ Call \/ Finish \/ Iterate
  \/ \E s \in 0..Segments : Read(s) \/ MergeStates(s)

\* The database goes on with the scans that the driver asks for.
Driven == job.test \in Optimizers /\ Next
Spec == Init /\ [][Next]_vars /\ WF_vars(Driven)

-----------------------------------------------------------------------------
\* Properties.  What a query returns, from the rows alone.
rows == job.rows
Ended(tests) == job.test \in tests /\ result # Pending
ValuesAt(I) == [i \in I |-> rows[i].value]
Where(Test(_)) == {i \in DOMAIN rows : Test(rows[i])}
Field(s, F(_)) == TotalOf([i \in DOMAIN s |-> F(s[i])])
Constant(s, F(_)) == \A i, j \in DOMAIN s : F(s[i]) = F(s[j])

\* Count, sum and sum of squared deviations from the mean, by definition.
Moments(values) ==
  LET n == Cardinality(DOMAIN values)
      sum == TotalOf(values)
      squares == Field(values, Square)
  IN IF n = 0 THEN NoRows ELSE [n |-> n, sum |-> sum,
                                css |-> (Scale * (n * squares - Square(sum))) \div n]

(* Every state an aggregate passes on is well-formed: the numbers that     *)
(* OWATransitionState keeps (one_way_anova.cpp) have the room of a power   *)
(* of two, and posToIndices gives every sorted group a place of its own in *)
(* it; the transition states of the others have the type of their structs. *)
WellFormedOWA(s) ==
  LET n == Len(s.groupValues)
  IN /\ \A i \in 1..n - 1 : s.groupValues[i] < s.groupValues[i + 1]
     /\ Len(s.posToIndices) = n /\ {s.posToIndices[i] : i \in 1..n} = 1..n
     /\ Len(s.moments) = nextPowerOfTwo(n)

TypeOK ==
  /\ placed \in Seq(0..Segments) /\ waiting \subseteq 1..Segments
  /\ iteration \in 1..Horizon /\ Len(placed) <= Len(rows)
  /\ job.test = "one_way_anova" => \A s \in DOMAIN state : WellFormedOWA(state[s])
  /\ job.test \in Tests =>
       \A s \in DOMAIN state : DOMAIN state[s] = DOMAIN Initial(job.test)

(* t_test.cpp updates its sums of squares row by row and merges those of   *)
(* segments with a formula of the sums: the result is that of one pass     *)
(* over all rows however they were spread, and there is one when all the   *)
(* variances that the test divides by have a degree of freedom.            *)
TTestsAreOfRows ==
  Ended(TTests) =>
    LET oneSample == job.test = "t_test_one"
        x == Moments(ValuesAt(Where(LAMBDA r : oneSample \/ r.first)))
        y == Moments(ValuesAt(Where(LAMBDA r : ~(oneSample \/ r.first))))
        degrees == CASE job.test = "t_test_one" -> {x.n - 1}
                     [] job.test = "t_test_two_pooled" -> {x.n, y.n, x.n + y.n - 2}
                     [] OTHER -> {x.n - 1, y.n - 1}
    IN result = IF \A d \in degrees : d > 0 THEN [x |-> x, y |-> y] ELSE Null

\* Whether a segment met its groups in ascending order.
Group(i) == rows[i].group % TwoTo[GroupBits]
MetInOrder(s) ==
  \A i, j \in DOMAIN placed :
    i < j /\ placed[i] = s /\ placed[j] = s /\ Group(i) > Group(j) =>
      \E k \in 1..i : placed[k] = s /\ Group(k) = Group(j)

AnovaOfRows ==
  LET groups == {Group(i) : i \in DOMAIN rows}
      M(g) == Moments(ValuesAt({i \in DOMAIN rows : Group(i) = g}))
  IN IF rows = << >> THEN Null
     ELSE [m \in {M(g) : g \in groups} |-> Cardinality({g \in groups : M(g) = m})]

(* one_way_anova.cpp:55-56 says the const idxOfGroup returns "the index    *)
(* (in the num, sum, and corrected_square_sum fields) of a group value":   *)
(* the result is that of the numbers of each group over all rows.  A merge *)
(* gives groups the numbers of each other, as idxOfGroup returns the       *)
(* position (line 107).                                                    *)
AnovaIsOfRows == Ended({"one_way_anova"}) => result = AnovaOfRows

(* one_way_anova.cpp: without a merge, or where every segment met its      *)
(* groups in ascending order, so that index and position agree, insertion, *)
(* growth and merge of the states keep the numbers of every group.         *)
AnovaOfOrderedGroups ==
  Ended({"one_way_anova"}) /\ (job.spread => \A s \in 1..Segments : MetInOrder(s)) =>
    result = AnovaOfRows

(* chi_squared_test.cpp keeps a sum of squared deviations that no row and  *)
(* no segment can compute alone: it is that of all rows, and rows that     *)
(* differ in degrees of freedom or in whether they have an expected value  *)
(* end the query wherever they are, while a segment without rows agrees    *)
(* with every other.                                                       *)
ChiSquaredIsOfRows ==
  Ended({"chi2_gof_test"}) =>
    LET e(r) == IF r.expected = Null THEN 1 ELSE r.expected
        E == Field(rows, e)
        O == Field(rows, LAMBDA r : r.observed)
        Mixed == ~Constant(rows, LAMBDA r : <<r.expected = Null, r.df = Null>>)
                 \/ \E i, j \in DOMAIN rows : Null \notin {rows[i].df, rows[j].df}
                                             /\ rows[i].df # rows[j].df
        NoDegree == \E i \in DOMAIN rows : rows[i].df # Null /\ rows[i].df <= 0
    IN IF rows = << >> THEN result = Null
       ELSE IF Mixed \/ NoDegree THEN result = Exception
       ELSE /\ result \notin {Null, Exception}
            /\ result.numRows = Len(rows) /\ result.sum_obs = O
            /\ result.df = IF rows[1].df = Null THEN Len(rows) - 1 ELSE rows[1].df
            /\ E * result.sumSquaredDeviations =
                 Field(rows, LAMBDA r : Square(r.observed * E - O * e(r)) \div e(r))

(* linear.cpp: the sums that the coefficients are computed from are those  *)
(* of all rows, however they were spread; rows that are not finite, too    *)
(* wide or of different widths end the query, also when they never meet    *)
(* in a segment.                                                           *)
LinregrIsOfRows ==
  Ended({"linregr"}) =>
    LET Bad(r) == r.y = NotFinite \/ Len(r.x) > MaxWidth
                  \/ \E i \in DOMAIN r.x : r.x[i] = NotFinite
        w == IF rows = << >> THEN 0 ELSE Len(rows[1].x)
    IN result = IF rows = << >> THEN Null
                ELSE IF \/ \E i \in DOMAIN rows : Bad(rows[i])
                        \/ ~Constant(rows, LAMBDA r : Len(r.x)) THEN Exception
                ELSE [numRows |-> Len(rows), widthOfX |-> w,
                      y_sum |-> Field(rows, LAMBDA r : r.y),
                      y_square_sum |-> Field(rows, LAMBDA r : Square(r.y)),
                      X_transp_Y |-> [i \in 1..w |-> Field(rows, LAMBDA r : r.x[i] * r.y)],
                      X_transp_X |-> [i \in 1..w |-> [j \in 1..i |->
                                        Field(rows, LAMBDA r : r.x[i] * r.x[j])]]]

\* Pairs of a row of the first and one of the second sample.
Pairs(Test(_, _)) ==
  Cardinality({p \in (DOMAIN rows) \X (DOMAIN rows) :
    rows[p[1]].first /\ ~rows[p[2]].first /\ Test(rows[p[1]].value, rows[p[2]].value)})
Size(Test(_)) == Cardinality(Where(Test))
Disordered(s) == \E i \in 1..Len(s) - 1 : s[i] > s[i + 1]

(* mann_whitney_test.cpp adds up the ranks of two interleaved samples in   *)
(* one pass, with half a rank for every later tie: the statistic is the    *)
(* number of pairs in which one sample wins, ties as halves.               *)
UStatisticCountsPairs ==
  Ended({"mw_test"}) =>
    LET ties == Pairs(LAMBDA a, b : a = b)
        U1 == 2 * Pairs(LAMBDA a, b : a > b) + ties
        U2 == 2 * Pairs(LAMBDA a, b : a < b) + ties
    IN IF Disordered(ValuesAt(DOMAIN rows)) THEN result = Exception
       ELSE /\ result # Exception
            /\ result.u_statistic = Min({U1, U2})
            /\ result.num = <<Size(LAMBDA r : r.first), Size(LAMBDA r : ~r.first)>>

(* wilcoxon_signed_rank_test.cpp: zeros do not count; every value has the  *)
(* mean of the ranks of the group it ties with, hypothesis_tests.sql_in    *)
(* 690-693, and the variance is reduced by (t^3 - t)/48 for every group of *)
(* t, also when the tie is only known after the ranks were given.  Without *)
(* equal values one of which is negative and without a precision: theirs   *)
(* is negative (line 76).                                                  *)
SignedRanksAreMidranks ==
  Ended({"wsr_test"}) =>
    LET s == SelectSeq(rows, LAMBDA r : r.value # 0)
        abs == [i \in DOMAIN s |-> IF s[i].value < 0 THEN -s[i].value ELSE s[i].value]
        p == [i \in DOMAIN s |->
                IF s[i].precision = Null THEN abs[i] \div Unit ELSE s[i].precision]
        TieWithLast(i) == i > 1 /\ \E j \in 1..i - 1 : abs[i] - p[i] <= abs[j] + p[j]
        Same(i, j) == \A k \in (Min({i, j}) + 1)..Max({i, j}) : TieWithLast(k)
        Ties(i) == {j \in DOMAIN s : Same(i, j)}
        Midrank2(i) == Min(Ties(i)) + Max(Ties(i))
        RankSum2(I) == TotalOf([i \in DOMAIN s |-> IF i \in I THEN Midrank2(i) ELSE 0])
        Positive == {i \in DOMAIN s : s[i].value > 0}
        Cube(i) == LET t == Cardinality(Ties(i)) IN t^3 - t
    IN (\A i, j \in DOMAIN s : s[i].value < 0 /\ s[i].precision = Null /\ i # j =>
          abs[i] # abs[j]) =>
         IF Disordered(abs) THEN result = Exception
         ELSE /\ result # Exception /\ result.num = Len(s)
              /\ result.rankSum = <<RankSum2(Positive), RankSum2((DOMAIN s) \ Positive)>>
              /\ 3 * result.reduceVariance =
                   TotalOf([i \in DOMAIN s |-> IF i = Min(Ties(i)) THEN Cube(i) ELSE 0])

(* kolmogorov_smirnov_test.cpp compares the samples after every row, also  *)
(* within a tie, where the distributions are not defined yet: its maximum  *)
(* is no smaller than the true one, and that one if no value occurs in     *)
(* both samples.  Rows that are out of order, repeat other sizes or are    *)
(* not as many as they say end the query.                                  *)
KSIsMaxDiff ==
  Ended({"ks_test"}) =>
    LET size == IF rows = << >> THEN <<0, 0>> ELSE rows[1].expectedNum
        Difference2(v) ==
          Size(LAMBDA r : r.first /\ r.value <= v) * size[2]
            - Size(LAMBDA r : ~r.first /\ r.value <= v) * size[1]
        D == Max({0} \cup UNION {{Difference2(rows[i].value), -Difference2(rows[i].value)} :
                                    i \in DOMAIN rows})
    IN IF \/ Disordered(ValuesAt(DOMAIN rows)) \/ ~Constant(rows, LAMBDA r : r.expectedNum)
          \/ size # <<Size(LAMBDA r : r.first), Size(LAMBDA r : ~r.first)>>
       THEN result = Exception
       ELSE /\ result # Exception /\ result >= D
            /\ Pairs(LAMBDA a, b : a = b) = 0 => result = D

-----------------------------------------------------------------------------
(* logistic.cpp carries sums and coefficients from one iteration to the    *)
(* next in one array, on every segment and through merges: the state that  *)
(* an iteration leaves has every row once, at the coefficients of the last *)
(* iteration, and nothing of earlier ones.  igd leaves the "linear         *)
(* combination of the per-segment models" (operator+=): every row moved    *)
(* one of them once, from the coefficients of the last iteration, and each *)
(* has the share of its rows; its first iteration does nothing.            *)
IterationIsOfAllRows ==
  job.test \in Optimizers /\ previous # Null /\ rows # << >> =>
    LET n == IF result \in {Pending, Null, Exception} THEN iteration - 1 ELSE iteration
        All == SetToBag({<<r, n - 1>> : r \in DOMAIN rows})
        Moved(m) == {m[k] : k \in 2..Len(m)}
    IN /\ previous.numRows = Len(rows)
       /\ job.test = "igd" /\ n = 1 =>
            previous.hessian = EmptyBag /\ previous.coef = (<<0>> :> Share)
       /\ job.test = "igd" /\ n > 1 =>
            LET models == BagToSet(previous.coef)
            IN /\ \A m \in models :
                    /\ m[1] = n - 1 /\ Cardinality(Moved(m)) = Len(m) - 1
                    /\ previous.coef[m] * Len(rows) = Share * (Len(m) - 1)
               /\ UNION {Moved(m) : m \in models} = DOMAIN rows
               /\ TotalOf([i \in 1..Len(rows) |->
                     Cardinality({m \in models : i \in Moved(m)})]) = Len(rows)
       /\ job.test # "igd" \/ n > 1 =>
            previous.hessian = All /\ previous.logLikelihood = All
       /\ job.test = "cg" =>
            previous.gradient = All /\ previous.grad = All /\ previous.iteration = n
       /\ job.test # "igd" => previous.coef = (<<n>> :> Share)

(* logistic.py_in:95-107: the driver ends, also if no iteration converges  *)
(* or the limit is passed before it is asked for the first time.           *)
QueryEnds == job.test \in Optimizers ~> result # Pending

-----------------------------------------------------------------------------
(* array_ops.c walks untyped memory, with a type, a null bitmap and shapes *)
(* to respect: its functions do what they are called to every element, or  *)
(* raise an error for arrays of different shapes, NULLs they do not take   *)
(* and divisors of zero; integers wrap.  Without an element after a NULL:  *)
(* the cursor on the bitmap never passes one (lines 804-814), while        *)
(* array_ops.sql_in:108 says "NULLs are ignored".                          *)
Fits(type, r, n) ==
  IF type = "float8" THEN r = n
  ELSE /\ r \in -TwoTo[IntBits - 1]..TwoTo[IntBits - 1] - 1
       /\ (r - n) % TwoTo[IntBits] = 0

IsAggregate(function, v) ==
  LET I == {i \in DOMAIN v.elements : v.elements[i] # Null}
      taken == [i \in I |-> v.elements[i]]
      n == Cardinality(I)
      S == TotalOf(taken)
      squares == Field(taken, Square)
  IN CASE function = "array_sum" -> Fits(v.type, result, S)
       [] function \in {"array_min", "array_max"} /\ n = 0 -> result = 0
       [] function = "array_min" /\ n > 0 -> result = Min(Range(taken))
       [] function = "array_max" /\ n > 0 -> result = Max(Range(taken))
       [] function = "array_mean" -> result[1] * n = S * result[2]
       [] function = "array_stddev" -> result[1] * Square(n) = result[2] * (n * squares - Square(S))

IsElement(function, type, a, b, r) ==
  CASE function = "array_add" -> Fits(type, r, a + b)
    [] function = "array_sub" -> Fits(type, r, a - b)
    [] function \in {"array_mult", "array_scalar_mult"} -> Fits(type, r, a * b)
    [] function = "array_fill" -> r = b
    [] function = "array_div" /\ type = "float8" -> r = <<a, b>>
    [] function = "array_div" /\ type = "int2" ->   \* the rest is smaller, of the sign of a
         \E q \in -TwoTo[IntBits - 1]..TwoTo[IntBits - 1] :
           LET rest == a - q * b
           IN Fits(type, r, q) /\ Square(rest) < Square(b) /\ rest * a >= 0

ArraysAreElementwise ==
  job.test \notin Tests /\ result # Pending /\ (\A k \in DOMAIN rows : rows[k] # Null) =>
    LET v == rows[1]
        E == v.elements
        Scalar == job.test \in {"array_fill", "array_scalar_mult"}
        w == IF Scalar THEN [i \in DOMAIN E |-> rows[2]] ELSE rows[2].elements
        Shape(u) == <<Len(u.elements), u.elements # << >> => u.lb = v.lb>>
    IN IF Len(rows) = 1
       THEN (\A i, j \in DOMAIN E : i < j /\ E[i] = Null => E[j] = Null) =>
              IsAggregate(job.test, v)
       ELSE IF \/ Null \in Range(E) \cup Range(w)
               \/ ~Scalar /\ Shape(rows[2]) # Shape(v)
               \/ job.test = "array_div" /\ 0 \in Range(w)
       THEN result = Exception
       ELSE IF job.test = "array_dot"
            THEN result = TotalOf([i \in DOMAIN E |-> E[i] * w[i]])
       ELSE IF job.test = "array_contains"
            THEN result = (\A i \in DOMAIN E : w[i] # 0 => E[i] = w[i])
       ELSE /\ result # Exception /\ DOMAIN result.elements = DOMAIN E
            /\ \A i \in DOMAIN E :
                 IsElement(job.test, v.type, E[i], w[i], result.elements[i])
=============================================================================
