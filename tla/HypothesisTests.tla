-------------------------- MODULE HypothesisTests ---------------------------
(***************************************************************************)
(* The aggregates of modules/stats: for each its initial state, what a row *)
(* or the state of another segment does to it, and what the final function *)
(* returns.  A final function returns what its statistic and the p-values  *)
(* are computed from; the distribution functions are left out.             *)
(***************************************************************************)
EXTENDS SqlValues

CONSTANTS
  Scale,       \* sums of squares are kept as multiples of 1/Scale
  GroupBits,   \* 16 in the code
  Unit         \* values of the signed-rank test are multiples of this one,
               \* of which the machine epsilon makes 1

TestsAssumption == {Scale, GroupBits, Unit} \subseteq Nat \ {0}
ASSUME TestsAssumption

-----------------------------------------------------------------------------
\* t-tests and F-test.
NoRows == [n |-> 0, sum |-> 0, css |-> 0]
One(value) == [NoRows EXCEPT !.n = 1, !.sum = value]

\* Mutant: starts from the left sum of squares in any case.
updateCorrectedSumOfSquares_first(left, right) ==
  [n |-> left.n + right.n, sum |-> left.sum + right.sum, css |-> left.css +
     IF 0 \in {left.n, right.n} THEN 0
     ELSE (Scale * Square(right.n * left.sum - left.n * right.sum))
            \div (left.n * right.n * (left.n + right.n))]

updateCorrectedSumOfSquares(left, right) ==
  IF right.n = 0 THEN left
  ELSE [n |-> left.n + right.n, sum |-> left.sum + right.sum,
        css |-> right.css + IF left.n = 0 THEN 0
                ELSE left.css + (Scale * Square(right.n * left.sum - left.n * right.sum))
                                  \div (left.n * right.n * (left.n + right.n))]

TTestState == [x |-> NoRows, y |-> NoRows]

t_test_one_transition(state, row) ==
  [state EXCEPT !.x = updateCorrectedSumOfSquares(@, One(row.value))]
t_test_two_transition(state, row) ==
  IF row.first THEN t_test_one_transition(state, row)
  ELSE [state EXCEPT !.y = updateCorrectedSumOfSquares(@, One(row.value))]

t_test_merge_states(left, right) ==
  [x |-> updateCorrectedSumOfSquares(left.x, right.x),
   y |-> updateCorrectedSumOfSquares(left.y, right.y)]

t_test_one_final(state) == IF state.x.n <= 1 THEN Null ELSE state
t_test_two_pooled_final(state) ==
  IF 0 \in {state.x.n, state.y.n} \/ state.x.n + state.y.n <= 2 THEN Null ELSE state
t_test_two_unpooled_final(state) ==
  IF state.x.n <= 1 \/ state.y.n <= 1 THEN Null ELSE state
f_test_final(state) == t_test_two_unpooled_final(state)

-----------------------------------------------------------------------------
(* One-way ANOVA.  The group values are sorted; posToIndices says where    *)
(* the numbers of each are kept.  There is room for the next power of two. *)
nextPowerOfTwo(n) == IF n = 0 THEN 0 ELSE Min({TwoTo[k] : k \in 0..GroupBits} \ 0..n - 1)

OWAState == [groupValues |-> << >>, posToIndices |-> << >>, moments |-> << >>]

lower_bound(state, group) == 1 + Cardinality({k \in DOMAIN state.groupValues :
                                                state.groupValues[k] < group})
Holds(state, group) == \E k \in DOMAIN state.groupValues : state.groupValues[k] = group

\* The room for the numbers of one group more.  The code keeps it in a uint16 and so
\* loses it where it would become 2^16; a state here has fewer groups than half that.
\* Mutant: grows by one.
Room_by_one(numGroups) == Max({nextPowerOfTwo(numGroups), numGroups + 1})

Room(numGroups) ==
  LET reserved == nextPowerOfTwo(numGroups)
  IN IF reserved > numGroups THEN reserved ELSE Max({1, 2 * reserved})

\* The insertion of a new group; mutant: appends the index.
WithGroup_appended(state, group) ==
  LET numGroups == Len(state.groupValues)
  IN [groupValues |-> InsertAt(state.groupValues, lower_bound(state, group), group),
      posToIndices |-> Append(state.posToIndices, numGroups + 1),
      moments |-> [k \in 1..Room(numGroups) |->
                     IF k \in DOMAIN state.moments THEN state.moments[k] ELSE NoRows]]

WithGroup(state, group) ==
  LET pos == lower_bound(state, group)
      numGroups == Len(state.groupValues)
  IN [groupValues |-> InsertAt(state.groupValues, pos, group),
      posToIndices |-> InsertAt(state.posToIndices, pos, numGroups + 1),
      moments |-> [k \in 1..Room(numGroups) |->
                     IF k \in DOMAIN state.moments THEN state.moments[k] ELSE NoRows]]

\* idxOfGroup of a state that may change: its numbers are updated at once.
Updated(state, group, right) ==
  LET s == IF Holds(state, group) THEN state ELSE WithGroup(state, group)
  IN [s EXCEPT !.moments[s.posToIndices[lower_bound(s, group)]] =
                 updateCorrectedSumOfSquares(@, right)]

\* idxOfGroup of a constant state returns the position, not the index.
idxOfGroup(state, group) == lower_bound(state, group)

one_way_anova_transition(state, row) ==
  Updated(state, row.group % TwoTo[GroupBits], One(row.value))

one_way_anova_merge_states(left, right) ==
  LET Merged[posRight \in 0..Len(right.groupValues)] ==
        IF posRight = 0 THEN left
        ELSE LET group == right.groupValues[posRight]
                 merged == Merged[posRight - 1]
             IN Updated(merged, group, right.moments[idxOfGroup(right, group)])
  IN Merged[Len(right.groupValues)]

\* The statistic is the same in whatever order the groups are.
one_way_anova_final(state) ==
  IF state.groupValues = << >> THEN Null
  ELSE LET moments == SubSeq(state.moments, 1, Len(state.groupValues))
       IN [m \in Range(moments) |-> Cardinality({k \in DOMAIN moments : moments[k] = m})]

-----------------------------------------------------------------------------
\* Chi-squared test.  df is -1 where none is given.
Chi2State == [numRows |-> 0, sum_expect |-> 0, sum_obs_square_over_expect |-> 0,
              sum_obs |-> 0, sumSquaredDeviations |-> 0, uniformDist |-> FALSE, df |-> 0]

updateSumSquaredDeviations(left, right) ==
  [left EXCEPT
    !.numRows = @ + right.numRows, !.sum_expect = @ + right.sum_expect,
    !.sum_obs_square_over_expect = @ + right.sum_obs_square_over_expect,
    !.sum_obs = @ + right.sum_obs,
    !.sumSquaredDeviations = @ + right.sumSquaredDeviations
      + left.sum_expect * right.sum_obs_square_over_expect
      + left.sum_obs_square_over_expect * right.sum_expect
      - 2 * left.sum_obs * right.sum_obs]

chi2_gof_test_transition(state, row) ==
  LET expected == IF row.expected = Null THEN 1 ELSE row.expected
      df == IF row.df = Null THEN -1 ELSE row.df
  IN IF \/ state.numRows > 0 /\ <<row.expected = Null, df>> # <<state.uniformDist, state.df>>
        \/ row.df # Null /\ df <= 0
     THEN Exception
     ELSE updateSumSquaredDeviations(
            [state EXCEPT !.uniformDist = (row.expected = Null), !.df = df],
            [numRows |-> 1, sum_expect |-> expected, sum_obs |-> row.observed,
             sum_obs_square_over_expect |-> Square(row.observed) \div expected,
             sumSquaredDeviations |-> 0])

\* Mutant: compares the right state with a left one without rows, too.
chi2_gof_test_merge_states_strict(left, right) ==
  IF <<left.uniformDist, left.df>> # <<right.uniformDist, right.df>> /\ right.numRows > 0
  THEN Exception ELSE updateSumSquaredDeviations(left, right)

chi2_gof_test_merge_states(left, right) ==
  LET taken == IF left.numRows = 0
               THEN [left EXCEPT !.uniformDist = right.uniformDist, !.df = right.df] ELSE left
  IN IF /\ <<taken.uniformDist, taken.df>> # <<right.uniformDist, right.df>>
        /\ right.numRows > 0
     THEN Exception ELSE updateSumSquaredDeviations(taken, right)

chi2_gof_test_final(state) ==
  IF state.numRows = 0 THEN Null
  ELSE [numRows |-> state.numRows, sum_obs |-> state.sum_obs,
        sumSquaredDeviations |-> state.sumSquaredDeviations,
        df |-> IF state.df < 0 THEN state.numRows - 1 ELSE state.df]

-----------------------------------------------------------------------------
\* Kolmogorov-Smirnov test.  maxDiff is a multiple of 1/(m n), for samples of
\* the sizes m and n that every row repeats.
Sample(first) == IF first THEN 1 ELSE 2

KSState == [num |-> <<0, 0>>, last |-> 0, maxDiff |-> 0, expectedNum |-> <<0, 0>>]

\* Mutant: without the absolute value.
Difference_signed(num, size) == num[1] * size[2] - num[2] * size[1]

Difference(num, size) ==
  LET d == num[1] * size[2] - num[2] * size[1] IN IF d < 0 THEN -d ELSE d

ks_test_transition(state, row) ==
  IF TotalOf(state.num) > 0 /\ (state.expectedNum # row.expectedNum \/ state.last > row.value)
  THEN Exception
  ELSE LET num == [state.num EXCEPT ![Sample(row.first)] = @ + 1]
       IN [num |-> num, last |-> row.value, expectedNum |-> row.expectedNum,
           maxDiff |-> Max({state.maxDiff, Difference(num, row.expectedNum)})]

ks_test_final(state) ==
  IF state.num # state.expectedNum THEN Exception ELSE state.maxDiff

-----------------------------------------------------------------------------
(* Rank tests.  numTies are the rows of either sample that tie with the    *)
(* last one; rankSum is twice the sum of their ranks so far.               *)
Ranked(state, sample) ==
  [state EXCEPT !.num[sample] = @ + 1, !.numTies[sample] = @ + 1,
                !.rankSum[sample] = @ + 2 * (TotalOf(state.num) + 1) - TotalOf(state.numTies)]

Tied(state) == [state EXCEPT !.rankSum = [i \in 1..2 |-> @[i] + state.numTies[i]]]
Untied(state) == [state EXCEPT !.numTies = <<0, 0>>]

MWState == [num |-> <<0, 0>>, numTies |-> <<0, 0>>, rankSum |-> <<0, 0>>, last |-> 0]

\* Mutant: leaves the ties of the last value.
mw_test_transition_tied(state, row) ==
  IF state.last > row.value /\ TotalOf(state.num) > 0 THEN Exception
  ELSE [Ranked(IF state.last = row.value THEN Tied(state) ELSE state,
               Sample(row.first)) EXCEPT !.last = row.value]

mw_test_transition(state, row) ==
  IF state.last > row.value /\ TotalOf(state.num) > 0 THEN Exception
  ELSE [Ranked(IF state.last = row.value THEN Tied(state)
               ELSE IF state.last < row.value THEN Untied(state) ELSE state,
               Sample(row.first)) EXCEPT !.last = row.value]

\* Twice the U statistic.
mw_test_final(state) ==
  LET n == state.num
      U == state.rankSum[2] - n[2] * (n[2] + 1)
  IN [num |-> n, u_statistic |-> Min({U, 2 * n[1] * n[2] - U})]

\* reduceVariance is a multiple of 1/16.
WSRState == [num |-> <<0, 0>>, numTies |-> <<0, 0>>, rankSum |-> <<0, 0>>,
             lastAbs |-> 0, lastAbsUpperBound |-> 0, reduceVariance |-> 0]

\* Mutant: forgets the larger bound of an earlier row.
UpperBound_last(state, bound) == bound
UpperBound(state, bound) == Max({state.lastAbsUpperBound, bound})

wsr_test_transition(state, row) ==
  LET precision == IF row.precision = Null THEN row.value \div Unit ELSE row.precision
      absValue == IF row.value < 0 THEN -row.value ELSE row.value
      t == TotalOf(state.numTies)
      started == TotalOf(state.num) > 0
  IN IF row.value = 0 THEN state
     ELSE IF started /\ absValue < state.lastAbs THEN Exception
     ELSE [Ranked(IF ~started THEN state
                  ELSE IF absValue - precision <= state.lastAbsUpperBound
                  THEN [Tied(state) EXCEPT !.reduceVariance = @ + t * (t + 1)]
                  ELSE Untied(state),
                  Sample(row.value > 0))
           EXCEPT !.lastAbs = absValue, !.lastAbsUpperBound = UpperBound(state, absValue + precision)]

wsr_test_final(state) ==
  [num |-> TotalOf(state.num), rankSum |-> state.rankSum,
   reduceVariance |-> state.reduceVariance]
=============================================================================
