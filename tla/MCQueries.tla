----------------------------- MODULE MCQueries ------------------------------
(* Instances of Queries: every order of rows with few different values.    *)
EXTENDS Queries

Of(keys, values) == { [first |-> f, value |-> v] : f \in keys, v \in values }

MCSampleSizes == { <<1, 1>>, <<2, 1>>, <<2, 2>>, <<1, 3>> }
MCKSRows(sizes) == { [first |-> f, value |-> v, expectedNum |-> size] :
                      f \in BOOLEAN, v \in -1..1, size \in sizes }
MCChi2Rows ==
  { [observed |-> o, expected |-> e, df |-> d] : o \in {2, 4}, e \in {1, 2}, d \in {Null, 2} }
  \cup { [observed |-> 2, expected |-> Null, df |-> d] : d \in {Null, 0, 2} }
  \cup { [observed |-> 4, expected |-> Null, df |-> d] : d \in {Null, 3} }
MCLinregrRows ==
  { [y |-> y, x |-> x] : y \in {1, 3}, x \in { <<2>>, <<2, 1>>, <<0, 3>> } }
  \cup { [y |-> NotFinite, x |-> <<2>>], [y |-> 1, x |-> <<2, NotFinite>>],
         [y |-> 1, x |-> <<1, 1, 1>>] }
MCSignedRows == { [value |-> v, precision |-> p] : v \in {-20, -10, 0, 10, 20, 30}, p \in {Null, 6} }

MCAnovaJobs ==
  "one_way_anova" :> SeqOf({ [group |-> g, value |-> v] : g \in {1, 2, 4}, v \in {0, 3} }, 4)

MCMergeJobs ==
  "one_way_anova" :> SeqOf({ [group |-> g, value |-> v] : g \in 1..2, v \in {0, 3} }, 4)

MCJobs ==
  [t \in TTests |-> SeqOf(Of(IF t = "t_test_one" THEN {TRUE} ELSE BOOLEAN, {0, 3}), 4)]
  @@ MCAnovaJobs
  @@ [t \in Optimizers |-> SeqOf({TRUE}, 3) \cup { <<TRUE, NotFinite>>, <<NotFinite>> }]
  @@ "chi2_gof_test" :> SeqOf(MCChi2Rows, 3)
  @@ "linregr" :> SeqOf(MCLinregrRows, 3)
  @@ "ks_test" :> SeqOf(MCKSRows(MCSampleSizes), 2)
                    \cup UNION {SeqOf(MCKSRows({size}), 4) : size \in MCSampleSizes}
  @@ "mw_test" :> SeqOf(Of(BOOLEAN, -1..1), 4)
  @@ "wsr_test" :> SeqOf(MCSignedRows, 4)

Arrays(type, values, n) ==
  { [type |-> type, lb |-> lb, elements |-> e] : lb \in {0, 1}, e \in SeqOf(values, n) }

MCNoCalls == [f \in {} |-> {}]
MCCalls ==
  [f \in {"array_sum", "array_min", "array_max"} |->
     { <<v>> : v \in {Null} \cup Arrays("int2", {-8, -3, 5, Null}, 4)
                          \cup Arrays("float8", {-8, -3, 5, Null}, 2) }]
  @@ [f \in {"array_mean", "array_stddev"} |->
     { <<v>> : v \in {Null} \cup Arrays("float8", {-2, 0, 3, Null}, 4) }]
  @@ [f \in {"array_dot", "array_contains", "array_add", "array_sub", "array_mult", "array_div"} |->
     { <<v, w>> : v, w \in {Null} \cup Arrays("int2", {-8, -1, 0, 5, Null}, 2) }
     \cup { <<v, w>> : v, w \in Arrays("float8", {-3, 0, 5}, 2) }]
  @@ [f \in {"array_fill", "array_scalar_mult"} |->
     { <<v, k>> : v \in {Null} \cup Arrays("int2", {-8, 5, Null}, 3), k \in {Null, -3, 0, 2} }]
=============================================================================
