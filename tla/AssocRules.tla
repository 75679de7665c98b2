----------------------------- MODULE AssocRules -----------------------------
(***************************************************************************)
(* The function assoc_rules (assoc_rules.sql_in): the Apriori algorithm,   *)
(* statement by statement, over tables of itemsets.                        *)
(*                                                                         *)
(* An itemset is a set of products where the code has a vector of zeros    *)
(* and ones, and a table a set of rows.  Tables are joined by the hash of  *)
(* an itemset.  A support is kept as the number of transactions, all       *)
(* divided by the same max_t, and is compared with i_support as the exact  *)
(* fraction: a decimal is met exactly only by a quotient that terminates.  *)
(* What a confidence is computed from are the rounded quotients.           *)
(***************************************************************************)
EXTENDS Integers, Sequences, FiniteSets, Functions

CONSTANTS
  Products,     \* the prod_id of the table assoc_prod_uniq
  NoProduct,    \* NULL: the product of a row that has none
  Inputs,       \* input tables: sequences of rows <<trans_id, product>>
  Supports,     \* values of i_support and i_confidence: <<n, d>> for n/d
  Confidences,
  Hash,         \* svec_hash of an itemset
  Ulps          \* a quotient of numerics is rounded to a multiple of 1/Ulps

AssocRulesAssumption ==
  /\ IsFiniteSet(Products) /\ NoProduct \notin Products
  /\ \A table \in Inputs :
       /\ table \in Seq(Range(table))
       /\ \A row \in Range(table) :
            /\ row = <<row[1], row[2]>> /\ row[1] # NoProduct
            /\ row[2] \in Products \cup {NoProduct}
  /\ Supports \cup Confidences \subseteq Nat \X (Nat \ {0})
  /\ DOMAIN Hash = SUBSET Products
  /\ Ulps \in Nat \ {0}

VARIABLES
  input, i_support, i_confidence,
  pc,                     \* the next statement
  n,
  assoc_rule_sets,        \* the frequent itemsets found so far
  list_b,                 \* itemsets of n + 1 products put together from two
  assoc_set_list_parts,   \* those of all iterations, taken apart
  list_c,                 \* those of list_b whose parts are frequent
  assoc_rules
args == <<input, i_support, i_confidence>>
vars == <<args, pc, n, assoc_rule_sets, list_b, assoc_set_list_parts, list_c, assoc_rules>>

-----------------------------------------------------------------------------
\* Tables made of the input.
assoc_id_uniq == Range(input)
\* count(distinct trans_id): a NULL, which it would not count, is not an input.
max_t == Cardinality({row[1] : row \in assoc_id_uniq})
assoc_input_data == {row \in assoc_id_uniq : row[2] # NoProduct}
assoc_trans_svec ==
  [t \in {row[1] : row \in assoc_input_data} |->
     {row[2] : row \in {r \in assoc_input_data : r[1] = t}}]

AtLeast(support, min) == support * min[2] >= min[1] * max_t
Above(support, min) == support * min[2] > min[1] * max_t

Found(iteration) == {a \in assoc_rule_sets : a.iteration = iteration}
IsFrequent(set) == \E a \in assoc_rule_sets : Hash[a.set_list] = Hash[set]

\* The products of at least one transaction.
Singles ==
  {[set_list |-> {p}, iteration |-> 1,
    support |-> Cardinality({row \in assoc_input_data : row[2] = p})] :
     p \in {row[2] : row \in assoc_input_data}}

\* Mutant: joins only pairs without a product in common.
Unions_disjoint(m) ==
  {ab[1].set_list \cup ab[2].set_list : ab \in
     {ab \in Found(m) \X Found(m) : ab[1].set_list \cap ab[2].set_list = {}}}

\* list_a and list_b: unions of two frequent itemsets of m products that have
\* one product more.
Unions(m) ==
  {S \in {ab[1].set_list \cup ab[2].set_list :
            ab \in {ab \in Found(m) \X Found(m) :
                      Hash[ab[1].set_list] # Hash[ab[2].set_list]}} :
     Cardinality(S) = m + 1}

\* assoc_svec_list_parts: a row for each product of the set.
Parts(set) == {[set_list |-> set, subset_x |-> {p}, subset_y |-> set \ {p}] : p \in set}

\* The rows of list_c are groups of the same hash.  The counts that HAVING
\* compares are equal when every part meets a frequent itemset in both joins.
Survives(set) ==
  \A p \in assoc_set_list_parts :
    Cardinality(p.set_list) = n + 1 /\ Hash[p.set_list] = Hash[set] =>
      IsFrequent(p.subset_x) /\ IsFrequent(p.subset_y)

\* What is counted is grouped by the hash as well.
Counted ==
  {[set_list |-> c, iteration |-> Cardinality(c),
    support |-> Cardinality(
      {tc \in (DOMAIN assoc_trans_svec) \X {d \in list_c : Hash[d] = Hash[c]} :
         tc[2] \subseteq assoc_trans_svec[tc[1]]})] : c \in list_c}

\* a / b of numerics, in units of 1/Ulps: the nearest, half of one rounded up.
Quotient(a, b) == (2 * a * Ulps + b) \div (2 * b)

\* The supports were rounded when they were stored, their quotient is again.
confidence_xy(support_xy, support_x) ==
  Quotient(Quotient(support_xy, max_t), Quotient(support_x, max_t))

\* Mutant: leaves out what has exactly the minimum.
Confident_above(support_xy, support_x) ==
  confidence_xy(support_xy, support_x) * i_confidence[2] > i_confidence[1] * Ulps
Confident(support_xy, support_x) ==
  confidence_xy(support_xy, support_x) * i_confidence[2] >= i_confidence[1] * Ulps

\* A rule for a frequent itemset, a frequent part of it and the rest, if
\* that is frequent.
Rules ==
  {[set_list |-> abd[1].set_list, subset_x |-> abd[2].set_list,
    subset_y |-> abd[1].set_list \ abd[2].set_list,
    support_xy |-> abd[1].support, support_x |-> abd[2].support, support_y |-> abd[3].support] :
     abd \in {abd \in assoc_rule_sets \X assoc_rule_sets \X assoc_rule_sets :
       /\ abd[1].iteration > abd[2].iteration
       /\ abd[2].set_list \subseteq abd[1].set_list
       /\ Hash[abd[1].set_list \ abd[2].set_list] = Hash[abd[3].set_list]
       /\ Confident(abd[1].support, abd[2].support)}}

-----------------------------------------------------------------------------
Init ==
  /\ input \in Inputs /\ i_support \in Supports /\ i_confidence \in Confidences
  /\ pc = "singles" /\ n = 0
  /\ assoc_rule_sets = {} /\ list_b = {} /\ assoc_set_list_parts = {} /\ list_c = {}
  /\ assoc_rules = {}

InsertSingles ==
  /\ pc = "singles"
  /\ assoc_rule_sets' = {a \in Singles : AtLeast(a.support, i_support)}
  /\ pc' = "list_b"
  /\ UNCHANGED <<args, n, list_b, assoc_set_list_parts, list_c, assoc_rules>>

Combine ==
  /\ pc = "list_b"
  /\ n' = n + 1 /\ list_b' = Unions(n + 1)
  /\ pc' = "parts"
  /\ UNCHANGED <<args, assoc_rule_sets, assoc_set_list_parts, list_c, assoc_rules>>

ListParts ==
  /\ pc = "parts"
  /\ assoc_set_list_parts' = assoc_set_list_parts \cup UNION {Parts(set) : set \in list_b}
  /\ pc' = "list_c"
  /\ UNCHANGED <<args, n, assoc_rule_sets, list_b, list_c, assoc_rules>>

Prune ==
  /\ pc = "list_c"
  /\ list_c' = {set \in list_b : Survives(set)}
  /\ pc' = "support"
  /\ UNCHANGED <<args, n, assoc_rule_sets, list_b, assoc_set_list_parts, assoc_rules>>

\* The loop ends when nothing was found in this iteration.
InsertFrequent ==
  /\ pc = "support"
  /\ assoc_rule_sets' = assoc_rule_sets \cup {c \in Counted : Above(c.support, i_support)}
  /\ pc' = IF \E a \in assoc_rule_sets' : a.iteration = n + 1 THEN "list_b" ELSE "rules"
  /\ UNCHANGED <<args, n, list_b, assoc_set_list_parts, list_c, assoc_rules>>

InsertRules ==
  /\ pc = "rules"
  /\ assoc_rules' = Rules
  /\ pc' = "done"
  /\ UNCHANGED <<args, n, assoc_rule_sets, list_b, assoc_set_list_parts, list_c>>

Next == InsertSingles \/ Combine \/ ListParts \/ Prune \/ InsertFrequent \/ InsertRules

Spec == Init /\ [][Next]_vars

-----------------------------------------------------------------------------
\* Properties.  Itemsets and rules by their definition.
Total(S) == Cardinality({t \in DOMAIN assoc_trans_svec : S \subseteq assoc_trans_svec[t]})
Itemsets == (SUBSET Products) \ {{}}
Frequent == {S \in Itemsets : Total(S) > 0 /\ AtLeast(Total(S), i_support)}

(* The documentation promises "minimum level of support needed for each    *)
(* itemset to be included in result" (assoc_rules.sql_in:347): from one    *)
(* iteration to the next the table has exactly the itemsets up to its size *)
(* that are in enough transactions, with their support, although they were *)
(* put together and sorted out by smaller ones; and the loop ends only     *)
(* when there are no larger ones.  Itemsets of two and more products that  *)
(* have exactly the minimum are left out by the code (line 635): this is   *)
(* stated for supports that no itemset has exactly.                        *)
FrequentSetsAreExact ==
  pc \in {"list_b", "rules", "done"} =>
    assoc_rule_sets =
      {[set_list |-> S, iteration |-> Cardinality(S), support |-> Total(S)] :
         S \in {S \in Frequent : pc = "list_b" => Cardinality(S) <= n + 1}}

(* The rules are those with both sides frequent, and not empty, that hold  *)
(* in a large enough part of the transactions with the left side: one row  *)
(* for each way to split a frequent itemset in two.  The numerics that are *)
(* compared are rounded (lines 511, 621, 685): a rule that has exactly the *)
(* minimum may come out below it, (1/3)/(2/3) as 0.49999999999999999999,   *)
(* and this is stated for confidences that no split has exactly, but for   *)
(* that of equal supports, whose quotient is 1.                            *)
RulesAreExact ==
  pc = "done" =>
    assoc_rules =
      {[set_list |-> xy[1] \cup xy[2], subset_x |-> xy[1], subset_y |-> xy[2],
        support_xy |-> Total(xy[1] \cup xy[2]),
        support_x |-> Total(xy[1]), support_y |-> Total(xy[2])] :
         xy \in {xy \in Itemsets \X Itemsets :
           /\ xy[1] \cap xy[2] = {} /\ xy[1] \cup xy[2] \in Frequent
           /\ Total(xy[1] \cup xy[2]) * i_confidence[2] >= i_confidence[1] * Total(xy[1])}}
=============================================================================
