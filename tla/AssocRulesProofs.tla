--------------------------- MODULE AssocRulesProofs ---------------------------
(***************************************************************************)
(* The Apriori algorithm of assoc_rules finds the frequent itemsets and    *)
(* the rules, whatever the table, the products and the supports: it leaves *)
(* out nothing by joining and pruning itemsets of one size to get those of *)
(* the next, and it stops at the right iteration.                          *)
(***************************************************************************)
EXTENDS AssocRules, Recursion

\* svec_hash tells the itemsets of the table apart.
HashTellsApart == \A S, T \in SUBSET Products : Hash[S] = Hash[T] => S = T

-----------------------------------------------------------------------------
(* Transactions and supports.                                              *)

(* A product of transactions is a product of the table of products.        *)
LEMMA TableFacts ==
  ASSUME AssocRulesAssumption, input \in Inputs
  PROVE  /\ IsFiniteSet(assoc_id_uniq) /\ max_t \in Nat
         /\ IsFiniteSet(assoc_input_data)
         /\ \A row \in assoc_input_data :
              row = <<row[1], row[2]>> /\ row[2] \in Products
<1>1. /\ input \in Seq(Range(input))
      /\ \A row \in Range(input) :
            row = <<row[1], row[2]>> /\ row[2] \in Products \cup {NoProduct}
  BY DEF AssocRulesAssumption
<1>2. IsFiniteSet(assoc_id_uniq)
  <2>1. DOMAIN input = 1..Len(input) /\ Len(input) \in Nat
    BY <1>1
  <2>2. IsFiniteSet(DOMAIN input)
    BY <2>1, FS_Interval
  <2>3. assoc_id_uniq = {input[i] : i \in DOMAIN input}
    BY DEF assoc_id_uniq, Range
  <2> HIDE DEF assoc_id_uniq
  <2> QED
    BY <2>2, <2>3, FiniteImage
<1>3. max_t \in Nat
  <2> DEFINE f == [row \in assoc_id_uniq |-> row[1]]
             T == {row[1] : row \in assoc_id_uniq}
  <2>1. T = {f[row] : row \in assoc_id_uniq} /\ DOMAIN f = assoc_id_uniq
    OBVIOUS
  <2> HIDE DEF f, T
  <2>2. Cardinality(T) \in Nat
    BY <1>2, <2>1, FiniteImage
  <2> QED
    BY <2>2 DEF max_t, T
<1>4. assoc_input_data \subseteq assoc_id_uniq
  BY DEF assoc_input_data
<1>5. IsFiniteSet(assoc_input_data)
  BY <1>2, <1>4, FS_Subset
<1>6. \A row \in assoc_input_data : row = <<row[1], row[2]>> /\ row[2] \in Products
  BY <1>1 DEF assoc_input_data, assoc_id_uniq
<1> QED
  BY <1>2, <1>3, <1>5, <1>6

\* The transactions that have all the products of S.
Having(S) == {t \in DOMAIN assoc_trans_svec : S \subseteq assoc_trans_svec[t]}

(* The support of a set counts the transactions that have it.              *)
LEMMA HavingFacts ==
  ASSUME AssocRulesAssumption, input \in Inputs, NEW S
  PROVE  /\ IsFiniteSet(Having(S)) /\ Total(S) = Cardinality(Having(S))
         /\ Total(S) \in Nat
         /\ IsFiniteSet(DOMAIN assoc_trans_svec)
         /\ \A t \in DOMAIN assoc_trans_svec : assoc_trans_svec[t] \subseteq Products
<1>1. IsFiniteSet(DOMAIN assoc_trans_svec)
  <2> DEFINE f == [row \in assoc_input_data |-> row[1]]
             T == {row[1] : row \in assoc_input_data}
  <2>1. T = {f[row] : row \in assoc_input_data} /\ DOMAIN f = assoc_input_data
    OBVIOUS
  <2>2. DOMAIN assoc_trans_svec = T
    BY DEF assoc_trans_svec
  <2> HIDE DEF f, T
  <2> QED
    BY <2>1, <2>2, FiniteImage, TableFacts
<1>2. \A t \in DOMAIN assoc_trans_svec : assoc_trans_svec[t] \subseteq Products
  BY TableFacts DEF assoc_trans_svec
<1>3. IsFiniteSet(Having(S))
  BY <1>1, FS_Subset DEF Having
<1> QED
  BY <1>1, <1>2, <1>3, FS_CardinalityType DEF Total, Having

(* The monotonicity Apriori rests on: fewer products, no fewer transactions.*)
LEMMA Monotone ==
  ASSUME AssocRulesAssumption, input \in Inputs, NEW S, NEW T, S \subseteq T
  PROVE  Total(T) <= Total(S)
<1>1. Having(T) \in SUBSET Having(S)
  BY DEF Having
<1> QED
  BY <1>1, HavingFacts, FS_Subset

-----------------------------------------------------------------------------
(* The itemsets the function keeps.                                        *)

\* Single products with at least the support; larger itemsets with more.
Enough(S) ==
  Total(S) > 0 /\ IF Cardinality(S) = 1 THEN AtLeast(Total(S), i_support)
                                        ELSE Above(Total(S), i_support)
Kept == {S \in Itemsets : Enough(S)}
Upto(k) == {S \in Kept : Cardinality(S) <= k}

\* Rows of assoc_rule_sets.
Row(S) == [set_list |-> S, iteration |-> Cardinality(S), support |-> Total(S)]
Rows(F) == {Row(S) : S \in F}

\* What the lemmas assume: the constants are what the function is called for.
Called == /\ AssocRulesAssumption /\ HashTellsApart
          /\ input \in Inputs /\ i_support \in Supports /\ i_confidence \in Confidences

(* Multiplying by a count keeps the order.                                 *)
LEMMA TimesMonotone ==
  \A a, b, d \in Nat : a <= b => a * d <= b * d
OBVIOUS

(* The numbers the supports and confidences are compared by.               *)
LEMMA ItemsetFacts ==
  ASSUME Called, NEW S \in SUBSET Products
  PROVE  /\ IsFiniteSet(S) /\ Cardinality(S) \in Nat
         /\ Total(S) \in Nat /\ max_t \in Nat
         /\ i_support[1] \in Nat /\ i_support[2] \in Nat \ {0}
         /\ i_confidence[1] \in Nat /\ i_confidence[2] \in Nat \ {0}
<1>1. IsFiniteSet(S)
  BY FS_Subset DEF Called, AssocRulesAssumption
<1>2. i_support \in Nat \X (Nat \ {0}) /\ i_confidence \in Nat \X (Nat \ {0})
  BY DEF Called, AssocRulesAssumption
<1> QED
  BY <1>1, <1>2, FS_CardinalityType, HavingFacts, TableFacts DEF Called

(* Every nonempty part of a kept itemset is kept (the property Apriori     *)
(* prunes by), though single products and larger itemsets are compared     *)
(* with the support in different ways.                                     *)
LEMMA PartsAreKept ==
  ASSUME Called, NEW T \in Kept, NEW S \in SUBSET T, S # {}
  PROVE  S \in Kept
<1>1. T \in SUBSET Products /\ S \in SUBSET Products /\ T # {} /\ Enough(T)
  BY DEF Kept, Itemsets
<1> DEFINE c == Total(S)
           d == Total(T)
           m == i_support[1] * max_t
<1>2. /\ c \in Nat /\ d \in Nat /\ m \in Nat /\ i_support[2] \in Nat
      /\ IsFiniteSet(S) /\ IsFiniteSet(T)
  BY <1>1, ItemsetFacts
<1>3. d <= c /\ d > 0
  BY <1>1, Monotone DEF Called, Enough
<1>4. d * i_support[2] <= c * i_support[2]
  BY <1>2, <1>3, TimesMonotone
<1>5. /\ d * i_support[2] >= m
      /\ Cardinality(T) # 1 => d * i_support[2] > m
  <2>1. d * i_support[2] \in Int
    BY <1>2
  <2> QED
    BY <1>1, <1>2, <2>1 DEF Enough, AtLeast, Above
<1>6. Cardinality(T) = 1 => Cardinality(S) = 1
  <2> SUFFICES ASSUME Cardinality(T) = 1 PROVE Cardinality(S) = 1
    OBVIOUS
  <2>1. PICK x : T = {x}
    BY <1>2, FS_Singleton
  <2>2. S = T
    BY <2>1
  <2> QED
    BY <2>2
<1>7. Enough(S)
  <2>1. d * i_support[2] \in Int /\ c * i_support[2] \in Int
    BY <1>2
  <2> HIDE DEF m
  <2>2. c * i_support[2] >= m /\ (Cardinality(S) # 1 => c * i_support[2] > m)
    BY <1>2, <1>4, <1>5, <1>6, <2>1
  <2>3. c > 0
    BY <1>2, <1>3
  <2> QED
    BY <2>2, <2>3 DEF Enough, AtLeast, Above, m
<1> QED
  BY <1>1, <1>7 DEF Kept, Itemsets

(* The rows of the table are those of a set of itemsets, one for each.     *)
LEMMA RowFacts ==
  /\ \A S : Row(S).set_list = S /\ Row(S).iteration = Cardinality(S)
            /\ Row(S).support = Total(S)
  /\ \A S, T : Row(S) = Row(T) => S = T
BY DEF Row

(* Found lists the kept sets of one size.                                  *)
LEMMA FoundRows ==
  ASSUME NEW F, assoc_rule_sets = Rows(F), NEW m
  PROVE  /\ \A a \in Found(m) : a.set_list \in F /\ Cardinality(a.set_list) = m
         /\ \A S \in F : Cardinality(S) = m => Row(S) \in Found(m)
BY RowFacts DEF Found, Rows

(* Each kept set is found to be frequent.                                  *)
LEMMA FrequentRows ==
  ASSUME NEW F, assoc_rule_sets = Rows(F), NEW S \in F
  PROVE  IsFrequent(S)
BY RowFacts DEF IsFrequent, Rows

(* Joining the itemsets of m products misses no itemset of m + 1.          *)
LEMMA UnionsFacts ==
  ASSUME Called, NEW m \in Nat \ {0}, assoc_rule_sets = Rows(Upto(m))
  PROVE  /\ \A S \in Unions(m) : S \in SUBSET Products /\ Cardinality(S) = m + 1
         /\ \A S \in Kept : Cardinality(S) = m + 1 => S \in Unions(m)
<1>1. ASSUME NEW S \in Unions(m)
      PROVE  S \in SUBSET Products /\ Cardinality(S) = m + 1
  <2>1. PICK ab \in Found(m) \X Found(m) :
             S = ab[1].set_list \cup ab[2].set_list /\ Cardinality(S) = m + 1
    BY <1>1 DEF Unions
  <2>2. ab[1] \in Found(m) /\ ab[2] \in Found(m)
    OBVIOUS
  <2>3. ab[1].set_list \in Upto(m) /\ ab[2].set_list \in Upto(m)
    BY <2>2, FoundRows
  <2> QED
    BY <2>1, <2>3 DEF Upto, Kept, Itemsets
<1>2. ASSUME NEW S \in Kept, Cardinality(S) = m + 1
      PROVE  S \in Unions(m)
  <2>1. S \in SUBSET Products /\ IsFiniteSet(S)
    BY ItemsetFacts DEF Kept, Itemsets
  <2>2. PICK x \in S : TRUE
    BY <1>2, <2>1, FS_EmptySet
  <2>3. IsFiniteSet(S \ {x}) /\ Cardinality(S \ {x}) = m
    BY <1>2, <2>1, <2>2, FS_RemoveElement
  <2>4. PICK y \in S \ {x} : TRUE
    BY <2>3, FS_EmptySet
  <2>5. IsFiniteSet(S \ {y}) /\ Cardinality(S \ {y}) = m
    BY <1>2, <2>1, <2>4, FS_RemoveElement
  <2> DEFINE A == S \ {x}
             B == S \ {y}
  <2>6. A # {} /\ B # {} /\ A # B /\ A \cup B = S
    BY <2>2, <2>4
  <2>7. A \in Upto(m) /\ B \in Upto(m)
    BY <1>2, <2>3, <2>5, <2>6, PartsAreKept DEF Upto
  <2>8. Row(A) \in Found(m) /\ Row(B) \in Found(m)
    BY <2>3, <2>5, <2>7, FoundRows
  <2>9. Hash[A] # Hash[B]
    BY <2>1, <2>6 DEF Called, HashTellsApart
  <2> HIDE DEF A, B
  <2>10. /\ <<Row(A), Row(B)>> \in Found(m) \X Found(m)
         /\ Row(A).set_list = A /\ Row(B).set_list = B
    BY <2>8, RowFacts
  <2> QED
    BY <1>2, <2>6, <2>9, <2>10 DEF Unions
<1> QED
  BY <1>1, <1>2

(* The first table: a single product's support is a number of rows, of     *)
(* which each transaction with the product has one.                        *)
LEMMA SinglesFacts ==
  ASSUME Called
  PROVE  {a \in Singles : AtLeast(a.support, i_support)} = Rows(Upto(1))
<1> DEFINE Of(p) == {row \in assoc_input_data : row[2] = p}
<1>1. ASSUME NEW p
      PROVE  /\ Cardinality(Of(p)) = Total({p})
             /\ Total({p}) > 0 <=> \E row \in assoc_input_data : row[2] = p
  <2> DEFINE f == [row \in Of(p) |-> row[1]]
             H == Having({p})
  <2>1. /\ IsFiniteSet(assoc_input_data)
        /\ \A row \in assoc_input_data : row = <<row[1], row[2]>>
    BY TableFacts DEF Called
  <2>2. IsFiniteSet(Of(p))
    BY <2>1, FS_Subset
  <2>3. \A row \in Of(p) : row[1] \in H
    BY DEF Having, assoc_trans_svec
  <2>4. \A t \in H : \E row \in Of(p) : row[1] = t
    BY DEF Having, assoc_trans_svec
  <2>5. \A q, r \in Of(p) : q[1] = r[1] => q = r
    BY <2>1
  <2>6. f \in [Of(p) -> H] /\ \A row \in Of(p) : f[row] = row[1]
    BY <2>3
  <2>7. Total({p}) = Cardinality(H)
    BY HavingFacts DEF Called
  <2>8. (\E row \in assoc_input_data : row[2] = p) <=> Of(p) # {}
    OBVIOUS
  <2> HIDE DEF f, H, Of
  <2>9. Cardinality(H) = Cardinality(Of(p))
    BY <2>2, <2>4, <2>5, <2>6, SameCardinality
  <2>10. Cardinality(Of(p)) \in Nat /\ (Cardinality(Of(p)) = 0 <=> Of(p) = {})
    BY <2>2, FS_CardinalityType, FS_EmptySet
  <2> QED
    BY <2>7, <2>8, <2>9, <2>10
<1> HIDE DEF Of
<1>2. Singles = {[set_list |-> {p}, iteration |-> 1, support |-> Cardinality(Of(p))] :
                   p \in {row[2] : row \in assoc_input_data}}
  BY DEF Singles, Of
<1>3. \A p : Cardinality({p}) = 1
  BY FS_Singleton
<1>4. \A p : [set_list |-> {p}, iteration |-> 1, support |-> Cardinality(Of(p))] = Row({p})
  BY <1>1, <1>3 DEF Row
<1>5. Singles = {Row({p}) : p \in {row[2] : row \in assoc_input_data}}
  BY <1>2, <1>4
<1>6. ASSUME NEW a \in Singles, AtLeast(a.support, i_support)
      PROVE  a \in Rows(Upto(1))
  <2>1. PICK row \in assoc_input_data : a = Row({row[2]})
    BY <1>5
  <2> DEFINE S == {row[2]}
  <2>2. S \in Itemsets
    BY TableFacts DEF Called, Itemsets
  <2>3. Cardinality(S) = 1 /\ Total(S) > 0
    BY <1>1, <1>3
  <2>4. a = Row(S) /\ a.support = Total(S)
    BY <2>1, RowFacts
  <2> HIDE DEF S
  <2>5. S \in Upto(1)
    BY <1>6, <2>2, <2>3, <2>4 DEF Upto, Kept, Enough
  <2> QED
    BY <2>4, <2>5 DEF Rows
<1>7. ASSUME NEW S \in Upto(1)
      PROVE  Row(S) \in Singles /\ AtLeast(Row(S).support, i_support)
  <2>1. S \in SUBSET Products /\ S # {} /\ Enough(S) /\ Cardinality(S) <= 1
    BY DEF Upto, Kept, Itemsets
  <2>2. IsFiniteSet(S) /\ Cardinality(S) \in Nat
    BY <2>1, ItemsetFacts
  <2>3. Cardinality(S) = 1
    BY <2>1, <2>2, FS_EmptySet
  <2>4. PICK p : S = {p}
    BY <2>2, <2>3, FS_Singleton
  <2>5. Total({p}) > 0 /\ AtLeast(Total(S), i_support)
    BY <2>1, <2>3, <2>4 DEF Enough
  <2>6. \E row \in assoc_input_data : row[2] = p
    BY <1>1, <2>5
  <2>7. Row(S) \in Singles
    BY <1>5, <2>4, <2>6
  <2> QED
    BY <2>5, <2>7, RowFacts
<1>8. \A a \in Rows(Upto(1)) : \E S \in Upto(1) : a = Row(S)
  BY DEF Rows
<1> QED
  BY <1>6, <1>7, <1>8

(* The support of a candidate counts a transaction for each itemset of the *)
(* same hash: that is once.                                                *)
LEMMA CountedFacts ==
  ASSUME Called, list_c \in SUBSET (SUBSET Products)
  PROVE  Counted = Rows(list_c)
<1>1. ASSUME NEW c \in list_c
      PROVE  Cardinality({tc \in (DOMAIN assoc_trans_svec)
                                   \X {d \in list_c : Hash[d] = Hash[c]} :
                            tc[2] \subseteq assoc_trans_svec[tc[1]]}) = Total(c)
  <2> DEFINE D == {d \in list_c : Hash[d] = Hash[c]}
             C == {tc \in (DOMAIN assoc_trans_svec) \X D :
                     tc[2] \subseteq assoc_trans_svec[tc[1]]}
             H == Having(c)
             f == [t \in H |-> <<t, c>>]
  <2>1. D = {c}
    BY DEF Called, HashTellsApart
  <2>2. \A t \in H : <<t, c>> \in C
    BY <2>1 DEF Having
  <2>3. \A tc \in C : tc[1] \in H /\ tc = <<tc[1], c>>
    BY <2>1 DEF Having
  <2>4. IsFiniteSet(H) /\ Total(c) = Cardinality(H)
    BY HavingFacts DEF Called
  <2>5. f \in [H -> C] /\ \A t \in H : f[t] = <<t, c>>
    BY <2>2
  <2> HIDE DEF C, H, f, D
  <2>6. /\ \A s, t \in H : f[s] = f[t] => s = t
        /\ \A tc \in C : \E t \in H : f[t] = tc
    BY <2>3, <2>5
  <2>7. Cardinality(C) = Cardinality(H)
    BY <2>4, <2>5, <2>6, SameCardinality
  <2> QED
    BY <2>4, <2>7 DEF C, D
<1> QED
  BY <1>1 DEF Counted, Rows, Row

(* When no itemset of m + 1 products is kept, no larger one is.            *)
LEMMA NoneLarger ==
  ASSUME Called, NEW m \in Nat, \A S \in Kept : Cardinality(S) # m + 1
  PROVE  \A S \in Kept : Cardinality(S) <= m
<1> DEFINE F == {S \in Kept : Cardinality(S) > m}
<1>1. \A S \in Kept : S \in SUBSET Products /\ IsFiniteSet(S) /\ Cardinality(S) \in Nat
  BY ItemsetFacts DEF Kept, Itemsets
<1>2. SUFFICES ASSUME F # {} PROVE FALSE
  BY <1>1
<1>3. F \in SUBSET (SUBSET Products) /\ IsFiniteSet(Products)
  BY <1>1 DEF Called, AssocRulesAssumption
<1>4. PICK X \in F : \A Y \in F : Y \subseteq X => Y = X
  <2> HIDE DEF F
  <2> QED
    BY <1>2, <1>3, MinimalSet
<1>5. X \in Kept /\ IsFiniteSet(X) /\ Cardinality(X) \in Nat /\ Cardinality(X) > m + 1
  BY <1>1
<1>6. PICK x \in X : TRUE
  BY <1>5, FS_EmptySet
<1>7. Cardinality(X \ {x}) = Cardinality(X) - 1 /\ IsFiniteSet(X \ {x})
  BY <1>5, <1>6, FS_RemoveElement
<1>8. X \ {x} # {}
  BY <1>5, <1>7, FS_EmptySet
<1>9. X \ {x} \in Kept
  BY <1>5, <1>8, PartsAreKept
<1>10. X \ {x} \in F
  BY <1>5, <1>7, <1>9
<1>11. X \ {x} = X
  BY <1>4, <1>10
<1> QED
  BY <1>6, <1>11

-----------------------------------------------------------------------------
(* The inductive invariant.                                                *)

\* A row of assoc_set_list_parts: a product of an itemset and the others.
ArePart(p) ==
  /\ p.set_list \in SUBSET Products
  /\ \E x \in p.set_list : p.subset_x = {x} /\ p.subset_y = p.set_list \ {x}

\* The rules of the itemsets the function keeps.
KeptRules ==
  {[set_list |-> xy[1] \cup xy[2], subset_x |-> xy[1], subset_y |-> xy[2],
    support_xy |-> Total(xy[1] \cup xy[2]),
    support_x |-> Total(xy[1]), support_y |-> Total(xy[2])] :
     xy \in {xy \in Itemsets \X Itemsets :
       /\ xy[1] \cap xy[2] = {} /\ xy[1] \cup xy[2] \in Kept
       /\ Confident(Total(xy[1] \cup xy[2]), Total(xy[1]))}}

InLoop == pc \in {"parts", "list_c", "support"}

\* The rows of assoc_rule_sets at each statement; n is one behind at list_b.
SetsAreKept ==
  /\ pc \in {"singles", "list_b", "parts", "list_c", "support", "rules", "done"}
  /\ pc = "singles" => n = 0 /\ assoc_rule_sets = {}
  /\ pc = "list_b" => assoc_rule_sets = Rows(Upto(n + 1))
  /\ InLoop => n # 0 /\ assoc_rule_sets = Rows(Upto(n))
  /\ pc \in {"rules", "done"} => assoc_rule_sets = Rows(Kept)

Candidates ==
  /\ InLoop => list_b = Unions(n)
  /\ pc = "support" =>
       /\ list_c \subseteq list_b
       /\ \A S \in Kept : Cardinality(S) = n + 1 => S \in list_c

Inv ==
  /\ Called
  /\ n \in Nat
  /\ SetsAreKept
  /\ Candidates
  /\ \A p \in assoc_set_list_parts : ArePart(p)
  /\ pc = "done" => assoc_rules = KeptRules

(* Pruning leaves out no itemset that is kept: both parts it is taken into *)
(* are in the table.                                                       *)
LEMMA KeptSurvive ==
  ASSUME Called, n \in Nat \ {0}, assoc_rule_sets = Rows(Upto(n)),
         \A p \in assoc_set_list_parts : ArePart(p),
         NEW S \in Kept, Cardinality(S) = n + 1
  PROVE  Survives(S)
<1>1. S \in SUBSET Products /\ IsFiniteSet(S)
  BY ItemsetFacts DEF Kept, Itemsets
<1>2. SUFFICES ASSUME NEW p \in assoc_set_list_parts, Hash[p.set_list] = Hash[S]
               PROVE  IsFrequent(p.subset_x) /\ IsFrequent(p.subset_y)
  BY DEF Survives
<1>3. p.set_list = S
  BY <1>1, <1>2 DEF ArePart, Called, HashTellsApart
<1>4. PICK x \in S : p.subset_x = {x} /\ p.subset_y = S \ {x}
  BY <1>3 DEF ArePart
<1>5. Cardinality({x}) = 1 /\ Cardinality(S \ {x}) = n
  <2>1. Cardinality({x}) = 1
    BY FS_Singleton
  <2>2. Cardinality(S \ {x}) = Cardinality(S) - 1
    BY <1>1, <1>4, FS_RemoveElement
  <2> QED
    BY <2>1, <2>2
<1>6. S \ {x} # {}
  BY <1>5, FS_EmptySet
<1>7. {x} \in Kept /\ S \ {x} \in Kept
  BY <1>4, <1>6, PartsAreKept
<1>8. {x} \in Upto(n) /\ S \ {x} \in Upto(n)
  BY <1>5, <1>7 DEF Upto
<1> QED
  BY <1>4, <1>8, FrequentRows

(* What an iteration adds to the table: the kept itemsets of n + 1         *)
(* products.                                                               *)
LEMMA IterationAdds ==
  ASSUME Called, n \in Nat \ {0}, assoc_rule_sets = Rows(Upto(n)),
         Candidates, pc = "support"
  PROVE  assoc_rule_sets \cup {c \in Counted : Above(c.support, i_support)}
           = Rows(Upto(n + 1))
<1>1. list_b = Unions(n) /\ list_c \subseteq list_b
  BY DEF Candidates, InLoop
<1>2. \A S \in list_c : S \in SUBSET Products /\ Cardinality(S) = n + 1
  BY <1>1, UnionsFacts
<1>3. \A S \in Kept : Cardinality(S) = n + 1 => S \in list_c
  BY DEF Candidates
<1>4. Counted = Rows(list_c)
  BY <1>2, CountedFacts
<1>5. ASSUME NEW S \in list_c, Above(Total(S), i_support)
      PROVE  S \in Upto(n + 1)
  <2>1. S \in SUBSET Products /\ Cardinality(S) = n + 1
    BY <1>2
  <2>2. S # {}
    BY <2>1, FS_EmptySet
  <2> DEFINE m == i_support[1] * max_t
             d == i_support[2]
  <2>3. Total(S) \in Nat /\ m \in Nat /\ d \in Nat \ {0}
    BY <2>1, ItemsetFacts
  <2>4. Total(S) * d > m
    BY <1>5 DEF Above
  <2> HIDE DEF m, d
  <2>5. Total(S) > 0
    <3>1. Total(S) = 0 => Total(S) * d = 0
      BY <2>3
    <3> QED
      BY <2>3, <2>4, <3>1
  <2> QED
    BY <1>5, <2>1, <2>2, <2>5 DEF Upto, Kept, Itemsets, Enough
<1>6. ASSUME NEW S \in Upto(n + 1), S \notin Upto(n)
      PROVE  S \in list_c /\ Above(Total(S), i_support)
  <2>1. S \in Kept /\ Cardinality(S) <= n + 1 /\ ~(Cardinality(S) <= n)
    BY <1>6 DEF Upto
  <2>2. Cardinality(S) \in Nat
    BY <2>1, ItemsetFacts DEF Kept, Itemsets
  <2>3. Cardinality(S) = n + 1
    BY <2>1, <2>2
  <2>4. Cardinality(S) # 1
    BY <2>3
  <2> QED
    BY <1>3, <2>1, <2>3, <2>4 DEF Kept, Enough
<1>7. Upto(n) \subseteq Upto(n + 1)
  BY ItemsetFacts DEF Upto, Kept, Itemsets
<1>8. {c \in Counted : Above(c.support, i_support)}
        = {Row(S) : S \in {S \in list_c : Above(Total(S), i_support)}}
  BY <1>4, RowFacts DEF Rows
<1>9. Upto(n + 1) = Upto(n) \cup {S \in list_c : Above(Total(S), i_support)}
  BY <1>5, <1>6, <1>7
<1> HIDE DEF Row
<1> QED
  BY <1>8, <1>9 DEF Rows

(* The rules, row by row.                                                  *)
LEMMA RulesFacts ==
  ASSUME Called, assoc_rule_sets = Rows(Kept)
  PROVE  Rules = KeptRules
<1> DEFINE Rule(A, B, D) ==
             [set_list |-> A, subset_x |-> B, subset_y |-> D,
              support_xy |-> Total(A), support_x |-> Total(B), support_y |-> Total(D)]
<1>1. \A S \in Kept : /\ S \in SUBSET Products /\ S # {} /\ S \in Itemsets
                      /\ IsFiniteSet(S) /\ Cardinality(S) \in Nat
  BY ItemsetFacts DEF Kept, Itemsets
<1>2. ASSUME NEW r \in Rules
      PROVE  r \in KeptRules
  <2>1. PICK abd \in assoc_rule_sets \X assoc_rule_sets \X assoc_rule_sets :
          /\ r = [set_list |-> abd[1].set_list, subset_x |-> abd[2].set_list,
                  subset_y |-> abd[1].set_list \ abd[2].set_list,
                  support_xy |-> abd[1].support, support_x |-> abd[2].support,
                  support_y |-> abd[3].support]
          /\ abd[2].set_list \subseteq abd[1].set_list
          /\ Hash[abd[1].set_list \ abd[2].set_list] = Hash[abd[3].set_list]
          /\ Confident(abd[1].support, abd[2].support)
    BY DEF Rules
  <2>2. PICK A \in Kept, B \in Kept, D \in Kept :
          abd[1] = Row(A) /\ abd[2] = Row(B) /\ abd[3] = Row(D)
    BY DEF Rows
  <2>3. /\ r = [set_list |-> A, subset_x |-> B, subset_y |-> A \ B,
                support_xy |-> Total(A), support_x |-> Total(B), support_y |-> Total(D)]
        /\ B \subseteq A /\ Hash[A \ B] = Hash[D] /\ Confident(Total(A), Total(B))
    <3>1. /\ abd[1].set_list = A /\ abd[2].set_list = B /\ abd[3].set_list = D
          /\ abd[1].support = Total(A) /\ abd[2].support = Total(B)
          /\ abd[3].support = Total(D)
      BY <2>2, RowFacts
    <3> QED
      BY <2>1, <3>1
  <2>4. A \ B = D
    BY <1>1, <2>3 DEF Called, HashTellsApart
  <2>5. B \cap D = {} /\ B \cup D = A
    BY <2>3, <2>4
  <2> DEFINE xy == <<B, D>>
  <2>6. xy \in Itemsets \X Itemsets /\ xy[1] = B /\ xy[2] = D
    BY <1>1
  <2> HIDE DEF xy
  <2>7. /\ r = Rule(xy[1] \cup xy[2], xy[1], xy[2])
        /\ xy[1] \cap xy[2] = {} /\ xy[1] \cup xy[2] \in Kept
        /\ Confident(Total(xy[1] \cup xy[2]), Total(xy[1]))
    BY <2>3, <2>4, <2>5, <2>6
  <2> QED
    BY <2>6, <2>7 DEF KeptRules
<1>3. ASSUME NEW r \in KeptRules
      PROVE  r \in Rules
  <2>1. PICK xy \in Itemsets \X Itemsets :
          /\ r = Rule(xy[1] \cup xy[2], xy[1], xy[2])
          /\ xy[1] \cap xy[2] = {} /\ xy[1] \cup xy[2] \in Kept
          /\ Confident(Total(xy[1] \cup xy[2]), Total(xy[1]))
    BY DEF KeptRules
  <2> DEFINE B == xy[1]
             D == xy[2]
             A == B \cup D
  <2>2. B \in Itemsets /\ D \in Itemsets
    OBVIOUS
  <2>3. B # {} /\ D # {}
    BY <2>2 DEF Itemsets
  <2>4. /\ r = Rule(A, B, D) /\ B \cap D = {} /\ A \in Kept
        /\ Confident(Total(A), Total(B)) /\ B \subseteq A /\ D \subseteq A /\ A \ B = D
    BY <2>1
  <2> HIDE DEF A, B, D
  <2>5. B \in Kept /\ D \in Kept
    BY <2>3, <2>4, PartsAreKept
  <2>6. Cardinality(A) > Cardinality(B)
    <3>1. A # B
      BY <2>3, <2>4
    <3>2. Cardinality(B) <= Cardinality(A) /\ Cardinality(B) # Cardinality(A)
      BY <1>1, <2>4, <3>1, FS_Subset
    <3> QED
      BY <1>1, <2>4, <2>5, <3>2
  <2> DEFINE abd == <<Row(A), Row(B), Row(D)>>
  <2>7. /\ abd \in assoc_rule_sets \X assoc_rule_sets \X assoc_rule_sets
        /\ abd[1] = Row(A) /\ abd[2] = Row(B) /\ abd[3] = Row(D)
    BY <2>4, <2>5 DEF Rows
  <2> HIDE DEF abd
  <2>8. /\ abd[1].iteration > abd[2].iteration
        /\ abd[2].set_list \subseteq abd[1].set_list
        /\ abd[1].set_list \ abd[2].set_list = abd[3].set_list
        /\ Confident(abd[1].support, abd[2].support)
    BY <2>4, <2>6, <2>7, RowFacts
  <2>9. r = [set_list |-> abd[1].set_list, subset_x |-> abd[2].set_list,
             subset_y |-> abd[1].set_list \ abd[2].set_list,
             support_xy |-> abd[1].support, support_x |-> abd[2].support,
             support_y |-> abd[3].support]
    BY <2>4, <2>7, RowFacts
  <2> QED
    BY <2>7, <2>8, <2>9 DEF Rules
<1> QED
  BY <1>2, <1>3

(* Only the arguments and the tables made of them decide what is kept:     *)
(* no step changes it.                                                     *)
LEMMA Frame ==
  ASSUME UNCHANGED args
  PROVE  /\ Called' = Called /\ Kept' = Kept
         /\ \A k : Upto(k)' = Upto(k)
         /\ \A F : Rows(F)' = Rows(F)
         /\ \A a : AtLeast(a, i_support)' = AtLeast(a, i_support)
         /\ KeptRules' = KeptRules
<1>1. input' = input /\ i_support' = i_support /\ i_confidence' = i_confidence
  BY DEF args
<1>2. assoc_trans_svec' = assoc_trans_svec /\ max_t' = max_t
  BY <1>1 DEF assoc_trans_svec, assoc_input_data, assoc_id_uniq, max_t
<1>3. \A S : Total(S)' = Total(S)
  BY <1>2 DEF Total
<1>4. \A S : Enough(S)' = Enough(S)
  BY <1>1, <1>2, <1>3 DEF Enough, AtLeast, Above
<1>5. Kept' = Kept
  BY <1>4 DEF Kept, Itemsets
<1>6. \A k : Upto(k)' = Upto(k)
  BY <1>5 DEF Upto
<1>7. \A F : Rows(F)' = Rows(F)
  BY <1>3 DEF Rows, Row
<1>8. KeptRules' = KeptRules
  BY <1>1, <1>2, <1>3, <1>5 DEF KeptRules, Confident, confidence_xy, Quotient, Itemsets
<1>9. Called' = Called
  BY <1>1 DEF Called, AssocRulesAssumption, HashTellsApart
<1> QED
  BY <1>1, <1>2, <1>5, <1>6, <1>7, <1>8, <1>9 DEF AtLeast

(* Before the first statement the invariant holds.                         *)
LEMMA InitInv ==
  ASSUME AssocRulesAssumption, HashTellsApart, Init
  PROVE  Inv
BY DEF Init, Inv, Called, SetsAreKept, Candidates, InLoop

(* Every statement preserves the invariant.                                *)
LEMMA NextInv ==
  ASSUME Inv, [Next]_vars
  PROVE  Inv'
<1> USE DEF InLoop
<1>1. CASE InsertSingles
  <2>1. UNCHANGED args /\ pc = "singles" /\ pc' = "list_b" /\ n' = n /\ n = 0
    BY <1>1 DEF InsertSingles, Inv, SetsAreKept
  <2>2. assoc_rule_sets' = Rows(Upto(1))
    BY <1>1, SinglesFacts DEF InsertSingles, Inv
  <2>3. Called' /\ assoc_rule_sets' = Rows(Upto(n + 1))'
    BY <2>1, <2>2, Frame DEF Inv
  <2>4. \A p \in assoc_set_list_parts' : ArePart(p)'
    BY <1>1 DEF InsertSingles, Inv, ArePart
  <2> QED
    BY <2>1, <2>3, <2>4 DEF Inv, SetsAreKept, Candidates
<1>2. CASE Combine
  <2>1. /\ UNCHANGED <<args, assoc_rule_sets, assoc_set_list_parts>>
        /\ pc = "list_b" /\ pc' = "parts" /\ n' = n + 1 /\ list_b' = Unions(n + 1)
    BY <1>2 DEF Combine
  <2>2. n \in Nat /\ n' \in Nat /\ n' # 0
    BY <2>1 DEF Inv
  <2>3. assoc_rule_sets' = Rows(Upto(n))'
    <3>1. assoc_rule_sets' = Rows(Upto(n + 1))
      BY <2>1 DEF Inv, SetsAreKept
    <3> QED
      BY <2>1, <3>1, Frame
  <2>4. list_b' = Unions(n)'
    BY <2>1 DEF Unions, Found
  <2>5. Called'
    BY <2>1, Frame DEF Inv
  <2>6. \A p \in assoc_set_list_parts' : ArePart(p)'
    BY <2>1 DEF Inv, ArePart
  <2> QED
    BY <2>1, <2>2, <2>3, <2>4, <2>5, <2>6 DEF Inv, SetsAreKept, Candidates
<1>3. CASE ListParts
  <2>1. /\ UNCHANGED <<args, n, assoc_rule_sets, list_b>>
        /\ pc = "parts" /\ pc' = "list_c"
        /\ assoc_set_list_parts' =
             assoc_set_list_parts \cup UNION {Parts(set) : set \in list_b}
    BY <1>3 DEF ListParts
  <2>2. n \in Nat \ {0} /\ assoc_rule_sets = Rows(Upto(n)) /\ list_b = Unions(n)
    BY <2>1 DEF Inv, SetsAreKept, Candidates
  <2>3. \A S \in list_b : S \in SUBSET Products
    BY <2>2, UnionsFacts DEF Inv
  <2>4. \A S \in list_b : \A p \in Parts(S) : ArePart(p)
    BY <2>3 DEF Parts, ArePart
  <2>5. \A p \in assoc_set_list_parts' : ArePart(p)'
    <3>1. \A p \in assoc_set_list_parts' : ArePart(p)
      BY <2>1, <2>4 DEF Inv
    <3> QED
      BY <3>1 DEF ArePart
  <2>6. assoc_rule_sets' = Rows(Upto(n))' /\ Called'
    BY <2>1, <2>2, Frame DEF Inv
  <2>7. list_b' = Unions(n)'
    BY <2>1, <2>2 DEF Unions, Found
  <2> QED
    BY <2>1, <2>2, <2>5, <2>6, <2>7 DEF Inv, SetsAreKept, Candidates
<1>4. CASE Prune
  <2>1. /\ UNCHANGED <<args, n, assoc_rule_sets, list_b, assoc_set_list_parts>>
        /\ pc = "list_c" /\ pc' = "support" /\ list_c' = {S \in list_b : Survives(S)}
    BY <1>4 DEF Prune
  <2>2. /\ n \in Nat \ {0} /\ assoc_rule_sets = Rows(Upto(n)) /\ list_b = Unions(n)
        /\ Called /\ \A p \in assoc_set_list_parts : ArePart(p)
    BY <2>1 DEF Inv, SetsAreKept, Candidates
  <2>3. \A S \in Kept : Cardinality(S) = n + 1 => S \in list_c'
    BY <2>1, <2>2, UnionsFacts, KeptSurvive
  <2>4. \A p \in assoc_set_list_parts' : ArePart(p)'
    BY <2>1, <2>2 DEF ArePart
  <2>5. assoc_rule_sets' = Rows(Upto(n))' /\ Called' /\ Kept' = Kept
    BY <2>1, <2>2, Frame
  <2>6. list_b' = Unions(n)'
    BY <2>1, <2>2 DEF Unions, Found
  <2> QED
    BY <2>1, <2>2, <2>3, <2>4, <2>5, <2>6 DEF Inv, SetsAreKept, Candidates
<1>5. CASE InsertFrequent
  <2>1. /\ UNCHANGED <<args, n, assoc_set_list_parts>> /\ pc = "support"
        /\ assoc_rule_sets' =
             assoc_rule_sets \cup {c \in Counted : Above(c.support, i_support)}
        /\ pc' = IF \E a \in assoc_rule_sets' : a.iteration = n + 1
                   THEN "list_b" ELSE "rules"
    BY <1>5 DEF InsertFrequent
  <2>2. /\ n \in Nat \ {0} /\ assoc_rule_sets = Rows(Upto(n))
        /\ Called /\ \A p \in assoc_set_list_parts : ArePart(p)
    BY <2>1 DEF Inv, SetsAreKept
  <2>3. assoc_rule_sets' = Rows(Upto(n + 1))
    BY <2>1, <2>2, IterationAdds DEF Inv
  <2>4. pc' = "rules" => Upto(n + 1) = Kept
    <3> SUFFICES ASSUME pc' = "rules" PROVE \A S \in Kept : Cardinality(S) <= n + 1
      BY DEF Upto
    <3>1. ASSUME NEW S \in Kept, Cardinality(S) = n + 1
          PROVE  FALSE
      <4>1. Row(S) \in assoc_rule_sets'
        BY <2>2, <2>3, <3>1 DEF Upto, Rows
      <4>2. Row(S).iteration = n + 1
        BY <3>1, RowFacts
      <4> QED
        BY <2>1, <4>1, <4>2
    <3>2. \A S \in Kept : Cardinality(S) <= n
      BY <2>2, <3>1, NoneLarger
    <3>3. \A S \in Kept : Cardinality(S) \in Nat
      BY <2>2, ItemsetFacts DEF Kept, Itemsets
    <3> QED
      BY <2>2, <3>2, <3>3
  <2>5. \A p \in assoc_set_list_parts' : ArePart(p)'
    BY <2>1, <2>2 DEF ArePart
  <2>6. Called' /\ Rows(Upto(n + 1))' = Rows(Upto(n + 1)) /\ Rows(Kept)' = Rows(Kept)
    BY <2>1, <2>2, Frame
  <2>7. pc' \in {"list_b", "rules"}
    BY <2>1
  <2> QED
    BY <2>1, <2>2, <2>3, <2>4, <2>5, <2>6, <2>7 DEF Inv, SetsAreKept, Candidates
<1>6. CASE InsertRules
  <2>1. /\ UNCHANGED <<args, n, assoc_rule_sets, assoc_set_list_parts>>
        /\ pc = "rules" /\ pc' = "done" /\ assoc_rules' = Rules
    BY <1>6 DEF InsertRules
  <2>2. /\ n \in Nat /\ assoc_rule_sets = Rows(Kept)
        /\ Called /\ \A p \in assoc_set_list_parts : ArePart(p)
    BY <2>1 DEF Inv, SetsAreKept
  <2>3. assoc_rules' = KeptRules
    BY <2>1, <2>2, RulesFacts
  <2>4. \A p \in assoc_set_list_parts' : ArePart(p)'
    BY <2>1, <2>2 DEF ArePart
  <2>5. Called' /\ Rows(Kept)' = Rows(Kept) /\ KeptRules' = KeptRules
    BY <2>1, <2>2, Frame
  <2> QED
    BY <2>1, <2>2, <2>3, <2>4, <2>5 DEF Inv, SetsAreKept, Candidates
<1>7. CASE UNCHANGED vars
  <2>1. UNCHANGED <<args, pc, n, assoc_rule_sets, list_b, assoc_set_list_parts,
                    list_c, assoc_rules>>
    BY <1>7 DEF vars
  <2>2. /\ Called' = Called /\ Kept' = Kept /\ KeptRules' = KeptRules
        /\ Rows(Kept)' = Rows(Kept) /\ Rows(Upto(n))' = Rows(Upto(n))
        /\ Rows(Upto(n + 1))' = Rows(Upto(n + 1))
    BY <2>1, Frame
  <2>3. Unions(n)' = Unions(n)
    BY <2>1 DEF Unions, Found
  <2>4. (\A p \in assoc_set_list_parts : ArePart(p))'
          = (\A p \in assoc_set_list_parts : ArePart(p))
    BY <2>1 DEF ArePart
  <2> QED
    BY <2>1, <2>2, <2>3, <2>4 DEF Inv, SetsAreKept, Candidates
<1> QED
  BY <1>1, <1>2, <1>3, <1>4, <1>5, <1>6, <1>7 DEF Next

-----------------------------------------------------------------------------
\* The documentation's rule and the code's agree when no itemset of two or
\* more products has exactly the minimum support.
NoneExact ==
  \A S \in Itemsets :
    Cardinality(S) >= 2 /\ Total(S) > 0 =>
      Total(S) * i_support[2] # i_support[1] * max_t

(* Unless a support is met exactly, what the rounds keep is what is        *)
(* frequent.                                                               *)
LEMMA KeptAreFrequent ==
  ASSUME Called, NoneExact
  PROVE  Kept = Frequent
<1> SUFFICES ASSUME NEW S \in Itemsets
             PROVE  Enough(S) <=> Total(S) > 0 /\ AtLeast(Total(S), i_support)
  BY DEF Kept, Frequent
<1> DEFINE m == i_support[1] * max_t
           d == Total(S) * i_support[2]
<1>1. S \in SUBSET Products /\ S # {}
  BY DEF Itemsets
<1>2. m \in Int /\ d \in Int /\ IsFiniteSet(S) /\ Cardinality(S) \in Nat
  BY <1>1, ItemsetFacts
<1>3. Cardinality(S) # 0
  BY <1>1, <1>2, FS_EmptySet
<1>4. Cardinality(S) # 1 /\ Total(S) > 0 => d # m
  BY <1>2, <1>3 DEF NoneExact
<1>5. (Above(Total(S), i_support) <=> d > m) /\ (AtLeast(Total(S), i_support) <=> d >= m)
  BY DEF Above, AtLeast
<1> HIDE DEF m, d
<1> QED
  BY <1>2, <1>4, <1>5 DEF Enough

(* What the table of itemsets then has.                                    *)
LEMMA SetsAreExact ==
  ASSUME Inv, NoneExact
  PROVE  FrequentSetsAreExact
<1> SUFFICES ASSUME pc \in {"list_b", "rules", "done"}
             PROVE  assoc_rule_sets =
                      {[set_list |-> S, iteration |-> Cardinality(S),
                        support |-> Total(S)] :
                         S \in {S \in Frequent :
                                  pc = "list_b" => Cardinality(S) <= n + 1}}
  BY DEF FrequentSetsAreExact
<1>1. Kept = Frequent
  BY KeptAreFrequent DEF Inv
<1>2. CASE pc = "list_b"
  BY <1>1, <1>2 DEF Inv, SetsAreKept, Rows, Row, Upto
<1>3. CASE pc # "list_b"
  BY <1>1, <1>3 DEF Inv, SetsAreKept, Rows, Row
<1> QED
  BY <1>2, <1>3

-----------------------------------------------------------------------------
(* Confidences.                                                            *)

(* What a whole division leaves out is less than the divisor.              *)
LEMMA WholeDivision ==
  ASSUME NEW x \in Nat, NEW y \in Nat \ {0}
  PROVE  x \div y \in Nat /\ y * (x \div y) <= x /\ x < y * (x \div y) + y
OBVIOUS

(* Multiplying keeps the order.                                            *)
LEMMA TimesStrict ==
  ASSUME NEW x \in Int, NEW y \in Int, NEW k \in Int, x < y, k > 0
  PROVE  x * k < y * k
OBVIOUS
(* The same of the order with equality.                                    *)
LEMMA TimesOrder ==
  ASSUME NEW x \in Int, NEW y \in Int, NEW k \in Int, x <= y, k >= 0
  PROVE  x * k <= y * k
OBVIOUS

(* A and B are a/m and b/m rounded, and Q the quotient of these, in units  *)
(* of 1/U: if a/b is above k/d and U fine enough, Q is above it as well.   *)
LEMMA RoundedAbove ==
  ASSUME NEW a \in Int, NEW b \in Int, NEW m \in Int, NEW U \in Int,
         NEW k \in Int, NEW d \in Int, NEW A \in Int, NEW B \in Int, NEW Q \in Int,
         m > 0, U > 0, d > 0, k >= 0, B > 0, B <= U,
         2 * U >= m * (2 * d + k),
         2 * (a * U) < 2 * (m * A) + m, 2 * (m * B) <= 2 * (b * U) + m,
         2 * (A * U) < 2 * (B * Q) + B,
         a * d > k * b
  PROVE  Q * d > k * U
<1>1. 2 * (a * U) * d < (2 * (m * A) + m) * d
  BY TimesStrict
<1>2. (2 * (m * B)) * k <= (2 * (b * U) + m) * k
  BY TimesOrder
<1>3. (k * b + 1) * U <= (a * d) * U
  BY TimesOrder
<1>4. m * d < 2 * (m * (A * d - B * k))
  <2> DEFINE x == (a * d) * U
             y == (k * b) * U
             z == m * (A * d)
             w == m * (B * k)
             v == m * d
             u == m * k
  <2>1. x \in Int /\ y \in Int /\ z \in Int /\ w \in Int /\ v \in Int /\ u \in Int
    OBVIOUS
  <2>2. 2 * x < 2 * z + v
    BY <1>1
  <2>3. 2 * w <= 2 * y + u
    BY <1>2
  <2>4. y + U <= x
    BY <1>3
  <2>5. 2 * U >= 2 * v + u
    OBVIOUS
  <2>6. 2 * (m * (A * d - B * k)) = 2 * z - 2 * w
    OBVIOUS
  <2> HIDE DEF x, y, z, w, v, u
  <2>7. v < 2 * z - 2 * w
    BY <2>1, <2>2, <2>3, <2>4, <2>5
  <2> QED
    BY <2>6, <2>7 DEF v
<1>5. d < 2 * (A * d - B * k)
  <2> SUFFICES ASSUME 2 * (A * d - B * k) <= d PROVE FALSE
    OBVIOUS
  <2>1. (2 * (A * d - B * k)) * m <= d * m
    BY TimesOrder
  <2> QED
    BY <1>4, <2>1
<1>6. d * U < (2 * (A * d - B * k)) * U
  BY <1>5, TimesStrict
<1>7. B * d <= U * d
  BY TimesOrder
<1>8. (2 * (A * U)) * d < (2 * (B * Q) + B) * d
  BY TimesStrict
<1>9. 2 * (B * (k * U)) < 2 * (B * (Q * d))
  BY <1>6, <1>7, <1>8
<1> SUFFICES ASSUME Q * d <= k * U PROVE FALSE
  OBVIOUS
<1>10. (Q * d) * B <= (k * U) * B
  BY TimesOrder
<1> QED
  BY <1>9, <1>10

(* And below it if a/b is.                                                 *)
LEMMA RoundedBelow ==
  ASSUME NEW a \in Int, NEW b \in Int, NEW m \in Int, NEW U \in Int,
         NEW k \in Int, NEW d \in Int, NEW A \in Int, NEW B \in Int, NEW Q \in Int,
         m > 0, U > 0, d > 0, k >= 0, B > 0, B <= U,
         2 * U >= m * (2 * d + k), a >= 0,
         2 * (m * A) <= 2 * (a * U) + m, 2 * (b * U) < 2 * (m * B) + m,
         2 * (B * Q) <= 2 * (A * U) + B,
         a * d < k * b
  PROVE  Q * d < k * U
<1>0. k > 0
  <2>1. 0 * d <= a * d
    BY TimesOrder
  <2> QED
    BY <2>1
<1>1. 2 * (m * A) * d <= (2 * (a * U) + m) * d
  BY TimesOrder
<1>2. (2 * (b * U)) * k < (2 * (m * B) + m) * k
  BY <1>0, TimesStrict
<1>3. (a * d + 1) * U <= (k * b) * U
  BY TimesOrder
<1>4. m * d < 2 * (m * (B * k - A * d))
  <2> DEFINE x == (a * d) * U
             y == (k * b) * U
             z == m * (A * d)
             w == m * (B * k)
             v == m * d
             u == m * k
  <2>1. x \in Int /\ y \in Int /\ z \in Int /\ w \in Int /\ v \in Int /\ u \in Int
    OBVIOUS
  <2>2. 2 * z <= 2 * x + v
    BY <1>1
  <2>3. 2 * y < 2 * w + u
    BY <1>2
  <2>4. x + U <= y
    BY <1>3
  <2>5. 2 * U >= 2 * v + u
    OBVIOUS
  <2>6. 2 * (m * (B * k - A * d)) = 2 * w - 2 * z
    OBVIOUS
  <2> HIDE DEF x, y, z, w, v, u
  <2>7. v < 2 * w - 2 * z
    BY <2>1, <2>2, <2>3, <2>4, <2>5
  <2> QED
    BY <2>6, <2>7 DEF v
<1>5. d < 2 * (B * k - A * d)
  <2> SUFFICES ASSUME 2 * (B * k - A * d) <= d PROVE FALSE
    OBVIOUS
  <2>1. (2 * (B * k - A * d)) * m <= d * m
    BY TimesOrder
  <2> QED
    BY <1>4, <2>1
<1>6. d * U < (2 * (B * k - A * d)) * U
  BY <1>5, TimesStrict
<1>7. B * d <= U * d
  BY TimesOrder
<1>8. (2 * (B * Q)) * d <= (2 * (A * U) + B) * d
  BY TimesOrder
<1>9. 2 * (B * (Q * d)) < 2 * (B * (k * U))
  BY <1>6, <1>7, <1>8
<1> SUFFICES ASSUME k * U <= Q * d PROVE FALSE
  OBVIOUS
<1>10. (k * U) * B <= (Q * d) * B
  BY TimesOrder
<1> QED
  BY <1>9, <1>10

(* A quotient is rounded by at most half a unit.                           *)
LEMMA QuotientFacts ==
  ASSUME Ulps \in Nat \ {0}, NEW a \in Nat, NEW b \in Nat \ {0}
  PROVE  /\ Quotient(a, b) \in Nat
         /\ 2 * (b * Quotient(a, b)) <= 2 * (a * Ulps) + b
         /\ 2 * (a * Ulps) < 2 * (b * Quotient(a, b)) + b
<1> DEFINE x == 2 * a * Ulps + b
           y == 2 * b
<1>1. x \in Nat /\ y \in Nat \ {0} /\ x = 2 * (a * Ulps) + b /\ y = 2 * b
  OBVIOUS
<1>2. Quotient(a, b) = x \div y
  BY DEF Quotient
<1> DEFINE q == x \div y
<1> HIDE DEF x, y
<1>3. q \in Nat /\ y * q <= x /\ x < y * q + y
  BY <1>1, WholeDivision
<1> HIDE DEF q
<1>4. y * q = 2 * (b * q)
  BY <1>1, <1>3
<1> QED
  BY <1>1, <1>2, <1>3, <1>4 DEF q

(* A part of a frequent itemset is in some transaction, and in no more     *)
(* than there are.                                                         *)
LEMMA PartFacts ==
  ASSUME Called, NEW S \in Frequent, NEW T \in SUBSET S
  PROVE  /\ Total(S) \in Nat \ {0} /\ Total(T) \in Nat \ {0} /\ max_t \in Nat \ {0}
         /\ Total(S) <= Total(T) /\ Total(T) <= max_t
<1>1. S \in SUBSET Products /\ T \in SUBSET Products /\ Total(S) > 0
  BY DEF Frequent, Itemsets
<1>2. /\ Total(S) \in Nat /\ Total(T) \in Nat /\ max_t \in Nat
      /\ Total(S) <= Total(T)
  BY <1>1, ItemsetFacts, Monotone DEF Called
<1>3. Total(T) <= max_t
  <2> DEFINE f == [row \in assoc_id_uniq |-> row[1]]
             I == {row[1] : row \in assoc_id_uniq}
  <2>1. I = {f[row] : row \in assoc_id_uniq} /\ DOMAIN f = assoc_id_uniq
    OBVIOUS
  <2>2. max_t = Cardinality(I)
    BY DEF max_t
  <2>3. Having(T) \subseteq I
    BY DEF Having, assoc_trans_svec, assoc_input_data
  <2> HIDE DEF f, I
  <2>4. IsFiniteSet(I)
    BY <2>1, TableFacts, FiniteImage DEF Called
  <2> QED
    BY <1>1, <2>2, <2>3, <2>4, HavingFacts, FS_Subset DEF Called
<1> QED
  BY <1>1, <1>2, <1>3

\* The quotients of numerics have enough places to tell the confidence of a rule from
\* the minimum: no rule has exactly the minimum, unless its left side is in no more
\* transactions than both sides are.
ConfidencesTold ==
  /\ 2 * Ulps >= max_t * (2 * i_confidence[2] + i_confidence[1])
  /\ \A S \in Frequent : \A T \in SUBSET S :
       Total(S) # Total(T) => Total(S) * i_confidence[2] # i_confidence[1] * Total(T)

(* What the rounded confidence decides is then what the counts do.         *)
LEMMA RoundingTells ==
  ASSUME Called, ConfidencesTold, NEW S \in Frequent, NEW T \in SUBSET S
  PROVE  Confident(Total(S), Total(T)) <=>
           Total(S) * i_confidence[2] >= i_confidence[1] * Total(T)
<1> DEFINE a == Total(S)
           b == Total(T)
           m == max_t
           k == i_confidence[1]
           d == i_confidence[2]
           A == Quotient(a, m)
           B == Quotient(b, m)
           Q == Quotient(A, B)
<1>1. /\ a \in Nat \ {0} /\ b \in Nat \ {0} /\ m \in Nat \ {0} /\ a <= b /\ b <= m
      /\ k \in Nat /\ d \in Nat \ {0} /\ Ulps \in Nat \ {0}
  <2>1. S \in SUBSET Products
    BY DEF Frequent, Itemsets
  <2> QED
    BY <2>1, PartFacts, ItemsetFacts DEF Called, AssocRulesAssumption
<1>2. 2 * Ulps >= m * (2 * d + k) /\ (a # b => a * d # k * b)
  BY DEF ConfidencesTold
<1>3. Confident(a, b) <=> Q * d >= k * Ulps
  BY DEF Confident, confidence_xy
<1> HIDE DEF a, b, m, k, d
<1>4. /\ A \in Nat /\ 2 * (m * A) <= 2 * (a * Ulps) + m /\ 2 * (a * Ulps) < 2 * (m * A) + m
      /\ B \in Nat /\ 2 * (m * B) <= 2 * (b * Ulps) + m /\ 2 * (b * Ulps) < 2 * (m * B) + m
  BY <1>1, QuotientFacts
<1>5. a = b => A = B
  OBVIOUS
<1>6. m * 1 <= m * (2 * d + k) /\ 1 * Ulps <= b * Ulps /\ b * Ulps <= m * Ulps
  <2>1. 1 * m <= (2 * d + k) * m
    BY <1>1, TimesOrder
  <2>2. 1 * Ulps <= b * Ulps /\ b * Ulps <= m * Ulps
    BY <1>1, TimesOrder
  <2> QED
    BY <1>1, <2>1, <2>2
<1> HIDE DEF A, B
<1>7. B > 0 /\ B <= Ulps
  <2>1. B # 0
    <3> SUFFICES ASSUME B = 0 PROVE FALSE
      OBVIOUS
    <3>1. m * B = 0
      BY <1>1
    <3> QED
      BY <1>1, <1>2, <1>4, <1>6, <3>1
  <2>2. B <= Ulps
    <3> SUFFICES ASSUME Ulps + 1 <= B PROVE FALSE
      BY <1>1, <1>4
    <3>1. (Ulps + 1) * m <= B * m
      BY <1>1, <1>4, TimesOrder
    <3> QED
      BY <1>1, <1>4, <1>6, <3>1
  <2> QED
    BY <1>4, <2>1, <2>2
<1>8. Q \in Nat /\ 2 * (B * Q) <= 2 * (A * Ulps) + B /\ 2 * (A * Ulps) < 2 * (B * Q) + B
  BY <1>1, <1>4, <1>7, QuotientFacts
<1> HIDE DEF Q
<1>9. ASSUME a * d > k * b PROVE Q * d > k * Ulps
  <2>1. /\ a \in Int /\ b \in Int /\ m \in Int /\ Ulps \in Int /\ k \in Int /\ d \in Int
        /\ A \in Int /\ B \in Int /\ Q \in Int
        /\ m > 0 /\ Ulps > 0 /\ d > 0 /\ k >= 0 /\ a >= 0
    BY <1>1, <1>4, <1>8
  <2> QED
    BY <1>2, <1>4, <1>7, <1>8, <1>9, <2>1, RoundedAbove
<1>10. ASSUME a * d < k * b PROVE Q * d < k * Ulps
  <2>1. /\ a \in Int /\ b \in Int /\ m \in Int /\ Ulps \in Int /\ k \in Int /\ d \in Int
        /\ A \in Int /\ B \in Int /\ Q \in Int
        /\ m > 0 /\ Ulps > 0 /\ d > 0 /\ k >= 0 /\ a >= 0
    BY <1>1, <1>4, <1>8
  <2> QED
    BY <1>2, <1>4, <1>7, <1>8, <1>10, <2>1, RoundedBelow
<1>11. a * d = k * b => Q * d >= k * Ulps
  <2> SUFFICES ASSUME a = b, a * d = k * b PROVE Q * d >= k * Ulps
    BY <1>2
  <2>1. A = B
    BY <1>5
  <2>2. Q = Ulps
    <3>1. CASE Q < Ulps
      <4>1. (Q + 1) * B <= Ulps * B
        BY <1>1, <1>4, <1>8, <3>1, TimesOrder
      <4> QED
        BY <1>1, <1>4, <1>7, <1>8, <2>1, <4>1
    <3>2. CASE Q > Ulps
      <4>1. (Ulps + 1) * B <= Q * B
        BY <1>1, <1>4, <1>8, <3>2, TimesOrder
      <4> QED
        BY <1>1, <1>4, <1>7, <1>8, <2>1, <4>1
    <3> QED
      BY <1>1, <1>8, <3>1, <3>2
  <2>3. k = d
    <3>1. CASE k < d
      <4>1. k * a < d * a
        BY <1>1, <3>1, TimesStrict
      <4> QED
        BY <1>1, <4>1
    <3>2. CASE d < k
      <4>1. d * a < k * a
        BY <1>1, <3>2, TimesStrict
      <4> QED
        BY <1>1, <4>1
    <3> QED
      BY <1>1, <3>1, <3>2
  <2> QED
    BY <1>1, <2>2, <2>3
<1>12. a * d \in Int /\ k * b \in Int /\ Q * d \in Int /\ k * Ulps \in Int
  BY <1>1, <1>8
<1>13. Q * d >= k * Ulps <=> a * d >= k * b
  BY <1>9, <1>10, <1>11, <1>12
<1> QED
  BY <1>3, <1>13 DEF a, b, k, d

(* And the table of rules at the end.                                      *)
LEMMA RulesAreThese ==
  ASSUME Inv, NoneExact, ConfidencesTold
  PROVE  RulesAreExact
<1> SUFFICES ASSUME pc = "done"
             PROVE  assoc_rules =
                      {[set_list |-> xy[1] \cup xy[2], subset_x |-> xy[1], subset_y |-> xy[2],
                        support_xy |-> Total(xy[1] \cup xy[2]),
                        support_x |-> Total(xy[1]), support_y |-> Total(xy[2])] :
                         xy \in {xy \in Itemsets \X Itemsets :
                           /\ xy[1] \cap xy[2] = {} /\ xy[1] \cup xy[2] \in Frequent
                           /\ Total(xy[1] \cup xy[2]) * i_confidence[2]
                                >= i_confidence[1] * Total(xy[1])}}
  BY DEF RulesAreExact
<1>1. Called /\ assoc_rules = KeptRules
  BY DEF Inv
<1>2. Kept = Frequent
  BY <1>1, KeptAreFrequent
<1>3. \A S \in Frequent : \A T \in SUBSET S :
        Confident(Total(S), Total(T)) <=>
          Total(S) * i_confidence[2] >= i_confidence[1] * Total(T)
  BY <1>1, RoundingTells
<1>4. \A xy \in Itemsets \X Itemsets : xy[1] \cup xy[2] \in Frequent =>
        (Confident(Total(xy[1] \cup xy[2]), Total(xy[1])) <=>
          Total(xy[1] \cup xy[2]) * i_confidence[2] >= i_confidence[1] * Total(xy[1]))
  BY <1>3
<1> QED
  BY <1>1, <1>2, <1>4 DEF KeptRules

-----------------------------------------------------------------------------
(* At every statement the table has exactly the itemsets that are kept, up *)
(* to the size the loop has reached, and at the end the rules of these.    *)
THEOREM KeptInvariant ==
  ASSUME AssocRulesAssumption, HashTellsApart
  PROVE  Spec => []Inv
<1>1. Init => Inv
  BY InitInv
<1>2. Inv /\ [Next]_vars => Inv'
  BY NextInv
<1> QED
  BY <1>1, <1>2, PTL DEF Spec

(* The function finds exactly the frequent itemsets, with their supports,  *)
(* although it looks only at those it puts together from smaller ones, and *)
(* it ends only when there are no larger ones; for supports that no        *)
(* itemset of more than one product has exactly.                           *)
THEOREM FrequentSetsFound ==
  ASSUME AssocRulesAssumption, HashTellsApart
  PROVE  Spec /\ []NoneExact => []FrequentSetsAreExact
BY SetsAreExact, KeptInvariant, PTL

(* The rules are the splits of frequent itemsets into two parts that have  *)
(* the confidence, each once and with the supports of the three itemsets;  *)
(* for confidences and quotients of enough places that no split but one of *)
(* equal supports is exactly at the minimum, where rounding would decide.  *)
THEOREM RulesFound ==
  ASSUME AssocRulesAssumption, HashTellsApart
  PROVE  Spec /\ []NoneExact /\ []ConfidencesTold => []RulesAreExact
BY RulesAreThese, KeptInvariant, PTL
=============================================================================
