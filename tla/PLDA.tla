-------------------------------- MODULE PLDA --------------------------------
(***************************************************************************)
(* Parallel latent Dirichlet allocation (plda.py_in, plda.c, plda.sql_in): *)
(* plda_train draws a topic for every word of a corpus again and again, by *)
(* counts of the iteration before, and plda_label_test_documents draws     *)
(* topics for a new document by the counts that are left at the end.       *)
(*                                                                         *)
(* One action is one statement of the driver; the documents of a table lie *)
(* on segments, each counts its own.  A random draw may give every topic   *)
(* whose share of the interval of random numbers is not empty.             *)
(***************************************************************************)
EXTENDS Integers, Sequences, FiniteSets, SequencesExt

CONSTANTS
  Corpora,       \* data tables: sequences of documents, a document of words
  dsize,         \* words in the dictionary
  num_topics,
  Iterations,    \* values of num_iter
  alpha, eta,    \* in halves
  Segments,
  Tests,         \* documents to be labelled
  Rounds         \* 20 in plda_label_document

PLDAAssumption ==
  /\ dsize \in Nat \ {0} /\ num_topics \in Nat \ {0} /\ Iterations \subseteq Nat
  /\ alpha \in Nat \ {0} /\ eta \in Nat \ {0} /\ Segments # {} /\ Rounds \in Nat

VARIABLES
  data_table, num_iter,
  pc,                   \* the next statement
  i,
  corpus,               \* the tables corpus0 and corpus1: sequences of rows
  topic_counts,         \* words of the corpus by topic
  glwcounts,            \* by word and topic
  plda_local_word_topic_count,
  model_table, output_table,
  test                  \* the document being labelled
counts == <<topic_counts, glwcounts>>
vars == <<data_table, num_iter, pc, i, corpus, counts, plda_local_word_topic_count,
          model_table, output_table, test>>

Topics == 1..num_topics
Cells == (1..dsize) \X Topics
NULL == << >>
new_table_id == i % 2
old_table_id == 1 - new_table_id

-----------------------------------------------------------------------------
\* plda_topics_t: the topic of each word, and how often each topic occurs.
Assigned(topics) ==
  [topics |-> topics,
   topic_d |-> [t \in Topics |-> Cardinality({k \in DOMAIN topics : topics[k] = t})]]

\* The function is STRICT and the upper bound of an empty array is NULL.
plda_random_topics(doc) ==
  IF doc = << >> THEN {NULL} ELSE {Assigned(topics) : topics \in [DOMAIN doc -> Topics]}

plda_zero_array == [c \in Cells |-> 0]
ArraySum(arrays, zero) ==
  FoldLeft(LAMBDA a, b : [k \in DOMAIN a |-> a[k] + b[k]], zero, arrays)

plda_cword_agg(rows) ==
  ArraySum([r \in DOMAIN rows |->
    [c \in Cells |-> Cardinality({k \in DOMAIN rows[r].contents :
                       c = <<rows[r].contents[k], rows[r].topics.topics[k]>>})]],
    plda_zero_array)

\* The weight of topic j for a word, but for the factor that all have.
Weight(j, widx, wtopic, global_count, local_d, totals) ==
  LET own == IF j = wtopic THEN 1 ELSE 0
      Denominator(t) == 2 * totals[t] + num_topics * eta
      Others == FoldSet(LAMBDA t, p : p * Denominator(t), 1, Topics \ {j})
  IN (2 * (local_d[j] - own) + alpha) * (2 * (global_count[<<widx, j>>] - own) + eta) * Others

(* sampleTopic: the topics it may return.  A random number in [0, 1) is    *)
(* compared with the sums of the weights, divided by their total: where    *)
(* that is zero, by infinities and what is not a number.                   *)
sampleTopic(widx, wtopic, global_count, local_d, totals) ==
  LET Sum(n) == FoldSet(LAMBDA j, s : s + Weight(j, widx, wtopic, global_count, local_d, totals),
                        0, 1..n)
      total == Sum(num_topics)
      one == IF total = 0 THEN 1 ELSE total * total
      topic_prs(n) == IF total = 0 THEN (IF Sum(n) > 0 THEN 1 ELSE 0) ELSE Sum(n) * total
      IsPast(r, n) == \A j \in 1..n : r >= topic_prs(j)
      \* The random numbers where the comparisons change.
      Draws == {r \in {0} \cup {topic_prs(n) : n \in Topics} : 0 <= r /\ r < one}
  IN {ret \in Topics : \E r \in Draws :
        IsPast(r, ret - 1) /\ (ret = num_topics \/ r < topic_prs(ret))}

plda_sample_new_topics(doc, old, global_count, totals) ==
  IF old = NULL THEN {NULL}
  ELSE {Assigned(topics) : topics \in
         {topics \in [DOMAIN doc -> Topics] : \A k \in DOMAIN doc :
            topics[k] \in sampleTopic(doc[k], old.topics[k], global_count, old.topic_d, totals)}}

InDictionary(doc) == \A k \in DOMAIN doc : doc[k] \in 1..dsize

\* The tables that can come of documents, with topics from a set for each.
Tables(docs, topics) ==
  FoldLeft(LAMBDA tables, k :
             {Append(rows, [contents |-> docs[k], topics |-> ts, gp_segment_id |-> s]) :
                rows \in tables, ts \in topics[k], s \in Segments},
           { << >> }, [k \in DOMAIN docs |-> k])

-----------------------------------------------------------------------------
Init ==
  /\ data_table \in Corpora /\ num_iter \in Iterations
  /\ pc = "seed" /\ i = 0
  /\ corpus = [t \in {0, 1} |-> << >>]
  /\ topic_counts = NULL /\ glwcounts = plda_zero_array
  /\ plda_local_word_topic_count = {} /\ model_table = {} /\ output_table = << >> /\ test = NULL

\* An error ends the transaction: no table is left.
Fail ==
  /\ pc' = "failed"
  /\ corpus' = [t \in {0, 1} |-> << >>]
  /\ plda_local_word_topic_count' = {} /\ model_table' = {} /\ output_table' = << >>
  /\ UNCHANGED <<data_table, num_iter, i, counts, test>>

Seed ==
  /\ pc = "seed"
  /\ \E rows \in Tables(data_table, [k \in DOMAIN data_table |-> plda_random_topics(data_table[k])]) :
       corpus' = [corpus EXCEPT ![0] = rows]
  /\ pc' = "sum"
  /\ UNCHANGED <<data_table, num_iter, i, counts, plda_local_word_topic_count, model_table,
                 output_table, test>>

\* The sum over no rows is NULL.
SumTopics(rows) ==
  IF rows = << >> THEN NULL
  ELSE ArraySum([k \in DOMAIN rows |-> rows[k].topics.topic_d], [t \in Topics |-> 0])

\* sum_int4array does not take a NULL for its second argument.
CountSeeded ==
  /\ pc = "sum"
  /\ IF \E k \in DOMAIN corpus[0] : corpus[0][k].topics = NULL THEN Fail
     ELSE /\ topic_counts' = SumTopics(corpus[0])
          /\ i' = 1 /\ pc' = IF num_iter >= 1 THEN "sample" ELSE "output"
          /\ UNCHANGED <<data_table, num_iter, corpus, glwcounts, plda_local_word_topic_count,
                         model_table, output_table, test>>

\* Without documents the text of the counts is no array.
Sample ==
  /\ pc = "sample"
  /\ LET old == corpus[old_table_id]
     IN IF \/ topic_counts = NULL
           \/ \E k \in DOMAIN old : ~InDictionary(old[k].contents)
        THEN Fail
        ELSE /\ \E rows \in Tables([k \in DOMAIN old |-> old[k].contents],
                  [k \in DOMAIN old |-> plda_sample_new_topics(old[k].contents, old[k].topics,
                                                                glwcounts, topic_counts)]) :
                  corpus' = [corpus EXCEPT ![new_table_id] = @ \o rows]
             /\ pc' = "topics"
             /\ UNCHANGED <<data_table, num_iter, i, counts, plda_local_word_topic_count,
                            model_table, output_table, test>>

CountTopics ==
  /\ pc = "topics"
  /\ corpus' = [corpus EXCEPT ![old_table_id] = << >>]
  /\ topic_counts' = SumTopics(corpus[new_table_id])
  /\ pc' = "local"
  /\ UNCHANGED <<data_table, num_iter, i, glwcounts, plda_local_word_topic_count, model_table,
                 output_table, test>>

CountWords ==
  /\ pc = "local"
  /\ LET rows == corpus[new_table_id]
     IN plda_local_word_topic_count' = plda_local_word_topic_count \cup
          {[id |-> s, iternum |-> i,
            lcounts |-> plda_cword_agg(SelectSeq(rows, LAMBDA r : r.gp_segment_id = s))] :
             s \in {rows[k].gp_segment_id : k \in DOMAIN rows}}
  /\ pc' = "global"
  /\ UNCHANGED <<data_table, num_iter, i, corpus, counts, model_table, output_table, test>>

\* Mutant: adds up the rows of all iterations.
OfIteration_any(n) == plda_local_word_topic_count
OfIteration(n) == {r \in plda_local_word_topic_count : r.iternum = n}

AddUp ==
  /\ pc = "global"
  /\ glwcounts' = [c \in Cells |-> FoldSet(LAMBDA r, n : n + r.lcounts[c], 0, OfIteration(i))]
  /\ model_table' = model_table \cup
       {[iternum |-> i, gcounts |-> glwcounts', tcounts |-> topic_counts]}
  /\ IF i < num_iter THEN i' = i + 1 /\ pc' = "sample" ELSE i' = i /\ pc' = "output"
  /\ UNCHANGED <<data_table, num_iter, corpus, topic_counts, plda_local_word_topic_count,
                 output_table, test>>

\* Without an iteration new_table_id has no value.
Finish ==
  /\ pc = "output"
  /\ IF num_iter < 1 THEN Fail
     ELSE /\ output_table' = corpus[new_table_id]
          /\ corpus' = [t \in {0, 1} |-> << >>]
          /\ plda_local_word_topic_count' = {}
          /\ model_table' = {r \in model_table : r.iternum >= num_iter}
          /\ pc' = "done"
          /\ UNCHANGED <<data_table, num_iter, i, counts, test>>

\* plda_label_test_documents, with the model as it is left.
StartLabel ==
  /\ pc = "done" /\ Cardinality(model_table) = 1
  /\ \E doc \in Tests, topics \in UNION {plda_random_topics(d) : d \in Tests} :
       /\ topics \in plda_random_topics(doc)
       /\ test' = [contents |-> doc, topics |-> topics]
  /\ i' = 1 /\ pc' = "label"
  /\ UNCHANGED <<data_table, num_iter, corpus, counts, plda_local_word_topic_count, model_table,
                 output_table>>

LabelAgain ==
  /\ pc = "label"
  /\ \E row \in model_table :
       \/ /\ ~InDictionary(test.contents) /\ pc' = "not labelled"
          /\ UNCHANGED <<i, test>>
       \/ /\ InDictionary(test.contents)
          /\ \E topics \in plda_sample_new_topics(test.contents, test.topics, row.gcounts,
                                                  row.tcounts) :
               test' = [test EXCEPT !.topics = topics]
          /\ IF i < Rounds THEN i' = i + 1 /\ pc' = pc ELSE i' = i /\ pc' = "labelled"
  /\ UNCHANGED <<data_table, num_iter, corpus, counts, plda_local_word_topic_count, model_table,
                 output_table>>

Next == \/ Seed \/ CountSeeded \/ Sample \/ CountTopics \/ CountWords \/ AddUp \/ Finish
        \/ StartLabel \/ LabelAgain

Spec == Init /\ [][Next]_vars

-----------------------------------------------------------------------------
\* plda_topic_word_prob: the words of a topic with the fraction of each.
plda_topic_word_prob(topic, row) ==
  {[word |-> w, wcount |-> row.gcounts[<<w, topic>>], of |-> row.tcounts[topic]] :
     w \in {w \in 1..dsize : row.gcounts[<<w, topic>>] # 0}}

(* What counts of words say of the rows of a table.                        *)
Describes(global_count, totals, rows) ==
  LET Positions == UNION {{r} \X DOMAIN rows[r].contents : r \in DOMAIN rows}
      At(p) == <<rows[p[1]].contents[p[2]], rows[p[1]].topics.topics[p[2]]>>
  IN /\ \A c \in Cells : global_count[c] = Cardinality({p \in Positions : At(p) = c})
     /\ \A t \in Topics : totals[t] = Cardinality({p \in Positions : At(p)[2] = t})

\* The chance of a topic is a positive one: what sampleTopic takes away "to
\* exclude current word's contribution" (plda.c:216) is in the counts.  It is
\* not in the first iteration, where they are zero (plda.py_in:35), nor for a
\* document that is labelled.
ProbabilitiesArePositive ==
  \A r \in DOMAIN corpus[old_table_id] :
    LET row == corpus[old_table_id][r]
    IN \A k \in DOMAIN row.contents, j \in Topics :
         Weight(j, row.contents[k], row.topics.topics[k], glwcounts,
                row.topics.topic_d, topic_counts) > 0

(* The counts that the documents of an iteration are drawn by are exactly  *)
(* those of the iteration before, although they come in three statements,  *)
(* from all segments, and the corpus moves between two tables; so no       *)
(* chance is negative after the first iteration.  At the end the model is  *)
(* one row that agrees with the output table, which has the documents of   *)
(* the corpus; the fractions of the words of a topic make up one; and the  *)
(* function fails only on a corpus, a dictionary or a limit it cannot use. *)
ModelIsOfTheCorpus ==
  /\ pc = "sample" /\ i > 1 =>
       /\ Describes(glwcounts, topic_counts, corpus[old_table_id])
       /\ corpus[new_table_id] = << >>
       /\ ProbabilitiesArePositive
  /\ pc \in {"done", "label", "labelled"} => \E row \in model_table :
       /\ model_table = {row} /\ row.iternum = num_iter
       /\ Describes(row.gcounts, row.tcounts, output_table)
       /\ [k \in DOMAIN output_table |-> output_table[k].contents] = data_table
       /\ \A topic \in Topics :
            LET words == plda_topic_word_prob(topic, row)
            IN words # {} => FoldSet(LAMBDA w, n : n + w.wcount, 0, words) = row.tcounts[topic]
  /\ pc \notin {"seed", "sum", "sample", "output"} =>
       (pc = "failed" <=> \/ num_iter = 0 \/ data_table = << >>
                          \/ \E k \in DOMAIN data_table :
                               data_table[k] = << >> \/ ~InDictionary(data_table[k]))
=============================================================================
