------------------------------ MODULE Session -------------------------------
(***************************************************************************)
(* A session of the database that calls one function of the library: an    *)
(* aggregate, the driver of logistic regression or a function of arrays    *)
(* (Queries), assoc_rules (AssocRules), or the training of parallel LDA    *)
(* and the labelling with its model (PLDA).  The functions share the       *)
(* server and its segments, and none of their tables.                      *)
(***************************************************************************)
EXTENDS Queries

CONSTANTS
  Products, NoProduct, Inputs, Supports, Confidences, Hash, Ulps,  \* of AssocRules
  Corpora, dsize, num_topics, Iterations, alpha, eta, Documents, Rounds  \* of PLDA

VARIABLES
  called,
  input, i_support, i_confidence, assoc_pc, assoc_n, assoc_rule_sets, list_b,
  assoc_set_list_parts, list_c, assoc_rules,
  data_table, num_iter, plda_pc, plda_i, corpus, topic_counts, glwcounts,
  plda_local_word_topic_count, model_table, output_table, labelled

assocVars == <<input, i_support, i_confidence, assoc_pc, assoc_n, assoc_rule_sets, list_b,
               assoc_set_list_parts, list_c, assoc_rules>>
pldaVars == <<data_table, num_iter, plda_pc, plda_i, corpus, topic_counts, glwcounts,
              plda_local_word_topic_count, model_table, output_table, labelled>>

A == INSTANCE AssocRules WITH pc <- assoc_pc, n <- assoc_n
P == INSTANCE PLDA WITH pc <- plda_pc, i <- plda_i, test <- labelled,
                        Tests <- Documents, Segments <- 1..Segments
ASSUME SessionAssumption == A!AssocRulesAssumption /\ P!PLDAAssumption

-----------------------------------------------------------------------------
NoQuery ==
  /\ job = [test |-> "none", rows |-> << >>, spread |-> FALSE]
  /\ placed = << >> /\ state = << >> /\ waiting = {} /\ iteration = 1
  /\ previous = Null /\ result = Pending

NoAssocRules ==
  /\ input = Null /\ i_support = Null /\ i_confidence = Null /\ assoc_pc = Null
  /\ assoc_n = Null /\ assoc_rule_sets = Null /\ list_b = Null
  /\ assoc_set_list_parts = Null /\ list_c = Null /\ assoc_rules = Null

NoPLDA ==
  /\ data_table = Null /\ num_iter = Null /\ plda_pc = Null /\ plda_i = Null
  /\ corpus = Null /\ topic_counts = Null /\ glwcounts = Null
  /\ plda_local_word_topic_count = Null /\ model_table = Null
  /\ output_table = Null /\ labelled = Null

SessionInit ==
  \/ called = "query" /\ Init /\ NoAssocRules /\ NoPLDA
  \/ called = "assoc_rules" /\ NoQuery /\ A!Init /\ NoPLDA
  \/ called = "plda" /\ NoQuery /\ NoAssocRules /\ P!Init

RunsQuery == called = "query" /\ Next /\ UNCHANGED <<called, assocVars, pldaVars>>
RunsAssocRules == called = "assoc_rules" /\ A!Next /\ UNCHANGED <<called, vars, pldaVars>>
RunsPLDA == called = "plda" /\ P!Next /\ UNCHANGED <<called, vars, assocVars>>
SessionNext == RunsQuery \/ RunsAssocRules \/ RunsPLDA

SessionVars == <<called, vars, assocVars, pldaVars>>
SessionSpec ==
  SessionInit /\ [][SessionNext]_SessionVars /\ WF_SessionVars(Driven /\ RunsQuery)

-----------------------------------------------------------------------------
(* assoc_rules.sql_in: see AssocRules.                                     *)
FrequentSetsAreExact == called = "assoc_rules" => A!FrequentSetsAreExact
RulesAreExact == called = "assoc_rules" => A!RulesAreExact

(* plda.py_in, plda.c: see PLDA.                                           *)
ModelIsOfTheCorpus == called = "plda" => P!ModelIsOfTheCorpus
=============================================================================
