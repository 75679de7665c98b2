----------------------------- MODULE MCSession ------------------------------
(* Instances of Session: those of MCQueries; assoc_rules on every choice   *)
(* of three transactions; parallel LDA with two words and two topics.      *)
EXTENDS Session, MCQueries

CONSTANT none
MCProducts == 1..4

\* The rows of transactions, of which the empty one has a NULL, and one twice.
Rows(trans) ==
  FlattenSeq([t \in DOMAIN trans |->
    IF trans[t] = {} THEN << <<t, none>> >>
    ELSE SetToSeq({<<t, p>> : p \in trans[t]})])
Twice(s) == Append(s, s[1])

\* In any order, transactions give the same tables.
Code(S) == FoldSet(LAMBDA p, c : c + 2^p, 0, S)
MCInputs ==
  {Twice(Rows(ts)) : ts \in {ts \in [1..3 -> SUBSET MCProducts] :
     Code(ts[1]) <= Code(ts[2]) /\ Code(ts[2]) <= Code(ts[3])}} \cup { << >> }

\* No itemset has these parts of three transactions exactly, and no rule the
\* confidence 2/5; 1 is the confidence of a rule without exceptions.
MCSupports == { <<1, 6>>, <<1, 2>> }
MCConfidences == { <<2, 5>>, <<1, 1>> }
MCHash == [S \in SUBSET MCProducts |-> Code(S)]

\* With an empty corpus, an empty document, a word outside the dictionary.
MCCorpora == { << <<1, 2>>, <<1>> >>, << <<2, 2, 1>> >>,
               << >>, << <<1>>, << >> >>, << <<3>> >> }
MCDocuments == { <<1, 2>>, <<2>>, << >>, <<1, 3>> }
=============================================================================
