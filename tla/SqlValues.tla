----------------------------- MODULE SqlValues ------------------------------
(* What a call returns when it is no value.                                *)
EXTENDS Integers, Sequences, SequencesExt, FiniteSetsExt, Bags

CONSTANTS
  Null,        \* an SQL NULL
  Exception    \* the call raised an exception, which ends the query

\* The sum of the values of a sequence or of another function.
TotalOf(f) == FoldFunctionOnSet(+, 0, f, DOMAIN f)

Square(x) == x * x
TwoTo[k \in Nat] == IF k = 0 THEN 1 ELSE 2 * TwoTo[k - 1]
=============================================================================
