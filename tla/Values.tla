------------------------------- MODULE Values -------------------------------
(***************************************************************************)
(* The float8 elements of sparse vectors: small integers, and NVP, the     *)
(* NaN that stands for an SQL NULL.  Equality is memcmp; minus zero, the   *)
(* infinities and fractions are left out.                                  *)
(***************************************************************************)
EXTENDS Integers, Sequences, SequencesExt, FiniteSetsExt

CONSTANT NVP
ASSUME ValuesAssumption == NVP \notin Int

Element == Int \cup {NVP}
Operations == {"subtract", "add", "multiply", "divide"}

\* Arithmetic on doubles: a NaN on either side is the result.
Calc(op, a, b) ==
  IF NVP \in {a, b} THEN NVP
  ELSE CASE op = "subtract" -> a - b
         [] op = "add" -> a + b
         [] op = "multiply" -> a * b
         [] op = "divide" -> IF b > 0 THEN a \div b ELSE NVP   \* where IsExact

\* The quotients of the instances are integers.
IsExact(op, left, right) ==
  op = "divide" => \A a \in left, b \in right :
    NVP \notin {a, b} => b > 0 /\ a % b = 0

Id(x) == x
Power(x, n) ==
  LET P[k \in 1..n] == IF k = 1 THEN x ELSE Calc("multiply", P[k - 1], x) IN P[n]
Square(x) == Power(x, 2)
Abs(x) == IF x # NVP /\ x < 0 THEN -x ELSE x
Clamp(x) == IF x \in {0, NVP} THEN 0 ELSE 1

\* The sum of elements, and of counts.
Total(s) ==
  LET T[k \in 0..Len(s)] == IF k = 0 THEN 0 ELSE Calc("add", T[k - 1], s[k])
  IN T[Len(s)]
SumOfCounts(s) ==
  LET S[k \in 0..Len(s)] == IF k = 0 THEN 0 ELSE S[k - 1] + s[k] IN S[Len(s)]
=============================================================================
