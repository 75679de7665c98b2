------------------------------ MODULE ArrayOps ------------------------------
(***************************************************************************)
(* The functions of array_ops.c on one-dimensional arrays.  An array has a *)
(* type, "int2" or "float8", a lower bound and its elements; Null is an    *)
(* SQL NULL.  Integers are computed with more bits and stored with         *)
(* IntBits.  A quotient of doubles is a pair, a root stands for its        *)
(* square.                                                                 *)
(***************************************************************************)
EXTENDS SqlValues

CONSTANT IntBits   \* 16 in the code

Wrap(type, n) ==
  IF type = "float8" THEN n
  ELSE ((n + TwoTo[IntBits - 1]) % TwoTo[IntBits]) - TwoTo[IntBits - 1]

HasNull(v) == \E i \in DOMAIN v.elements : v.elements[i] = Null

\* element_sum, element_min, element_max, element_diff.
ElementOp(op, type, elt, result, started, extra) ==
  CASE op = "sum" -> Wrap(type, result + elt)
    [] op = "min" -> IF started THEN Min({elt, result}) ELSE elt
    [] op = "max" -> IF started THEN Max({elt, result}) ELSE elt
    [] op = "diff" -> result + Square(extra[2] * elt - extra[1])   \* times extra[2]^2

(* General_Array_to_Element.  The cursor on the bits of the bitmap moves   *)
(* with an element that is no NULL only, so it stays at the first NULL.    *)
General_Array_to_Element(v, op, extra) ==
  LET n == Len(v.elements)
      Walk[i \in 0..n] ==   \* <<result, elements taken>>
        IF i = 0 THEN <<0, 0>>
        ELSE LET w == Walk[i - 1]
             IN IF v.elements[w[2] + 1] = Null THEN w
                ELSE <<ElementOp(op, v.type, v.elements[w[2] + 1], w[1], w[2] > 0, extra),
                       w[2] + 1>>
  IN Walk[n]

array_sum(v) == General_Array_to_Element(v, "sum", 0)[1]
array_min(v) == General_Array_to_Element(v, "min", 0)[1]
array_max(v) == General_Array_to_Element(v, "max", 0)[1]

\* Of float8 arrays; the sum of others is taken for the bits of a double.
array_mean(v) == IF v.elements = << >> THEN <<0, 1>> ELSE General_Array_to_Element(v, "sum", 0)
array_stddev(v) ==
  IF v.elements = << >> THEN <<0, 1>>
  ELSE LET mean == array_mean(v)
           sum == General_Array_to_Element(v, "diff", mean)
       IN <<sum[1], sum[2] * Square(mean[2])>>

-----------------------------------------------------------------------------
Compatible(v, w) ==
  /\ (v.elements = << >>) <=> (w.elements = << >>)   \* ndims
  /\ v.elements # << >> => Len(v.elements) = Len(w.elements) /\ v.lb = w.lb
  /\ ~HasNull(v) /\ ~HasNull(w)

\* General_2Array_to_Element.
array_dot(v, w) ==
  IF ~Compatible(v, w) THEN Exception
  ELSE TotalOf([i \in DOMAIN v.elements |-> v.elements[i] * w.elements[i]])
array_contains(v, w) ==
  IF ~Compatible(v, w) THEN Exception
  ELSE TotalOf([i \in DOMAIN v.elements |->
         IF w.elements[i] \in {v.elements[i], 0} THEN 0 ELSE 1]) = 0

\* The quotient of two integers, cut off towards zero; of doubles, the pair.
Quotient(type, a, b) ==
  IF type = "float8" THEN <<a, b>>
  ELSE LET q == (IF a < 0 THEN -a ELSE a) \div (IF b < 0 THEN -b ELSE b)
       IN Wrap(type, IF (a < 0) = (b < 0) THEN q ELSE -q)

ElementPair(op, type, a, b) ==
  CASE op = "array_add" -> Wrap(type, a + b)
    [] op = "array_sub" -> Wrap(type, a - b)
    [] op \in {"array_mult", "array_scalar_mult"} -> Wrap(type, a * b)
    [] op = "array_div" -> Quotient(type, a, b)
    [] op = "array_fill" -> b

\* construct_array: the result starts at 1.
Constructed(type, elements) == [type |-> type, lb |-> 1, elements |-> elements]

\* Mutant: compares the lengths only.
General_2Array_to_Array_length(op, v, w) ==
  IF Len(v.elements) # Len(w.elements) \/ HasNull(v) \/ HasNull(w) THEN Exception
  ELSE Constructed(v.type, [i \in DOMAIN v.elements |->
         ElementPair(op, v.type, v.elements[i], w.elements[i])])

General_2Array_to_Array(op, v, w) ==
  IF ~Compatible(v, w) \/ (op = "array_div" /\ \E i \in DOMAIN w.elements : w.elements[i] = 0)
  THEN Exception
  ELSE IF v.elements = << >> THEN v
  ELSE Constructed(v.type, [i \in DOMAIN v.elements |->
         ElementPair(op, v.type, v.elements[i], w.elements[i])])

General_Array_to_Array(op, v, k) ==
  IF v.elements = << >> THEN v
  ELSE IF HasNull(v) THEN Exception
  ELSE Constructed(v.type, [i \in DOMAIN v.elements |->
         ElementPair(op, v.type, v.elements[i], k)])
=============================================================================
