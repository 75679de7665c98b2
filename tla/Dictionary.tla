------------------------------ MODULE Dictionary ------------------------------
(***************************************************************************)
(* What sortasort.h offers fm.c: a bounded set of values, "append and      *)
(* query operations only", that also knows how many values it holds.       *)
(***************************************************************************)
EXTENDS Integers, FiniteSets

CONSTANTS Values, Capacity
VARIABLES members, count
vars == <<members, count>>

Init == members = {} /\ count = 0

Insert(v) ==
  /\ Cardinality(members \cup {v}) <= Capacity
  /\ members' = members \cup {v}
  /\ count' = Cardinality(members')

Next == \E v \in Values : Insert(v)
Spec == Init /\ [][Next]_vars
=============================================================================
