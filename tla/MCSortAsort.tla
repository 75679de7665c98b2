----------------------------- MODULE MCSortAsort -----------------------------
(* An instance of SortAsort for TLC: a text column.                        *)
EXTENDS SortAsort

(* The header of a short value is one odd byte with the length; that of a  *)
(* long one, here from two bytes of radix 4, has its low byte first.       *)
ShortValues == {<<5, b>> : b \in 0..2} \cup {<<7, b, 0>> : b \in 0..1}
LongValues == {<<2, 1, b>> : b \in 0..1} \cup {<<0, 2, b, 0>> : b \in 0..1}
TextValues == ShortValues \cup LongValues
=============================================================================
