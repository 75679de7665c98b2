------------------------------ MODULE MCCMSketch ------------------------------
(* Instances of CMSketch for TLC.                                          *)
EXTENDS CMSketch

CONSTANTS s1, s2
TwoSegments == {s1, s2}

\* Values around the ends and the dyadic boundaries of 4-bit integers.
Boundary == {-8, -7, -4, -1, 0, 4, 7}

\* A hash without collisions, and one with many but different ones per row.
TwoRows == {0, 1}
TwoHashes == {[x \in Int64 |-> [i \in TwoRows |-> x]],
  [x \in Int64 |-> [i \in TwoRows |-> IF i = 0 THEN x % 2 ELSE (x \div 2) % 2]]}
=============================================================================
