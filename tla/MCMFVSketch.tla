----------------------------- MODULE MCMFVSketch -----------------------------
(* An instance of MFVSketch for TLC: values of different lengths.          *)
EXTENDS MFVSketch, TLC

CONSTANTS s1, s2, a, b, c
TwoSegments == {s1, s2}
ThreeValues == {a, b, c}
Lengths == (a :> 3) @@ (b :> 1) @@ (c :> 2)

\* A hash without collisions, and one where b meets each of the others.
TwoRows == {0, 1}
TwoHashes == {[x \in ThreeValues |-> [i \in TwoRows |-> x]],
  [x \in ThreeValues |-> [i \in TwoRows |->
     IF x = a \/ (x = b /\ i = 0) THEN a ELSE c]]}
=============================================================================
