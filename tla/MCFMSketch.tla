----------------------------- MODULE MCFMSketch -----------------------------
(* Instances of FMSketch for TLC.  Two of the values share a bit and two   *)
(* a bitmap, as hashes do.                                                 *)
EXTENDS FMSketch, TLC

CONSTANTS s1, s2, s3, a, b, c, d, e

ThreeSegments == {s1, s2, s3}
TwoSegments == {s1, s2}
FiveValues == {a, b, c, d, e}

Hash == (a :> <<0, 0>>) @@ (b :> <<0, 1>>) @@ (c :> <<1, 0>>)
        @@ (d :> <<1, 0>>) @@ (e :> <<2, 2>>)

SegmentSymmetry == Permutations(ThreeSegments)
=============================================================================
