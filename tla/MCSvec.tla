------------------------------- MODULE MCSvec -------------------------------
(***************************************************************************)
(* An instance of Svec.  Bytes have three bits: lengths up to three fit in *)
(* one, longer ones take a word of two.                                    *)
(***************************************************************************)
EXTENDS Svec

\* Scalars; runs on either side of the change of word; equal neighbours.
MCLiterals == {
  << <<0, 1>> >>, << <<2, 1>> >>, << <<NVP, 1>> >>, << <<1, 3>> >>,
  << <<0, 2>>, <<1, 1>> >>, << <<1, 1>>, <<2, 2>> >>, << <<1, 1>>, <<1, 2>> >>,
  << <<0, 4>> >>, << <<0, 1>>, <<NVP, 1>>, <<0, 3>> >>,
  << <<0, 5>>, <<1, 4>> >>, << <<1, 4>>, <<2, 1>>, <<0, 4>> >>, << <<2, 1>>, <<0, 4>> >>,
  << >>, << <<1, 2>>, <<0, 0>> >> }
MCArrays == { <<1>>, <<2, 2, 1>>, <<0, 1, 2, 0>>, <<1, NVP>> }
MCSparse == { <<<< <<1, 2>>, <<2, 2>>, <<2, 2>>, <<6, 1>> >>, 7>>,
              <<<< <<3, 1>>, <<3, 2>> >>, 4>>, <<<< <<0, 1>>, <<2, 1>> >>, 4>>,
              <<<< <<2, 1>>, <<3, 1>> >>, 3>>, <<<< <<5, 1>> >>, 4>> }
MCScalars == {0, 2}
MCIndices == {-1, 0, 1, 2, 3, 5}
MCTexts == { << >>, <<1, 2, 3, 5>>, <<2, 4, 5, 5, 2>>, <<3, 1>>, <<4>> }
=============================================================================
