----------------------------- MODULE DyadicRanges -----------------------------
(***************************************************************************)
(* The range arithmetic of methods/sketch/src/pg_gp/countmin.py_in: how a  *)
(* range of W-bit integers (W is 64 in the source) is cut into the dyadic  *)
(* ranges for which a CountMin sketch has counters.                        *)
(***************************************************************************)
EXTENDS Integers, Sequences, SequencesExt

CONSTANT W   \* __ranges, the bits of an integer

\* Of integers of two bits the ranges up to the largest one have no halves.
ASSUME WAssumption == W \in Nat /\ W >= 3

\* 2 ** k.
TwoTo[k \in Nat] == IF k = 0 THEN 1 ELSE 2 * TwoTo[k - 1]

Ranges == W
MaxInt == TwoTo[W - 1] - 1     \* __max_int64
MinInt == -MaxInt              \* __min_int64 is __max_int64 * (-1)
Int64 == MinInt - 1 .. MaxInt  \* what the type int8 can hold

(* intlog2: the halvings until 0, less one.                                *)
Intlog2(x) == CHOOSE i \in 0..2*W : TwoTo[i] <= x /\ x < TwoTo[i + 1]

\* The width of a range, to which both ends of the type add one.
Width(bot, top) == top - bot + 1 + (IF top = MaxInt \/ bot = MinInt THEN 1 ELSE 0)

\* The largest dyad that fits: "1 power-of-2 smaller" than one that is not aligned.
Dyad(bot, top) ==
  LET dyad == TwoTo[Intlog2(Width(bot, top))]
  IN IF dyad = Width(bot, top) THEN TwoTo[Intlog2(Width(bot, top)) - 1] ELSE dyad

(* __find_ranges_recursive without its accumulator: the ranges it appends, *)
(* where rec has those that its recursive calls do.                        *)
Cut(rec, bot, top, power) ==
  LET width == Width(bot, top)
      dyad == Intlog2(width)
      half == TwoTo[W - 2] * (IF top < 0 THEN -1 ELSE 1)
      pow == Dyad(bot, top)
  IN IF top < bot \/ power < 0 THEN << >>
     ELSE IF top = bot THEN << <<bot, bot>> >>
     ELSE IF top >= 0 /\ bot < 0
       THEN rec[<<bot, -1, power - 1>>] \o rec[<<0, top, power - 1>>]
     ELSE IF dyad > W - 2
       THEN rec[<<bot, half - 1, W - 2>>] \o rec[<<half, top, W - 2>>]
     ELSE IF TwoTo[dyad] = width /\ bot % TwoTo[dyad] = 0 THEN << <<bot, top>> >>
     ELSE IF bot = MinInt \/ bot % pow = 0
       THEN IF top = MaxInt THEN << <<bot, MaxInt>> >>
            ELSE LET end == bot + pow - 1 - (IF bot = MinInt THEN 1 ELSE 0)
                 IN << <<bot, end>> >> \o rec[<<end + 1, top, power - 1>>]
     ELSE IF top = MaxInt \/ (top + 1) % pow = 0
       THEN LET begin == top - pow + 1 + (IF top = MaxInt THEN 1 ELSE 0)
            IN << <<begin, top>> >> \o rec[<<bot, begin - 1, power - 1>>]
     ELSE LET boundary == pow * (top \div pow)
          IN rec[<<bot, boundary - 1, power - 1>>] \o rec[<<boundary, top, power - 1>>]

\* The arguments of a call: both ends and the power.  A bottom of -2^63, one below
\* __min_int64, is not among them.
Calls == (MinInt..MaxInt) \X (MinInt..MaxInt) \X Int

FindRangesFrom[call \in Calls] == Cut(FindRangesFrom, call[1], call[2], call[3])

(* __find_ranges: "kick off the recursion at power RANGES-1".              *)
FindRanges(bot, top) == FindRangesFrom[<<bot, top, Ranges - 1>>]

(* The sketch and the value __do_rangecount looks a range up with.         *)
Level(r) ==
  IF r = <<MinInt, -1>> \/ r = <<0, MaxInt>> THEN W - 1
  ELSE Intlog2(r[2] - r[1] + 1 + (IF r[1] = MinInt THEN 1 ELSE 0)
                               + (IF r[2] = MaxInt THEN 1 ELSE 0))
Prefix(r) == IF r = <<MinInt, -1>> THEN -1
             ELSE IF r = <<0, MaxInt>> THEN 0 ELSE r[1] \div TwoTo[Level(r)]
=============================================================================
