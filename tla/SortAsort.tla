------------------------------ MODULE SortAsort ------------------------------
(***************************************************************************)
(* The sortasort dictionary of methods/sketch (sortasort.c) with the       *)
(* wrapper that grows it (fmsketch_sortasort_insert in fm.c).              *)
(*                                                                         *)
(* A value is the byte string marshalled into the storage area, with the   *)
(* length header Postgres gives a variable-length value.  The directory    *)
(* holds the stored values where the code has their offsets; the first     *)
(* multiple of SLOP of them are sorted, the rest are in insertion order.   *)
(***************************************************************************)
EXTENDS Integers, Sequences, SequencesExt, FiniteSets, FiniteSetsExt

CONSTANTS
  Values,          \* the values of a column, as byte strings
  SLOP,            \* SORTA_SLOP
  Capacity,        \* MINVALS, the size of the directory
  InitialStorage   \* bytes in the storage area of a new sortasort

ASSUME SortAsortAssumption ==
  /\ Values \subseteq Seq(Nat) \ {<< >>}
  \* Of a sorted front of two the search would look at the second value alone.
  /\ SLOP \in Nat /\ SLOP >= 3
  /\ Capacity \in Nat /\ InitialStorage \in Nat \ {0}
  \* The header tells two lengths apart, so no value is a prefix of another.
  /\ \A v, w \in Values : IsPrefix(v, w) => v = w

VARIABLES dir, storage_cur, storage_sz
vars == <<dir, storage_cur, storage_sz>>

num_vals == Len(dir)

\* memcmp(a, b, n) up to its sign.
Memcmp(a, b, n) ==
  LET D == {i \in 1..n \cap (DOMAIN a) \cap (DOMAIN b) : a[i] # b[i]}
  IN IF D = {} THEN 0 ELSE a[Min(D)] - b[Min(D)]

\* Mutant: what the comment in sorta_cmp says, "order by length".
LengthFirst(a, b) == \/ Len(a) < Len(b)
                     \/ Len(a) = Len(b) /\ Memcmp(a, b, Len(a)) < 0

(* sorta_cmp.  It asks for the length of the second value with the length  *)
(* of the first for a type length, gets that back, and so never finds one  *)
(* value shorter than the other: what is left is the byte order.           *)
SortaLess(a, b) == Memcmp(a, b, Len(a)) < 0

\* The directory after qsort_arg: each value after those that are less.
Sorted(d) ==
  LET Before(i) == {j \in DOMAIN d : \/ SortaLess(d[j], d[i])
                                    \/ (~SortaLess(d[i], d[j]) /\ j < i)}
  IN [k \in DOMAIN d |-> d[CHOOSE i \in DOMAIN d : Cardinality(Before(i)) = k - 1]]

\* Length of the sorted prefix: "the highest multiple of SORTA_SLOP".
Hi(d) == (Len(d) \div SLOP) * SLOP

NotFound == 0

Half(n) == IF n \div 2 = 0 THEN 1 ELSE n \div 2

(* The turns of the binary search on the front: 1-based positions min..max *)
(* and the guess.  Once the loop has ended they stay the same.             *)
Turns(d, v) ==
  LET diff(g) == Memcmp(d[g], v, Len(v))
      at[k \in Nat] ==
        IF k = 0 THEN [min |-> 1, max |-> Hi(d), guess |-> Hi(d) \div 2 + 1]
        ELSE LET s == at[k - 1]
             IN IF s.min >= s.max - 1 \/ diff(s.guess) = 0 THEN s
                ELSE IF diff(s.guess) < 0
                  THEN [min |-> s.guess, max |-> s.max,
                        guess |-> s.guess + Half(s.max - s.guess)]
                  ELSE [min |-> s.min, max |-> s.guess,
                        guess |-> s.guess - Half(s.guess - s.min)]
  IN at

\* Each turn narrows the range, so that Hi(d) of them end the loop.
FrontSearch(d, v) ==
  LET s == Turns(d, v)[Hi(d)]
  IN IF s.min < s.max /\ Memcmp(d[s.guess], v, Len(v)) = 0 THEN s.guess ELSE NotFound

FindInFront(d, v) == FrontSearch(d, v)   \* mutant: forgets the tail

(* sortasort_find: the front, then "a naive linear search on the tail".    *)
Find(d, v) ==
  LET InTail == {i \in Hi(d) + 1 .. Len(d) : Memcmp(d[i], v, Len(v)) = 0}
  IN IF FrontSearch(d, v) # NotFound THEN FrontSearch(d, v)
     ELSE IF InTail # {} THEN Min(InTail) ELSE NotFound

Init == dir = << >> /\ storage_cur = 0 /\ storage_sz = InitialStorage

(* sortasort_try_insert once there is room.                                *)
Place(v) ==
  LET d == Append(dir, v)
  IN /\ dir' = IF Len(d) % SLOP = 0 THEN Sorted(d) ELSE d
     /\ storage_cur' = storage_cur + Len(v)

\* "found!  just return TRUE"
InsertKnown(v) ==
  /\ num_vals < Capacity   \* else elog "insert into full sortasort"
  /\ Find(dir, v) # NotFound
  /\ UNCHANGED vars

\* Mutant: an off-by-one in the check for room.
InsertFitsTight(v) ==
  /\ num_vals < Capacity
  /\ Find(dir, v) = NotFound
  /\ storage_cur + Len(v) <= storage_sz
  /\ Place(v)
  /\ UNCHANGED storage_sz

InsertFits(v) ==
  /\ num_vals < Capacity
  /\ Find(dir, v) = NotFound
  /\ storage_cur + Len(v) < storage_sz
  /\ Place(v)
  /\ UNCHANGED storage_sz

\* No room: a storage area of twice the size plus the value, and once more.
InsertGrows(v) ==
  /\ num_vals < Capacity
  /\ Find(dir, v) = NotFound
  /\ storage_cur + Len(v) >= storage_sz
  /\ storage_sz' = storage_sz * 2 + Len(v)
  /\ Place(v)

Next == \E v \in Values : InsertKnown(v) \/ InsertFits(v) \/ InsertGrows(v)

Spec == Init /\ [][Next]_vars

-----------------------------------------------------------------------------
Members == ToSet(dir)

TypeOK == dir \in Seq(Values) /\ storage_cur \in Nat /\ storage_sz \in Nat

(* sortasort_find tells exactly the stored values, and where each one is,  *)
(* whatever the split between sorted front and unsorted tail.              *)
FindIsExact == \A v \in Values :
  LET i == Find(dir, v)
  IN IF v \in Members THEN i \in DOMAIN dir /\ dir[i] = v ELSE i = NotFound

(* "went off the end of sortasort storage" and the second failure of the   *)
(* growing loop never happen: the values fit the storage area.             *)
StorageHolds ==
  /\ TypeOK
  /\ storage_cur = FoldFunctionOnSet(+, 0, [v \in Members |-> Len(v)], Members)
  /\ storage_cur < storage_sz

(* The dictionary behaves as the set it stands for.                        *)
Abstract == INSTANCE Dictionary WITH members <- Members, count <- num_vals
IsDictionary == Abstract!Spec
=============================================================================
