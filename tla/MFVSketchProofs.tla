--------------------------- MODULE MFVSketchProofs ---------------------------
(***************************************************************************)
(* The most-frequent-values aggregates, for any number of segments, any    *)
(* values and lengths, any hash and any size of the list.                  *)
(***************************************************************************)
EXTENDS MFVSketch, Recursion

-----------------------------------------------------------------------------
(* One CountMin sketch.                                                    *)

(* The least element of a nonempty set of natural numbers.                 *)
LEMMA MinFacts ==
  ASSUME NEW T, T \in SUBSET Nat, T # {}
  PROVE  Min(T) \in T /\ \A y \in T : Min(T) <= y
BY LeastNumber DEF Min

(* A count is that of one of the rows and no larger than that of any.      *)
LEMMA CountFacts ==
  ASSUME Col \in Hashes, NEW k \in Counters, NEW x \in Items
  PROVE  /\ Count(k, x) \in Nat
         /\ \A i \in Rows : k[i][Col[x][i]] \in Nat /\ Count(k, x) <= k[i][Col[x][i]]
         /\ \E i \in Rows : Count(k, x) = k[i][Col[x][i]]
<1>1. Col \in [Items -> [Rows -> Cols]] /\ Rows # {}
  BY CountMinAssumption
<1>2. \A i \in Rows : k[i][Col[x][i]] \in Nat
  BY <1>1 DEF Counters
<1>3. Cells(k, x) \in SUBSET Nat /\ Cells(k, x) # {}
  BY <1>1, <1>2 DEF Cells
<1>4. /\ Min(Cells(k, x)) \in Cells(k, x)
      /\ \A y \in Cells(k, x) : Min(Cells(k, x)) <= y
  BY <1>3, MinFacts
<1> QED
  BY <1>2, <1>3, <1>4 DEF Count, Cells

(* A row counted: the counters of its value go up by one, and one of       *)
(* another value only where the two meet.                                  *)
LEMMA IncrementFacts ==
  ASSUME Col \in Hashes, NEW k \in Counters, NEW x \in Items
  PROVE  /\ Increment(k, x) \in Counters
         /\ \A i \in Rows, c \in Cols :
              /\ Increment(k, x)[i][c] =
                   IF c = Col[x][i] THEN k[i][c] + 1 ELSE k[i][c]
              /\ k[i][c] \in Nat
         /\ \A y \in Items, i \in Rows : Col[y][i] \in Cols
<1>1. Col \in [Items -> [Rows -> Cols]]
  BY CountMinAssumption
<1>2. \A i \in Rows, c \in Cols : k[i][c] \in Nat
  BY DEF Counters
<1>3. \A i \in Rows, c \in Cols :
        Increment(k, x)[i][c] = k[i][c] + (IF c = Col[x][i] THEN 1 ELSE 0)
  BY DEF Increment
<1>4. \A i \in Rows, c \in Cols :
        k[i][c] + (IF c = Col[x][i] THEN 1 ELSE 0) \in Nat
  BY <1>2
<1>5. Increment(k, x) \in Counters
  BY <1>4 DEF Increment, Counters
<1>6. \A i \in Rows, c \in Cols :
        Increment(k, x)[i][c] = IF c = Col[x][i] THEN k[i][c] + 1 ELSE k[i][c]
  BY <1>2, <1>3
<1> QED
  BY <1>1, <1>2, <1>5, <1>6

(* A new sketch counts nothing.                                            *)
LEMMA BlankFacts ==
  /\ Blank \in Counters
  /\ \A i \in Rows, c \in Cols : Blank[i][c] = 0
BY DEF Blank, Counters

(* The sum of two sketches is one, cell by cell.                           *)
LEMMA Sum2Facts ==
  ASSUME NEW k1 \in Counters, NEW k2 \in Counters
  PROVE  /\ Sum2(k1, k2) \in Counters
         /\ \A i \in Rows, c \in Cols :
              /\ Sum2(k1, k2)[i][c] = k1[i][c] + k2[i][c]
              /\ k1[i][c] \in Nat /\ k2[i][c] \in Nat
<1>1. \A i \in Rows, c \in Cols : k1[i][c] \in Nat /\ k2[i][c] \in Nat
  BY DEF Counters
<1> QED
  BY <1>1 DEF Sum2, Counters

-----------------------------------------------------------------------------
(* The storage of a transition value.                                      *)

Bucket == [val: Items, cnt: Nat, offset: Nat]
End(e) == e.offset + Size[e.val]

\* No value's bytes run into another's or over the end.
Stored(k) ==
  /\ k.next_offset <= k.space
  /\ \A i \in DOMAIN k.mfvs : End(k.mfvs[i]) <= k.next_offset
  /\ \A i, j \in DOMAIN k.mfvs :
       i # j => \/ End(k.mfvs[i]) <= k.mfvs[j].offset
                \/ End(k.mfvs[j]) <= k.mfvs[i].offset

(* The parts of a transition value and of the entries of its list.         *)
LEMMA BucketFacts ==
  ASSUME NEW k \in TransVal
  PROVE  /\ k.mfvs \in Seq(Bucket) /\ DOMAIN k.mfvs = 1..Len(k.mfvs) /\ Len(k.mfvs) \in Nat
         /\ k.next_offset \in Nat /\ k.space \in Nat /\ k.init \in BOOLEAN
         /\ k.sketch \in Counters
         /\ \A i \in DOMAIN k.mfvs :
              /\ k.mfvs[i] \in Bucket
              /\ k.mfvs[i].val \in Items /\ k.mfvs[i].cnt \in Nat /\ k.mfvs[i].offset \in Nat
              /\ Size[k.mfvs[i].val] \in Nat \ {0} /\ End(k.mfvs[i]) \in Nat
<1>1. k.mfvs \in Seq(Bucket)
  BY DEF TransVal, Bucket
<1>2. DOMAIN k.mfvs = 1..Len(k.mfvs) /\ Len(k.mfvs) \in Nat
  BY <1>1
<1>3. \A i \in DOMAIN k.mfvs : k.mfvs[i] \in Bucket
  BY <1>1
<1>4. \A i \in DOMAIN k.mfvs :
        k.mfvs[i].val \in Items /\ k.mfvs[i].cnt \in Nat /\ k.mfvs[i].offset \in Nat
  BY <1>3 DEF Bucket
<1>5. \A i \in DOMAIN k.mfvs : Size[k.mfvs[i].val] \in Nat \ {0}
  BY <1>4, MFVAssumption
<1>6. \A i \in DOMAIN k.mfvs : End(k.mfvs[i]) \in Nat
  BY <1>4, <1>5 DEF End
<1> QED
  BY <1>1, <1>2, <1>3, <1>4, <1>5, <1>6 DEF TransVal

\* Position i of the list of r holds x with n, the others are those of k.
Holds(r, k, x, n, i) ==
  /\ Len(r.mfvs) = IF i > Len(k.mfvs) THEN Len(k.mfvs) + 1 ELSE Len(k.mfvs)
  /\ r.init = k.init /\ r.sketch = k.sketch
  /\ \A j \in 1..Len(r.mfvs) :
       IF j = i \/ j > Len(k.mfvs)
         THEN r.mfvs[j].val = x /\ r.mfvs[j].cnt = n
         ELSE r.mfvs[j].val = k.mfvs[j].val /\ r.mfvs[j].cnt = k.mfvs[j].cnt

(* A value put at next_offset: the storage grows as far as is needed, since *)
(* what it grows by is at least the space behind the first entry.          *)
LEMMA PutAtFacts ==
  ASSUME NEW k \in TransVal, Stored(k), NEW x \in Items, NEW n \in Nat, NEW i \in Nat \ {0}
  PROVE  /\ PutAt(k, x, n, i) \in TransVal /\ Stored(PutAt(k, x, n, i))
         /\ Holds(PutAt(k, x, n, i), k, x, n, i)
<1> DEFINE r == PutAt(k, x, n, i)
           e == [val |-> x, cnt |-> n, offset |-> k.next_offset]
           L == Len(k.mfvs)
           room == k.space - k.next_offset
           cur == k.space - (IF k.mfvs = << >> THEN 0 ELSE k.mfvs[1].offset)
           sp == IF room < Size[x] THEN k.space + cur + Size[x] ELSE k.space
           m == IF i > L THEN Append(k.mfvs, e) ELSE ReplaceAt(k.mfvs, i, e)
<1>1. /\ k.mfvs \in Seq(Bucket) /\ DOMAIN k.mfvs = 1..L /\ L \in Nat
      /\ k.next_offset \in Nat /\ k.space \in Nat
      /\ Size[x] \in Nat \ {0} /\ e \in Bucket
      /\ \A j \in 1..L : /\ k.mfvs[j] \in Bucket /\ k.mfvs[j].offset \in Nat
                         /\ End(k.mfvs[j]) \in Nat /\ Size[k.mfvs[j].val] \in Nat \ {0}
                         /\ End(k.mfvs[j]) = k.mfvs[j].offset + Size[k.mfvs[j].val]
  <2>1. Size[x] \in Nat \ {0}
    BY MFVAssumption
  <2>2. k.next_offset \in Nat
    BY BucketFacts
  <2>3. e \in Bucket
    BY <2>2 DEF Bucket
  <2> QED
    BY <2>1, <2>3, BucketFacts DEF End
<1>2. r = [k EXCEPT !.mfvs = m, !.next_offset = k.next_offset + Size[x], !.space = sp]
  BY DEF PutAt, TransVal
<1>3. sp \in Nat /\ k.next_offset + Size[x] <= sp /\ k.next_offset <= k.space
  <2>1. k.next_offset <= k.space
    BY DEF Stored
  <2>2. cur \in Nat
    <3>1. CASE k.mfvs = << >>
      BY <1>1, <3>1
    <3>2. CASE k.mfvs # << >>
      <4>1. 1 \in 1..L
        BY <1>1, <3>2
      <4>2. End(k.mfvs[1]) <= k.next_offset
        BY <1>1, <4>1 DEF Stored
      <4>3. k.mfvs[1].offset <= k.space
        BY <1>1, <2>1, <4>1, <4>2
      <4> QED
        BY <1>1, <3>2, <4>1, <4>3
    <3> QED
      BY <3>1, <3>2
  <2> HIDE DEF cur
  <2> QED
    BY <1>1, <2>1, <2>2
<1> HIDE DEF sp
<1>4. /\ m \in Seq(Bucket) /\ Len(m) = IF i > L THEN L + 1 ELSE L
      /\ \A j \in 1..Len(m) : m[j] = IF j = i \/ j > L THEN e ELSE k.mfvs[j]
  <2> HIDE DEF e
  <2>1. CASE i > L
    BY <1>1, <2>1
  <2>2. CASE ~(i > L)
    <3>1. m = [k.mfvs EXCEPT ![i] = e] /\ i \in 1..L
      BY <1>1, <2>2 DEF ReplaceAt
    <3>2. m \in Seq(Bucket) /\ Len(m) = L
      <4>1. k.mfvs \in [1..L -> Bucket]
        BY <1>1
      <4>2. m \in [1..L -> Bucket]
        BY <1>1, <3>1, <4>1
      <4> HIDE DEF m, L
      <4> QED
        BY <1>1, <4>2
    <3> QED
      BY <1>1, <2>2, <3>1, <3>2
  <2> QED
    BY <2>1, <2>2
<1> HIDE DEF m
<1>5. /\ r.mfvs = m /\ r.next_offset = k.next_offset + Size[x] /\ r.space = sp
      /\ r.init = k.init /\ r.sketch = k.sketch
  BY <1>2 DEF TransVal
<1>6. r \in TransVal
  <2>1. m \in Seq([val: Items, cnt: Nat, offset: Nat])
    BY <1>4 DEF Bucket
  <2>2. k.init \in BOOLEAN /\ k.sketch \in Counters
    BY BucketFacts
  <2>3. k.next_offset + Size[x] \in Nat /\ sp \in Nat
    BY <1>1, <1>3
  <2>4. r = [init |-> k.init, sketch |-> k.sketch, mfvs |-> m,
             next_offset |-> k.next_offset + Size[x], space |-> sp]
    BY <1>2 DEF TransVal
  <2> HIDE DEF r
  <2> QED
    BY <2>1, <2>2, <2>3, <2>4 DEF TransVal
<1> HIDE DEF r
<1>7. End(e) = k.next_offset + Size[x] /\ e.offset = k.next_offset
  BY DEF End
<1>8. Stored(r)
  <2>1. ASSUME NEW j \in 1..Len(m)
        PROVE  End(m[j]) <= k.next_offset + Size[x]
    <3>1. CASE j = i \/ j > L
      BY <1>1, <1>4, <1>7, <3>1
    <3>2. CASE ~(j = i \/ j > L)
      <4>1. j \in 1..L /\ m[j] = k.mfvs[j]
        BY <1>1, <1>4, <3>2
      <4>2. End(k.mfvs[j]) <= k.next_offset
        BY <1>1, <4>1 DEF Stored
      <4> QED
        BY <1>1, <4>1, <4>2
    <3> QED
      BY <3>1, <3>2
  <2>2. ASSUME NEW j \in 1..Len(m), NEW l \in 1..Len(m), j # l
        PROVE  End(m[j]) <= m[l].offset \/ End(m[l]) <= m[j].offset
    <3>1. \A q \in 1..Len(m) : q = i \/ q > L \/ (q \in 1..L /\ m[q] = k.mfvs[q])
      BY <1>1, <1>4
    <3>2. \A q \in 1..L : End(k.mfvs[q]) <= k.next_offset
      BY <1>1 DEF Stored
    <3>3. ~((j = i \/ j > L) /\ (l = i \/ l > L))
      BY <1>1, <1>4, <2>2
    <3>4. CASE (j = i \/ j > L) /\ ~(l = i \/ l > L)
      BY <1>4, <1>7, <3>1, <3>2, <3>4
    <3>5. CASE ~(j = i \/ j > L) /\ (l = i \/ l > L)
      BY <1>4, <1>7, <3>1, <3>2, <3>5
    <3>6. CASE ~(j = i \/ j > L) /\ ~(l = i \/ l > L)
      BY <1>1, <2>2, <3>1, <3>6 DEF Stored
    <3> QED
      BY <3>3, <3>4, <3>5, <3>6
  <2>3. DOMAIN m = 1..Len(m)
    BY <1>4
  <2> QED
    BY <1>3, <1>5, <2>1, <2>2, <2>3 DEF Stored
<1>9. Holds(r, k, x, n, i)
  <2>1. e.val = x /\ e.cnt = n
    OBVIOUS
  <2> HIDE DEF e
  <2> QED
    BY <1>4, <1>5, <2>1 DEF Holds
<1> QED
  BY <1>6, <1>8, <1>9 DEF r

InPlace(k, x, n, i) == [k EXCEPT !.mfvs[i].val = x, !.mfvs[i].cnt = n]

(* A value written in place of a longer one frees bytes and takes none.    *)
LEMMA InPlaceFacts ==
  ASSUME NEW k \in TransVal, Stored(k), NEW x \in Items, NEW n \in Nat,
         NEW i \in 1..Len(k.mfvs), Size[x] <= Size[k.mfvs[i].val]
  PROVE  /\ InPlace(k, x, n, i) \in TransVal /\ Stored(InPlace(k, x, n, i))
         /\ Holds(InPlace(k, x, n, i), k, x, n, i)
<1> DEFINE r == InPlace(k, x, n, i)
           L == Len(k.mfvs)
           e == [val |-> x, cnt |-> n, offset |-> k.mfvs[i].offset]
           m == [k.mfvs EXCEPT ![i] = e]
<1>1. /\ k.mfvs \in Seq(Bucket) /\ DOMAIN k.mfvs = 1..L /\ L \in Nat
      /\ k.next_offset \in Nat /\ k.space \in Nat /\ k.init \in BOOLEAN
      /\ k.sketch \in Counters /\ Size[x] \in Nat
      /\ \A j \in 1..L : /\ k.mfvs[j] \in Bucket /\ k.mfvs[j].offset \in Nat
                         /\ End(k.mfvs[j]) \in Nat /\ Size[k.mfvs[j].val] \in Nat \ {0}
                         /\ End(k.mfvs[j]) = k.mfvs[j].offset + Size[k.mfvs[j].val]
  BY MFVAssumption, BucketFacts DEF End
<1>2. r = [init |-> k.init, sketch |-> k.sketch, mfvs |-> m,
           next_offset |-> k.next_offset, space |-> k.space]
  <2>1. k.mfvs[i] = [val |-> k.mfvs[i].val, cnt |-> k.mfvs[i].cnt,
                     offset |-> k.mfvs[i].offset]
    BY <1>1 DEF Bucket
  <2> DEFINE d == [k.mfvs[i] EXCEPT !.val = x]
             l == [k.mfvs EXCEPT ![i] = d]
  <2>2. e = [d EXCEPT !.cnt = n]
    <3>1. PICK v, q, o : k.mfvs[i] = [val |-> v, cnt |-> q, offset |-> o]
      BY <2>1
    <3>2. d = [val |-> x, cnt |-> q, offset |-> o]
      BY <3>1
    <3>3. e = [val |-> x, cnt |-> n, offset |-> o]
      BY <3>1
    <3> HIDE DEF d, e
    <3> QED
      BY <3>2, <3>3
  <2>3. l[i] = d
    BY <1>1
  <2>4. m = [l EXCEPT ![i] = [l[i] EXCEPT !.cnt = n]]
    BY <1>1, <2>2, <2>3
  <2>5. r = [[k EXCEPT !.mfvs = l] EXCEPT !.mfvs = [l EXCEPT ![i] = [l[i] EXCEPT !.cnt = n]]]
    BY DEF InPlace, TransVal
  <2> HIDE DEF m, l, r
  <2>6. r = [[k EXCEPT !.mfvs = l] EXCEPT !.mfvs = m]
    BY <2>4, <2>5
  <2> QED
    BY <2>6 DEF TransVal
<1>3. e \in Bucket /\ e.val = x /\ e.cnt = n /\ e.offset = k.mfvs[i].offset
      /\ End(e) \in Nat /\ End(e) <= End(k.mfvs[i])
  <2>1. e \in Bucket
    BY <1>1 DEF Bucket
  <2>2. End(e) = k.mfvs[i].offset + Size[x]
    BY DEF End
  <2> QED
    BY <1>1, <2>1, <2>2
<1> HIDE DEF e
<1>4. /\ m \in Seq(Bucket) /\ Len(m) = L /\ DOMAIN m = 1..L
      /\ \A j \in 1..L : m[j] = IF j = i THEN e ELSE k.mfvs[j]
  <2>1. m \in [1..L -> Bucket]
    <3>1. k.mfvs \in [1..L -> Bucket]
      BY <1>1
    <3> QED
      BY <1>1, <1>3, <3>1
  <2>2. \A j \in 1..L : m[j] = IF j = i THEN e ELSE k.mfvs[j]
    BY <1>1
  <2> HIDE DEF m, L
  <2>3. m \in Seq(Bucket) /\ Len(m) = L /\ DOMAIN m = 1..L
    BY <1>1, <2>1
  <2> QED
    BY <2>2, <2>3
<1> HIDE DEF m
<1> HIDE DEF r
<1>5. /\ r.mfvs = m /\ r.next_offset = k.next_offset /\ r.space = k.space
      /\ r.init = k.init /\ r.sketch = k.sketch
  BY <1>2
<1>6. r \in TransVal
  <2>1. m \in Seq([val: Items, cnt: Nat, offset: Nat])
    BY <1>4 DEF Bucket
  <2> QED
    BY <1>1, <1>2, <2>1 DEF TransVal
<1>7. Stored(r)
  <2>1. \A j \in 1..L : /\ m[j].offset = k.mfvs[j].offset
                        /\ End(m[j]) \in Nat /\ End(m[j]) <= End(k.mfvs[j])
    <3> SUFFICES ASSUME NEW j \in 1..L
                 PROVE  /\ m[j].offset = k.mfvs[j].offset
                        /\ End(m[j]) \in Nat /\ End(m[j]) <= End(k.mfvs[j])
      OBVIOUS
    <3>1. CASE j = i
      BY <1>3, <1>4, <3>1
    <3>2. CASE j # i
      <4>1. m[j] = k.mfvs[j]
        BY <1>4, <3>2
      <4>2. End(k.mfvs[j]) \in Nat
        BY <1>1
      <4> QED
        BY <4>1, <4>2
    <3> QED
      BY <3>1, <3>2
  <2>2. ASSUME NEW j \in 1..L
        PROVE  End(m[j]) <= k.next_offset
    <3>1. End(k.mfvs[j]) <= k.next_offset
      BY <1>1 DEF Stored
    <3> QED
      BY <1>1, <2>1, <3>1
  <2>3. ASSUME NEW j \in 1..L, NEW l \in 1..L, j # l
        PROVE  End(m[j]) <= m[l].offset \/ End(m[l]) <= m[j].offset
    <3>1. \/ End(k.mfvs[j]) <= k.mfvs[l].offset
          \/ End(k.mfvs[l]) <= k.mfvs[j].offset
      BY <1>1, <2>3 DEF Stored
    <3>2. m[j].offset = k.mfvs[j].offset /\ m[l].offset = k.mfvs[l].offset
      BY <2>1
    <3>3. End(m[j]) <= End(k.mfvs[j]) /\ End(m[l]) <= End(k.mfvs[l])
          /\ End(m[j]) \in Nat /\ End(m[l]) \in Nat
      BY <2>1
    <3>4. /\ End(k.mfvs[j]) \in Nat /\ End(k.mfvs[l]) \in Nat
          /\ k.mfvs[j].offset \in Nat /\ k.mfvs[l].offset \in Nat
      BY <1>1
    <3> QED
      BY <3>1, <3>2, <3>3, <3>4
  <2> QED
    BY <1>4, <1>5, <2>2, <2>3 DEF Stored
<1>8. Holds(r, k, x, n, i)
  BY <1>1, <1>3, <1>4, <1>5 DEF Holds
<1> QED
  BY <1>6, <1>7, <1>8 DEF r

(* mfv_transval_replace stores the value either way.                       *)
LEMMA ReplaceFacts ==
  ASSUME NEW k \in TransVal, Stored(k), NEW x \in Items, NEW n \in Nat,
         NEW i \in 1..Len(k.mfvs)
  PROVE  /\ Replace(k, x, n, i) \in TransVal /\ Stored(Replace(k, x, n, i))
         /\ Holds(Replace(k, x, n, i), k, x, n, i)
<1>1. i \in Nat \ {0}
  BY BucketFacts
<1>2. CASE Size[x] <= Size[k.mfvs[i].val]
  <2>1. Replace(k, x, n, i) = InPlace(k, x, n, i)
    BY <1>2 DEF Replace, InPlace
  <2> QED
    BY <1>2, <2>1, InPlaceFacts
<1>3. CASE ~(Size[x] <= Size[k.mfvs[i].val])
  BY <1>1, <1>3, PutAtFacts DEF Replace
<1> QED
  BY <1>2, <1>3

\* What a row with value x makes of the list of k: x has a place, takes one
\* of a smaller count, takes a free one, or gets none.
Updated(r, k, x, n) ==
  \E i \in 1..Len(k.mfvs) : k.mfvs[i].val = x /\ Holds(r, k, x, n, i)
Evicts(r, k, x, n) ==
  \E i \in 1..Len(k.mfvs) : k.mfvs[i].cnt < n /\ Holds(r, k, x, n, i)
Appends(r, k, x, n) ==
  Len(k.mfvs) < max_mfvs /\ Holds(r, k, x, n, Len(k.mfvs) + 1)
LeftOut(r, k, x, n) ==
  Len(k.mfvs) >= max_mfvs /\ r = k
Unlisted(k, x) == \A i \in 1..Len(k.mfvs) : k.mfvs[i].val # x
NoneBeaten(k, n) == \A i \in 1..Len(k.mfvs) : k.mfvs[i].cnt >= n

(* mfv_find returns a place of the value, or 0 if there is none.           *)
LEMMA FindFacts ==
  ASSUME NEW k \in TransVal, NEW x
  PROVE  /\ Find(k, x) = 0 => Unlisted(k, x)
         /\ Find(k, x) # 0 => /\ Find(k, x) \in 1..Len(k.mfvs)
                              /\ k.mfvs[Find(k, x)].val = x
<1> DEFINE I == {i \in 1..Len(k.mfvs) : k.mfvs[i].val = x}
<1>1. Find(k, x) = IF I # {} THEN Min(I) ELSE 0
  BY DEF Find, SelectInSeq
<1>2. I \in SUBSET Nat /\ 0 \notin I
  BY BucketFacts
<1>3. I # {} => Min(I) \in I
  <2> HIDE DEF I
  <2> QED
    BY <1>2, MinFacts
<1>4. I = {} => Unlisted(k, x)
  BY DEF Unlisted
<1> QED
  BY <1>1, <1>2, <1>3, <1>4

\* A transition value as it is after the first row it has to take.
Opened(k) == IF k.init THEN k ELSE New(TRUE)
Fresh(k) == k.init \/ k = Uninitialized

(* A new transition value is a stored one with an empty list.              *)
LEMMA NewFacts ==
  \A b \in BOOLEAN : /\ New(b) \in TransVal /\ Stored(New(b)) /\ New(b).init = b
                     /\ New(b).mfvs = << >> /\ New(b).sketch = Blank
                     /\ Len(New(b).mfvs) = 0
<1> SUFFICES ASSUME NEW b \in BOOLEAN
             PROVE  /\ New(b) \in TransVal /\ Stored(New(b)) /\ New(b).init = b
                    /\ New(b).mfvs = << >> /\ New(b).sketch = Blank
                    /\ Len(New(b).mfvs) = 0
  OBVIOUS
<1>1. << >> \in Seq([val: Items, cnt: Nat, offset: Nat])
  OBVIOUS
<1>2. New(b) \in TransVal
  BY <1>1, BlankFacts, MFVAssumption DEF New, TransVal
<1>3. Stored(New(b))
  BY MFVAssumption DEF New, Stored
<1> QED
  BY <1>2, <1>3 DEF New

(* What __mfvsketch_trans makes of a transition value: one of four         *)
(* outcomes for the list.                                                  *)
LEMMA TransFacts ==
  ASSUME Col \in Hashes, NEW k0 \in TransVal, Stored(k0), Fresh(k0), NEW x \in Items
  PROVE  LET k == Opened(k0)
             c == [k EXCEPT !.sketch = Increment(k.sketch, x)]
             n == Count(c.sketch, x)
             r == Trans(k0, x)
         IN /\ r \in TransVal /\ Stored(r) /\ r.init /\ n \in Nat
            /\ r.sketch = Increment(k.sketch, x)
            /\ k \in TransVal /\ c \in TransVal /\ c.mfvs = k.mfvs
            /\ \/ Updated(r, c, x, n)
               \/ Unlisted(c, x) /\ Evicts(r, c, x, n)
               \/ Unlisted(c, x) /\ NoneBeaten(c, n) /\ Appends(r, c, x, n)
               \/ Unlisted(c, x) /\ NoneBeaten(c, n) /\ LeftOut(r, c, x, n)
<1> DEFINE k == Opened(k0)
           sketch == Increment(k.sketch, x)
           c == [k EXCEPT !.sketch = sketch]
           n == Count(sketch, x)
           r == Trans(k0, x)
           beaten == {i \in DOMAIN k.mfvs : k.mfvs[i].cnt < n}
<1>1. k \in TransVal /\ Stored(k) /\ k.init
  BY NewFacts DEF Opened
<1>2. sketch \in Counters /\ k.sketch \in Counters
  BY <1>1, IncrementFacts, BucketFacts
<1>3. n \in Nat
  BY <1>2, CountFacts
<1>4. r = IF Find(k, x) # 0 THEN [c EXCEPT !.mfvs[Find(k, x)].cnt = n]
          ELSE IF beaten # {} THEN Replace(c, x, n, Min(beaten))
          ELSE IF Len(k.mfvs) < max_mfvs THEN PutAt(c, x, n, Len(k.mfvs) + 1)
          ELSE c
  BY DEF Trans, Opened
<1> HIDE DEF k, n, sketch
<1>5. /\ c.mfvs = k.mfvs /\ c.sketch = sketch /\ c.init
      /\ c.next_offset = k.next_offset /\ c.space = k.space
  BY <1>1 DEF TransVal
<1>6. c \in TransVal /\ Stored(c)
  <2>1. c \in TransVal
    BY <1>1, <1>2 DEF TransVal
  <2> HIDE DEF c
  <2>2. Stored(c)
    BY <1>1, <1>5 DEF Stored
  <2> QED
    BY <2>1, <2>2
<1>7. Find(k, x) = Find(c, x)
  BY <1>5 DEF Find
<1> HIDE DEF c
<1>8. /\ DOMAIN c.mfvs = 1..Len(c.mfvs) /\ Len(c.mfvs) \in Nat
      /\ \A i \in 1..Len(c.mfvs) : c.mfvs[i].cnt \in Nat /\ c.mfvs[i].val \in Items
                                  /\ Size[c.mfvs[i].val] \in Nat
  BY <1>6, BucketFacts
<1>9. CASE Find(k, x) # 0
  <2> DEFINE i == Find(k, x)
  <2>1. i \in 1..Len(c.mfvs) /\ c.mfvs[i].val = x
    BY <1>6, <1>7, <1>9, FindFacts
  <2>2. r = [c EXCEPT !.mfvs[i].cnt = n]
    BY <1>4, <1>9
  <2> HIDE DEF r, i
  <2>3. r = InPlace(c, x, n, i)
    <3>1. c.mfvs \in Seq(Bucket) /\ c.mfvs[i] \in Bucket
      BY <1>6, <1>8, <2>1, BucketFacts
    <3>2. [c.mfvs[i] EXCEPT !.val = x] = c.mfvs[i]
      BY <2>1, <3>1 DEF Bucket
    <3>3. [c.mfvs EXCEPT ![i].val = x] = c.mfvs
      BY <1>8, <3>1, <3>2
    <3>4. [c EXCEPT !.mfvs[i].val = x] = c
      BY <1>6, <3>3 DEF TransVal
    <3> QED
      BY <2>2, <3>4 DEF InPlace
  <2>4. r \in TransVal /\ Stored(r) /\ Holds(r, c, x, n, i)
    <3>1. Size[x] <= Size[c.mfvs[i].val]
      BY <1>8, <2>1
    <3> QED
      BY <1>3, <1>6, <2>1, <2>3, <3>1, InPlaceFacts
  <2> QED
    BY <1>1, <1>3, <1>5, <1>6, <2>1, <2>4 DEF Updated, Holds, r, k, n, c, sketch
<1>10. CASE Find(k, x) = 0 /\ beaten # {}
  <2>1. Unlisted(c, x)
    BY <1>6, <1>7, <1>10, FindFacts
  <2>2. beaten \in SUBSET Nat
    BY <1>5, <1>8
  <2>3. Min(beaten) \in beaten
    BY <1>10, <2>2, MinFacts
  <2> DEFINE i == Min(beaten)
  <2>4. i \in 1..Len(c.mfvs) /\ c.mfvs[i].cnt < n
    BY <1>5, <1>8, <2>3
  <2>5. r = Replace(c, x, n, i)
    BY <1>4, <1>10
  <2> HIDE DEF i, r
  <2>6. r \in TransVal /\ Stored(r) /\ Holds(r, c, x, n, i)
    BY <1>3, <1>6, <2>4, <2>5, ReplaceFacts
  <2> QED
    BY <1>1, <1>3, <1>5, <1>6, <2>1, <2>4, <2>6
       DEF Evicts, Holds, r, k, n, c, sketch
<1>11. CASE Find(k, x) = 0 /\ beaten = {}
  <2>1. Unlisted(c, x)
    BY <1>6, <1>7, <1>11, FindFacts
  <2>2. NoneBeaten(c, n)
    BY <1>3, <1>5, <1>8, <1>11 DEF NoneBeaten
  <2>3. CASE Len(k.mfvs) < max_mfvs
    <3>1. r = PutAt(c, x, n, Len(c.mfvs) + 1)
      BY <1>4, <1>5, <1>11, <2>3
    <3>2. Len(c.mfvs) + 1 \in Nat \ {0}
      BY <1>8
    <3> HIDE DEF r
    <3>3. r \in TransVal /\ Stored(r) /\ Holds(r, c, x, n, Len(c.mfvs) + 1)
      BY <1>3, <1>6, <3>1, <3>2, PutAtFacts
    <3> QED
      BY <1>1, <1>3, <1>5, <1>6, <2>1, <2>2, <2>3, <3>3
         DEF Appends, Holds, r, k, n, c, sketch
  <2>4. CASE ~(Len(k.mfvs) < max_mfvs)
    <3>1. r = c
      BY <1>4, <1>11, <2>4
    <3>2. Len(c.mfvs) >= max_mfvs
      BY <1>5, <1>8, <2>4, MFVAssumption
    <3> HIDE DEF r
    <3> QED
      BY <1>1, <1>3, <1>5, <1>6, <2>1, <2>2, <3>1, <3>2
         DEF LeftOut, r, k, n, c, sketch
  <2> QED
    BY <2>3, <2>4
<1> QED
  BY <1>9, <1>10, <1>11

-----------------------------------------------------------------------------
(* The merge of two sorted lists.                                          *)

\* The entry the loop takes after m entries, i of them from the first list.
FromFirst(l1, l2, m, i) ==
  i < Len(l1) /\ (m - i = Len(l2) \/ l1[i + 1].cnt >= l2[m - i + 1].cnt)

(* How many entries come from the first list, entry by entry.              *)
LEMMA TakenIterates ==
  ASSUME NEW l1, NEW l2
  PROVE  /\ Taken(l1, l2)[0] = 0
         /\ \A m \in Nat :
              LET i == Taken(l1, l2)[m]
              IN /\ i \in Nat
                 /\ Taken(l1, l2)[m + 1] =
                      IF FromFirst(l1, l2, m, i) THEN i + 1 ELSE i
<1> DEFINE Goes(m, i) == IF FromFirst(l1, l2, m, i) THEN i + 1 ELSE i
           step == [p \in Nat \X Nat |-> Goes(p[1], p[2])]
           V == Nat
           base == 0
           F == Taken(l1, l2)
<1>1. base \in V /\ step \in [Nat \X V -> V] /\ \A m, i \in Nat : step[<<m, i>>] = Goes(m, i)
  OBVIOUS
<1>2. F = CHOOSE f : f = [k \in Nat |-> IF k = 0 THEN 0 ELSE Goes(k - 1, f[k - 1])]
  BY DEF Taken, FromFirst
<1> HIDE DEF step, V, base, Goes, F
<1>3. PICK f : Iterates(f, V, base, step)
  BY <1>1, NatRecursion
<1>4. f \in [Nat -> Nat] /\ \A k \in Nat : f[k] = IF k = 0 THEN 0 ELSE step[<<k - 1, f[k - 1]>>]
  BY <1>3 DEF Iterates, V, base
<1>5. \A k \in Nat : f[k] = IF k = 0 THEN 0 ELSE Goes(k - 1, f[k - 1])
  <2> SUFFICES ASSUME NEW k \in Nat, k # 0 PROVE f[k] = Goes(k - 1, f[k - 1])
    BY <1>4
  <2>1. k - 1 \in Nat /\ f[k - 1] \in Nat
    BY <1>4
  <2> QED
    BY <1>1, <1>4, <2>1
<1>6. f = [k \in Nat |-> IF k = 0 THEN 0 ELSE Goes(k - 1, f[k - 1])]
  BY <1>4, <1>5
<1>7. F = [k \in Nat |-> IF k = 0 THEN 0 ELSE Goes(k - 1, F[k - 1])]
  BY <1>2, <1>6
<1>8. F[0] = 0
  BY <1>7
<1>9. ASSUME NEW m \in Nat
      PROVE  F[m + 1] = Goes(m, F[m])
  <2>1. m + 1 \in Nat /\ m + 1 # 0 /\ (m + 1) - 1 = m
    OBVIOUS
  <2> QED
    BY <1>7, <2>1
<1>10. \A m \in Nat : F[m] \in Nat
  <2> DEFINE Bad == {m \in Nat : F[m] \notin Nat}
  <2>1. SUFFICES ASSUME Bad # {} PROVE FALSE
    OBVIOUS
  <2>2. Bad \in SUBSET Nat
    OBVIOUS
  <2> HIDE DEF Bad
  <2>3. PICK m \in Bad : \A k \in Bad : m <= k
    BY <2>1, <2>2, LeastNumber
  <2>4. m \in Nat /\ F[m] \notin Nat
    BY <2>3 DEF Bad
  <2>5. m - 1 \in Nat /\ ~(m <= m - 1) /\ (m - 1) + 1 = m
    BY <1>8, <2>4
  <2>6. F[m - 1] \in Nat
    BY <2>3, <2>5 DEF Bad
  <2>7. F[m] = Goes(m - 1, F[m - 1])
    BY <1>9, <2>5
  <2> QED
    BY <2>4, <2>6, <2>7 DEF Goes
<1> QED
  BY <1>8, <1>9, <1>10 DEF F, Goes

(* The loop stays within both lists until both are used up.                *)
LEMMA TakenFacts ==
  ASSUME NEW l1 \in Seq(Bucket), NEW l2 \in Seq(Bucket),
         NEW m \in Nat, m <= Len(l1) + Len(l2)
  PROVE  LET i == Taken(l1, l2)[m]
         IN i \in Nat /\ i <= Len(l1) /\ i <= m /\ m - i <= Len(l2)
<1> DEFINE F == Taken(l1, l2)
           Within(k) == F[k] <= Len(l1) /\ F[k] <= k /\ k - F[k] <= Len(l2)
           Bad == {k \in Nat : k <= Len(l1) + Len(l2) /\ ~Within(k)}
<1>1. Len(l1) \in Nat /\ Len(l2) \in Nat
  OBVIOUS
<1>2. /\ F[0] = 0 /\ \A k \in Nat : F[k] \in Nat
      /\ \A k \in Nat : F[k + 1] = IF FromFirst(l1, l2, k, F[k]) THEN F[k] + 1 ELSE F[k]
  BY TakenIterates
<1>3. Bad \in SUBSET Nat
  OBVIOUS
<1>4. Bad = {}
  <2> HIDE DEF F
  <2>1. SUFFICES ASSUME Bad # {} PROVE FALSE
    OBVIOUS
  <2> HIDE DEF Bad, Within
  <2>2. PICK k \in Bad : \A j \in Bad : k <= j
    BY <1>3, <2>1, LeastNumber
  <2>3. k \in Nat /\ k <= Len(l1) + Len(l2) /\ ~Within(k)
    BY <2>2 DEF Bad
  <2>4. k # 0
    <3>1. 0 <= Len(l1) /\ 0 <= 0 /\ 0 - 0 <= Len(l2)
      BY <1>1
    <3>2. Within(0)
      BY <1>2, <3>1 DEF Within
    <3> QED
      BY <2>3, <3>2
  <2> DEFINE p == k - 1
  <2>5. p \in Nat /\ p + 1 = k /\ ~(k <= p) /\ p <= Len(l1) + Len(l2)
    BY <1>1, <2>3, <2>4
  <2> HIDE DEF p
  <2>6. Within(p)
    BY <2>2, <2>5 DEF Bad
  <2>7. F[p] \in Nat /\ F[k] = IF FromFirst(l1, l2, p, F[p]) THEN F[p] + 1 ELSE F[p]
    BY <1>2, <2>5
  <2>8. CASE FromFirst(l1, l2, p, F[p])
    <3>1. F[k] = F[p] + 1 /\ F[p] < Len(l1)
      BY <2>7, <2>8 DEF FromFirst
    <3> QED
      BY <1>1, <2>3, <2>5, <2>6, <2>7, <3>1 DEF Within
  <2>9. CASE ~FromFirst(l1, l2, p, F[p])
    <3>1. F[k] = F[p] /\ (F[p] = Len(l1) \/ p - F[p] # Len(l2))
      BY <1>1, <2>6, <2>7, <2>9 DEF FromFirst, Within
    <3> QED
      BY <1>1, <2>3, <2>5, <2>6, <2>7, <3>1 DEF Within
  <2> QED
    BY <2>8, <2>9
<1>5. Within(m)
  <2> HIDE DEF Within, F
  <2> QED
    BY <1>4
<1> QED
  BY <1>2, <1>5

\* Best first.
Descends(l) == \A i \in 1..(Len(l) - 1) : l[i].cnt >= l[i + 1].cnt

(* The merge takes entries of the two lists and keeps them sorted.         *)
LEMMA TopOfFacts ==
  ASSUME NEW l1 \in Seq(Bucket), NEW l2 \in Seq(Bucket)
  PROVE  LET t == TopOf(l1, l2)
         IN /\ t \in Seq(Bucket)
            /\ \A k \in 1..Len(t) : (\E i \in 1..Len(l1) : t[k] = l1[i])
                                  \/ (\E i \in 1..Len(l2) : t[k] = l2[i])
            /\ Descends(l1) /\ Descends(l2) => Descends(t)
<1> DEFINE F == Taken(l1, l2)
           all == Len(l1) + Len(l2)
           L == IF all < max_mfvs THEN all ELSE max_mfvs
           At(k) == IF F[k] > F[k - 1] THEN l1[F[k]] ELSE l2[k - F[k]]
           t == TopOf(l1, l2)
<1>1. t = [k \in 1..L |-> At(k)]
  BY DEF TopOf
<1>2. Len(l1) \in Nat /\ Len(l2) \in Nat /\ L \in Nat /\ L <= all
  BY MFVAssumption
<1> HIDE DEF L, t
<1>3. \A k \in Nat : F[k] \in Nat
      /\ F[k + 1] = IF FromFirst(l1, l2, k, F[k]) THEN F[k] + 1 ELSE F[k]
  BY TakenIterates
<1>4. \A k \in Nat : k <= all => F[k] <= Len(l1) /\ F[k] <= k /\ k - F[k] <= Len(l2)
  BY TakenFacts
<1> HIDE DEF F
<1>5. ASSUME NEW p \in Nat, NEW k \in 1..L, k = p + 1
      PROVE  /\ k \in Nat /\ k <= all
             /\ \/ /\ FromFirst(l1, l2, p, F[p])
                   /\ F[k] = F[p] + 1 /\ F[k] \in 1..Len(l1) /\ At(k) = l1[F[k]]
                \/ /\ ~FromFirst(l1, l2, p, F[p])
                   /\ F[k] = F[p] /\ k - F[k] \in 1..Len(l2) /\ At(k) = l2[k - F[k]]
  <2>1. k \in Nat /\ k <= all /\ p <= all /\ k - 1 = p
    BY <1>2, <1>5
  <2>2. /\ F[p] \in Nat /\ F[k] \in Nat
        /\ F[k] = IF FromFirst(l1, l2, p, F[p]) THEN F[p] + 1 ELSE F[p]
        /\ F[k] <= Len(l1) /\ k - F[k] <= Len(l2)
        /\ F[p] <= p
    BY <1>3, <1>4, <1>5, <2>1
  <2>3. CASE FromFirst(l1, l2, p, F[p])
    <3>1. F[k] = F[p] + 1
      BY <2>2, <2>3
    <3> QED
      BY <1>2, <2>1, <2>2, <2>3, <3>1
  <2>4. CASE ~FromFirst(l1, l2, p, F[p])
    <3>1. F[k] = F[p]
      BY <2>2, <2>4
    <3> QED
      BY <1>2, <1>5, <2>1, <2>2, <2>4, <3>1
  <2> QED
    BY <2>1, <2>3, <2>4
<1> HIDE DEF At
<1>6. ASSUME NEW k \in 1..L
      PROVE  /\ At(k) \in Bucket
             /\ (\E i \in 1..Len(l1) : At(k) = l1[i]) \/ (\E i \in 1..Len(l2) : At(k) = l2[i])
  <2>1. \A i \in 1..Len(l1) : l1[i] \in Bucket
    OBVIOUS
  <2>2. \A i \in 1..Len(l2) : l2[i] \in Bucket
    OBVIOUS
  <2> DEFINE p == k - 1
  <2>3. p \in Nat /\ k = p + 1
    BY <1>2
  <2> HIDE DEF p
  <2>4. CASE F[k] \in 1..Len(l1) /\ At(k) = l1[F[k]]
    BY <2>1, <2>4
  <2>5. CASE k - F[k] \in 1..Len(l2) /\ At(k) = l2[k - F[k]]
    BY <2>2, <2>5
  <2> QED
    BY <1>5, <2>3, <2>4, <2>5
<1>7. t \in Seq(Bucket) /\ Len(t) = L /\ \A k \in 1..L : t[k] = At(k)
  <2>1. t \in [1..L -> Bucket]
    BY <1>1, <1>6
  <2> QED
    BY <1>1, <1>2, <2>1
<1>8. ASSUME Descends(l1), Descends(l2),
             NEW p \in Nat, NEW k \in 1..L, NEW q \in 1..L, k = p + 1, q = k + 1
      PROVE  At(k).cnt >= At(q).cnt
  <2>2. \A i \in 1..Len(l1) : l1[i].cnt \in Nat
    <3>1. \A i \in 1..Len(l1) : l1[i] \in Bucket
      OBVIOUS
    <3> QED
      BY <3>1 DEF Bucket
  <2>3. \A i \in 1..Len(l2) : l2[i].cnt \in Nat
    <3>1. \A i \in 1..Len(l2) : l2[i] \in Bucket
      OBVIOUS
    <3> QED
      BY <3>1 DEF Bucket
  <2>4. F[p] \in Nat /\ F[k] \in Nat /\ k \in Nat
    BY <1>3, <1>8
  <2>5. CASE FromFirst(l1, l2, p, F[p]) /\ FromFirst(l1, l2, k, F[k])
    <3>1. At(k) = l1[F[k]] /\ F[k] \in 1..Len(l1)
      BY <1>5, <1>8, <2>5
    <3>2. F[q] = F[k] + 1 /\ At(q) = l1[F[q]] /\ F[q] \in 1..Len(l1)
      BY <1>5, <1>8, <2>4, <2>5
    <3>3. F[k] \in 1..(Len(l1) - 1)
      BY <1>2, <3>1, <3>2
    <3> QED
      BY <1>8, <3>1, <3>2, <3>3 DEF Descends
  <2>6. CASE FromFirst(l1, l2, p, F[p]) /\ ~FromFirst(l1, l2, k, F[k])
    <3>1. At(k) = l1[F[p] + 1] /\ F[p] + 1 \in 1..Len(l1) /\ F[k] = F[p] + 1
      BY <1>5, <1>8, <2>6
    <3>2. F[q] = F[k] /\ q - F[q] \in 1..Len(l2) /\ At(q) = l2[q - F[q]]
      BY <1>5, <1>8, <2>4, <2>6
    <3>3. q - F[q] = p - F[p] + 1 /\ p - F[p] # Len(l2)
      <4>1. \A a, n \in Nat : /\ q - (a + 1) = p - a + 1
                              /\ q - (a + 1) \in 1..n => p - a # n
        BY <1>8
      <4>2. F[q] = F[p] + 1
        BY <3>1, <3>2
      <4> QED
        BY <1>2, <2>4, <3>2, <4>1, <4>2
    <3>4. l1[F[p] + 1].cnt >= l2[p - F[p] + 1].cnt
      BY <2>6, <3>3 DEF FromFirst
    <3> QED
      BY <3>1, <3>2, <3>3, <3>4
  <2>7. CASE ~FromFirst(l1, l2, p, F[p]) /\ FromFirst(l1, l2, k, F[k])
    <3>1. F[k] = F[p] /\ k - F[p] \in 1..Len(l2) /\ At(k) = l2[k - F[p]]
      BY <1>5, <1>8, <2>7
    <3>2. F[q] = F[p] + 1 /\ F[p] + 1 \in 1..Len(l1) /\ At(q) = l1[F[p] + 1]
      BY <1>5, <1>8, <2>4, <2>7, <3>1
    <3>3. k - F[p] = p - F[p] + 1 /\ F[p] < Len(l1) /\ p - F[p] # Len(l2)
      <4>1. \A a, n \in Nat : /\ k - a = p - a + 1
                              /\ k - a \in 1..n => p - a # n
                              /\ a + 1 \in 1..n => a < n
        BY <1>8
      <4> QED
        BY <1>2, <2>4, <3>1, <3>2, <4>1
    <3>4. ~(l1[F[p] + 1].cnt >= l2[p - F[p] + 1].cnt)
      BY <2>7, <3>3 DEF FromFirst
    <3>5. l1[F[p] + 1].cnt \in Nat /\ l2[p - F[p] + 1].cnt \in Nat
      BY <2>2, <2>3, <3>1, <3>2, <3>3
    <3> QED
      BY <3>1, <3>2, <3>3, <3>4, <3>5
  <2>8. CASE ~FromFirst(l1, l2, p, F[p]) /\ ~FromFirst(l1, l2, k, F[k])
    <3>1. F[k] = F[p] /\ k - F[k] \in 1..Len(l2) /\ At(k) = l2[k - F[k]]
      BY <1>5, <1>8, <2>8
    <3>2. F[q] = F[k] /\ q - F[k] \in 1..Len(l2) /\ At(q) = l2[q - F[k]]
      BY <1>5, <1>8, <2>4, <2>8
    <3>3. k - F[k] \in 1..(Len(l2) - 1) /\ q - F[k] = (k - F[k]) + 1
      BY <1>2, <1>8, <2>4, <3>1, <3>2
    <3> QED
      BY <1>8, <3>1, <3>2, <3>3 DEF Descends
  <2> QED
    BY <2>5, <2>6, <2>7, <2>8
<1>9. Descends(l1) /\ Descends(l2) => Descends(t)
  <2> SUFFICES ASSUME Descends(l1), Descends(l2), NEW k \in 1..(Len(t) - 1)
               PROVE  t[k].cnt >= t[k + 1].cnt
    BY DEF Descends
  <2> DEFINE p == k - 1
             q == k + 1
  <2>1. p \in Nat /\ k \in 1..L /\ q \in 1..L /\ k = p + 1
    BY <1>2, <1>7
  <2>2. t[k] = At(k) /\ t[q] = At(q)
    BY <1>7, <2>1
  <2>3. At(k).cnt >= At(q).cnt
    BY <1>8, <2>1
  <2> QED
    BY <2>2, <2>3
<1> QED
  BY <1>6, <1>7, <1>9 DEF t


-----------------------------------------------------------------------------
(* The new transition value of a merge.                                    *)

\* The first i entries of list l have been appended to k.
Filled(k, l, i) ==
  /\ Len(k.mfvs) = i
  /\ \A j \in 1..i : k.mfvs[j].val = l[j].val /\ k.mfvs[j].cnt = l[j].cnt

(* Appending to a new transition value with the sketch keeps values and    *)
(* counts, in order and without overlap.                                   *)
LEMMA FillFacts ==
  ASSUME NEW sketch \in Counters, NEW l \in Seq(Bucket)
  PROVE  LET r == Fill(sketch, l)
         IN /\ r \in TransVal /\ Stored(r) /\ r.init /\ r.sketch = sketch
            /\ Filled(r, l, Len(l))
<1> DEFINE N == Len(l)
           base == [New(TRUE) EXCEPT !.sketch = sketch]
           V == {k \in TransVal : Stored(k) /\ k.sketch = sketch /\ k.init}
           Put(m, k) == IF m + 1 \in 1..N THEN PutAt(k, l[m + 1].val, l[m + 1].cnt, m + 1) ELSE k
           step == [p \in Nat \X V |-> Put(p[1], p[2])]
           K == CHOOSE k : k = [i \in 0..N |->
                  IF i = 0 THEN base ELSE PutAt(k[i - 1], l[i].val, l[i].cnt, i)]
<1>1. Fill(sketch, l) = K[N]
  BY DEF Fill
<1>2. base \in V /\ base.mfvs = << >>
  <2>1. /\ New(TRUE) \in TransVal /\ Stored(New(TRUE)) /\ New(TRUE).init
        /\ New(TRUE).mfvs = << >>
    BY NewFacts
  <2>2. base \in TransVal
    BY <2>1 DEF TransVal
  <2>3. /\ base.mfvs = << >> /\ base.next_offset = New(TRUE).next_offset
        /\ base.space = New(TRUE).space /\ base.init /\ base.sketch = sketch
    BY <2>1 DEF TransVal
  <2> HIDE DEF base
  <2>4. Stored(base)
    BY <2>1, <2>3 DEF Stored
  <2> QED
    BY <2>2, <2>3, <2>4
<1>3. N \in Nat /\ \A j \in 1..N : l[j] \in Bucket /\ l[j].val \in Items /\ l[j].cnt \in Nat
  <2>1. N \in Nat /\ \A j \in 1..N : l[j] \in Bucket
    OBVIOUS
  <2> QED
    BY <2>1 DEF Bucket
<1> HIDE DEF base, N
<1>4. ASSUME NEW m \in Nat, NEW k \in V, m + 1 \in 1..N
      PROVE  LET r == PutAt(k, l[m + 1].val, l[m + 1].cnt, m + 1)
             IN /\ r \in V
                /\ Filled(k, l, m) => Filled(r, l, m + 1)
  <2> DEFINE i == m + 1
             x == l[i].val
             n == l[i].cnt
             r == PutAt(k, x, n, i)
  <2>1. x \in Items /\ n \in Nat /\ i \in Nat \ {0}
    BY <1>3, <1>4
  <2>2. k \in TransVal /\ Stored(k) /\ k.sketch = sketch /\ k.init
    OBVIOUS
  <2> HIDE DEF x, n, i, r
  <2>3. r \in TransVal /\ Stored(r) /\ Holds(r, k, x, n, i)
    BY <2>1, <2>2, PutAtFacts DEF r
  <2>4. r \in V
    BY <2>2, <2>3 DEF Holds
  <2>5. ASSUME Filled(k, l, m) PROVE Filled(r, l, i)
    <3>1. Len(k.mfvs) = m /\ i > m /\ i = m + 1
      BY <2>1, <2>5 DEF Filled, i
    <3>2. Len(r.mfvs) = i
      BY <2>3, <3>1 DEF Holds
    <3>3. ASSUME NEW j \in 1..i
          PROVE  r.mfvs[j].val = l[j].val /\ r.mfvs[j].cnt = l[j].cnt
      <4>1. CASE j = i
        BY <2>3, <3>2, <4>1 DEF Holds, x, n
      <4>2. CASE j # i
        <5>1. j \in 1..m /\ ~(j > m)
          BY <3>1, <4>2
        <5> QED
          BY <2>3, <2>5, <3>1, <3>2, <4>2, <5>1 DEF Holds, Filled
      <4> QED
        BY <4>1, <4>2
    <3> QED
      BY <3>2, <3>3 DEF Filled
  <2> QED
    BY <2>4, <2>5 DEF r, x, n, i
<1>5. step \in [Nat \X V -> V] /\ \A m \in Nat, k \in V : step[<<m, k>>] = Put(m, k)
  <2>1. \A m \in Nat, k \in V : Put(m, k) \in V
    BY <1>4
  <2> HIDE DEF Put, V
  <2>2. \A p \in Nat \X V : Put(p[1], p[2]) \in V
    BY <2>1
  <2>3. step \in [Nat \X V -> V]
    BY <2>2
  <2> QED
    BY <2>3
<1> HIDE DEF V, step
<1>6. PICK f : Iterates(f, V, base, step)
  BY <1>2, <1>5, NatRecursion
<1>7. /\ f[0] = base /\ \A m \in Nat : f[m] \in V
      /\ \A i \in 1..N : i - 1 \in Nat /\ f[i] = PutAt(f[i - 1], l[i].val, l[i].cnt, i)
  <2>1. f \in [Nat -> V] /\ \A i \in Nat : f[i] = IF i = 0 THEN base ELSE step[<<i - 1, f[i - 1]>>]
    BY <1>6 DEF Iterates
  <2>2. ASSUME NEW i \in 1..N
        PROVE  i - 1 \in Nat /\ f[i] = PutAt(f[i - 1], l[i].val, l[i].cnt, i)
    <3>1. i \in Nat /\ i # 0 /\ i - 1 \in Nat /\ (i - 1) + 1 = i
      BY <1>3
    <3>2. f[i] = step[<<i - 1, f[i - 1]>>] /\ f[i - 1] \in V
      BY <2>1, <3>1
    <3>3. f[i] = Put(i - 1, f[i - 1])
      BY <1>5, <3>1, <3>2
    <3> QED
      BY <3>1, <3>3
  <2> QED
    BY <2>1, <2>2
<1>8. K[N] = f[N]
  <2> DEFINE g == [i \in 0..N |-> f[i]]
  <2>1. g = [i \in 0..N |-> IF i = 0 THEN base ELSE PutAt(g[i - 1], l[i].val, l[i].cnt, i)]
    <3>1. ASSUME NEW i \in 0..N
          PROVE  f[i] = IF i = 0 THEN base ELSE PutAt(g[i - 1], l[i].val, l[i].cnt, i)
      <4>1. CASE i = 0
        BY <1>7, <4>1
      <4>2. CASE i # 0
        <5>1. i \in 1..N /\ i - 1 \in 0..N
          BY <1>3, <4>2
        <5>2. g[i - 1] = f[i - 1]
          BY <5>1
        <5> QED
          BY <1>7, <4>2, <5>1, <5>2
      <4> QED
        BY <4>1, <4>2
    <3> QED
      BY <3>1
  <2> DEFINE h == K
  <2>2. h = [i \in 0..N |-> IF i = 0 THEN base ELSE PutAt(h[i - 1], l[i].val, l[i].cnt, i)]
    <3> HIDE DEF g
    <3> QED
      BY <2>1
  <2> HIDE DEF h
  <2>3. \A i \in 0..N : h[i] = f[i]
    <3> DEFINE Bad == {i \in Nat : i \in 0..N /\ h[i] # f[i]}
    <3>1. SUFFICES ASSUME Bad # {} PROVE FALSE
      BY <1>3
    <3>2. Bad \in SUBSET Nat
      OBVIOUS
    <3> HIDE DEF Bad
    <3>3. PICK i \in Bad : \A j \in Bad : i <= j
      BY <3>1, <3>2, LeastNumber
    <3>4. i \in 0..N /\ h[i] # f[i] /\ i \in Nat
      BY <3>3 DEF Bad
    <3>5. i # 0
      BY <1>7, <2>2, <3>4
    <3>6. i \in 1..N /\ i - 1 \in 0..N /\ ~(i <= i - 1) /\ i - 1 \in Nat
      BY <1>3, <3>4, <3>5
    <3>7. h[i - 1] = f[i - 1]
      BY <3>3, <3>6 DEF Bad
    <3>8. h[i] = PutAt(h[i - 1], l[i].val, l[i].cnt, i)
      BY <2>2, <3>4, <3>5
    <3> QED
      BY <1>7, <3>4, <3>6, <3>7, <3>8
  <2> QED
    BY <1>3, <2>3 DEF h
<1>9. \A i \in 0..N : Filled(f[i], l, i)
  <2> DEFINE Bad == {i \in Nat : i \in 0..N /\ ~Filled(f[i], l, i)}
  <2>1. SUFFICES ASSUME Bad # {} PROVE FALSE
    BY <1>3
  <2>2. Bad \in SUBSET Nat
    OBVIOUS
  <2> HIDE DEF Bad
  <2>3. PICK i \in Bad : \A j \in Bad : i <= j
    BY <2>1, <2>2, LeastNumber
  <2>4. i \in 0..N /\ ~Filled(f[i], l, i) /\ i \in Nat
    BY <2>3 DEF Bad
  <2>5. i # 0
    BY <1>2, <1>7, <2>4 DEF Filled
  <2> DEFINE m == i - 1
  <2>6. i \in 1..N /\ m \in 0..N /\ ~(i <= m) /\ m \in Nat /\ i = m + 1
    BY <1>3, <2>4, <2>5
  <2> HIDE DEF m
  <2>7. Filled(f[m], l, m)
    BY <2>3, <2>6 DEF Bad
  <2>8. f[m] \in V /\ f[i] = PutAt(f[m], l[i].val, l[i].cnt, i)
    BY <1>7, <2>6 DEF m
  <2> QED
    BY <1>4, <2>4, <2>6, <2>7, <2>8
<1>10. f[N] \in V /\ Filled(f[N], l, N)
  BY <1>3, <1>7, <1>9
<1> QED
  BY <1>1, <1>8, <1>10 DEF V, N

-----------------------------------------------------------------------------
(* The sort and the merge.                                                 *)

\* The difference of two counts fits a C int.  (IntHalf is a power of two;
\* that it is a number at all is beyond the provers.)
IntHoldsCounts == IntHalf \in Nat /\ MaxRows < IntHalf

\* No count of list l is above m.
CountsUpTo(l, m) == \A i \in 1..Len(l) : l[i].cnt <= m

(* A remainder by a larger number is the number itself.                    *)
LEMMA ModSmall ==
  ASSUME NEW n \in Nat, NEW d \in Nat, d < n
  PROVE  d % n = d
OBVIOUS

(* A difference that fits is left as it is.                                *)
LEMMA CmpDescFacts ==
  ASSUME IntHoldsCounts, NEW e \in Bucket, NEW f \in Bucket,
         e.cnt <= MaxRows, f.cnt <= MaxRows
  PROVE  CmpDesc(e, f) = f.cnt - e.cnt
<1> DEFINE a == e.cnt
           b == f.cnt
           H == IntHalf
<1>1. a \in Nat /\ b \in Nat /\ a <= MaxRows /\ b <= MaxRows
  BY DEF Bucket
<1>2. H \in Nat /\ MaxRows < H /\ MaxRows \in Nat
  BY MFVAssumption DEF IntHoldsCounts
<1>3. CmpDesc(e, f) = (((b - a) + H) % (2 * H)) - H
  BY DEF CmpDesc, ToInt
<1> HIDE DEF a, b, H
<1>4. (b - a) + H \in Nat /\ (b - a) + H < 2 * H /\ 2 * H \in Nat
  BY <1>1, <1>2
<1>5. ((b - a) + H) % (2 * H) = (b - a) + H
  BY <1>4, ModSmall
<1> QED
  BY <1>1, <1>2, <1>3, <1>5 DEF a, b

(* A sorted list has the entries of the list, and is in descending order   *)
(* when their differences fit.                                             *)
LEMMA SortsFacts ==
  ASSUME NEW l \in Seq(Bucket), NEW h \in Sorts(l)
  PROVE  /\ h \in Seq(Bucket) /\ Len(h) = Len(l)
         /\ \A i \in 1..Len(h) : \E j \in 1..Len(l) : h[i] = l[j]
         /\ IntHoldsCounts /\ CountsUpTo(l, MaxRows) => Descends(h)
<1> DEFINE N == Len(l)
<1>1. N \in Nat /\ DOMAIN l = 1..N /\ \A i \in 1..N : l[i] \in Bucket
  OBVIOUS
<1>2. PICK o \in SetToSeqs(1..N) :
        /\ \A i \in 1..(N - 1) : CmpDesc(l[o[i]], l[o[i + 1]]) <= 0
        /\ h = [i \in 1..N |-> l[o[i]]]
  BY <1>1 DEF Sorts
<1>3. o \in [1..N -> 1..N]
  <2>1. Cardinality(1..N) = N
    <3> HIDE DEF N
    <3>1. Cardinality(1..N) = IF 1 > N THEN 0 ELSE N - 1 + 1
      BY <1>1, FS_Interval
    <3> QED
      BY <1>1, <3>1
  <2> QED
    BY <2>1 DEF SetToSeqs
<1> HIDE DEF N
<1>4. \A i \in 1..N : o[i] \in 1..N /\ h[i] = l[o[i]]
  BY <1>2, <1>3
<1>5. h \in Seq(Bucket) /\ Len(h) = N
  <2>1. h \in [1..N -> Bucket]
    BY <1>1, <1>2, <1>4
  <2> QED
    BY <1>1, <2>1
<1>6. ASSUME IntHoldsCounts, CountsUpTo(l, MaxRows)
      PROVE  Descends(h)
  <2> SUFFICES ASSUME NEW i \in 1..(Len(h) - 1) PROVE h[i].cnt >= h[i + 1].cnt
    BY DEF Descends
  <2>1. i \in 1..(N - 1) /\ i \in 1..N /\ i + 1 \in 1..N
    BY <1>1, <1>5
  <2> DEFINE e == l[o[i]]
             f == l[o[i + 1]]
  <2>2. e \in Bucket /\ f \in Bucket /\ h[i] = e /\ h[i + 1] = f
    BY <1>1, <1>4, <2>1
  <2>3. e.cnt <= MaxRows /\ f.cnt <= MaxRows
    BY <1>4, <1>6, <2>1 DEF CountsUpTo, N
  <2>4. CmpDesc(e, f) <= 0
    BY <1>2, <2>1
  <2> HIDE DEF e, f
  <2>5. f.cnt - e.cnt <= 0
    BY <1>6, <2>2, <2>3, <2>4, CmpDescFacts
  <2>6. e.cnt \in Nat /\ f.cnt \in Nat
    BY <2>2 DEF Bucket
  <2> QED
    BY <2>2, <2>5, <2>6
<1> QED
  BY <1>4, <1>5, <1>6 DEF N

\* The entries of list l carry their counts in the sketch.
Current(l, sketch) == \A i \in 1..Len(l) : l[i].cnt = Count(sketch, l[i].val)

(* The lists mfvsketch_merge_c sorts have the counts of the sum.           *)
LEMMA RecountFacts ==
  ASSUME Col \in Hashes, NEW l \in Seq(Bucket), NEW sketch \in Counters
  PROVE  Recount(l, sketch) \in Seq(Bucket) /\ Current(Recount(l, sketch), sketch)
<1> DEFINE N == Len(l)
           c == Recount(l, sketch)
           At(i) == [l[i] EXCEPT !.cnt = Count(sketch, l[i].val)]
<1>1. N \in Nat /\ DOMAIN l = 1..N /\ \A i \in 1..N : l[i] \in Bucket
  OBVIOUS
<1>2. c = [i \in 1..N |-> At(i)]
  BY <1>1 DEF Recount
<1>3. ASSUME NEW i \in 1..N
      PROVE  At(i) \in Bucket /\ At(i).val = l[i].val /\ At(i).cnt = Count(sketch, l[i].val)
  <2> DEFINE e == l[i]
             n == Count(sketch, e.val)
  <2>1. e \in Bucket /\ e.val \in Items
    BY <1>1 DEF Bucket
  <2>2. n \in Nat
    BY <2>1, CountFacts
  <2> HIDE DEF e, n
  <2>3. [e EXCEPT !.cnt = n] \in Bucket /\ [e EXCEPT !.cnt = n].val = e.val
        /\ [e EXCEPT !.cnt = n].cnt = n
    BY <2>1, <2>2 DEF Bucket
  <2> QED
    BY <2>3 DEF e, n
<1> HIDE DEF N, c, At
<1>4. c \in [1..N -> Bucket] /\ \A i \in 1..N : c[i] = At(i)
  BY <1>2, <1>3
<1>5. c \in Seq(Bucket) /\ Len(c) = N
  BY <1>1, <1>4 DEF N
<1>6. Current(c, sketch)
  BY <1>3, <1>4, <1>5 DEF Current
<1> QED
  BY <1>5, <1>6 DEF c

(* What a merge of two transition values makes: the sum of the sketches,   *)
(* and values of the two lists with their counts in the sum.               *)
LEMMA MergesFacts ==
  ASSUME Col \in Hashes, NEW k1 \in TransVal, NEW k2 \in TransVal, k1.init \/ k2.init,
         NEW m \in Merges(k1, k2)
  PROVE  LET sum == Sum2(k1.sketch, k2.sketch)
         IN /\ m \in TransVal /\ Stored(m) /\ m.init /\ m.sketch = sum
            /\ Current(m.mfvs, sum)
            /\ (IntHoldsCounts /\ \A x \in Items : Count(sum, x) <= MaxRows) => Descends(m.mfvs)
<1> DEFINE sum == Sum2(k1.sketch, k2.sketch)
           c1 == Recount(k1.mfvs, sum)
           c2 == Recount(k2.mfvs, sum)
<1>1. /\ k1.sketch \in Counters /\ k2.sketch \in Counters
      /\ k1.mfvs \in Seq(Bucket) /\ k2.mfvs \in Seq(Bucket)
  BY BucketFacts
<1>2. sum \in Counters
  BY <1>1, Sum2Facts
<1>3. PICK l1 \in Sorts(c1), l2 \in Sorts(c2) : m = Fill(sum, TopOf(l1, l2))
  <2>1. Merges(k1, k2) =
          IF ~k1.init /\ ~k2.init THEN {k1}
          ELSE {Fill(sum, TopOf(l1, l2)) : l1 \in Sorts(c1), l2 \in Sorts(c2)}
    BY DEF Merges
  <2> HIDE DEF sum, c1, c2
  <2> QED
    BY <2>1
<1> HIDE DEF sum
<1>4. /\ c1 \in Seq(Bucket) /\ Current(c1, sum)
      /\ c2 \in Seq(Bucket) /\ Current(c2, sum)
  BY <1>1, <1>2, RecountFacts
<1> HIDE DEF c1, c2
<1>5. /\ l1 \in Seq(Bucket) /\ l2 \in Seq(Bucket)
      /\ Len(l1) = Len(c1) /\ Len(l2) = Len(c2)
      /\ \A i \in 1..Len(l1) : \E j \in 1..Len(c1) : l1[i] = c1[j]
      /\ \A i \in 1..Len(l2) : \E j \in 1..Len(c2) : l2[i] = c2[j]
  BY <1>4, SortsFacts
<1>6. Current(l1, sum) /\ Current(l2, sum)
  BY <1>4, <1>5 DEF Current
<1> DEFINE t == TopOf(l1, l2)
<1>7. /\ t \in Seq(Bucket)
      /\ \A k \in 1..Len(t) : (\E i \in 1..Len(l1) : t[k] = l1[i])
                            \/ (\E i \in 1..Len(l2) : t[k] = l2[i])
      /\ Descends(l1) /\ Descends(l2) => Descends(t)
  BY <1>5, TopOfFacts
<1> HIDE DEF t
<1>8. Current(t, sum)
  BY <1>6, <1>7 DEF Current
<1>9. m \in TransVal /\ Stored(m) /\ m.init /\ m.sketch = sum /\ Filled(m, t, Len(t))
  BY <1>2, <1>3, <1>7, FillFacts DEF t
<1>10. /\ Len(m.mfvs) = Len(t)
       /\ \A i \in 1..Len(t) : m.mfvs[i].val = t[i].val /\ m.mfvs[i].cnt = t[i].cnt
  BY <1>9 DEF Filled
<1>11. Current(m.mfvs, sum)
  BY <1>8, <1>10 DEF Current
<1>12. ASSUME IntHoldsCounts, \A x \in Items : Count(sum, x) <= MaxRows
       PROVE  Descends(m.mfvs)
  <2>1. ASSUME NEW c \in Seq(Bucket), Current(c, sum) PROVE CountsUpTo(c, MaxRows)
    <3>1. \A i \in 1..Len(c) : c[i] \in Bucket
      OBVIOUS
    <3>2. \A i \in 1..Len(c) : c[i].val \in Items
      BY <3>1 DEF Bucket
    <3> QED
      BY <1>12, <2>1, <3>2 DEF CountsUpTo, Current
  <2>2. Descends(l1) /\ Descends(l2)
    BY <1>4, <1>12, <2>1, SortsFacts
  <2>3. Descends(t) /\ Len(t) \in Nat
    BY <1>7, <2>2
  <2> QED
    BY <1>10, <2>3 DEF Descends
<1> QED
  BY <1>9, <1>11, <1>12 DEF sum

-----------------------------------------------------------------------------
(* The counters and lists against the rows read.                           *)

\* No counter of a value is below its count, r; without collisions it is
\* the count.
Covers(sketch, r) == \A x \in Items, i \in Rows :
  /\ r[x] <= sketch[i][Col[x][i]]
  /\ Perfect => sketch[i][Col[x][i]] = r[x]

\* No counter is above n.
CellsUpTo(sketch, n) == \A i \in Rows, c \in Cols : sketch[i][c] <= n

\* Each listed count is at least that of the rows, and the same without
\* collisions.
Listed(l, r) == \A i \in 1..Len(l) :
  /\ r[l[i].val] <= l[i].cnt /\ 1 <= l[i].cnt
  /\ Perfect => l[i].cnt = r[l[i].val]

\* What is not in list l occurred no more often than what is.
Topmost(l, r) == \A x \in Items : (\A i \in 1..Len(l) : l[i].val # x) /\ r[x] > 0 =>
  Len(l) = max_mfvs /\ \A i \in 1..Len(l) : r[x] <= l[i].cnt

\* k is the transition value after rows with the counts r.
Keeps(k, r) ==
  /\ k \in TransVal /\ Stored(k) /\ Fresh(k) /\ r \in [Items -> Nat]
  /\ Covers(k.sketch, r) /\ CellsUpTo(k.sketch, SumOn(r, Items))
  /\ Len(k.mfvs) <= max_mfvs /\ EachOnce(k.mfvs)
  /\ Listed(k.mfvs, r) /\ CountsUpTo(k.mfvs, SumOn(r, Items))
  /\ Perfect => Topmost(k.mfvs, r)

(* Opening an empty transition value counts nothing.                       *)
LEMMA OpenedKeeps ==
  ASSUME NEW k, NEW r, Keeps(k, r)
  PROVE  Keeps(Opened(k), r)
<1>1. CASE k.init
  BY <1>1 DEF Opened
<1>2. CASE ~k.init
  <2> DEFINE o == New(TRUE)
  <2>1. Opened(k) = o /\ k = New(FALSE)
    BY <1>2 DEF Opened, Keeps, Fresh, Uninitialized
  <2>2. /\ o \in TransVal /\ Stored(o) /\ Fresh(o)
        /\ o.mfvs = New(FALSE).mfvs /\ o.sketch = New(FALSE).sketch
    BY NewFacts DEF Fresh
  <2> HIDE DEF o
  <2> QED
    BY <2>1, <2>2 DEF Keeps
<1> QED
  BY <1>1, <1>2

\* The counts r with one more row of value x.
Bumped(r, x) == [r EXCEPT ![x] = @ + 1]

(* One more row of x adds one to its count and to the total.               *)
LEMMA BumpedFacts ==
  ASSUME NEW r \in [Items -> Nat], NEW x \in Items
  PROVE  /\ Bumped(r, x) \in [Items -> Nat]
         /\ Bumped(r, x)[x] = r[x] + 1
         /\ \A y \in Items : y # x => Bumped(r, x)[y] = r[y]
         /\ \A y \in Items : r[y] \in Nat
         /\ SumOn(r, Items) \in Nat
         /\ SumOn(Bumped(r, x), Items) = SumOn(r, Items) + 1
<1> DEFINE b == Bumped(r, x)
<1>1. /\ b \in [Items -> Nat] /\ b[x] = r[x] + 1
      /\ \A y \in Items : y # x => b[y] = r[y]
  BY DEF Bumped
<1> HIDE DEF b
<1>2. IsFiniteSet(Items) /\ Counts(r, Items) /\ Counts(b, Items)
  BY <1>1, MFVAssumption DEF Counts
<1>3. Agree(b, r, Items \ {x})
  BY <1>1 DEF Agree
<1>4. SumOn(b, Items) = SumOn(r, Items) + b[x] - r[x]
  <2>1. \A f, e : Counts(f, Items) /\ Counts(e, Items) /\ Agree(e, f, Items \ {x})
          => SumOn(e, Items) = SumOn(f, Items) + e[x] - f[x]
    <3> SUFFICES ASSUME NEW f, NEW e, Counts(f, Items), Counts(e, Items), Agree(e, f, Items \ {x})
                 PROVE  SumOn(e, Items) = SumOn(f, Items) + e[x] - f[x]
      OBVIOUS
    <3>1. x \in Items
      OBVIOUS
    <3> QED
      BY <1>2, <3>1, SumChanged
  <2> QED
    BY <1>2, <1>3, <2>1, Zenon
<1>5. SumOn(r, Items) \in Nat
  BY <1>2, SumIsNat
<1>6. r[x] \in Nat
  OBVIOUS
<1> QED
  BY <1>1, <1>4, <1>5, <1>6 DEF b

(* The sketch of one more row.                                             *)
LEMMA IncrementKeeps ==
  ASSUME Col \in Hashes, NEW k \in Counters, NEW r \in [Items -> Nat], NEW x \in Items,
         Covers(k, r), CellsUpTo(k, SumOn(r, Items))
  PROVE  LET k2 == Increment(k, x)
             r2 == Bumped(r, x)
         IN /\ k2 \in Counters /\ Covers(k2, r2) /\ CellsUpTo(k2, SumOn(r2, Items))
            /\ r2[x] <= Count(k2, x) /\ Count(k2, x) <= SumOn(r2, Items)
            /\ Count(k2, x) \in Nat /\ 1 <= Count(k2, x)
            /\ Perfect => Count(k2, x) = r2[x]
<1> DEFINE k2 == Increment(k, x)
           r2 == Bumped(r, x)
           n == SumOn(r, Items)
<1>1. /\ k2 \in Counters
      /\ \A i \in Rows, c \in Cols :
           k2[i][c] = (IF c = Col[x][i] THEN k[i][c] + 1 ELSE k[i][c]) /\ k[i][c] \in Nat
      /\ \A y \in Items, i \in Rows : Col[y][i] \in Cols
  BY IncrementFacts
<1>2. /\ r2 \in [Items -> Nat] /\ r2[x] = r[x] + 1
      /\ \A y \in Items : y # x => r2[y] = r[y]
      /\ \A y \in Items : r[y] \in Nat
      /\ n \in Nat /\ SumOn(r2, Items) = n + 1
  BY BumpedFacts
<1> HIDE DEF k2, r2, n
<1>3. CellsUpTo(k2, n + 1)
  <2> SUFFICES ASSUME NEW i \in Rows, NEW c \in Cols PROVE k2[i][c] <= n + 1
    BY DEF CellsUpTo
  <2>1. k[i][c] <= n
    BY DEF CellsUpTo, n
  <2> QED
    BY <1>1, <1>2, <2>1
<1>4. Covers(k2, r2)
  <2> SUFFICES ASSUME NEW y \in Items, NEW i \in Rows
               PROVE  /\ r2[y] <= k2[i][Col[y][i]]
                      /\ Perfect => k2[i][Col[y][i]] = r2[y]
    BY DEF Covers
  <2> DEFINE c == Col[y][i]
  <2>1. /\ r[y] <= k[i][c] /\ (Perfect => k[i][c] = r[y])
    BY DEF Covers
  <2>2. c \in Cols /\ k[i][c] \in Nat /\ r[y] \in Nat
    BY <1>1, <1>2
  <2>3. k2[i][c] = IF c = Col[x][i] THEN k[i][c] + 1 ELSE k[i][c]
    BY <1>1, <2>2
  <2>4. CASE y = x
    BY <1>2, <2>1, <2>2, <2>3, <2>4
  <2>5. CASE y # x
    <3>1. Perfect => c # Col[x][i]
      BY <2>5 DEF Perfect
    <3> HIDE DEF c
    <3>2. r2[y] = r[y]
      BY <1>2, <2>5
    <3> QED
      BY <2>1, <2>2, <2>3, <3>1, <3>2 DEF c
  <2> QED
    BY <2>4, <2>5
<1>5. /\ Count(k2, x) \in Nat
      /\ \E i \in Rows : Count(k2, x) = k2[i][Col[x][i]]
  BY <1>1, CountFacts
<1>6. PICK i \in Rows : Count(k2, x) = k2[i][Col[x][i]]
  BY <1>5
<1>7. /\ r2[x] <= Count(k2, x) /\ Count(k2, x) <= n + 1
      /\ Perfect => Count(k2, x) = r2[x]
  BY <1>1, <1>3, <1>4, <1>6 DEF Covers, CellsUpTo
<1>8. 1 <= r2[x] /\ r2[x] \in Nat
  BY <1>2
<1> QED
  BY <1>1, <1>2, <1>3, <1>4, <1>5, <1>7, <1>8 DEF k2, r2, n

\* The list of r is that of k with x at position i, counted n times; x had
\* no other place.
Places(r, k, x, n, i) ==
  /\ Holds(r, k, x, n, i) /\ i \in 1..Len(r.mfvs) /\ i <= Len(k.mfvs) + 1
  /\ \A j \in 1..Len(k.mfvs) : j # i => k.mfvs[j].val # x

(* A row whose value takes a place: the list is still one of distinct      *)
(* values with counts that cover their rows.                               *)
LEMMA PlacesKeeps ==
  ASSUME NEW k \in TransVal, NEW r \in TransVal, NEW c \in [Items -> Nat],
         NEW x \in Items, NEW n \in Nat, NEW i \in Nat, Places(r, k, x, n, i),
         EachOnce(k.mfvs), Listed(k.mfvs, c), CountsUpTo(k.mfvs, SumOn(c, Items)),
         c[x] + 1 <= n, n <= SumOn(c, Items) + 1, Perfect => n = c[x] + 1
  PROVE  /\ EachOnce(r.mfvs) /\ Listed(r.mfvs, Bumped(c, x))
         /\ CountsUpTo(r.mfvs, SumOn(Bumped(c, x), Items))
<1> DEFINE c2 == Bumped(c, x)
           N == SumOn(c, Items)
           l == k.mfvs
           m == r.mfvs
<1>1. /\ c2 \in [Items -> Nat] /\ c2[x] = c[x] + 1
      /\ \A y \in Items : y # x => c2[y] = c[y]
      /\ \A y \in Items : c[y] \in Nat
      /\ N \in Nat /\ SumOn(c2, Items) = N + 1
  BY BumpedFacts
<1>2. /\ DOMAIN l = 1..Len(l) /\ Len(l) \in Nat /\ DOMAIN m = 1..Len(m) /\ Len(m) \in Nat
      /\ \A j \in 1..Len(l) : l[j].val \in Items /\ l[j].cnt \in Nat
  BY BucketFacts
<1>3. /\ \A j \in 1..Len(m) :
           \/ j = i /\ m[j].val = x /\ m[j].cnt = n
           \/ /\ j # i /\ j \in 1..Len(l) /\ l[j].val # x
              /\ m[j].val = l[j].val /\ m[j].cnt = l[j].cnt
  <2> SUFFICES ASSUME NEW j \in 1..Len(m)
               PROVE  \/ j = i /\ m[j].val = x /\ m[j].cnt = n
                      \/ /\ j # i /\ j \in 1..Len(l) /\ l[j].val # x
                         /\ m[j].val = l[j].val /\ m[j].cnt = l[j].cnt
    OBVIOUS
  <2>1. Len(m) = IF i > Len(l) THEN Len(l) + 1 ELSE Len(l)
    BY DEF Places, Holds
  <2>2. i \in 1..Len(m) /\ i <= Len(l) + 1
    BY DEF Places
  <2>3. CASE j = i
    BY <2>3 DEF Places, Holds
  <2>4. CASE j # i
    <3>1. j \in 1..Len(l) /\ ~(j > Len(l))
      BY <1>2, <2>1, <2>2, <2>4
    <3> QED
      BY <2>4, <3>1 DEF Places, Holds
  <2> QED
    BY <2>3, <2>4
<1> HIDE DEF c2, N, l, m
<1>4. EachOnce(m)
  <2> SUFFICES ASSUME NEW p \in 1..Len(m), NEW q \in 1..Len(m), m[p].val = m[q].val
               PROVE  p = q
    BY <1>2 DEF EachOnce
  <2>1. CASE p = i
    BY <1>3, <2>1
  <2>2. CASE p # i
    <3>1. q # i
      BY <1>3, <2>2
    <3>2. /\ p \in 1..Len(l) /\ q \in 1..Len(l) /\ l[p].val = l[q].val
      BY <1>3, <2>2, <3>1
    <3> QED
      BY <1>2, <3>2 DEF EachOnce, l
  <2> QED
    BY <2>1, <2>2
<1>5. Listed(m, c2)
  <2> SUFFICES ASSUME NEW j \in 1..Len(m)
               PROVE  /\ c2[m[j].val] <= m[j].cnt /\ 1 <= m[j].cnt
                      /\ Perfect => m[j].cnt = c2[m[j].val]
    BY DEF Listed
  <2>1. CASE j = i
    <3>1. m[j].val = x /\ m[j].cnt = n
      BY <1>3, <2>1
    <3>2. c[x] \in Nat
      BY <1>1
    <3> QED
      BY <1>1, <3>1, <3>2
  <2>2. CASE j # i
    <3>1. /\ j \in 1..Len(l) /\ l[j].val # x /\ l[j].val \in Items
          /\ m[j].val = l[j].val /\ m[j].cnt = l[j].cnt
      BY <1>2, <1>3, <2>2
    <3>2. /\ c[l[j].val] <= l[j].cnt /\ 1 <= l[j].cnt
          /\ Perfect => l[j].cnt = c[l[j].val]
      BY <3>1 DEF Listed, l
    <3>3. c2[l[j].val] = c[l[j].val]
      BY <1>1, <3>1
    <3> QED
      BY <3>1, <3>2, <3>3
  <2> QED
    BY <2>1, <2>2
<1>6. CountsUpTo(m, N + 1)
  <2> SUFFICES ASSUME NEW j \in 1..Len(m) PROVE m[j].cnt <= N + 1
    BY DEF CountsUpTo
  <2>1. CASE j = i
    BY <1>3, <2>1 DEF N
  <2>2. CASE j # i
    <3>1. j \in 1..Len(l) /\ m[j].cnt = l[j].cnt /\ l[j].cnt \in Nat
      BY <1>2, <1>3, <2>2
    <3>2. l[j].cnt <= N
      BY <3>1 DEF CountsUpTo, l, N
    <3> QED
      BY <1>1, <3>1, <3>2
  <2> QED
    BY <2>1, <2>2
<1> QED
  BY <1>1, <1>4, <1>5, <1>6 DEF m, c2, N

(* Without collisions, whatever the row does to the list, no value is left *)
(* out that occurred more often than one in it.                            *)
LEMMA TopmostKeeps ==
  ASSUME Perfect, NEW k \in TransVal, NEW r \in TransVal, NEW c \in [Items -> Nat],
         NEW x \in Items, NEW n, n = c[x] + 1,
         Len(k.mfvs) <= max_mfvs, Listed(k.mfvs, c), Topmost(k.mfvs, c),
         \/ Updated(r, k, x, n)
         \/ Unlisted(k, x) /\ Evicts(r, k, x, n)
         \/ Unlisted(k, x) /\ Appends(r, k, x, n)
         \/ Unlisted(k, x) /\ NoneBeaten(k, n) /\ LeftOut(r, k, x, n)
  PROVE  Topmost(r.mfvs, Bumped(c, x))
<1> DEFINE c2 == Bumped(c, x)
           l == k.mfvs
           m == r.mfvs
           Out(s, y) == \A i \in 1..Len(s) : s[i].val # y
<1>1. /\ c2 \in [Items -> Nat] /\ c2[x] = c[x] + 1
      /\ \A y \in Items : y # x => c2[y] = c[y]
      /\ \A y \in Items : c[y] \in Nat
  BY BumpedFacts
<1>2. /\ Len(l) \in Nat /\ Len(m) \in Nat /\ max_mfvs \in Nat
      /\ \A j \in 1..Len(l) : l[j].val \in Items /\ l[j].cnt \in Nat /\ 1 <= l[j].cnt
                             /\ l[j].cnt = c[l[j].val]
  BY BucketFacts, MFVAssumption DEF Listed
<1>3. \A y \in Items : Out(l, y) /\ c[y] > 0 =>
        Len(l) = max_mfvs /\ \A i \in 1..Len(l) : c[y] <= l[i].cnt
  BY DEF Topmost
<1> HIDE DEF c2, l, m
<1>4. ASSUME NEW y \in Items, Out(m, y), c2[y] > 0
      PROVE  Len(m) = max_mfvs /\ \A i \in 1..Len(m) : c2[y] <= m[i].cnt
  <2>1. CASE Updated(r, k, x, n)
    <3>1. PICK i \in 1..Len(l) : l[i].val = x /\ Holds(r, k, x, n, i)
      BY <2>1 DEF Updated, l
    <3>2. /\ Len(m) = Len(l) /\ m[i].val = x /\ m[i].cnt = n
          /\ \A j \in 1..Len(l) : j # i => m[j].val = l[j].val /\ m[j].cnt = l[j].cnt
      <4>1. ~(i > Len(l)) /\ \A j \in 1..Len(l) : ~(j > Len(l))
        BY <1>2
      <4> QED
        BY <3>1, <4>1 DEF Holds, l, m
    <3>3. y # x
      BY <1>4, <3>2
    <3>4. c2[y] = c[y] /\ c[y] \in Nat /\ c[y] > 0
      BY <1>1, <1>4, <3>3
    <3>5. Out(l, y)
      BY <1>4, <3>1, <3>2, <3>3
    <3>6. Len(l) = max_mfvs /\ \A j \in 1..Len(l) : c[y] <= l[j].cnt
      BY <1>3, <3>4, <3>5
    <3>7. c[y] <= n
      <4>1. c[y] <= c[x] /\ c[x] \in Nat
        BY <1>1, <1>2, <3>1, <3>6
      <4> QED
        BY <3>4, <4>1
    <3> QED
      BY <3>2, <3>4, <3>6, <3>7
  <2>2. CASE Unlisted(k, x) /\ Evicts(r, k, x, n)
    <3>1. PICK i \in 1..Len(l) : l[i].cnt < n /\ Holds(r, k, x, n, i)
      BY <2>2 DEF Evicts, l
    <3>2. /\ Len(m) = Len(l) /\ m[i].val = x /\ m[i].cnt = n
          /\ \A j \in 1..Len(l) : j # i => m[j].val = l[j].val /\ m[j].cnt = l[j].cnt
      <4>1. ~(i > Len(l)) /\ \A j \in 1..Len(l) : ~(j > Len(l))
        BY <1>2
      <4> QED
        BY <3>1, <4>1 DEF Holds, l, m
    <3>3. y # x
      BY <1>4, <3>2
    <3>4. c2[y] = c[y] /\ c[y] \in Nat /\ c[y] > 0 /\ c[x] \in Nat
      BY <1>1, <1>4, <3>3
    <3>5. l[i].cnt \in Nat /\ 1 <= l[i].cnt /\ l[i].cnt < c[x] + 1
      BY <1>2, <3>1
    <3>6. c[x] > 0
      BY <3>4, <3>5
    <3>7. Out(l, x)
      BY <2>2 DEF Unlisted, l
    <3>8. Len(l) = max_mfvs /\ \A j \in 1..Len(l) : c[x] <= l[j].cnt
      BY <1>3, <3>6, <3>7
    <3>9. l[i].cnt = c[x]
      BY <3>4, <3>5, <3>8
    <3>10. \A j \in 1..Len(l) : c[y] <= l[j].cnt
      <4>1. CASE l[i].val = y
        BY <1>2, <3>8, <3>9, <4>1
      <4>2. CASE l[i].val # y
        <5>1. Out(l, y)
          BY <1>4, <3>2, <4>2
        <5> QED
          BY <1>3, <3>4, <5>1
      <4> QED
        BY <4>1, <4>2
    <3>11. c[y] <= n
      BY <3>4, <3>5, <3>9, <3>10
    <3> QED
      BY <3>2, <3>4, <3>8, <3>10, <3>11
  <2>3. CASE Unlisted(k, x) /\ Appends(r, k, x, n)
    <3> DEFINE i == Len(l) + 1
    <3>1. Len(l) < max_mfvs /\ Holds(r, k, x, n, i)
      BY <2>3 DEF Appends, l
    <3>2. /\ Len(m) = i /\ i \in 1..Len(m) /\ m[i].val = x
          /\ \A j \in 1..Len(l) : j \in 1..Len(m) /\ m[j].val = l[j].val
      <4>1. i > Len(l) /\ \A j \in 1..Len(l) : j # i /\ ~(j > Len(l)) /\ j \in 1..i
        BY <1>2
      <4>2. Len(m) = i /\ i \in 1..i
        BY <1>2, <3>1, <4>1 DEF Holds, l, m
      <4> HIDE DEF i
      <4> QED
        BY <3>1, <4>1, <4>2 DEF Holds, l, m
    <3> HIDE DEF i
    <3>3. y # x
      BY <1>4, <3>2
    <3>4. c2[y] = c[y] /\ c[y] > 0
      BY <1>1, <1>4, <3>3
    <3>5. Out(l, y)
      BY <1>4, <3>2
    <3>6. Len(l) = max_mfvs
      BY <1>3, <3>4, <3>5
    <3> QED
      BY <1>2, <3>1, <3>6
  <2>4. CASE Unlisted(k, x) /\ NoneBeaten(k, n) /\ LeftOut(r, k, x, n)
    <3>1. m = l /\ Len(l) >= max_mfvs /\ \A i \in 1..Len(l) : l[i].cnt >= n
      BY <2>4 DEF LeftOut, NoneBeaten, l, m
    <3>2. Len(l) = max_mfvs
      BY <1>2, <3>1 DEF l
    <3>3. CASE y = x
      BY <1>1, <3>1, <3>2, <3>3
    <3>4. CASE y # x
      BY <1>1, <1>3, <1>4, <3>1, <3>2, <3>4
    <3> QED
      BY <3>3, <3>4
  <2> QED
    BY <2>1, <2>2, <2>3, <2>4
<1> QED
  BY <1>4 DEF Topmost, m, c2

(* One row of a segment.                                                   *)
LEMMA RowKeeps ==
  ASSUME Col \in Hashes, NEW k0, NEW c, Keeps(k0, c), NEW x \in Items
  PROVE  Keeps(Trans(k0, x), Bumped(c, x))
<1> DEFINE k == Opened(k0)
           sketch == Increment(k.sketch, x)
           o == [k EXCEPT !.sketch = sketch]
           n == Count(sketch, x)
           r == Trans(k0, x)
           c2 == Bumped(c, x)
           N == SumOn(c, Items)
<1>1. /\ k0 \in TransVal /\ Stored(k0) /\ Fresh(k0) /\ c \in [Items -> Nat]
  BY DEF Keeps
<1>2. Keeps(k, c)
  BY OpenedKeeps
<1>3. k \in TransVal /\ k.sketch \in Counters
  BY <1>2, BucketFacts DEF Keeps
<1>4. o.sketch = sketch
  BY <1>3 DEF TransVal
<1>5. /\ r \in TransVal /\ Stored(r) /\ r.init /\ n \in Nat /\ r.sketch = sketch
      /\ o \in TransVal /\ o.mfvs = k.mfvs
      /\ \/ Updated(r, o, x, n)
         \/ Unlisted(o, x) /\ Evicts(r, o, x, n)
         \/ Unlisted(o, x) /\ NoneBeaten(o, n) /\ Appends(r, o, x, n)
         \/ Unlisted(o, x) /\ NoneBeaten(o, n) /\ LeftOut(r, o, x, n)
  BY <1>1, <1>4, TransFacts
<1>6. Covers(k.sketch, c) /\ CellsUpTo(k.sketch, N)
  BY <1>2 DEF Keeps
<1>7. /\ Covers(sketch, c2) /\ CellsUpTo(sketch, SumOn(c2, Items))
      /\ c2[x] <= n /\ n <= SumOn(c2, Items) /\ 1 <= n
      /\ Perfect => n = c2[x]
  BY <1>1, <1>3, <1>6, IncrementKeeps
<1>8. /\ c2 \in [Items -> Nat] /\ c2[x] = c[x] + 1 /\ c[x] \in Nat
      /\ \A y \in Items : y # x => c2[y] = c[y]
      /\ N \in Nat /\ SumOn(c2, Items) = N + 1
  BY <1>1, BumpedFacts
<1> HIDE DEF c2, n, o, sketch, r, k
<1>9. /\ Len(o.mfvs) <= max_mfvs /\ EachOnce(o.mfvs) /\ Listed(o.mfvs, c)
      /\ CountsUpTo(o.mfvs, N) /\ (Perfect => Topmost(o.mfvs, c))
  BY <1>2, <1>5 DEF Keeps
<1>10. c[x] + 1 <= n /\ n <= N + 1 /\ (Perfect => n = c[x] + 1)
  BY <1>7, <1>8
<1>11. /\ DOMAIN o.mfvs = 1..Len(o.mfvs) /\ Len(o.mfvs) \in Nat
       /\ \A i \in 1..Len(o.mfvs) : o.mfvs[i].val \in Items /\ o.mfvs[i].cnt \in Nat
  BY <1>5, BucketFacts
<1>12. Perfect => Topmost(r.mfvs, c2)
  <2> SUFFICES ASSUME Perfect PROVE Topmost(r.mfvs, c2)
    OBVIOUS
  <2>1. n = c[x] + 1
    BY <1>10
  <2> QED
    BY <1>1, <1>5, <1>9, <2>1, TopmostKeeps DEF c2
<1>13. ASSUME NEW i \in Nat, Places(r, o, x, n, i)
       PROVE  /\ EachOnce(r.mfvs) /\ Listed(r.mfvs, c2)
              /\ CountsUpTo(r.mfvs, SumOn(c2, Items))
  <2> HIDE DEF N
  <2>1. CountsUpTo(o.mfvs, SumOn(c, Items)) /\ n <= SumOn(c, Items) + 1
    BY <1>9, <1>10 DEF N
  <2> QED
    BY <1>1, <1>5, <1>9, <1>10, <1>13, <2>1, PlacesKeeps DEF c2
<1>14. /\ Len(r.mfvs) <= max_mfvs /\ EachOnce(r.mfvs) /\ Listed(r.mfvs, c2)
       /\ CountsUpTo(r.mfvs, SumOn(c2, Items))
  <2>1. CASE Updated(r, o, x, n)
    <3>1. PICK i \in 1..Len(o.mfvs) : o.mfvs[i].val = x /\ Holds(r, o, x, n, i)
      BY <2>1 DEF Updated
    <3>2. i \in Nat /\ ~(i > Len(o.mfvs)) /\ i <= Len(o.mfvs) + 1
      BY <1>11
    <3>3. Len(r.mfvs) = Len(o.mfvs)
      BY <3>1, <3>2 DEF Holds
    <3>4. \A j \in 1..Len(o.mfvs) : j # i => o.mfvs[j].val # x
      BY <1>9, <1>11, <3>1 DEF EachOnce
    <3>5. Places(r, o, x, n, i)
      BY <3>1, <3>2, <3>3, <3>4 DEF Places
    <3> QED
      BY <1>9, <1>13, <3>2, <3>3, <3>5
  <2>2. CASE Unlisted(o, x) /\ Evicts(r, o, x, n)
    <3>1. PICK i \in 1..Len(o.mfvs) : Holds(r, o, x, n, i)
      BY <2>2 DEF Evicts
    <3>2. i \in Nat /\ ~(i > Len(o.mfvs)) /\ i <= Len(o.mfvs) + 1
      BY <1>11
    <3>3. Len(r.mfvs) = Len(o.mfvs)
      BY <3>1, <3>2 DEF Holds
    <3>4. Places(r, o, x, n, i)
      BY <2>2, <3>1, <3>2, <3>3 DEF Places, Unlisted
    <3> QED
      BY <1>9, <1>13, <3>2, <3>3, <3>4
  <2>3. CASE Unlisted(o, x) /\ Appends(r, o, x, n)
    <3> DEFINE i == Len(o.mfvs) + 1
    <3>1. Len(o.mfvs) < max_mfvs /\ Holds(r, o, x, n, i)
      BY <2>3 DEF Appends
    <3>2. i \in Nat /\ i > Len(o.mfvs) /\ i <= Len(o.mfvs) + 1
      BY <1>11
    <3>3. Len(r.mfvs) = i
      BY <3>1, <3>2 DEF Holds
    <3>4. Places(r, o, x, n, i)
      <4>1. i \in 1..Len(r.mfvs)
        BY <1>11, <3>3
      <4> HIDE DEF i
      <4> QED
        BY <2>3, <3>1, <3>2, <4>1 DEF Places, Unlisted
    <3>5. i <= max_mfvs
      BY <1>11, <3>1, MFVAssumption
    <3> HIDE DEF i
    <3> QED
      BY <1>13, <3>2, <3>3, <3>4, <3>5
  <2>4. CASE Unlisted(o, x) /\ NoneBeaten(o, n) /\ LeftOut(r, o, x, n)
    <3>1. r = o /\ \A i \in 1..Len(o.mfvs) : o.mfvs[i].val # x
      BY <2>4 DEF LeftOut, Unlisted
    <3>2. Listed(o.mfvs, c2)
      BY <1>8, <1>9, <1>11, <3>1 DEF Listed
    <3>3. CountsUpTo(o.mfvs, N + 1)
      <4> HIDE DEF N
      <4>1. ASSUME NEW i \in 1..Len(o.mfvs) PROVE o.mfvs[i].cnt <= N + 1
        <5>1. o.mfvs[i].cnt <= N /\ o.mfvs[i].cnt \in Nat
          BY <1>9, <1>11 DEF CountsUpTo
        <5> QED
          BY <1>8, <5>1
      <4> QED
        BY <4>1 DEF CountsUpTo
    <3> QED
      BY <1>8, <1>9, <3>1, <3>2, <3>3
  <2> QED
    BY <1>5, <2>1, <2>2, <2>3, <2>4
<1>15. Covers(r.sketch, c2) /\ CellsUpTo(r.sketch, SumOn(c2, Items))
  BY <1>5, <1>7
<1>16. Fresh(r)
  BY <1>5 DEF Fresh
<1>17. Keeps(r, c2)
  BY <1>5, <1>8, <1>12, <1>14, <1>15, <1>16 DEF Keeps
<1> QED
  BY <1>17 DEF r, c2

-----------------------------------------------------------------------------
(* The inductive invariant.                                                *)

\* How often each segment has read x; how many rows it has read.
Reads(rw, x) == [s \in Segments |-> rw[s][x]]
Totals(rw) == [s \in Segments |-> SumOn(rw[s], Items)]

\* k is the merge of the segments in set M.
Gathered(k, rw, M) ==
  /\ k \in TransVal /\ Stored(k) /\ Fresh(k)
  /\ \A x \in Items, i \in Rows : SumOn(Reads(rw, x), M) <= k.sketch[i][Col[x][i]]
  /\ CellsUpTo(k.sketch, SumOn(Totals(rw), M))
  /\ Current(k.mfvs, k.sketch)
  /\ IntHoldsCounts => Descends(k.mfvs)

Inv ==
  /\ Col \in Hashes /\ merged \in SUBSET Segments
  /\ part \in [Segments -> TransVal]
  /\ rows \in [Segments -> [Items -> Nat]]
  /\ \A s \in Segments : Keeps(part[s], rows[s])
  /\ Gathered(acc, rows, merged)
  /\ SumOn(Totals(rows), Segments) <= MaxRows

(* The sums are of natural numbers over finite sets.                       *)
LEMMA SumsFacts ==
  ASSUME NEW rw \in [Segments -> [Items -> Nat]]
  PROVE  /\ IsFiniteSet(Segments) /\ IsFiniteSet(Items)
         /\ \A s \in Segments : /\ Counts(rw[s], Items)
                                /\ Totals(rw)[s] = SumOn(rw[s], Items)
                                /\ Totals(rw)[s] \in Nat
         /\ \A s \in Segments, x \in Items : Reads(rw, x)[s] = rw[s][x] /\ rw[s][x] \in Nat
         /\ Counts(Totals(rw), Segments)
         /\ \A x \in Items : Counts(Reads(rw, x), Segments)
         /\ \A M \in SUBSET Segments :
              /\ SumOn(Totals(rw), M) \in Nat
              /\ SumOn(Totals(rw), M) <= SumOn(Totals(rw), Segments)
              /\ SumOn(Totals(rw), Segments) \in Nat
              /\ \A x \in Items : SumOn(Reads(rw, x), M) \in Nat
<1>1. IsFiniteSet(Segments) /\ IsFiniteSet(Items)
  BY MFVAssumption
<1>2. \A s \in Segments, x \in Items : Reads(rw, x)[s] = rw[s][x] /\ rw[s][x] \in Nat
  BY DEF Reads
<1>3. \A x \in Items : Counts(Reads(rw, x), Segments)
  BY <1>2 DEF Counts
<1>4. \A s \in Segments : Counts(rw[s], Items)
  BY <1>2 DEF Counts
<1>5. \A s \in Segments : SumOn(rw[s], Items) \in Nat
  BY <1>1, <1>4, SumIsNat
<1>6. \A s \in Segments : Totals(rw)[s] = SumOn(rw[s], Items) /\ Totals(rw)[s] \in Nat
  BY <1>5 DEF Totals
<1>7. Counts(Totals(rw), Segments)
  BY <1>6 DEF Counts
<1>8. ASSUME NEW f, Counts(f, Segments), NEW M \in SUBSET Segments
      PROVE  SumOn(f, M) \in Nat /\ SumOn(f, M) <= SumOn(f, Segments)
  <2>1. IsFiniteSet(M) /\ Counts(f, M)
    BY <1>1, <1>8, FS_Subset DEF Counts
  <2> QED
    BY <1>1, <1>8, <2>1, SumIsNat, SumOfPart
<1>9. SumOn(Totals(rw), Segments) \in Nat
  BY <1>7, <1>8
<1> QED
  BY <1>1, <1>2, <1>3, <1>4, <1>6, <1>7, <1>8, <1>9

(* No row read, nothing merged.                                            *)
LEMMA InitInv ==
  ASSUME Init
  PROVE  Inv
<1> DEFINE z == [x \in Items |-> 0]
           u == Uninitialized
<1>1. /\ Col \in Hashes /\ part = [s \in Segments |-> u]
      /\ rows = [s \in Segments |-> z] /\ acc = u /\ merged = {}
  BY DEF Init
<1>2. z \in [Items -> Nat] /\ rows \in [Segments -> [Items -> Nat]]
  BY <1>1
<1>3. \A x \in Items : z[x] = 0
  OBVIOUS
<1>4. /\ u \in TransVal /\ Stored(u) /\ Fresh(u) /\ u.mfvs = << >> /\ u.sketch = Blank
      /\ Len(u.mfvs) = 0
  BY NewFacts DEF Uninitialized, Fresh
<1>5. \A x \in Items, i \in Rows : Col[x][i] \in Cols
  BY <1>1, CountMinAssumption
<1>6. \A x \in Items, i \in Rows : Blank[i][Col[x][i]] = 0
  BY <1>5, BlankFacts
<1> HIDE DEF u, z
<1>7. SumOn(z, Items) = 0
  BY <1>3, SumOfZeros, MFVAssumption
<1>8. ASSUME NEW n \in Nat PROVE CellsUpTo(Blank, n)
  BY BlankFacts DEF CellsUpTo
<1>9. Keeps(u, z)
  <2>1. Covers(u.sketch, z)
    BY <1>3, <1>4, <1>6 DEF Covers
  <2>2. CellsUpTo(u.sketch, SumOn(z, Items))
    BY <1>4, <1>7, <1>8
  <2>3. /\ EachOnce(u.mfvs) /\ Listed(u.mfvs, z) /\ CountsUpTo(u.mfvs, SumOn(z, Items))
        /\ Len(u.mfvs) <= max_mfvs
    BY <1>4, MFVAssumption DEF EachOnce, Listed, CountsUpTo
  <2>4. Topmost(u.mfvs, z)
    BY <1>3 DEF Topmost
  <2> QED
    BY <1>2, <1>4, <2>1, <2>2, <2>3, <2>4 DEF Keeps
<1>10. \A s \in Segments : Keeps(part[s], rows[s])
  BY <1>1, <1>9
<1>11. Gathered(u, rows, {})
  <2>1. \A x \in Items : SumOn(Reads(rows, x), {}) = 0
    BY SumOfNone
  <2>2. SumOn(Totals(rows), {}) = 0
    BY SumOfNone
  <2>3. CellsUpTo(u.sketch, SumOn(Totals(rows), {}))
    BY <1>4, <1>8, <2>2
  <2>4. Current(u.mfvs, u.sketch) /\ Descends(u.mfvs)
    BY <1>4 DEF Current, Descends
  <2> QED
    BY <1>4, <1>6, <2>1, <2>3, <2>4 DEF Gathered
<1>12. SumOn(Totals(rows), Segments) <= MaxRows
  <2>1. IsFiniteSet(Segments) /\ \A s \in Segments : Totals(rows)[s] = 0
    BY <1>1, <1>2, <1>7, SumsFacts
  <2> QED
    BY <2>1, SumOfZeros, MFVAssumption
<1>13. part \in [Segments -> TransVal]
  BY <1>1, <1>4
<1> QED
  BY <1>1, <1>2, <1>10, <1>11, <1>12, <1>13 DEF Inv

(* A row of a segment that is not yet merged.                              *)
LEMMA RowInv ==
  ASSUME Inv, NEW s \in Segments, NEW x \in Items, Row(s, x)
  PROVE  Inv'
<1>1. /\ Col \in Hashes /\ merged \in SUBSET Segments
      /\ part \in [Segments -> TransVal] /\ rows \in [Segments -> [Items -> Nat]]
      /\ \A t \in Segments : Keeps(part[t], rows[t])
      /\ Gathered(acc, rows, merged) /\ SumOn(Totals(rows), Segments) <= MaxRows
  BY DEF Inv
<1> DEFINE rw == rows'
<1>2. /\ s \notin merged /\ TotalRows < MaxRows
      /\ part' = [part EXCEPT ![s] = Trans(part[s], x)]
      /\ rw = [rows EXCEPT ![s][x] = @ + 1]
      /\ Col' = Col /\ acc' = acc /\ merged' = merged
  BY DEF Row
<1> HIDE DEF rw
<1>3. rw[s] = Bumped(rows[s], x) /\ \A t \in Segments : t # s => rw[t] = rows[t]
  BY <1>1, <1>2 DEF Bumped
<1>4. /\ rows[s] \in [Items -> Nat] /\ Bumped(rows[s], x) \in [Items -> Nat]
      /\ SumOn(Bumped(rows[s], x), Items) = SumOn(rows[s], Items) + 1
      /\ SumOn(rows[s], Items) \in Nat
  BY <1>1, BumpedFacts
<1>5. rw \in [Segments -> [Items -> Nat]]
  BY <1>1, <1>2, <1>3, <1>4
<1>6. Keeps(Trans(part[s], x), Bumped(rows[s], x))
  BY <1>1, RowKeeps
<1>7. part' \in [Segments -> TransVal]
  BY <1>1, <1>2, <1>6 DEF Keeps
<1>8. \A t \in Segments : Keeps(part'[t], rw[t])
  BY <1>1, <1>2, <1>3, <1>6
<1>9. SumOn(Totals(rw), Segments) <= MaxRows
  <2> DEFINE f == Totals(rows)
             e == Totals(rw)
  <2>1. IsFiniteSet(Segments) /\ Counts(f, Segments) /\ Counts(e, Segments)
    BY <1>1, <1>5, SumsFacts
  <2>2. \A t \in Segments : f[t] = SumOn(rows[t], Items) /\ e[t] = SumOn(rw[t], Items)
    BY <1>1, <1>5, SumsFacts
  <2>3. TotalRows = SumOn(f, Segments)
    BY DEF TotalRows, SumOver, SumOn, Totals
  <2>4. SumOn(f, Segments) \in Nat
    BY <2>1, SumIsNat
  <2> HIDE DEF f, e
  <2>5. Agree(e, f, Segments \ {s})
    BY <1>3, <2>2 DEF Agree
  <2>6. SumOn(e, Segments) = SumOn(f, Segments) + e[s] - f[s]
    <3>1. \A g, h : Counts(g, Segments) /\ Counts(h, Segments) /\ Agree(h, g, Segments \ {s})
            => SumOn(h, Segments) = SumOn(g, Segments) + h[s] - g[s]
      <4> SUFFICES ASSUME NEW g, NEW h, Counts(g, Segments), Counts(h, Segments),
                          Agree(h, g, Segments \ {s})
                   PROVE  SumOn(h, Segments) = SumOn(g, Segments) + h[s] - g[s]
        OBVIOUS
      <4>1. s \in Segments
        OBVIOUS
      <4> QED
        BY <2>1, <4>1, SumChanged
    <3> QED
      BY <2>1, <2>5, <3>1, Zenon
  <2>7. e[s] = f[s] + 1 /\ f[s] \in Nat
    BY <1>3, <1>4, <2>2
  <2>8. MaxRows \in Nat
    BY MFVAssumption
  <2> QED
    BY <1>2, <2>3, <2>4, <2>6, <2>7, <2>8 DEF e
<1>10. Gathered(acc, rw, merged)
  <2>1. ASSUME NEW f, NEW e, Counts(f, Segments), Counts(e, Segments),
               \A t \in Segments : t # s => e[t] = f[t]
        PROVE  SumOn(e, merged) = SumOn(f, merged)
    <3>1. IsFiniteSet(merged) /\ Counts(f, merged) /\ Agree(e, f, merged)
      BY <1>1, <1>2, <2>1, FS_Subset, MFVAssumption DEF Counts, Agree
    <3> QED
      BY <3>1, SumSame
  <2>2. \A y \in Items : SumOn(Reads(rw, y), merged) = SumOn(Reads(rows, y), merged)
    <3> SUFFICES ASSUME NEW y \in Items
                 PROVE  SumOn(Reads(rw, y), merged) = SumOn(Reads(rows, y), merged)
      OBVIOUS
    <3>1. Counts(Reads(rw, y), Segments) /\ Counts(Reads(rows, y), Segments)
      BY <1>1, <1>5, SumsFacts
    <3>2. \A t \in Segments : t # s => Reads(rw, y)[t] = Reads(rows, y)[t]
      BY <1>1, <1>3, <1>5, SumsFacts
    <3> QED
      BY <2>1, <3>1, <3>2
  <2>3. SumOn(Totals(rw), merged) = SumOn(Totals(rows), merged)
    <3>1. Counts(Totals(rw), Segments) /\ Counts(Totals(rows), Segments)
      BY <1>1, <1>5, SumsFacts
    <3>2. \A t \in Segments : t # s => Totals(rw)[t] = Totals(rows)[t]
      BY <1>1, <1>3, <1>5, SumsFacts
    <3> QED
      BY <2>1, <3>1, <3>2
  <2> QED
    BY <1>1, <2>2, <2>3 DEF Gathered
<1>11. /\ Col' \in Hashes /\ merged' \in SUBSET Segments
       /\ part' \in [Segments -> TransVal]
       /\ rows' \in [Segments -> [Items -> Nat]]
  BY <1>1, <1>2, <1>5, <1>7 DEF rw
<1>12. \A t \in Segments : Keeps(part[t], rows[t])'
  BY <1>2, <1>8 DEF rw, Keeps, Covers, Listed, Perfect
<1>13. Gathered(acc, rows, merged)'
  BY <1>2, <1>10 DEF rw, Gathered, Current, Count, Cells
<1>14. (SumOn(Totals(rows), Segments) <= MaxRows)'
  BY <1>9 DEF rw
<1> QED
  BY <1>11, <1>12, <1>13, <1>14 DEF Inv

(* A segment that has not counted anything has read no row.                *)
LEMMA NothingRead ==
  ASSUME Col \in Hashes, NEW k, NEW r, Keeps(k, r), ~k.init
  PROVE  \A x \in Items : r[x] = 0
<1> SUFFICES ASSUME NEW x \in Items PROVE r[x] = 0
  OBVIOUS
<1>1. k = New(FALSE) /\ k.sketch = Blank
  BY NewFacts DEF Keeps, Fresh, Uninitialized
<1>2. PICK i \in Rows : TRUE
  BY CountMinAssumption
<1>3. Col[x][i] \in Cols
  BY CountMinAssumption
<1>4. r[x] <= Blank[i][Col[x][i]] /\ Blank[i][Col[x][i]] = 0
  BY <1>1, <1>3, BlankFacts DEF Keeps, Covers
<1>5. r[x] \in Nat
  BY DEF Keeps
<1> QED
  BY <1>4, <1>5

(* A segment merged into the master.                                       *)
LEMMA GatherInv ==
  ASSUME Inv, NEW s \in Segments, Gather(s)
  PROVE  Inv'
<1>1. /\ Col \in Hashes /\ merged \in SUBSET Segments
      /\ part \in [Segments -> TransVal] /\ rows \in [Segments -> [Items -> Nat]]
      /\ \A t \in Segments : Keeps(part[t], rows[t])
      /\ Gathered(acc, rows, merged) /\ SumOn(Totals(rows), Segments) <= MaxRows
  BY DEF Inv
<1> DEFINE k == part[s]
           M == merged \cup {s}
           m == acc'
<1>2. /\ s \notin merged /\ m \in Merges(acc, k) /\ merged' = M
      /\ Col' = Col /\ part' = part /\ rows' = rows
  BY DEF Gather
<1>3. Keeps(k, rows[s]) /\ k \in TransVal /\ Fresh(k) /\ Stored(k)
  BY <1>1 DEF Keeps
<1>4. /\ M \in SUBSET Segments
      /\ SumOn(Totals(rows), M) = Totals(rows)[s] + SumOn(Totals(rows), merged)
      /\ \A x \in Items : SumOn(Reads(rows, x), M) = rows[s][x] + SumOn(Reads(rows, x), merged)
  <2>1. M \in SUBSET Segments /\ IsFiniteSet(Segments)
    BY <1>1, MFVAssumption
  <2>2. ASSUME NEW f, Counts(f, Segments)
        PROVE  SumOn(f, M) = f[s] + SumOn(f, merged)
    BY <1>1, <1>2, <2>1, <2>2, SumAdd
  <2> HIDE DEF M
  <2>3. Counts(Totals(rows), Segments) /\ \A x \in Items : Counts(Reads(rows, x), Segments)
    BY <1>1, SumsFacts
  <2>4. \A x \in Items : Reads(rows, x)[s] = rows[s][x]
    BY <1>1, SumsFacts
  <2> QED
    BY <2>1, <2>2, <2>3, <2>4
<1>5. /\ \A x \in Items : rows[s][x] \in Nat /\ SumOn(Reads(rows, x), merged) \in Nat
      /\ Totals(rows)[s] = SumOn(rows[s], Items) /\ Totals(rows)[s] \in Nat
      /\ SumOn(Totals(rows), merged) \in Nat
      /\ SumOn(Totals(rows), Segments) \in Nat
  BY <1>1, SumsFacts
<1>6. SumOn(Totals(rows), M) <= MaxRows /\ SumOn(Totals(rows), M) \in Nat /\ MaxRows \in Nat
  <2>1. /\ SumOn(Totals(rows), M) <= SumOn(Totals(rows), Segments)
        /\ SumOn(Totals(rows), M) \in Nat
    BY <1>1, <1>4, SumsFacts
  <2> QED
    BY <1>1, <1>5, <2>1, MFVAssumption
<1> HIDE DEF k, M, m
<1>7. /\ acc \in TransVal /\ Stored(acc) /\ Fresh(acc)
      /\ \A x \in Items, i \in Rows : SumOn(Reads(rows, x), merged) <= acc.sketch[i][Col[x][i]]
      /\ CellsUpTo(acc.sketch, SumOn(Totals(rows), merged))
      /\ Current(acc.mfvs, acc.sketch) /\ (IntHoldsCounts => Descends(acc.mfvs))
  BY <1>1 DEF Gathered
<1>8. Gathered(m, rows, M)
  <2>1. CASE ~acc.init /\ ~k.init
    <3>1. m = acc
      BY <1>2, <2>1 DEF Merges
    <3>2. \A x \in Items : rows[s][x] = 0
      BY <1>1, <1>3, <2>1, NothingRead
    <3>3. \A x \in Items : SumOn(Reads(rows, x), M) = SumOn(Reads(rows, x), merged)
      BY <1>4, <1>5, <3>2
    <3>4. SumOn(Totals(rows), M) = SumOn(Totals(rows), merged)
      <4>1. SumOn(rows[s], Items) = 0
        BY <3>2, SumOfZeros, MFVAssumption
      <4> QED
        BY <1>4, <1>5, <4>1
    <3> QED
      BY <1>7, <3>1, <3>3, <3>4 DEF Gathered
  <2>2. CASE acc.init \/ k.init
    <3> DEFINE sum == Sum2(acc.sketch, k.sketch)
    <3>1. acc.sketch \in Counters /\ k.sketch \in Counters
      BY <1>3, <1>7, BucketFacts
    <3>2. /\ sum \in Counters
          /\ \A i \in Rows, c \in Cols :
               /\ sum[i][c] = acc.sketch[i][c] + k.sketch[i][c]
               /\ acc.sketch[i][c] \in Nat /\ k.sketch[i][c] \in Nat
      BY <3>1, Sum2Facts
    <3>3. /\ m \in TransVal /\ Stored(m) /\ m.init /\ m.sketch = sum
          /\ Current(m.mfvs, sum)
          /\ (IntHoldsCounts /\ \A x \in Items : Count(sum, x) <= MaxRows) => Descends(m.mfvs)
      BY <1>1, <1>2, <1>3, <1>7, <2>2, MergesFacts
    <3> HIDE DEF sum
    <3>4. \A x \in Items, i \in Rows : SumOn(Reads(rows, x), M) <= sum[i][Col[x][i]]
      <4> SUFFICES ASSUME NEW x \in Items, NEW i \in Rows
                   PROVE  SumOn(Reads(rows, x), M) <= sum[i][Col[x][i]]
        OBVIOUS
      <4>1. Col[x][i] \in Cols
        BY <1>1, CountMinAssumption
      <4>2. /\ SumOn(Reads(rows, x), merged) <= acc.sketch[i][Col[x][i]]
            /\ rows[s][x] <= k.sketch[i][Col[x][i]]
        BY <1>3, <1>7 DEF Keeps, Covers
      <4> DEFINE c == Col[x][i]
      <4> HIDE DEF c
      <4>3. sum[i][c] = acc.sketch[i][c] + k.sketch[i][c]
            /\ acc.sketch[i][c] \in Nat /\ k.sketch[i][c] \in Nat
        BY <3>2, <4>1 DEF c
      <4> QED
        BY <1>4, <1>5, <4>2, <4>3 DEF c
    <3>5. CellsUpTo(sum, SumOn(Totals(rows), M))
      <4> SUFFICES ASSUME NEW i \in Rows, NEW c \in Cols
                   PROVE  sum[i][c] <= SumOn(Totals(rows), M)
        BY DEF CellsUpTo
      <4>1. /\ acc.sketch[i][c] <= SumOn(Totals(rows), merged)
            /\ k.sketch[i][c] <= Totals(rows)[s]
        BY <1>3, <1>5, <1>7 DEF Keeps, CellsUpTo
      <4> QED
        BY <1>4, <1>5, <3>2, <4>1
    <3>6. \A x \in Items : Count(sum, x) <= MaxRows
      <4> SUFFICES ASSUME NEW x \in Items PROVE Count(sum, x) <= MaxRows
        OBVIOUS
      <4>1. PICK i \in Rows : Count(sum, x) = sum[i][Col[x][i]]
        BY <1>1, <3>2, CountFacts
      <4>2. Col[x][i] \in Cols
        BY <1>1, CountMinAssumption
      <4>3. Count(sum, x) <= SumOn(Totals(rows), M)
        BY <3>5, <4>1, <4>2 DEF CellsUpTo
      <4>4. Count(sum, x) \in Nat
        BY <1>1, <3>2, CountFacts
      <4> QED
        BY <1>6, <4>3, <4>4
    <3> QED
      BY <3>3, <3>4, <3>5, <3>6 DEF Gathered, Fresh
  <2> QED
    BY <2>1, <2>2
<1>9. /\ Col' \in Hashes /\ merged' \in SUBSET Segments
      /\ part' \in [Segments -> TransVal]
      /\ rows' \in [Segments -> [Items -> Nat]]
  BY <1>1, <1>2, <1>4
<1>10. \A t \in Segments : Keeps(part[t], rows[t])'
  <2>1. Col' = Col /\ part' = part /\ rows' = rows
    BY <1>2
  <2> QED
    BY <2>1 DEF Inv, Keeps, Covers, Listed, Perfect
<1>11. Gathered(acc, rows, merged)'
  BY <1>2, <1>8 DEF m, Gathered, Current, Count, Cells
<1>12. (SumOn(Totals(rows), Segments) <= MaxRows)'
  BY <1>1, <1>2
<1> QED
  BY <1>9, <1>10, <1>11, <1>12 DEF Inv

(* Every step preserves the invariant.                                     *)
LEMMA NextInv ==
  ASSUME Inv, [Next]_vars
  PROVE  Inv'
<1>1. CASE Next
  BY <1>1, RowInv, GatherInv DEF Next
<1>2. CASE UNCHANGED vars
  <2>1. Col' = Col /\ part' = part /\ rows' = rows /\ acc' = acc /\ merged' = merged
    BY <1>2 DEF vars
  <2>2. \A t \in Segments : Keeps(part[t], rows[t])'
    BY <2>1 DEF Inv, Keeps, Covers, Listed, Perfect
  <2>3. Gathered(acc, rows, merged)'
    BY <2>1 DEF Inv, Gathered, Current, Count, Cells
  <2> QED
    BY <2>1, <2>2, <2>3 DEF Inv
<1> QED
  BY <1>1, <1>2

(* The invariant holds in every run of the aggregates.                     *)
THEOREM Invariant == Spec => []Inv
<1>1. Init => Inv
  BY InitInv
<1>2. Inv /\ [Next]_vars => Inv'
  BY NextInv
<1> QED
  BY <1>1, <1>2, PTL DEF Spec

(* mfvsketch_top_histogram's promise, for any table: in one pass, without  *)
(* collisions, the list holds exact counts and nothing left out occurred   *)
(* more often, although only the current row's value is ever considered.   *)
THEOREM MostFrequentListed == Spec => []ListsMostFrequent
<1>1. Inv => ListsMostFrequent
  <2> SUFFICES ASSUME Inv, Perfect, NEW s \in Segments
               PROVE  LET l == part[s].mfvs
                          listed == {l[i].val : i \in DOMAIN l}
                      IN /\ \A i \in DOMAIN l : l[i].cnt = rows[s][l[i].val]
                         /\ \A x \in Items \ listed :
                              rows[s][x] > 0 => /\ Len(l) = max_mfvs
                                                /\ \A i \in DOMAIN l : rows[s][x] <= l[i].cnt
    BY DEF ListsMostFrequent
  <2> DEFINE l == part[s].mfvs
             listed == {l[i].val : i \in DOMAIN l}
  <2>1. Keeps(part[s], rows[s])
    BY DEF Inv
  <2>2. DOMAIN l = 1..Len(l)
    BY <2>1, BucketFacts DEF Keeps
  <2>3. Listed(l, rows[s]) /\ Topmost(l, rows[s])
    BY <2>1 DEF Keeps
  <2> HIDE DEF l
  <2>4. \A i \in DOMAIN l : l[i].cnt = rows[s][l[i].val]
    BY <2>2, <2>3 DEF Listed
  <2>5. ASSUME NEW x \in Items \ listed, rows[s][x] > 0
        PROVE  Len(l) = max_mfvs /\ \A i \in DOMAIN l : rows[s][x] <= l[i].cnt
    <3>1. \A i \in 1..Len(l) : l[i].val # x
      BY <2>2
    <3> QED
      BY <2>2, <2>3, <2>5, <3>1 DEF Topmost
  <2> QED
    BY <2>4, <2>5 DEF l
<1> QED
  BY <1>1, Invariant, PTL

(* With collisions, whatever they are: distinct values, and no count below *)
(* the rows a segment has read or the merged segments have read together.  *)
THEOREM CountsCoverRows == Spec => []CountsAreNotLow
<1>1. Inv => CountsAreNotLow
  <2> SUFFICES ASSUME Inv PROVE CountsAreNotLow
    OBVIOUS
  <2>1. ASSUME NEW s \in Segments
        PROVE  /\ EachOnce(part[s].mfvs)
               /\ \A i \in DOMAIN part[s].mfvs :
                    part[s].mfvs[i].cnt >= rows[s][part[s].mfvs[i].val]
    <3>1. Keeps(part[s], rows[s]) /\ part[s] \in TransVal
      BY DEF Inv, Keeps
    <3> DEFINE l == part[s].mfvs
    <3>2. /\ DOMAIN l = 1..Len(l)
          /\ \A i \in DOMAIN l : l[i].val \in Items /\ l[i].cnt \in Nat
      BY <3>1, BucketFacts
    <3>3. EachOnce(l) /\ Listed(l, rows[s]) /\ rows[s] \in [Items -> Nat]
      BY <3>1 DEF Keeps
    <3> HIDE DEF l
    <3>4. \A i \in DOMAIN l : l[i].cnt >= rows[s][l[i].val]
      BY <3>2, <3>3 DEF Listed
    <3> QED
      BY <3>3, <3>4 DEF l
  <2>2. ASSUME NEW i \in DOMAIN acc.mfvs
        PROVE  acc.mfvs[i].cnt >=
                 SumOver([s \in Segments |-> rows[s][acc.mfvs[i].val]], merged)
    <3> DEFINE x == acc.mfvs[i].val
    <3>1. Gathered(acc, rows, merged) /\ Col \in Hashes /\ merged \in SUBSET Segments
          /\ rows \in [Segments -> [Items -> Nat]]
      BY DEF Inv
    <3>2. acc \in TransVal /\ Current(acc.mfvs, acc.sketch)
      BY <3>1 DEF Gathered
    <3>3. /\ i \in 1..Len(acc.mfvs) /\ x \in Items /\ acc.sketch \in Counters
      BY <3>2, BucketFacts
    <3> HIDE DEF x
    <3>4. acc.mfvs[i].cnt = Count(acc.sketch, x)
      BY <3>2, <3>3 DEF Current, x
    <3>5. PICK j \in Rows : Count(acc.sketch, x) = acc.sketch[j][Col[x][j]]
      BY <3>1, <3>3, CountFacts
    <3>6. SumOn(Reads(rows, x), merged) <= acc.sketch[j][Col[x][j]]
      BY <3>1, <3>3 DEF Gathered
    <3>7. SumOn(Reads(rows, x), merged) = SumOver([s \in Segments |-> rows[s][x]], merged)
      BY DEF SumOn, SumOver, Reads
    <3>8. Count(acc.sketch, x) \in Nat /\ SumOn(Reads(rows, x), merged) \in Nat
      BY <3>1, <3>3, CountFacts, SumsFacts
    <3>9. acc.mfvs[i].cnt >= SumOn(Reads(rows, x), merged)
      BY <3>4, <3>5, <3>6, <3>8
    <3> QED
      BY <3>7, <3>9 DEF x
  <2> QED
    BY <2>1, <2>2 DEF CountsAreNotLow
<1> QED
  BY <1>1, Invariant, PTL

(* Replacing in place, appending and growing never let a listed value run  *)
(* into another or over the end of the transition value.                   *)
THEOREM NoValueOverruns == Spec => []StorageIsDisjoint
<1>1. Inv => StorageIsDisjoint
  <2> SUFFICES ASSUME Inv PROVE StorageIsDisjoint
    OBVIOUS
  <2>1. \A s \in Segments : Stored(part[s])
    BY DEF Inv, Keeps
  <2>2. acc \in TransVal /\ Stored(acc)
    BY DEF Inv, Gathered
  <2>3. TypeOK
    BY <2>2 DEF Inv, TypeOK
  <2>4. \A k \in {part[s] : s \in Segments} \cup {acc} : Stored(k)
    BY <2>1, <2>2
  <2> QED
    BY <2>3, <2>4 DEF StorageIsDisjoint, Stored, End
<1> QED
  BY <1>1, Invariant, PTL

(* While a C int holds the difference of any two counts, a merged list has *)
(* the counts of the summed sketch, best first, so the next sort-merge may *)
(* rely on it.                                                             *)
THEOREM MergedListsAreSorted ==
  IntHoldsCounts => (Spec => []MergedCountsAreCurrent)
<1> SUFFICES ASSUME IntHoldsCounts PROVE Spec => []MergedCountsAreCurrent
  OBVIOUS
<1>1. Inv => MergedCountsAreCurrent
  <2> SUFFICES ASSUME Inv PROVE MergedCountsAreCurrent
    OBVIOUS
  <2>1. acc \in TransVal /\ Current(acc.mfvs, acc.sketch) /\ Descends(acc.mfvs)
    BY DEF Inv, Gathered
  <2>2. DOMAIN acc.mfvs = 1..Len(acc.mfvs)
    BY <2>1, BucketFacts
  <2> QED
    BY <2>1, <2>2 DEF MergedCountsAreCurrent, Current, Descends
<1> QED
  BY <1>1, Invariant, PTL
=============================================================================
