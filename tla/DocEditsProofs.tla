---------------------------- MODULE DocEditsProofs -----------------------------
(* Proofs about an edited document: binary search finds every name and value *)
(* through edits, repackages and round trips.  First the stores: a table     *)
(* stays sorted when a string enters it, runs end where a run must, and      *)
(* every walk of the tree stays in the arena.                                *)
EXTENDS DocEdits, ListsProofs

-----------------------------------------------------------------------------
(* Tables                                                                    *)

\* The keys, as the permutation lists them.
Listing(sorted, keys) == [i \in 1..Len(sorted) |-> keys[sorted[i]]]

\* sorted lists every key once, from the smallest on.
Sorts(sorted, keys) ==
  /\ keys \in Seq(Nat) /\ sorted \in Seq(1..Len(keys))
  /\ Rises(Listing(sorted, keys))
  /\ \A id \in 1..Len(keys) : \E r \in 1..Len(sorted) : sorted[r] = id

LEMMA ListingRises ==
  ASSUME NEW sorted, NEW keys, Sorts(sorted, keys)
  PROVE  /\ Listing(sorted, keys) \in Seq(Nat) /\ Len(Listing(sorted, keys)) = Len(sorted)
         /\ Len(sorted) \in Nat /\ Len(keys) \in Nat
         /\ \A r \in 1..Len(sorted) : /\ sorted[r] \in 1..Len(keys)
                                      /\ Listing(sorted, keys)[r] = keys[sorted[r]]
         /\ \A r, q \in 1..Len(sorted) : r < q => keys[sorted[r]] < keys[sorted[q]]
<1>1. keys \in Seq(Nat) /\ sorted \in Seq(1..Len(keys))
  BY DEF Sorts
<1>2. \A r \in 1..Len(sorted) : sorted[r] \in 1..Len(keys) /\ keys[sorted[r]] \in Nat
  BY <1>1
<1>3. Listing(sorted, keys) \in Seq(Nat) /\ Len(Listing(sorted, keys)) = Len(sorted)
  BY <1>1, <1>2 DEF Listing
<1>4. \A r \in 1..Len(sorted) : Listing(sorted, keys)[r] = keys[sorted[r]]
  BY DEF Listing
<1>5. \A r, q \in 1..Len(sorted) : r < q => keys[sorted[r]] < keys[sorted[q]]
  BY <1>3, <1>4 DEF Sorts, Rises
<1> QED
  BY <1>1, <1>2, <1>3, <1>4, <1>5

\* Two strings of a table differ.
LEMMA SortsDiffer ==
  ASSUME NEW sorted, NEW keys, Sorts(sorted, keys), NEW i \in 1..Len(keys), NEW j \in 1..Len(keys),
         keys[i] = keys[j]
  PROVE  i = j
<1>1. PICK r \in 1..Len(sorted) : sorted[r] = i
  BY DEF Sorts
<1>2. PICK q \in 1..Len(sorted) : sorted[q] = j
  BY DEF Sorts
<1>3. /\ r < q => keys[i] < keys[j]
      /\ q < r => keys[j] < keys[i]
  BY <1>1, <1>2, ListingRises
<1>4. keys[i] \in Nat /\ r \in Nat /\ q \in Nat
  <2>1. keys \in Seq(Nat)
    BY DEF Sorts
  <2> QED
    BY <2>1
<1>5. ~(r < q) /\ ~(q < r)
  <2> DEFINE k == keys[i]
  <2>1. k \in Nat /\ (r < q => k < k) /\ (q < r => k < k)
    BY <1>3, <1>4
  <2> HIDE DEF k
  <2> QED
    BY <2>1
<1> QED
  BY <1>1, <1>2, <1>4, <1>5

\* What a search in a table says of k.
LEMMA SortsHit ==
  ASSUME NEW sorted, NEW keys, Sorts(sorted, keys), NEW k \in Nat,
         NEW at, at = Bisect(Listing(sorted, keys), k)
  PROVE  /\ at \in 1..(Len(sorted) + 1)
         /\ \A r \in 1..Len(sorted) : r < at => keys[sorted[r]] < k
         /\ \A r \in 1..Len(sorted) : r >= at => keys[sorted[r]] >= k
<1> DEFINE l == Listing(sorted, keys)
           n == Len(sorted)
<1>1. l \in Seq(Nat) /\ Len(l) = n /\ n \in Nat /\ Rises(l)
  BY ListingRises DEF Sorts
<1>2. \A r \in 1..n : sorted[r] \in 1..Len(keys) /\ l[r] = keys[sorted[r]] /\ l[r] \in Nat
  BY <1>1, ListingRises
<1> HIDE DEF l
<1>3. Splits(l, k, 1, n + 1, Bisect(l, k))
  BY <1>1, BisectSplits
<1>4. at = Bisect(l, k)
  BY DEF l
<1>5. /\ at \in 1..(n + 1) /\ (n + 1) - 1 = n
      /\ \A r \in 1..n : (r < at => l[r] < k) /\ (r >= at => l[r] >= k)
  BY <1>1, <1>3, <1>4 DEF Splits
<1> QED
  BY <1>2, <1>5 DEF l

\* What a search finds has the key it was for.
LEMMA SortsTrue ==
  ASSUME NEW sorted, NEW keys, Sorts(sorted, keys), NEW k \in Nat,
         NEW at, at = Bisect(Listing(sorted, keys), k), Hit(Listing(sorted, keys), k)
  PROVE  at \in 1..Len(sorted) /\ sorted[at] \in 1..Len(keys) /\ keys[sorted[at]] = k
<1> DEFINE l == Listing(sorted, keys)
           n == Len(sorted)
<1>1. l \in Seq(Nat) /\ Len(l) = n /\ n \in Nat /\ Rises(l)
  BY ListingRises DEF Sorts
<1>2. \A r \in 1..n : sorted[r] \in 1..Len(keys) /\ l[r] = keys[sorted[r]] /\ l[r] \in Nat
  BY <1>1, ListingRises
<1> HIDE DEF l
<1>3. Splits(l, k, 1, n + 1, Bisect(l, k))
  BY <1>1, BisectSplits
<1>4. at = Bisect(l, k)
  BY DEF l
<1>5. /\ at \in 1..(n + 1) /\ (n + 1) - 1 = n
      /\ \A r \in 1..n : (r < at => l[r] < k) /\ (r >= at => l[r] >= k)
  BY <1>1, <1>3, <1>4 DEF Splits
<1>6. Hit(l, k) <=> at <= n /\ l[at] = k
  BY <1>1, <1>4 DEF Hit
<1>7. Hit(l, k) => at \in 1..n /\ sorted[at] \in 1..Len(keys) /\ keys[sorted[at]] = k
  BY <1>1, <1>2, <1>5, <1>6
<1> QED
  BY <1>7 DEF l

\* A search for the key of an id finds that id.
LEMMA SortsFinds ==
  ASSUME NEW sorted, NEW keys, Sorts(sorted, keys), NEW k \in Nat,
         NEW at, at = Bisect(Listing(sorted, keys), k),
         NEW id \in 1..Len(keys), keys[id] = k
  PROVE  Hit(Listing(sorted, keys), k) /\ sorted[at] = id
<1> DEFINE l == Listing(sorted, keys)
           n == Len(sorted)
<1>1. l \in Seq(Nat) /\ Len(l) = n /\ n \in Nat /\ Rises(l)
  BY ListingRises DEF Sorts
<1>2. \A r \in 1..n : sorted[r] \in 1..Len(keys) /\ l[r] = keys[sorted[r]] /\ l[r] \in Nat
  BY <1>1, ListingRises
<1> HIDE DEF l
<1>3. Splits(l, k, 1, n + 1, Bisect(l, k))
  BY <1>1, BisectSplits
<1>4. at = Bisect(l, k)
  BY DEF l
<1>5. /\ at \in 1..(n + 1) /\ (n + 1) - 1 = n
      /\ \A r \in 1..n : (r < at => l[r] < k) /\ (r >= at => l[r] >= k)
  BY <1>1, <1>3, <1>4 DEF Splits
<1>6. Hit(l, k) <=> at <= n /\ l[at] = k
  BY <1>1, <1>4 DEF Hit
<1>7. Hit(l, k) /\ sorted[at] = id
  <2>1. PICK r \in 1..n : sorted[r] = id
    BY DEF Sorts
  <2>2. l[r] = k
    BY <1>2, <2>1
  <2>3. ~(r < at)
    BY <1>5, <2>2
  <2>4. at \in 1..n /\ at <= n /\ at <= r
    BY <1>1, <1>5, <2>3
  <2>5. at < r => l[at] < l[r]
    BY <1>1, <2>4 DEF Rises
  <2>6. l[at] >= k /\ l[at] \in Nat
    BY <1>2, <1>5, <2>4
  <2>7. at = r
    BY <2>2, <2>4, <2>5, <2>6
  <2> QED
    BY <1>6, <2>1, <2>2, <2>4, <2>7
<1> QED
  BY <1>7 DEF l

\* z is s with e put in at its position at: what stands behind is shifted.
Shifted(z, s, at, e, S) ==
  /\ z \in Seq(S) /\ Len(z) = Len(s) + 1
  /\ \A r \in 1..(Len(s) + 1) : z[r] = IF r < at THEN s[r] ELSE IF r = at THEN e ELSE s[r - 1]

LEMMA Inserted ==
  ASSUME NEW S, NEW s \in Seq(S), NEW at \in 1..(Len(s) + 1), NEW e \in S
  PROVE  Shifted(InsertAt(s, at, e), s, at, e, S)
<1> DEFINE n == Len(s)
           x == SubSeq(s, 1, at - 1)
           y == SubSeq(s, at, n)
           xe == x \o <<e>>
           z == xe \o y
<1>1. n \in Nat /\ at \in Nat /\ \A i \in 1..n : s[i] \in S
  OBVIOUS
<1>2. x \in Seq(S) /\ Len(x) = at - 1 /\ \A i \in 1..(at - 1) : x[i] = s[i]
  <2>1. \A i \in 1..(at - 1) : s[i] \in S
    BY <1>1
  <2>2. 1 \in Int /\ at - 1 \in Int /\ (IF 1 <= at - 1 THEN (at - 1) - 1 + 1 ELSE 0) = at - 1
    BY <1>1
  <2> DEFINE m == at - 1
  <2>3. m \in Int /\ m - 1 + 1 = m /\ \A i \in 1..m : 1 + i - 1 = i
    BY <1>1
  <2> HIDE DEF m
  <2>4. SubSeq(s, 1, m) \in Seq(S) /\ Len(SubSeq(s, 1, m)) = IF 1 <= m THEN m - 1 + 1 ELSE 0
    BY <2>1, <2>3, SubSeqProperties DEF m
  <2>5. \A i \in 1..m : SubSeq(s, 1, m)[i] = s[i]
    BY <2>1, <2>3, SubSeqProperties DEF m
  <2> QED
    BY <2>2, <2>4, <2>5 DEF m
<1>3. y \in Seq(S) /\ Len(y) = n - at + 1 /\ \A i \in 1..(n - at + 1) : y[i] = s[at + i - 1]
  <2>1. \A i \in at..n : s[i] \in S
    BY <1>1
  <2>2. at \in Int /\ n \in Int /\ (IF at <= n THEN n - at + 1 ELSE 0) = n - at + 1
    BY <1>1
  <2> HIDE DEF n
  <2> QED
    BY <2>1, <2>2, SubSeqProperties
<1>4. <<e>> \in Seq(S) /\ Len(<<e>>) = 1 /\ <<e>>[1] = e
  OBVIOUS
<1> HIDE DEF x, y
<1>5. xe \in Seq(S) /\ Len(xe) = at /\ xe[at] = e /\ \A i \in 1..(at - 1) : xe[i] = s[i]
  <2>1. xe \in Seq(S)
    BY <1>2, <1>4, ConcatProperties
  <2>2. Len(xe) = Len(x) + 1
    BY <1>2, <1>4, ConcatProperties
  <2>3. \A i \in 1..(Len(x) + 1) : xe[i] = IF i <= Len(x) THEN x[i] ELSE <<e>>[i - Len(x)]
    BY <1>2, <1>4, ConcatProperties
  <2> HIDE DEF xe
  <2>4. at \in 1..(Len(x) + 1) /\ ~(at <= Len(x)) /\ at - Len(x) = 1
    BY <1>1, <1>2
  <2>5. \A i \in 1..(at - 1) : i \in 1..(Len(x) + 1) /\ i <= Len(x)
    BY <1>1, <1>2
  <2> QED
    BY <1>1, <1>2, <1>4, <2>1, <2>2, <2>3, <2>4, <2>5
<1> HIDE DEF xe
<1>6. z \in Seq(S) /\ Len(z) = n + 1
  <2>1. z \in Seq(S)
    BY <1>3, <1>5, ConcatProperties
  <2>2. Len(z) = Len(xe) + Len(y)
    BY <1>3, <1>5, ConcatProperties
  <2> HIDE DEF z
  <2> QED
    BY <1>1, <1>3, <1>5, <2>1, <2>2
<1>7. ASSUME NEW r \in 1..(n + 1)
      PROVE  z[r] = IF r < at THEN s[r] ELSE IF r = at THEN e ELSE s[r - 1]
  <2>1. r \in 1..(Len(xe) + Len(y))
    BY <1>1, <1>3, <1>5
  <2>2. z[r] = IF r <= Len(xe) THEN xe[r] ELSE y[r - Len(xe)]
    BY <1>3, <1>5, <2>1, ConcatProperties
  <2> HIDE DEF z
  <2>3. r \in Nat
    BY <1>1
  <2>4. CASE r < at
    BY <1>1, <1>5, <2>2, <2>3, <2>4
  <2>5. CASE r = at
    BY <1>1, <1>5, <2>2, <2>3, <2>5
  <2>6. CASE r > at
    <3>1. r - at \in 1..(n - at + 1) /\ at + (r - at) - 1 = r - 1
      BY <1>1, <2>3, <2>6
    <3>2. y[r - at] = s[r - 1]
      BY <1>3, <3>1
    <3> QED
      BY <1>1, <1>5, <2>2, <2>3, <2>6, <3>2
  <2> QED
    BY <1>1, <2>3, <2>4, <2>5, <2>6
<1>8. InsertAt(s, at, e) = z
  BY DEF InsertAt, x, y, xe
<1> HIDE DEF z
<1>9. Shifted(z, s, at, e, S)
  BY <1>6, <1>7 DEF Shifted
<1> QED
  BY <1>8, <1>9

\* A new string takes its place in the order.
LEMMA InsertSorts ==
  ASSUME NEW sorted, NEW keys, Sorts(sorted, keys), NEW k \in Nat, ~Hit(Listing(sorted, keys), k)
  PROVE  Sorts(InsertAt(sorted, Bisect(Listing(sorted, keys), k), Len(keys) + 1), Append(keys, k))
<1> DEFINE at == Bisect(Listing(sorted, keys), k)
           n == Len(keys)
           l == Len(sorted)
           new == InsertAt(sorted, at, n + 1)
           more == Append(keys, k)
<1>1. /\ n \in Nat /\ l \in Nat /\ keys \in Seq(Nat) /\ sorted \in Seq(1..n)
      /\ \A r \in 1..l : sorted[r] \in 1..n /\ keys[sorted[r]] \in Nat
      /\ \A r, q \in 1..l : r < q => keys[sorted[r]] < keys[sorted[q]]
      /\ \A id \in 1..n : \E r \in 1..l : sorted[r] = id
  <2>1. \A r \in 1..l : sorted[r] \in 1..n
    BY ListingRises
  <2>2. \A r, q \in 1..l : r < q => keys[sorted[r]] < keys[sorted[q]]
    BY ListingRises
  <2> QED
    BY <2>1, <2>2, SMTT(30) DEF Sorts
<1>2. /\ at \in 1..(l + 1)
      /\ \A r \in 1..l : (r < at => keys[sorted[r]] < k) /\ (r >= at => keys[sorted[r]] >= k)
      /\ \A id \in 1..n : keys[id] # k
  <2>1. at = Bisect(Listing(sorted, keys), k)
    OBVIOUS
  <2> HIDE DEF at
  <2>2. at \in 1..(l + 1)
    BY <2>1, SortsHit
  <2>3. \A r \in 1..l : r < at => keys[sorted[r]] < k
    BY <2>1, SortsHit
  <2>4. \A r \in 1..l : r >= at => keys[sorted[r]] >= k
    BY <2>1, SortsHit
  <2>5. ASSUME NEW id \in 1..n, keys[id] = k
        PROVE  FALSE
    BY <2>1, <2>5, SortsFinds
  <2> QED
    BY <2>2, <2>3, <2>4, <2>5
<1>3. /\ more \in Seq(Nat) /\ Len(more) = n + 1 /\ more[n + 1] = k
      /\ \A id \in 1..n : more[id] = keys[id]
  BY <1>1
<1>4. /\ new \in Seq(1..(n + 1)) /\ Len(new) = l + 1
      /\ \A r \in 1..(l + 1) :
           new[r] = IF r < at THEN sorted[r] ELSE IF r = at THEN n + 1 ELSE sorted[r - 1]
  <2> DEFINE S == 1..(n + 1)
             e == n + 1
  <2>1. sorted \in Seq(S) /\ e \in S /\ at \in 1..(Len(sorted) + 1)
    BY <1>1, <1>2
  <2> HIDE DEF at, S, e
  <2>2. Shifted(InsertAt(sorted, at, e), sorted, at, e, S)
    BY <2>1, Inserted
  <2>3. new = InsertAt(sorted, at, e)
    BY DEF e
  <2> HIDE DEF new
  <2>4. Shifted(new, sorted, at, e, S)
    BY <2>2, <2>3
  <2> QED
    BY <2>4 DEF Shifted, e, S
<1> HIDE DEF new, more, at
<1>5. ASSUME NEW r \in 1..(l + 1)
      PROVE  /\ r \in Nat /\ at \in Nat
             /\ r < at => /\ r \in 1..l /\ new[r] = sorted[r] /\ more[new[r]] = keys[sorted[r]]
             /\ r = at => more[new[r]] = k
             /\ r > at => /\ r - 1 \in 1..l /\ new[r] = sorted[r - 1]
                          /\ more[new[r]] = keys[sorted[r - 1]]
  <2>1. r \in Nat /\ at \in Nat
    BY <1>1, <1>2
  <2>2. r < at => r \in 1..l /\ new[r] = sorted[r]
    BY <1>1, <1>2, <1>4, <2>1
  <2>3. r > at => r - 1 \in 1..l /\ new[r] = sorted[r - 1]
    BY <1>1, <1>2, <1>4, <2>1
  <2>4. r = at => new[r] = n + 1
    BY <1>1, <1>2, <1>4, <2>1
  <2>5. ASSUME r < at PROVE more[new[r]] = keys[sorted[r]]
    <3>1. sorted[r] \in 1..n
      BY <1>1, <2>2, <2>5
    <3>2. more[sorted[r]] = keys[sorted[r]]
      BY <1>3, <3>1
    <3> QED
      BY <2>2, <2>5, <3>2
  <2>6. ASSUME r > at PROVE more[new[r]] = keys[sorted[r - 1]]
    <3>1. sorted[r - 1] \in 1..n
      BY <1>1, <2>3, <2>6
    <3>2. more[sorted[r - 1]] = keys[sorted[r - 1]]
      BY <1>3, <3>1
    <3> QED
      BY <2>3, <2>6, <3>2
  <2>7. r = at => more[new[r]] = k
    BY <1>3, <2>4
  <2> QED
    BY <2>1, <2>2, <2>3, <2>5, <2>6, <2>7
<1>6. ASSUME NEW r \in 1..(l + 1), NEW q \in 1..(l + 1), r < q
      PROVE  more[new[r]] < more[new[q]]
  <2>1. r \in Nat /\ q \in Nat /\ at \in Nat
    BY <1>5
  <2>2. CASE q < at
    <3>1. r < at
      BY <1>6, <2>1, <2>2
    <3> QED
      BY <1>1, <1>5, <1>6, <2>2, <3>1
  <2>3. CASE q = at
    <3>1. r < at
      BY <1>6, <2>1, <2>3
    <3> QED
      BY <1>2, <1>5, <2>3, <3>1
  <2>4. CASE q > at
    <3>1. q - 1 \in 1..l /\ more[new[q]] = keys[sorted[q - 1]] /\ q - 1 >= at
      BY <1>5, <2>1, <2>4
    <3>2. CASE r < at
      <4>1. r \in 1..l /\ more[new[r]] = keys[sorted[r]] /\ r < q - 1
        BY <1>5, <2>1, <3>1, <3>2
      <4> QED
        BY <1>1, <3>1, <4>1
    <3>3. CASE r = at
      <4>1. keys[sorted[q - 1]] >= k /\ keys[sorted[q - 1]] # k /\ keys[sorted[q - 1]] \in Nat
        BY <1>1, <1>2, <3>1
      <4>2. more[new[r]] = k
        BY <1>5, <3>3
      <4> QED
        BY <3>1, <4>1, <4>2
    <3>4. CASE r > at
      <4>1. r - 1 \in 1..l /\ more[new[r]] = keys[sorted[r - 1]] /\ r - 1 < q - 1
        BY <1>5, <1>6, <2>1, <3>4
      <4> QED
        BY <1>1, <3>1, <4>1
    <3> QED
      BY <2>1, <3>2, <3>3, <3>4
  <2> QED
    BY <2>1, <2>2, <2>3, <2>4
<1>7. Rises(Listing(new, more))
  <2>1. Len(Listing(new, more)) = l + 1 /\ \A r \in 1..(l + 1) : Listing(new, more)[r] = more[new[r]]
    BY <1>1, <1>4 DEF Listing
  <2> QED
    BY <1>6, <2>1 DEF Rises
<1>8. ASSUME NEW id \in 1..(n + 1)
      PROVE  \E r \in 1..(l + 1) : new[r] = id
  <2>1. CASE id = n + 1
    BY <1>2, <1>4, <2>1
  <2>2. CASE id # n + 1
    <3>1. id \in 1..n
      BY <1>1, <2>2
    <3>2. PICK r \in 1..l : sorted[r] = id
      BY <1>1, <3>1
    <3>3. CASE r < at
      <4>1. r \in 1..(l + 1)
        BY <1>1
      <4> QED
        BY <1>4, <3>2, <3>3, <4>1
    <3>4. CASE ~(r < at)
      <4>1. r + 1 \in 1..(l + 1) /\ ~(r + 1 < at) /\ r + 1 # at /\ r + 1 - 1 = r
        BY <1>1, <1>2, <3>4
      <4>2. new[r + 1] = sorted[r]
        BY <1>4, <4>1
      <4> QED
        BY <3>2, <4>1, <4>2
    <3> QED
      BY <3>3, <3>4
  <2> QED
    BY <2>1, <2>2
<1>9. Sorts(new, more)
  BY <1>3, <1>4, <1>7, <1>8 DEF Sorts
<1> QED
  BY <1>9 DEF new, more, at

LEMMA IndexIs ==
  ASSUME NEW s, NEW i \in 1..Len(s)
  PROVE  IndexIn(s, s[i]) \in 1..Len(s) /\ s[IndexIn(s, s[i])] = s[i]
BY DEF IndexIn

\* A table is built in order.
LEMMA RankedSorts ==
  ASSUME NEW keys \in Seq(Nat), Distinct(keys)
  PROVE  Sorts(Ranked(keys), keys)
<1> DEFINE n == Len(keys)
           K == ToSet(keys)
           rising == InOrder(K)
           c == Cardinality(K)
           order == Ranked(keys)
<1>1. n \in Nat /\ DOMAIN keys = 1..n /\ \A i \in 1..n : keys[i] \in Nat /\ keys[i] \in K
  BY DEF ToSet
<1>2. K \in SUBSET Nat /\ \A k \in K : \E i \in 1..n : keys[i] = k
  BY <1>1 DEF ToSet
<1>3. IsFiniteSet(K)
  <2>1. IsFiniteSet(1..n)
    BY <1>1, FS_Interval
  <2>2. K = {keys[i] : i \in 1..n}
    BY <1>1 DEF ToSet
  <2> HIDE DEF K
  <2>3. keys \in Surjection(1..n, K)
    <3>1. keys \in [1..n -> K]
      BY <1>1
    <3> QED
      BY <2>2, <3>1 DEF Surjection
  <2> QED
    BY <2>1, <2>3, FS_Surjection
<1> HIDE DEF K
<1>4. /\ rising \in Seq(K) /\ Len(rising) = c /\ \A r \in 1..c : rising[r] \in K
      /\ \A k \in K : Dense(K, k) \in 1..c /\ rising[Dense(K, k)] = k
      /\ \A r, q \in 1..c : r < q => rising[r] < rising[q]
      /\ c \in Nat
  BY <1>2, <1>3, InOrderRises, DenseRises
<1>5. order = [r \in 1..c |-> IndexIn(keys, rising[r])]
  BY <1>4 DEF Ranked, K
<1> HIDE DEF rising, order, c
<1>6. ASSUME NEW r \in 1..c
      PROVE  order[r] \in 1..n /\ keys[order[r]] = rising[r]
  <2>1. PICK i \in 1..n : keys[i] = rising[r]
    BY <1>2, <1>4
  <2> QED
    BY <1>5, <2>1, IndexIs
<1>7. order \in Seq(1..n) /\ Len(order) = c
  BY <1>4, <1>5, <1>6
<1>8. Rises(Listing(order, keys))
  BY <1>4, <1>6, <1>7 DEF Rises, Listing
<1>9. ASSUME NEW id \in 1..n
      PROVE  \E r \in 1..c : order[r] = id
  <2>1. Dense(K, keys[id]) \in 1..c /\ rising[Dense(K, keys[id])] = keys[id]
    BY <1>1, <1>4
  <2>2. order[Dense(K, keys[id])] \in 1..n /\ keys[order[Dense(K, keys[id])]] = keys[id]
    BY <1>6, <2>1
  <2> QED
    BY <2>1, <2>2 DEF Distinct
<1> QED
  BY <1>7, <1>8, <1>9 DEF Sorts, order

IsTable(t) ==
  t = [heap |-> t.heap, sorted |-> t.sorted] /\ IsHeap(t.heap) /\ Sorts(t.sorted, t.heap)

LEMMA HeapKeys ==
  ASSUME NEW heap, IsHeap(heap)
  PROVE  heap \in Seq(Nat) /\ Distinct(heap) /\ Len(heap) \in 0..LocalCap
         /\ \A id \in 1..Len(heap) : heap[id] \in Strings /\ heap[id] \in Nat
<1>1. heap \in Seq(Strings) /\ Strings \in SUBSET Nat /\ LocalCap \in Nat
  BY StoreAssumption DEF IsHeap, Strings
<1> HIDE DEF Strings
<1>2. \A id \in 1..Len(heap) : heap[id] \in Strings
  BY <1>1
<1>3. heap \in Seq(Nat)
  <2>1. Len(heap) \in Nat /\ heap = [id \in 1..Len(heap) |-> heap[id]]
    BY <1>1
  <2> QED
    BY <1>1, <1>2, <2>1
<1> QED
  BY <1>1, <1>2, <1>3 DEF IsHeap

LEMMA TableOf ==
  ASSUME NEW heap, IsHeap(heap)
  PROVE  IsTable(Table(heap)) /\ Table(heap).heap = heap
BY HeapKeys, RankedSorts DEF Table, IsTable

\* What a table finds of a string.
LEMMA TableFinds ==
  ASSUME NEW t, IsTable(t), NEW s \in Nat
  PROVE  /\ IF Find(t, s) = None THEN /\ \A id \in 1..Len(t.heap) : t.heap[id] # s
                                      /\ ~Hit(Listing(t.sorted, t.heap), s)
            ELSE Find(t, s) \in 1..Len(t.heap) /\ t.heap[Find(t, s)] = s
         /\ \A id \in 1..Len(t.heap) : t.heap[id] = s => Find(t, s) = id
<1> DEFINE l == Listing(t.sorted, t.heap)
           at == Bisect(l, s)
<1>1. Spelled(t) = l /\ Sorts(t.sorted, t.heap)
  BY DEF Spelled, Listing, IsTable
<1>2. at = Bisect(Listing(t.sorted, t.heap), s)
  OBVIOUS
<1> HIDE DEF at
<1>3. Hit(l, s) => t.sorted[at] \in 1..Len(t.heap) /\ t.heap[t.sorted[at]] = s
  BY <1>1, <1>2, SortsTrue
<1>4. ASSUME NEW id \in 1..Len(t.heap), t.heap[id] = s
      PROVE  Hit(l, s) /\ t.sorted[at] = id
  BY <1>1, <1>2, <1>4, SortsFinds
<1>5. Find(t, s) = IF Hit(l, s) THEN t.sorted[at] ELSE None
  BY <1>1, <1>2 DEF Find
<1>6. None \notin 1..Len(t.heap)
  BY DEF None
<1> HIDE DEF l
<1> QED
  BY <1>3, <1>4, <1>5, <1>6 DEF l

\* A string enters a table that has room for it.
LEMMA TableInserts ==
  ASSUME NEW t, IsTable(t), NEW s \in Strings, ~TableIsFull(t, s)
  PROVE  /\ IsTable(TableInsert(t, s).table)
         /\ TableInsert(t, s).id \in 1..Len(TableInsert(t, s).table.heap)
         /\ Len(t.heap) <= Len(TableInsert(t, s).table.heap)
<1> DEFINE f == Find(t, s)
           h == t.heap
<1>1. s \in Nat /\ IsHeap(h) /\ h \in Seq(Nat) /\ Len(h) \in 0..LocalCap /\ h \in Seq(Strings)
      /\ LocalCap \in Nat
  <2>1. IsHeap(h)
    BY DEF IsTable
  <2> QED
    BY <2>1, HeapKeys, StoreAssumption DEF IsHeap, Strings
<1>2. CASE f # None
  <2>1. TableInsert(t, s) = [table |-> t, id |-> f]
    BY <1>2 DEF TableInsert
  <2>2. f \in 1..Len(h)
    BY <1>1, <1>2, TableFinds
  <2> HIDE DEF f
  <2> QED
    BY <1>1, <2>1, <2>2
<1>3. CASE f = None
  <2> DEFINE more == Append(h, s)
             order == InsertAt(t.sorted, Bisect(Spelled(t), s), Len(h) + 1)
  <2>1. TableInsert(t, s) = [table |-> [heap |-> more, sorted |-> order], id |-> Len(h) + 1]
    BY <1>3 DEF TableInsert
  <2>2. (\A id \in 1..Len(h) : h[id] # s) /\ ~Hit(Listing(t.sorted, h), s)
    BY <1>1, <1>3, TableFinds
  <2>3. Spelled(t) = Listing(t.sorted, h) /\ Sorts(t.sorted, h)
    BY DEF Spelled, Listing, IsTable
  <2>4. Sorts(order, more)
    BY <1>1, <2>2, <2>3, InsertSorts
  <2>5. ~(Len(h) >= LocalCap)
    BY <1>3 DEF TableIsFull
  <2>6. more \in Seq(Strings) /\ Len(more) = Len(h) + 1 /\ Len(more) <= LocalCap
    BY <1>1, <2>5
  <2>7. Distinct(more)
    <3>1. \A id \in 1..Len(h) : more[id] = h[id]
      BY <1>1
    <3>2. more[Len(h) + 1] = s
      BY <1>1
    <3>3. \A id \in 1..Len(more) : id \in 1..Len(h) \/ id = Len(h) + 1
      BY <1>1, <2>6
    <3>4. Distinct(h)
      BY <1>1, HeapKeys
    <3> HIDE DEF more
    <3> QED
      BY <2>2, <3>1, <3>2, <3>3, <3>4 DEF Distinct
  <2> HIDE DEF more, order
  <2>8. IsTable([heap |-> more, sorted |-> order])
    BY <2>4, <2>6, <2>7 DEF IsTable, IsHeap
  <2> QED
    BY <1>1, <2>1, <2>6, <2>8
<1> QED
  BY <1>2, <1>3

-----------------------------------------------------------------------------
(* Runs                                                                      *)

\* A run has an end, since the arena has one.
LEMMA RunEnds ==
  ASSUME NEW ids \in Nat, NEW arena, IsRuns(arena, ids), NEW start \in 1..Len(arena)
  PROVE  /\ RunEnd(arena, start) \in start..Len(arena)
         /\ arena[RunEnd(arena, start)] = Terminator
         /\ \A k \in start..(RunEnd(arena, start) - 1) : arena[k] # Terminator
<1> DEFINE n == Len(arena)
           T == {e \in start..n : arena[e] = Terminator}
           ends(e) == arena[e] = Terminator /\ \A k \in start..(e - 1) : arena[k] # Terminator
<1>1. n \in Nat /\ start \in Nat /\ start <= n /\ arena[n] = Terminator
  <2>1. arena \in Seq((1..ids) \union {Terminator}) /\ (arena # <<>> => Last(arena) = Terminator)
    BY DEF IsRuns
  <2>2. n \in Nat /\ start \in Nat /\ start <= n /\ n # 0
    BY <2>1
  <2> QED
    BY <2>1, <2>2 DEF Last
<1> HIDE DEF n
<1>2. n \in T /\ T \in SUBSET Nat
  BY <1>1
<1>3. \A e \in T : e \in start..n /\ arena[e] = Terminator
  OBVIOUS
<1>4. \A e \in start..n : arena[e] = Terminator => e \in T
  OBVIOUS
<1> HIDE DEF T
<1>5. PICK m \in T : \A e \in T : m <= e
  BY <1>2, Least
<1>6. m \in start..n /\ m \in Nat /\ arena[m] = Terminator
  BY <1>2, <1>3
<1>7. \A k \in start..(m - 1) : arena[k] # Terminator
  <2>1. ASSUME NEW k \in start..(m - 1), arena[k] = Terminator
        PROVE  FALSE
    <3>1. k \in start..n /\ k \in Nat /\ k < m
      BY <1>1, <1>6
    <3> QED
      BY <1>4, <1>5, <1>6, <2>1, <3>1
  <2> QED
    BY <2>1
<1>8. ends(m)
  BY <1>6, <1>7
<1>9. RunEnd(arena, start) = CHOOSE e \in start..n : ends(e)
  BY DEF RunEnd, n
<1> HIDE DEF ends
<1>10. RunEnd(arena, start) \in start..n /\ ends(RunEnd(arena, start))
  BY <1>6, <1>8, <1>9
<1> QED
  BY <1>10 DEF ends, n

\* What a run lists is an id.
LEMMA RunLists ==
  ASSUME NEW ids \in Nat, NEW arena, IsRuns(arena, ids), NEW start \in 0..Len(arena)
  PROVE  RunAt(arena, start) \in Seq(1..ids)
<1>1. CASE start = 0
  BY <1>1 DEF RunAt, None
<1>2. CASE start # 0
  <2> DEFINE S == (1..ids) \union {Terminator}
             e == RunEnd(arena, start)
  <2>1. arena \in Seq(S) /\ Len(arena) \in Nat
    BY DEF IsRuns
  <2>2. start \in 1..Len(arena) /\ start \in Nat
    BY <1>2, <2>1
  <2>3. /\ e \in start..Len(arena) /\ e \in Nat
        /\ \A k \in start..(e - 1) : arena[k] # Terminator
    BY <2>2, RunEnds
  <2>4. RunAt(arena, start) = SubSeq(arena, start, e - 1)
    BY <1>2 DEF RunAt, None
  <2> HIDE DEF e
  <2> DEFINE run == SubSeq(arena, start, e - 1)
  <2>5. /\ run \in Seq(S) /\ Len(run) \in Nat
        /\ Len(run) = IF start <= e - 1 THEN (e - 1) - start + 1 ELSE 0
        /\ \A k \in 1..Len(run) : run[k] = arena[start + k - 1]
    BY <2>1, <2>2, <2>3, SubSeqProperties
  <2> HIDE DEF run
  <2>6. ASSUME NEW k \in 1..Len(run)
        PROVE  run[k] \in 1..ids
    <3>1. start + k - 1 \in start..(e - 1)
      BY <2>2, <2>3, <2>5
    <3>2. run[k] # Terminator
      BY <2>3, <2>5, <3>1
    <3> HIDE DEF S
    <3>3. run[k] \in S
      BY <2>5
    <3> QED
      BY <3>2, <3>3 DEF S
  <2>7. run = [k \in 1..Len(run) |-> run[k]]
    BY <2>5
  <2> DEFINE I == 1..ids
             l == Len(run)
  <2>8. l \in Nat /\ run = [k \in 1..l |-> run[k]] /\ \A k \in 1..l : run[k] \in I
    BY <2>5, <2>6, <2>7
  <2> HIDE DEF I, l
  <2>9. run \in Seq(I)
    BY <2>8
  <2> QED
    BY <2>4, <2>9 DEF run, I
<1> QED
  BY <1>1, <1>2

LEMMA RunsWiden ==
  ASSUME NEW ids \in Nat, NEW more \in Nat, ids <= more, NEW arena, IsRuns(arena, ids)
  PROVE  IsRuns(arena, more)
<1> DEFINE S == (1..ids) \union {Terminator}
           T == (1..more) \union {Terminator}
<1>1. arena \in Seq(S) /\ (arena # <<>> => Last(arena) = Terminator)
  BY DEF IsRuns
<1>2. S \in SUBSET T
  OBVIOUS
<1> HIDE DEF S, T
<1>3. arena \in Seq(T)
  BY <1>1, <1>2
<1> QED
  BY <1>1, <1>3 DEF IsRuns, T

\* An id and a terminator may follow anything.
LEMMA EndedRun ==
  ASSUME NEW ids \in Nat, NEW s \in Seq((1..ids) \union {Terminator}), NEW id \in 1..ids
  PROVE  IsRuns(s \o <<id, Terminator>>, ids) /\ Len(s \o <<id, Terminator>>) = Len(s) + 2
<1> DEFINE S == (1..ids) \union {Terminator}
           t == <<id, Terminator>>
           u == s \o t
<1>1. s \in Seq(S) /\ Len(s) \in Nat
  OBVIOUS
<1>2. t \in Seq(S) /\ Len(t) = 2 /\ t[2] = Terminator
  OBVIOUS
<1> HIDE DEF S, t
<1>3. u \in Seq(S) /\ Len(u) = Len(s) + 2 /\ u[Len(s) + 2] = t[Len(s) + 2 - Len(s)]
  <2>1. u \in Seq(S) /\ Len(u) = Len(s) + 2
    <3>1. u \in Seq(S) /\ Len(u) = Len(s) + Len(t)
      BY <1>1, <1>2, ConcatProperties
    <3> QED
      BY <1>2, <3>1
  <2>2. \A k \in 1..Len(u) : u[k] = IF k <= Len(s) THEN s[k] ELSE t[k - Len(s)]
    BY <1>1, <1>2, ConcatProperties
  <2> HIDE DEF u
  <2> QED
    BY <1>1, <2>1, <2>2
<1> HIDE DEF u
<1>4. Last(u) = Terminator
  BY <1>1, <1>2, <1>3 DEF Last
<1> QED
  BY <1>3, <1>4 DEF IsRuns, u, t, S

\* A run that grows, in place or at the end of the arena.
LEMMA AppendedRun ==
  ASSUME NEW ids \in Nat, NEW arena, IsRuns(arena, ids), NEW start \in 1..Len(arena),
         NEW id \in 1..ids, NEW r, r = AppendRun(arena, start, id)
  PROVE  /\ IsRuns(r.arena, ids) /\ Len(arena) \in Nat /\ Len(r.arena) \in Nat
         /\ Len(arena) <= Len(r.arena) /\ r.start \in 1..Len(r.arena)
<1> DEFINE S == (1..ids) \union {Terminator}
           run == RunAt(arena, start)
           n == Len(arena)
<1>1. arena \in Seq(S) /\ n \in Nat /\ start \in 0..n /\ start \in 1..n /\ n >= 1
  BY DEF IsRuns
<1>2. run \in Seq(S) /\ Len(run) \in Nat
  <2>1. run \in Seq(1..ids)
    BY <1>1, RunLists
  <2>2. 1..ids \in SUBSET S
    OBVIOUS
  <2> HIDE DEF S
  <2> QED
    BY <2>1, <2>2
<1>3. CASE r = [arena |-> arena, start |-> start]
  BY <1>1, <1>3
<1>4. CASE r = [arena |-> Front(arena) \o <<id, Terminator>>, start |-> start]
  <2>1. Front(arena) \in Seq(S) /\ Len(Front(arena)) = n - 1
    <3>1. Front(arena) = SubSeq(arena, 1, n - 1)
      BY DEF Front
    <3>2. n - 1 \in Nat /\ 1 \in Int /\ n - 1 \in Int /\ \A k \in 1..(n - 1) : k \in 1..n
      BY <1>1
    <3> HIDE DEF S
    <3>3. SubSeq(arena, 1, n - 1) \in Seq(S)
      BY <1>1, <3>2, SubSeqProperties
    <3>4. Len(SubSeq(arena, 1, n - 1)) = IF 1 <= n - 1 THEN (n - 1) - 1 + 1 ELSE 0
      BY <1>1, <3>2, SubSeqProperties
    <3>5. (IF 1 <= n - 1 THEN (n - 1) - 1 + 1 ELSE 0) = n - 1
      <4>1. n \in Nat /\ n >= 1
        BY <1>1
      <4> HIDE DEF n
      <4>2. CASE n = 1
        BY <4>2
      <4>3. CASE n > 1
        BY <4>1, <4>3
      <4> QED
        BY <4>1, <4>2, <4>3
    <3> QED
      BY <3>1, <3>3, <3>4, <3>5
  <2> DEFINE u == Front(arena) \o <<id, Terminator>>
  <2>2. IsRuns(u, ids) /\ Len(u) = n - 1 + 2
    BY <2>1, EndedRun
  <2>3. r.arena = u /\ r.start = start
    BY <1>4
  <2> HIDE DEF u, n
  <2>4. n \in Nat /\ Len(u) = n + 1 /\ start \in 1..n
    BY <1>1, <2>2
  <2>5. Len(u) \in Nat /\ n <= Len(u) /\ start \in 1..Len(u)
    BY <2>4
  <2> QED
    BY <1>1, <2>2, <2>3, <2>5 DEF n
<1>5. CASE r = [arena |-> arena \o run \o <<id, Terminator>>, start |-> n + 1]
  <2>1. arena \o run \in Seq(S) /\ Len(arena \o run) = n + Len(run)
    <3> HIDE DEF S, run
    <3> QED
      BY <1>1, <1>2, ConcatProperties
  <2> DEFINE w == arena \o run
             u == w \o <<id, Terminator>>
             m == Len(run)
  <2>2. r.arena = u /\ r.start = n + 1
    BY <1>5
  <2>3. w \in Seq(S) /\ Len(w) = n + m /\ m \in Nat
    BY <1>2, <2>1
  <2> HIDE DEF w, m
  <2>4. IsRuns(u, ids) /\ Len(u) = n + m + 2
    BY <2>3, EndedRun
  <2> HIDE DEF u, n
  <2>5. n \in Nat
    BY <1>1
  <2>6. Len(u) \in Nat /\ n <= Len(u) /\ n + 1 \in 1..Len(u)
    BY <2>3, <2>4, <2>5
  <2> QED
    BY <1>1, <2>2, <2>4, <2>6 DEF n
<1> QED
  BY <1>3, <1>4, <1>5 DEF AppendRun

\* A run that loses ids ends where it did or before.
LEMMA ShortenedRun ==
  ASSUME NEW ids \in Nat, NEW arena, IsRuns(arena, ids), NEW start \in 1..Len(arena), NEW doomed
  PROVE  /\ IsRuns(RemoveFromRun(arena, start, doomed), ids)
         /\ Len(RemoveFromRun(arena, start, doomed)) = Len(arena)
<1> DEFINE S == (1..ids) \union {Terminator}
           n == Len(arena)
           run == RunAt(arena, start)
           l == Len(run)
           K == {k \in 1..l : run[k] \notin doomed}
           left == InOrder(K)
           m == Len(left)
           e == RunEnd(arena, start)
           at(k) == IF k \in start..(start + m - 1) THEN run[left[k - start + 1]]
                    ELSE IF k = start + m THEN Terminator ELSE arena[k]
           u == [k \in 1..n |-> at(k)]
<1>1. RemoveFromRun(arena, start, doomed) = IF m = l THEN arena ELSE u
  BY DEF RemoveFromRun
<1>2. /\ arena \in Seq(S) /\ n \in Nat /\ start \in 0..n /\ start \in 1..n /\ start \in Nat /\ n >= 1
      /\ Last(arena) = Terminator
  BY DEF IsRuns
<1>3. arena[n] = Terminator
  BY <1>2 DEF Last
<1>4. run \in Seq(1..ids) /\ l \in Nat /\ \A k \in 1..l : run[k] \in S
  <2>1. run \in Seq(1..ids)
    BY <1>2, RunLists
  <2> HIDE DEF run
  <2>2. \A k \in 1..Len(run) : run[k] \in 1..ids
    BY <2>1
  <2> QED
    BY <2>1, <2>2
<1>5. e \in start..n /\ e \in Nat
  BY <1>2, RunEnds
<1>6. l = IF start <= e - 1 THEN (e - 1) - start + 1 ELSE 0
  <2>1. run = SubSeq(arena, start, e - 1)
    <3>1. start # 0
      BY <1>2
    <3> QED
      BY <3>1 DEF RunAt, None
  <2>2. start \in Int /\ e - 1 \in Int /\ \A k \in start..(e - 1) : k \in 1..n
    BY <1>2, <1>5
  <2> HIDE DEF e, run, S
  <2> QED
    BY <1>2, <2>1, <2>2, SubSeqProperties
<1>7. K \in SUBSET (1..l)
  OBVIOUS
<1> HIDE DEF e, S, K, l
<1>8. m \in Nat /\ m <= l /\ \A j \in 1..m : left[j] \in 1..l
  <2>1. IsFiniteSet(1..l) /\ Cardinality(1..l) = l
    BY <1>4, FS_Interval
  <2>2. IsFiniteSet(K) /\ Cardinality(K) <= l
    BY <1>7, <2>1, FS_Subset
  <2>3. K \in SUBSET Nat
    BY <1>7
  <2>4. Cardinality(K) \in Nat
    BY <2>2, FS_CardinalityType
  <2>5. m = Cardinality(K)
    BY <2>2, <2>3, InOrderRises
  <2>6. \A j \in 1..Cardinality(K) : left[j] \in K
    BY <2>2, <2>3, InOrderRises
  <2> HIDE DEF left, m
  <2> QED
    BY <1>7, <2>2, <2>4, <2>5, <2>6
<1>9. CASE m = l
  BY <1>1, <1>9 DEF S
<1>10. CASE m # l
  <2> HIDE DEF left, m, run
  <2>1. m < l /\ l = e - start /\ start + m < n /\ start + m \in Nat
    BY <1>2, <1>4, <1>5, <1>6, <1>8, <1>10
  <2>2. ASSUME NEW k \in 1..n
        PROVE  at(k) \in S
    <3>1. CASE k \in start..(start + m - 1)
      <4>1. k - start + 1 \in 1..m
        BY <1>2, <1>8, <3>1
      <4>2. at(k) = run[left[k - start + 1]]
        BY <3>1
      <4> QED
        BY <1>4, <1>8, <4>1, <4>2
    <3>2. CASE k \notin start..(start + m - 1) /\ k = start + m
      BY <3>2 DEF S
    <3>3. CASE k \notin start..(start + m - 1) /\ k # start + m
      BY <1>2, <3>3
    <3> QED
      BY <3>1, <3>2, <3>3
  <2>3. n \notin start..(start + m - 1) /\ n # start + m
    BY <1>2, <1>8, <2>1
  <2>4. at(n) = Terminator
    BY <1>3, <2>3
  <2> HIDE DEF at
  <2>5. u \in Seq(S) /\ Len(u) = n /\ u[n] = Terminator
    BY <1>2, <2>2, <2>4
  <2> HIDE DEF u
  <2>6. Last(u) = Terminator
    BY <2>5 DEF Last
  <2> QED
    BY <1>1, <1>10, <2>5, <2>6 DEF S, IsRuns
<1> QED
  BY <1>9, <1>10

-----------------------------------------------------------------------------
(* Custom names                                                              *)

\* A custom tag of a node has a name.
LEMMA TagNamed ==
  ASSUME NEW symbols \in Nat, NEW ext, NEW tags, IsExtTags(ext, tags, symbols),
         NEW i \in 1..Len(tags), i \in Nat, IsExt(tags[i])
  PROVE  TagSym(ext, i, tags[i]) \in 1..symbols
<1> DEFINE v == ext.vocab
           o == ext.overflow
           keys == OverflowNodes(ext)
<1>1. v \in Seq(1..symbols) /\ o \in Seq(Nat \X (1..symbols))
  BY DEF IsExtTags
<1>2. \A j, k \in 1..Len(o) : j < k => o[j][1] < o[k][1]
  BY DEF IsExtTags
<1>3. CASE tags[i][1] = "ext"
  <2>1. tags[i][2] \in 1..Len(v)
    BY <1>3 DEF IsExtTags
  <2>2. tags[i] # OverflowByte
    BY <1>3 DEF OverflowByte
  <2>3. TagSym(ext, i, tags[i]) = v[tags[i][2]]
    BY <2>2 DEF TagSym
  <2> HIDE DEF v
  <2> QED
    BY <1>1, <2>1, <2>3
<1>4. CASE tags[i][1] = "over"
  <2>1. tags[i] = OverflowByte
    BY <1>4 DEF IsExtTags
  <2>2. PICK k \in 1..Len(o) : o[k][1] = i
    BY <1>4 DEF IsExtTags
  <2>3. keys = [j \in 1..Len(o) |-> o[j][1]]
    BY DEF OverflowNodes
  <2>4. TagSym(ext, i, tags[i]) = o[Bisect(keys, i)][2]
    BY <2>1 DEF TagSym
  <2> HIDE DEF o, keys
  <2>5. Len(o) \in Nat /\ \A j \in 1..Len(o) : o[j][1] \in Nat /\ o[j][2] \in 1..symbols
    BY <1>1, SMTT(30)
  <2>6. keys \in Seq(Nat) /\ Len(keys) = Len(o) /\ \A j \in 1..Len(o) : keys[j] = o[j][1]
    BY <2>3, <2>5
  <2>7. Rises(keys)
    BY <1>2, <2>6 DEF Rises
  <2> DEFINE at == Bisect(keys, i)
             n == Len(keys)
  <2>8. Splits(keys, i, 1, n + 1, at)
    BY <2>6, <2>7, BisectSplits
  <2> HIDE DEF at, n
  <2>9. /\ at \in 1..(n + 1) /\ (n + 1) - 1 = n
        /\ \A j \in 1..n : (j < at => keys[j] < i) /\ (j >= at => keys[j] >= i)
    BY <2>5, <2>6, <2>8 DEF Splits, n
  <2>10. k \in 1..n /\ keys[k] = i /\ k \in Nat
    BY <2>2, <2>5, <2>6 DEF n
  <2>11. ~(k < at)
    BY <2>9, <2>10
  <2>12. at \in 1..n /\ at <= k
    BY <2>5, <2>6, <2>9, <2>10, <2>11 DEF n
  <2> QED
    BY <2>4, <2>5, <2>6, <2>12 DEF at, n
<1> QED
  BY <1>3, <1>4 DEF IsExt

\* Names given out so far, to the nodes before the next.
ExtFields == {"vocab", "overflow"}

Tagged(ext, tags, symbols) ==
  /\ DOMAIN ext = ExtFields /\ IsExtTags(ext, tags, symbols)
  /\ \A k \in 1..Len(ext.overflow) : ext.overflow[k][1] <= Len(tags)

\* The nodes of the names without a byte of their own.
Overflown(o, n, symbols) ==
  /\ o \in Seq(Nat \X (1..symbols))
  /\ \A j, k \in 1..Len(o) : j < k => o[j][1] < o[k][1]
  /\ \A k \in 1..Len(o) : o[k][1] <= n

Known(v, o, byte, i) ==
  /\ byte[1] = "ext" => byte[2] \in 1..Len(v)
  /\ byte[1] = "over" => byte = OverflowByte /\ \E k \in 1..Len(o) : o[k][1] = i

LEMMA TaggedIs ==
  ASSUME NEW symbols, NEW ext, NEW tags
  PROVE  Tagged(ext, tags, symbols) <=>
           /\ DOMAIN ext = ExtFields /\ ext.vocab \in Seq(1..symbols)
           /\ Overflown(ext.overflow, Len(tags), symbols)
           /\ \A i \in 1..Len(tags) : Known(ext.vocab, ext.overflow, tags[i], i)
BY DEF Tagged, IsExtTags, Overflown, Known

LEMMA OverflownLater ==
  ASSUME NEW symbols \in Nat, NEW n \in Nat, NEW o, Overflown(o, n, symbols)
  PROVE  Overflown(o, n + 1, symbols)
<1>1. ASSUME NEW k \in 1..Len(o)
      PROVE  o[k][1] <= n + 1
  <2> DEFINE x == o[k][1]
  <2>1. o \in Seq(Nat \X (1..symbols)) /\ x <= n
    BY DEF Overflown
  <2>2. x \in Nat
    BY <2>1
  <2> HIDE DEF x
  <2>3. x <= n + 1
    BY <2>1, <2>2
  <2> QED
    BY <2>3 DEF x
<1> QED
  BY <1>1 DEF Overflown

LEMMA OverflownMore ==
  ASSUME NEW symbols \in Nat, NEW n \in Nat, NEW o, Overflown(o, n, symbols), NEW sym \in 1..symbols,
         NEW w, w = Append(o, <<n + 1, sym>>)
  PROVE  /\ Overflown(w, n + 1, symbols) /\ Len(w) = Len(o) + 1 /\ Len(o) \in Nat
         /\ \A k \in 1..Len(o) : w[k] = o[k]
         /\ w[Len(o) + 1] = <<n + 1, sym>>
<1> DEFINE S == Nat \X (1..symbols)
           q == <<n + 1, sym>>
           l == Len(o)
<1>1. o \in Seq(S) /\ l \in Nat
  BY DEF Overflown
<1>2. q \in S /\ q[1] = n + 1
  OBVIOUS
<1> HIDE DEF S
<1>3. /\ w \in Seq(S) /\ Len(w) = l + 1 /\ w[l + 1] = q
      /\ \A k \in 1..l : w[k] = o[k]
  BY <1>1, <1>2
<1>4. \A k \in 1..(l + 1) : k \in 1..l \/ k = l + 1
  BY <1>1
<1>5. ASSUME NEW k \in 1..l
      PROVE  w[k][1] \in Nat /\ w[k][1] <= n
  <2>1. o[k] \in S /\ o[k][1] <= n
    BY <1>1 DEF Overflown
  <2> QED
    BY <1>3, <2>1 DEF S
<1> HIDE DEF q, l
<1>6. ASSUME NEW k \in 1..(l + 1)
      PROVE  w[k][1] <= n + 1
  <2> DEFINE x == w[k][1]
  <2>1. (x \in Nat /\ x <= n) \/ x = n + 1
    BY <1>2, <1>3, <1>4, <1>5
  <2> HIDE DEF x
  <2>2. x <= n + 1
    BY <2>1
  <2> QED
    BY <2>2 DEF x
<1>7. ASSUME NEW j \in 1..(l + 1), NEW k \in 1..(l + 1), j < k
      PROVE  w[j][1] < w[k][1]
  <2>1. j \in 1..l
    BY <1>1, <1>7
  <2>2. CASE k \in 1..l
    <3>1. o[j][1] < o[k][1]
      BY <1>7, <2>1, <2>2 DEF Overflown, l
    <3> QED
      BY <1>3, <2>1, <2>2, <3>1
  <2>3. CASE k = l + 1
    <3> DEFINE x == w[j][1]
    <3>1. x \in Nat /\ x <= n /\ w[k][1] = n + 1
      BY <1>2, <1>3, <1>5, <2>1, <2>3
    <3> HIDE DEF x
    <3>2. x < n + 1
      BY <3>1
    <3> QED
      BY <3>1, <3>2 DEF x
  <2> QED
    BY <1>4, <2>2, <2>3
<1> QED
  BY <1>1, <1>3, <1>6, <1>7 DEF Overflown, l, q, S

LEMMA TagsMore ==
  ASSUME NEW symbols \in Nat, NEW ext, NEW S, NEW tags \in Seq(S), IsExtTags(ext, tags, symbols),
         NEW byte, byte[1] = "std"
  PROVE  IsExtTags(ext, Append(tags, byte), symbols)
<1> DEFINE more == Append(tags, byte)
           n == Len(tags)
<1>1. n \in Nat /\ Len(more) = n + 1 /\ more[n + 1] = byte /\ \A i \in 1..n : more[i] = tags[i]
  BY DEF more
<1> HIDE DEF more
<1>2. \A i \in 1..Len(more) : i \in 1..n \/ i = n + 1
  BY <1>1
<1>3. "std" # "ext" /\ "std" # "over"
  OBVIOUS
<1>4. \A i \in 1..Len(more) :
         /\ more[i][1] = "ext" => more[i][2] \in 1..Len(ext.vocab)
         /\ more[i][1] = "over" =>
              more[i] = OverflowByte /\ \E k \in 1..Len(ext.overflow) : ext.overflow[k][1] = i
  BY <1>1, <1>2, <1>3 DEF IsExtTags
<1> QED
  BY <1>4 DEF IsExtTags, more

LEMMA TaggedMore ==
  ASSUME NEW symbols \in Nat, NEW x, NEW S, NEW tags \in Seq(S), NEW byte, DOMAIN x = ExtFields,
         x.vocab \in Seq(1..symbols), Overflown(x.overflow, Len(tags) + 1, symbols),
         \A i \in 1..Len(tags) : Known(x.vocab, x.overflow, tags[i], i),
         Known(x.vocab, x.overflow, byte, Len(tags) + 1)
  PROVE  Tagged(x, Append(tags, byte), symbols)
<1> DEFINE more == Append(tags, byte)
           n == Len(tags)
           v == x.vocab
           o == x.overflow
<1>1. n \in Nat /\ Len(more) = n + 1 /\ more[n + 1] = byte /\ \A i \in 1..n : more[i] = tags[i]
  BY DEF more
<1>2. \A i \in 1..n : Known(v, o, tags[i], i)
  OBVIOUS
<1>3. Known(v, o, byte, n + 1) /\ Overflown(o, n + 1, symbols)
  OBVIOUS
<1> HIDE DEF more, n, v, o
<1>4. \A i \in 1..Len(more) : i \in 1..n \/ i = n + 1
  BY <1>1
<1>5. \A i \in 1..Len(more) : Known(v, o, more[i], i)
  BY <1>1, <1>2, <1>3, <1>4
<1>6. Overflown(o, Len(more), symbols)
  BY <1>1, <1>3
<1> QED
  BY <1>5, <1>6, TaggedIs DEF v, o, more

LEMMA KnownGrows ==
  ASSUME NEW v, NEW o, NEW w, NEW p, NEW byte, NEW i, Known(v, o, byte, i),
         Len(v) \in Nat, Len(w) \in Nat, Len(v) <= Len(w),
         \A k \in 1..Len(o) : k \in 1..Len(p) /\ p[k] = o[k]
  PROVE  Known(w, p, byte, i)
<1>1. \A k \in 1..Len(v) : k \in 1..Len(w)
  OBVIOUS
<1> QED
  BY <1>1 DEF Known

LEMMA Bytes ==
  ASSUME NEW k \in Nat
  PROVE  <<"ext", k>> \in Byte /\ OverflowByte \in Byte /\ <<"ext", k>> # OverflowByte
BY DEF Byte, OverflowByte

\* A name is given to the next node.
LEMMA TagEncoded ==
  ASSUME NEW symbols \in Nat, NEW ext, NEW tags \in Seq(Byte), Tagged(ext, tags, symbols),
         NEW sym \in 1..symbols, NEW e, e = EncodeTag(ext, sym, Len(tags) + 1)
  PROVE  e.byte \in Byte /\ Tagged(e.ext, Append(tags, e.byte), symbols)
<1> DEFINE v == ext.vocab
           o == ext.overflow
           n == Len(tags)
<1>1. n \in Nat
  OBVIOUS
<1>2. DOMAIN ext = ExtFields /\ v \in Seq(1..symbols) /\ Len(v) \in Nat
  BY TaggedIs
<1>3. Overflown(o, n, symbols) /\ \A i \in 1..n : Known(v, o, tags[i], i)
  BY TaggedIs
<1>4. Overflown(o, n + 1, symbols)
  BY <1>1, <1>3, OverflownLater
<1>5. CASE sym \in ToSet(v)
  <2>1. PICK j \in 1..Len(v) : v[j] = sym
    BY <1>5 DEF ToSet
  <2> DEFINE at == IndexIn(v, sym)
  <2>2. e.ext = ext /\ e.byte = <<"ext", at>>
    BY <1>5 DEF EncodeTag
  <2>3. at \in 1..Len(v) /\ at \in Nat
    <3>1. at \in 1..Len(v)
      BY <2>1, IndexIs
    <3> HIDE DEF at, v
    <3> QED
      BY <1>2, <3>1
  <2> HIDE DEF at
  <2>4. e.byte \in Byte /\ Known(v, o, e.byte, n + 1)
    <3>1. <<"ext", at>> \in Byte
      BY <2>3, Bytes
    <3>2. Known(v, o, <<"ext", at>>, n + 1)
      BY <2>3 DEF Known
    <3> QED
      BY <2>2, <3>1, <3>2
  <2> QED
    BY <1>2, <1>3, <1>4, <2>2, <2>4, TaggedMore
<1>6. CASE sym \notin ToSet(v) /\ Len(v) < VocabCap
  <2> DEFINE w == Append(v, sym)
             x == [ext EXCEPT !.vocab = w]
  <2>1. e = [ext |-> x, byte |-> <<"ext", Len(v) + 1>>]
    BY <1>6 DEF EncodeTag
  <2>2. w \in Seq(1..symbols) /\ Len(w) = Len(v) + 1
    BY <1>2
  <2> HIDE DEF w, x
  <2>3. e.ext = x /\ e.byte = <<"ext", Len(w)>>
    BY <2>1, <2>2
  <2>4. DOMAIN x = ExtFields /\ x.vocab = w /\ x.overflow = o
    BY <1>2 DEF ExtFields, x
  <2> HIDE DEF v, o
  <2>5. Len(w) \in Nat /\ Len(v) <= Len(w) /\ Len(w) \in 1..Len(w)
    BY <1>2, <2>2
  <2>6. e.byte \in Byte /\ Known(w, o, e.byte, n + 1)
    <3>1. <<"ext", Len(w)>> \in Byte
      BY <2>5, Bytes
    <3>2. Known(w, o, <<"ext", Len(w)>>, n + 1)
      BY <2>5 DEF Known
    <3> QED
      BY <2>3, <3>1, <3>2
  <2>7. \A k \in 1..Len(o) : k \in 1..Len(o) /\ o[k] = o[k]
    OBVIOUS
  <2>8. ASSUME NEW i \in 1..n
        PROVE  Known(w, o, tags[i], i)
    BY <1>2, <1>3, <2>5, <2>7, KnownGrows
  <2> QED
    BY <1>4, <2>2, <2>3, <2>4, <2>6, <2>8, TaggedMore
<1>7. CASE sym \notin ToSet(v) /\ ~(Len(v) < VocabCap)
  <2> DEFINE q == <<n + 1, sym>>
             p == Append(o, q)
             x == [ext EXCEPT !.overflow = p]
  <2>1. e = [ext |-> x, byte |-> OverflowByte]
    BY <1>7 DEF EncodeTag
  <2>3. p = Append(o, <<n + 1, sym>>)
    OBVIOUS
  <2> HIDE DEF p, x
  <2>2. e.ext = x /\ e.byte = OverflowByte
    BY <2>1
  <2>4. DOMAIN x = ExtFields /\ x.vocab = v /\ x.overflow = p
    BY <1>2 DEF ExtFields, x
  <2> HIDE DEF v, o, n
  <2>14. Overflown(p, n + 1, symbols)
    BY <1>1, <1>3, <2>3, OverflownMore
  <2>15. Len(p) = Len(o) + 1 /\ Len(o) \in Nat
    BY <1>1, <1>3, <2>3, OverflownMore
  <2>5. Overflown(p, n + 1, symbols) /\ Len(p) = Len(o) + 1 /\ Len(o) \in Nat
    BY <2>14, <2>15
  <2>6. \A k \in 1..Len(o) : p[k] = o[k]
    BY <1>1, <1>3, <2>3, OverflownMore
  <2>7. p[Len(o) + 1] = <<n + 1, sym>>
    BY <1>1, <1>3, <2>3, OverflownMore
  <2>8. Len(o) + 1 \in 1..Len(p) /\ \A k \in 1..Len(o) : k \in 1..Len(p) /\ p[k] = o[k]
    BY <2>5, <2>6
  <2>9. p[Len(o) + 1][1] = n + 1
    BY <2>7
  <2>10. e.byte \in Byte /\ e.byte = OverflowByte
    BY <2>2, Bytes
  <2>11. Known(v, p, e.byte, n + 1)
    <3>1. e.byte[1] # "ext"
      BY <2>10 DEF OverflowByte
    <3> QED
      BY <2>8, <2>9, <2>10, <3>1 DEF Known
  <2>12. Len(v) <= Len(v)
    BY <1>2
  <2>13. ASSUME NEW i \in 1..n
         PROVE  Known(v, p, tags[i], i)
    BY <1>2, <1>3, <2>8, <2>12, KnownGrows
  <2> QED
    BY <1>2, <2>2, <2>4, <2>5, <2>10, <2>11, <2>13, TaggedMore DEF n
<1> QED
  BY <1>5, <1>6, <1>7

-----------------------------------------------------------------------------
(* The tree: links stay in the arena, and so do walks along them             *)
NodesIn(n) ==
  [tag : Byte, text : Seq(Nat), parent : 0..n, prev : 0..n, next : 0..n, first : 0..n, last : 0..n]

LEMMA NodesAre ==
  ASSUME NEW t
  PROVE  IsNodes(t) <=> t \in Seq(NodesIn(Len(t))) /\ t # <<>>
BY DEF IsNodes, NodesIn

LEMMA NodesWiden ==
  ASSUME NEW n \in Nat, NEW m \in Nat, n <= m, NEW t \in Seq(NodesIn(n))
  PROVE  t \in Seq(NodesIn(m))
<1> DEFINE N == NodesIn(n)
           M == NodesIn(m)
<1>1. N \in SUBSET M
  <2>1. 0..n \in SUBSET (0..m)
    OBVIOUS
  <2> DEFINE B == Byte
             Q == Seq(Nat)
             I == 0..n
             J == 0..m
  <2>2. N = [tag : B, text : Q, parent : I, prev : I, next : I, first : I, last : I]
    BY DEF NodesIn
  <2>3. M = [tag : B, text : Q, parent : J, prev : J, next : J, first : J, last : J]
    BY DEF NodesIn
  <2> HIDE DEF B, Q, I, J, N, M
  <2> QED
    BY <2>1, <2>2, <2>3 DEF I, J
<1> HIDE DEF N, M
<1> QED
  BY <1>1 DEF N, M

\* u is t with other links.
Relinked(t, u, n) ==
  /\ t \in Seq(NodesIn(n)) /\ u \in Seq(NodesIn(n)) /\ Len(u) = Len(t)
  /\ \A j \in 1..Len(t) : u[j].tag = t[j].tag

LEMMA RelinkedOn ==
  ASSUME NEW n, NEW t, NEW u, NEW v, Relinked(t, u, n), Relinked(u, v, n)
  PROVE  Relinked(t, v, n)
BY DEF Relinked

LEMMA LinkSet ==
  ASSUME NEW n \in Nat, NEW t \in Seq(NodesIn(n)), NEW i \in 0..Len(t), NEW link \in Links,
         NEW to \in 0..n
  PROVE  Relinked(t, Set(t, i, link, to), n)
<1>1. CASE i = 0
  BY <1>1 DEF Set, NoNode, Relinked
<1>2. CASE i # 0
  <2> DEFINE r == t[i]
             x == [r EXCEPT ![link] = to]
             N == NodesIn(n)
  <2>1. i \in 1..Len(t) /\ r \in N
    BY <1>2
  <2>2. x \in N /\ x.tag = r.tag
    BY <2>1 DEF NodesIn, Links
  <2>3. Set(t, i, link, to) = [t EXCEPT ![i] = x]
    BY <1>2 DEF Set, NoNode
  <2> HIDE DEF x, N
  <2> QED
    BY <2>1, <2>2, <2>3 DEF N, Relinked
<1> QED
  BY <1>1, <1>2

LEMMA ChildAdded ==
  ASSUME NEW t, IsNodes(t), NEW i \in 1..Len(t), NEW tag \in Byte, NEW text \in Seq(Nat)
  PROVE  /\ IsNodes(AddLastChild(t, i, tag, text)) /\ Len(AddLastChild(t, i, tag, text)) = Len(t) + 1
         /\ Tags(AddLastChild(t, i, tag, text)) = Append(Tags(t), tag)
<1> DEFINE n == Len(t)
           m == n + 1
           M == NodesIn(m)
           prev == t[i].last
           x == Node(tag, text, i, prev, NoNode)
           u == Append(t, x)
           v == IF prev = NoNode THEN Set(u, i, "first", m) ELSE Set(u, prev, "next", m)
           w == Set(v, i, "last", m)
<1>1. n \in Nat /\ t \in Seq(NodesIn(n)) /\ m \in Nat /\ i \in 1..n
  BY NodesAre
<1>2. t \in Seq(M)
  BY <1>1, NodesWiden
<1>3. prev \in 0..n
  <2>1. t[i] \in NodesIn(n)
    BY <1>1
  <2> QED
    BY <2>1 DEF NodesIn
<1>4. x \in M /\ x.tag = tag
  <2>1. i \in 0..m /\ prev \in 0..m /\ 0 \in 0..m
    BY <1>1, <1>3
  <2> HIDE DEF prev, m
  <2> QED
    BY <2>1 DEF Node, NoNode, NodesIn
<1> HIDE DEF x, M
<1>5. /\ u \in Seq(M) /\ Len(u) = m /\ \A j \in 1..n : u[j] = t[j]
      /\ u[m].tag = tag
  BY <1>1, <1>2, <1>4
<1>6. AddLastChild(t, i, tag, text) = w
  BY DEF AddLastChild, x
<1> HIDE DEF u
<1>7. i \in 0..Len(u) /\ prev \in 0..Len(u) /\ m \in 0..m
  BY <1>1, <1>3, <1>5
<1>8. "first" \in Links /\ "next" \in Links /\ "last" \in Links
  BY DEF Links
<1> HIDE DEF prev, m
<1>9. Relinked(u, v, m)
  <2>1. Relinked(u, Set(u, i, "first", m), m)
    BY <1>1, <1>5, <1>7, <1>8, LinkSet DEF M
  <2>2. Relinked(u, Set(u, prev, "next", m), m)
    BY <1>1, <1>5, <1>7, <1>8, LinkSet DEF M
  <2> QED
    BY <2>1, <2>2
<1> HIDE DEF v
<1>10. v \in Seq(M) /\ i \in 0..Len(v)
  BY <1>7, <1>9 DEF Relinked, M
<1>11. Relinked(v, w, m)
  BY <1>1, <1>7, <1>8, <1>10, LinkSet DEF M
<1> HIDE DEF w
<1>12. Relinked(u, w, m)
  BY <1>9, <1>11, RelinkedOn
<1>13. w \in Seq(M) /\ Len(w) = m
  BY <1>5, <1>12 DEF Relinked, M
<1>14. ASSUME NEW j \in 1..m
       PROVE  w[j].tag = u[j].tag
  BY <1>5, <1>12 DEF Relinked
<1>16. IsNodes(w)
  <2>1. w # <<>>
    BY <1>1, <1>13 DEF m
  <2> QED
    BY <1>13, <2>1, NodesAre DEF M
<1>17. Tags(w) = Append(Tags(t), tag)
  <2> DEFINE a == Tags(w)
             b == Append(Tags(t), tag)
  <2>1. a = [j \in 1..m |-> w[j].tag]
    BY <1>13 DEF Tags
  <2>2. Tags(t) = [j \in 1..n |-> t[j].tag]
    BY DEF Tags
  <2>3. \A j \in 1..n : t[j].tag \in Byte
    <3>1. \A j \in 1..n : t[j] \in NodesIn(n)
      BY <1>1
    <3> QED
      BY <3>1 DEF NodesIn
  <2> HIDE DEF n
  <2>4. Tags(t) \in Seq(Byte) /\ Len(Tags(t)) = n
    BY <1>1, <2>2, <2>3
  <2>5. b = [j \in 1..m |-> IF j = m THEN tag ELSE t[j].tag]
    BY <1>1, <2>2, <2>4 DEF m
  <2>6. ASSUME NEW j \in 1..m
        PROVE  w[j].tag = IF j = m THEN tag ELSE t[j].tag
    <3>1. j = m \/ j \in 1..n
      BY <1>1 DEF m
    <3>2. m \notin 1..n
      BY <1>1 DEF m
    <3> QED
      BY <1>5, <1>14, <3>1, <3>2
  <2> QED
    BY <2>1, <2>5, <2>6
<1> QED
  BY <1>6, <1>13, <1>16, <1>17 DEF m

LEMMA RelinkedNodes ==
  ASSUME NEW t, NEW u, IsNodes(t), Relinked(t, u, Len(t))
  PROVE  IsNodes(u) /\ Tags(u) = Tags(t) /\ Len(u) = Len(t)
<1>1. Len(t) \in Nat /\ t # <<>> /\ t \in Seq(NodesIn(Len(t)))
  BY NodesAre
<1>2. Len(u) = Len(t) /\ u \in Seq(NodesIn(Len(t))) /\ \A j \in 1..Len(t) : u[j].tag = t[j].tag
  BY DEF Relinked
<1>3. u # <<>>
  BY <1>1, <1>2
<1>4. IsNodes(u)
  BY <1>2, <1>3, NodesAre
<1>5. Tags(u) = Tags(t)
  BY <1>2 DEF Tags
<1> QED
  BY <1>2, <1>4, <1>5

LEMMA ChildrenDropped ==
  ASSUME NEW t, IsNodes(t), NEW i \in 1..Len(t)
  PROVE  /\ IsNodes(RemoveChildren(t, i)) /\ Tags(RemoveChildren(t, i)) = Tags(t)
         /\ Len(RemoveChildren(t, i)) = Len(t)
<1> DEFINE n == Len(t)
           N == NodesIn(n)
           r == t[i]
           x == [r EXCEPT !.first = NoNode, !.last = NoNode]
           u == RemoveChildren(t, i)
<1>1. n \in Nat /\ t \in Seq(N) /\ i \in 1..n
  BY NodesAre
<1>2. r \in N
  BY <1>1
<1>3. x \in N /\ x.tag = r.tag
  <2> DEFINE B == Byte
             Q == Seq(Nat)
             I == 0..n
  <2>1. N = [tag : B, text : Q, parent : I, prev : I, next : I, first : I, last : I]
    BY DEF NodesIn
  <2>2. NoNode \in I
    BY <1>1 DEF NoNode
  <2> HIDE DEF r, N, B, Q, I
  <2> QED
    BY <1>2, <2>1, <2>2
<1>4. u = [t EXCEPT ![i] = x]
  BY <1>1 DEF RemoveChildren
<1> HIDE DEF x, u, N
<1>5. Relinked(t, u, n)
  BY <1>1, <1>3, <1>4 DEF Relinked, N
<1> QED
  BY <1>5, RelinkedNodes DEF u

LEMMA ExtendStays ==
  ASSUME NEW n \in Nat, NEW so \in Seq(1..n), NEW next \in 0..n, NEW stop
  PROVE  Extend(so, next, stop) \in Seq(1..n)
<1>1. CASE next \in {NoNode, stop}
  BY <1>1 DEF Extend
<1>2. CASE next \notin {NoNode, stop}
  <2>1. next \in 1..n
    BY <1>2 DEF NoNode
  <2>2. Extend(so, next, stop) = Append(so, next)
    BY <1>2 DEF Extend
  <2> QED
    BY <2>1, <2>2
<1> QED
  BY <1>1, <1>2

\* A chain of links is one of nodes.
LEMMA ChainStays ==
  ASSUME NEW t, IsNodes(t), NEW i \in 0..Len(t), NEW link \in Links, NEW stop
  PROVE  ChainTo(t, i, link, stop) \in Seq(1..Len(t))
<1> DEFINE n == Len(t)
           S == Seq(1..n)
           next(so) == IF so = <<>> THEN i ELSE t[Last(so)][link]
           longer == [so \in S |-> Extend(so, next(so), stop)]
<1>1. n \in Nat /\ t \in Seq(NodesIn(n)) /\ <<>> \in S
  BY NodesAre
<1>2. ChainTo(t, i, link, stop) = Steps(longer, n)
  BY DEF ChainTo
<1>3. ASSUME NEW so \in S
      PROVE  next(so) \in 0..n
  <2>1. CASE so = <<>>
    BY <2>1
  <2>2. CASE so # <<>>
    <3>1. Last(so) \in 1..n
      BY <1>1, <2>2 DEF Last
    <3>2. t[Last(so)] \in NodesIn(n)
      BY <1>1, <3>1
    <3>3. t[Last(so)][link] \in 0..n
      BY <3>2 DEF NodesIn, Links
    <3> QED
      BY <2>2, <3>3
  <2> QED
    BY <2>1, <2>2
<1>4. ASSUME NEW so \in S
      PROVE  Extend(so, next(so), stop) \in S
  <2> HIDE DEF next
  <2> QED
    BY <1>1, <1>3, ExtendStays
<1>5. longer \in [S -> S]
  <2> HIDE DEF next, S
  <2> QED
    BY <1>4
<1> HIDE DEF longer, S
<1>6. Steps(longer, n) \in S
  BY <1>1, <1>5, StepsStay
<1> QED
  BY <1>2, <1>6 DEF S

LEMMA OnwardStays ==
  ASSUME NEW t, IsNodes(t), NEW up \in Seq(1..Len(t))
  PROVE  Onward(t, up) \in 0..Len(t)
<1> DEFINE n == Len(t)
           nexts == {k \in 1..Len(up) : t[up[k]].next # NoNode}
           m == Min(nexts)
<1>1. n \in Nat /\ t \in Seq(NodesIn(n)) /\ Len(up) \in Nat
  BY NodesAre
<1>2. Onward(t, up) = IF nexts = {} THEN NoNode ELSE t[up[m]].next
  BY DEF Onward
<1>3. CASE nexts = {}
  BY <1>1, <1>2, <1>3 DEF NoNode
<1>4. CASE nexts # {}
  <2>1. nexts \in SUBSET Nat /\ nexts \in SUBSET (1..Len(up))
    BY <1>1
  <2> HIDE DEF nexts
  <2>2. PICK k \in nexts : \A l \in nexts : k <= l
    BY <1>4, <2>1, Least
  <2>3. m \in nexts
    BY <2>2 DEF Min
  <2> HIDE DEF m
  <2>4. up[m] \in 1..n
    BY <2>1, <2>3
  <2>5. t[up[m]] \in NodesIn(n)
    BY <1>1, <2>4
  <2>6. t[up[m]].next \in 0..n
    BY <2>5 DEF NodesIn
  <2> QED
    BY <1>2, <1>4, <2>6
<1> QED
  BY <1>3, <1>4

LEMMA AfterStays ==
  ASSUME NEW t, IsNodes(t), NEW i \in 1..Len(t), NEW top
  PROVE  After(t, top, i) \in 0..Len(t)
<1> DEFINE n == Len(t)
           up == ChainTo(t, i, "parent", top)
<1>1. n \in Nat /\ t \in Seq(NodesIn(n)) /\ i \in 0..n
  BY NodesAre
<1>2. t[i] \in NodesIn(n)
  BY <1>1
<1>3. t[i].first \in 0..n
  BY <1>2 DEF NodesIn
<1>4. up \in Seq(1..n)
  BY <1>1, ChainStays DEF Links
<1> HIDE DEF up
<1>5. Onward(t, up) \in 0..n
  BY <1>4, OnwardStays
<1> QED
  BY <1>3, <1>5 DEF After, up

\* A walk of the tree is one of its nodes.
LEMMA WalkStays ==
  ASSUME NEW t, IsNodes(t), NEW i \in 1..Len(t), NEW top
  PROVE  WalkFrom(t, top, i) \in Seq(1..Len(t))
<1> DEFINE n == Len(t)
           S == Seq(1..n)
           at(so) == IF so = <<>> THEN i ELSE Last(so)
           longer == [so \in S |-> Extend(so, After(t, top, at(so)), NoNode)]
<1>1. n \in Nat /\ <<>> \in S
  BY NodesAre
<1>2. WalkFrom(t, top, i) = Steps(longer, n)
  BY DEF WalkFrom
<1>3. ASSUME NEW so \in S
      PROVE  at(so) \in 1..n
  <2>1. CASE so = <<>>
    BY <2>1
  <2>2. CASE so # <<>>
    BY <1>1, <2>2 DEF Last
  <2> QED
    BY <2>1, <2>2
<1> HIDE DEF at
<1>4. ASSUME NEW so \in S
      PROVE  Extend(so, After(t, top, at(so)), NoNode) \in S
  <2>1. After(t, top, at(so)) \in 0..n
    BY <1>3, AfterStays
  <2> QED
    BY <1>1, <2>1, ExtendStays
<1>5. longer \in [S -> S]
  <2> HIDE DEF S
  <2> QED
    BY <1>4
<1> HIDE DEF longer, S
<1>6. Steps(longer, n) \in S
  BY <1>1, <1>5, StepsStay
<1> QED
  BY <1>2, <1>6 DEF S

LEMMA LiveStays ==
  ASSUME NEW t, IsNodes(t)
  PROVE  /\ Descendants(t, Root) \in Seq(1..Len(t)) /\ Root \in 1..Len(t)
         /\ Live(t) \in SUBSET (1..Len(t))
<1>1. Len(t) \in Nat /\ Root \in 1..Len(t)
  <2>1. Len(t) \in Nat /\ t # <<>> /\ t \in Seq(NodesIn(Len(t)))
    BY NodesAre
  <2> QED
    BY <2>1 DEF Root
<1>2. Descendants(t, Root) \in Seq(1..Len(t))
  BY <1>1, WalkStays DEF Descendants
<1> QED
  BY <1>1, <1>2 DEF Live, ToSet

-----------------------------------------------------------------------------
(* Pairs of name and value                                                   *)
Pairs(symbols, values) ==
  {p \in (0..(MaxString + symbols + 1)) \X (1..values) : p[1] # NameBase}

LEMMA EntriesAre ==
  ASSUME NEW entries, NEW symbols, NEW values
  PROVE  IsEntries(entries, symbols, values) <=> entries \in Seq(Pairs(symbols, values)) /\ Distinct(entries)
<1> DEFINE Q == (0..(MaxString + symbols + 1)) \X (1..values)
           P == Pairs(symbols, values)
<1>1. P = {p \in Q : p[1] # NameBase}
  BY DEF Pairs
<1>2. IsEntries(entries, symbols, values) <=>
        entries \in Seq(Q) /\ Distinct(entries) /\ \A i \in 1..Len(entries) : entries[i][1] # NameBase
  BY DEF IsEntries
<1> HIDE DEF P, Q
<1>3. ASSUME entries \in Seq(P)
      PROVE  entries \in Seq(Q) /\ \A i \in 1..Len(entries) : entries[i][1] # NameBase
  <2>1. \A i \in 1..Len(entries) : entries[i] \in P
    BY <1>3
  <2> QED
    BY <1>1, <1>3, <2>1
<1>4. ASSUME entries \in Seq(Q), \A i \in 1..Len(entries) : entries[i][1] # NameBase
      PROVE  entries \in Seq(P)
  <2>1. \A i \in 1..Len(entries) : entries[i] \in P
    BY <1>1, <1>4
  <2> QED
    BY <1>4, <2>1
<1> QED
  BY <1>2, <1>3, <1>4 DEF P

LEMMA PairsWiden ==
  ASSUME NEW s \in Nat, NEW v \in Nat, NEW s2 \in Nat, NEW v2 \in Nat, s <= s2, v <= v2
  PROVE  Pairs(s, v) \in SUBSET Pairs(s2, v2)
<1>1. MaxString \in Nat
  BY StoreAssumption
<1>2. 0..(MaxString + s + 1) \in SUBSET (0..(MaxString + s2 + 1)) /\ 1..v \in SUBSET (1..v2)
  BY <1>1
<1> QED
  BY <1>2 DEF Pairs

LEMMA PairIs ==
  ASSUME NEW s \in Nat, NEW v \in Nat, v <= LocalCap, NEW p \in Pairs(s, v)
  PROVE  p = <<p[1], p[2]>> /\ p[1] \in Nat /\ p[2] \in Nat /\ p[2] \in 1..v /\ p[2] \in 1..LocalCap
         /\ p[1] # NameBase /\ p[1] <= MaxString + s + 1
<1>1. MaxString \in Nat /\ LocalCap \in Nat
  BY StoreAssumption
<1> QED
  BY <1>1 DEF Pairs

\* A key orders its pair by the name, then by the value.
LEMMA KeyRises ==
  ASSUME NEW a \in Nat, NEW b \in Nat, NEW v \in 1..LocalCap, NEW w \in 1..LocalCap
  PROVE  /\ PairKey(<<a, v>>) \in Nat
         /\ a < b => PairKey(<<a, v>>) < PairKey(<<b, w>>)
         /\ a = b => (v < w <=> PairKey(<<a, v>>) < PairKey(<<b, w>>))
<1> DEFINE c == LocalCap + 1
           x == a * c
           y == b * c
<1>1. LocalCap \in Nat /\ c \in Nat /\ v \in Nat /\ w \in Nat /\ v < c /\ w > 0
  BY StoreAssumption
<1>2. PairKey(<<a, v>>) = x + v /\ PairKey(<<b, w>>) = y + w
  BY DEF PairKey
<1> HIDE DEF c
<1>3. x \in Nat /\ y \in Nat
  BY <1>1
<1>4. ASSUME a < b
      PROVE  x + c <= y
  <2>1. PICK d \in Nat : b = a + 1 + d
    <3>1. b - a - 1 \in Nat /\ b = a + 1 + (b - a - 1)
      BY <1>4
    <3> QED
      BY <3>1
  <2>2. b * c = a * c + c + d * c
    BY <1>1, <2>1
  <2>3. d * c \in Nat
    BY <1>1, <2>1
  <2> DEFINE z == d * c
  <2>4. y = x + c + z /\ z \in Nat
    BY <2>2, <2>3
  <2> HIDE DEF x, y, z
  <2> QED
    BY <1>1, <1>3, <2>4
<1>5. a = b => x = y
  OBVIOUS
<1> HIDE DEF x, y
<1> QED
  BY <1>1, <1>2, <1>3, <1>4, <1>5

LEMMA KeysAre ==
  ASSUME NEW s \in Nat, NEW v \in Nat, v <= LocalCap, NEW entries \in Seq(Pairs(s, v))
  PROVE  /\ PairKeys(entries) \in Seq(Nat) /\ Len(PairKeys(entries)) = Len(entries)
         /\ Len(entries) \in Nat
         /\ \A i \in 1..Len(entries) : /\ entries[i] \in Pairs(s, v)
                                       /\ PairKeys(entries)[i] = PairKey(entries[i])
<1> DEFINE P == Pairs(s, v)
           n == Len(entries)
<1>1. n \in Nat /\ \A i \in 1..n : entries[i] \in P
  OBVIOUS
<1>2. ASSUME NEW i \in 1..n
      PROVE  PairKey(entries[i]) \in Nat
  <2> DEFINE p == entries[i]
  <2>1. p \in P
    BY <1>1
  <2> HIDE DEF p
  <2>2. p = <<p[1], p[2]>> /\ p[1] \in Nat /\ p[2] \in 1..LocalCap
    BY <2>1, PairIs
  <2>3. PairKey(<<p[1], p[2]>>) \in Nat
    BY <2>2, KeyRises
  <2> QED
    BY <2>2, <2>3 DEF p
<1>3. PairKeys(entries) = [i \in 1..n |-> PairKey(entries[i])]
  BY DEF PairKeys
<1> HIDE DEF n, P
<1> QED
  BY <1>1, <1>2, <1>3 DEF n, P

LEMMA KeysDiffer ==
  ASSUME NEW s \in Nat, NEW v \in Nat, v <= LocalCap, NEW p \in Pairs(s, v), NEW q \in Pairs(s, v)
  PROVE  /\ PairKey(p) = PairKey(q) => p = q
         /\ PairKey(p) < PairKey(q) <=> p[1] < q[1] \/ (p[1] = q[1] /\ p[2] < q[2])
<1>1. p = <<p[1], p[2]>> /\ p[1] \in Nat /\ p[2] \in Nat /\ p[2] \in 1..LocalCap
  BY PairIs
<1>2. q = <<q[1], q[2]>> /\ q[1] \in Nat /\ q[2] \in Nat /\ q[2] \in 1..LocalCap
  BY PairIs
<1> DEFINE a == p[1]
           b == q[1]
           x == p[2]
           y == q[2]
           k == PairKey(<<a, x>>)
           l == PairKey(<<b, y>>)
<1>3. p = <<a, x>> /\ q = <<b, y>> /\ PairKey(p) = k /\ PairKey(q) = l
  BY <1>1, <1>2
<1>4. k \in Nat /\ (a < b => k < l) /\ (a = b => (x < y <=> k < l))
  BY <1>1, <1>2, KeyRises
<1>5. l \in Nat /\ (b < a => l < k) /\ (b = a => (y < x <=> l < k))
  BY <1>1, <1>2, KeyRises
<1>6. a \in Nat /\ b \in Nat /\ x \in Nat /\ y \in Nat
  BY <1>1, <1>2
<1> HIDE DEF a, b, x, y, k, l
<1>7. k = l => a = b /\ x = y
  BY <1>4, <1>5, <1>6
<1>8. k < l <=> a < b \/ (a = b /\ x < y)
  BY <1>4, <1>5, <1>6
<1> QED
  BY <1>3, <1>7, <1>8 DEF a, b, x, y

\* Pairs told apart by their keys are told apart.
LEMMA KeysDistinct ==
  ASSUME NEW s \in Nat, NEW v \in Nat, v <= LocalCap, NEW entries \in Seq(Pairs(s, v))
  PROVE  Distinct(PairKeys(entries)) <=> Distinct(entries)
<1> DEFINE n == Len(entries)
           keys == PairKeys(entries)
<1>1. Len(keys) = n
  BY KeysAre
<1>2. \A i \in 1..n : entries[i] \in Pairs(s, v) /\ keys[i] = PairKey(entries[i])
  BY KeysAre
<1> HIDE DEF keys, n
<1>3. ASSUME NEW i \in 1..n, NEW j \in 1..n
      PROVE  keys[i] = keys[j] <=> entries[i] = entries[j]
  <2>1. PairKey(entries[i]) = PairKey(entries[j]) => entries[i] = entries[j]
    BY <1>2, KeysDiffer
  <2> QED
    BY <1>2, <2>1
<1> QED
  BY <1>1, <1>3 DEF Distinct, n, keys

-----------------------------------------------------------------------------
(* The attributes of a document                                              *)
AttrFields == {"entries", "sorted", "values"}

IsAttrs(a, symbols) ==
  /\ DOMAIN a = AttrFields /\ IsTable(a.values)
  /\ IsEntries(a.entries, symbols, Len(a.values.heap))
  /\ Sorts(a.sorted, PairKeys(a.entries))

LEMMA AttrsAre ==
  ASSUME NEW symbols, NEW a, IsAttrs(a, symbols)
  PROVE  /\ DOMAIN a = AttrFields /\ IsTable(a.values) /\ Sorts(a.sorted, PairKeys(a.entries))
         /\ Len(a.values.heap) \in Nat /\ Len(a.values.heap) <= LocalCap
         /\ a.entries \in Seq(Pairs(symbols, Len(a.values.heap))) /\ Len(a.entries) \in Nat
<1>1. IsHeap(a.values.heap) /\ IsTable(a.values)
  BY DEF IsAttrs, IsTable
<1>2. Len(a.values.heap) \in Nat /\ Len(a.values.heap) <= LocalCap
  BY <1>1 DEF IsHeap
<1> QED
  BY <1>1, <1>2, EntriesAre DEF IsAttrs

LEMMA AttrsAlike ==
  ASSUME NEW symbols \in Nat, NEW values \in Nat, values <= LocalCap, NEW a, DOMAIN a = AttrFields,
         IsTable(a.values), Len(a.values.heap) = values, a.entries \in Seq(Pairs(symbols, values)),
         Sorts(a.sorted, PairKeys(a.entries))
  PROVE  IsAttrs(a, symbols)
<1>1. Distinct(PairKeys(a.entries))
  <2> DEFINE k == PairKeys(a.entries)
  <2>1. \A i, j \in 1..Len(k) : k[i] = k[j] => i = j
    BY SortsDiffer
  <2> QED
    BY <2>1 DEF Distinct
<1>2. Distinct(a.entries)
  BY <1>1, KeysDistinct
<1> QED
  BY <1>2, EntriesAre DEF IsAttrs

LEMMA KeysListed ==
  ASSUME NEW symbols \in Nat, NEW a, IsAttrs(a, symbols)
  PROVE  EntryKeys(a) = Listing(a.sorted, PairKeys(a.entries))
<1>1. \A r \in 1..Len(a.sorted) : a.sorted[r] \in 1..Len(PairKeys(a.entries))
  BY ListingRises DEF IsAttrs
<1>2. Len(PairKeys(a.entries)) = Len(a.entries)
  BY AttrsAre, KeysAre
<1>3. \A i \in 1..Len(a.entries) : PairKeys(a.entries)[i] = PairKey(a.entries[i])
  BY AttrsAre, KeysAre
<1>4. \A r \in 1..Len(a.sorted) : PairKey(a.entries[a.sorted[r]]) = PairKeys(a.entries)[a.sorted[r]]
  BY <1>1, <1>2, <1>3
<1> QED
  BY <1>4 DEF EntryKeys, Listing

\* A pair is found at its id, and a pair that is not found is not there.
LEMMA EntryFinds ==
  ASSUME NEW symbols \in Nat, NEW a, IsAttrs(a, symbols)
  PROVE  /\ \A id \in 1..Len(a.entries) : FindEntry(a, a.entries[id]) = id
         /\ \A k \in Nat : Hit(EntryKeys(a), k) =>
              a.sorted[Bisect(EntryKeys(a), k)] \in 1..Len(a.entries)
<1> DEFINE keys == PairKeys(a.entries)
           l == Listing(a.sorted, keys)
<1>1. EntryKeys(a) = l /\ Sorts(a.sorted, keys)
  BY KeysListed, AttrsAre
<1>2. Len(keys) = Len(a.entries) /\ keys \in Seq(Nat)
  BY AttrsAre, KeysAre
<1>3. \A id \in 1..Len(a.entries) : keys[id] = PairKey(a.entries[id])
  BY AttrsAre, KeysAre
<1>4. l = Listing(a.sorted, keys)
  OBVIOUS
<1> HIDE DEF l, keys
<1>5. ASSUME NEW id \in 1..Len(a.entries)
      PROVE  FindEntry(a, a.entries[id]) = id
  <2> DEFINE k == keys[id]
             at == Bisect(l, k)
  <2>1. k \in Nat /\ id \in 1..Len(keys) /\ keys[id] = k
    BY <1>2
  <2>2. at = Bisect(Listing(a.sorted, keys), k)
    BY <1>4
  <2>3. k = PairKey(a.entries[id])
    BY <1>3
  <2> HIDE DEF k, at
  <2>4. Hit(l, k) /\ a.sorted[at] = id
    BY <1>1, <1>4, <2>1, <2>2, SortsFinds
  <2> QED
    BY <1>1, <2>3, <2>4 DEF FindEntry, at
<1>6. ASSUME NEW k \in Nat, Hit(EntryKeys(a), k)
      PROVE  a.sorted[Bisect(EntryKeys(a), k)] \in 1..Len(a.entries)
  <2> DEFINE at == Bisect(l, k)
  <2>1. at = Bisect(Listing(a.sorted, keys), k)
    BY <1>4
  <2>2. Hit(Listing(a.sorted, keys), k)
    BY <1>1, <1>4, <1>6
  <2> HIDE DEF at
  <2>3. a.sorted[at] \in 1..Len(keys)
    BY <1>1, <2>1, <2>2, SortsTrue
  <2> QED
    BY <1>1, <1>2, <2>3 DEF at
<1> QED
  BY <1>5, <1>6

LEMMA AppendIs ==
  ASSUME NEW S, NEW s \in Seq(S), NEW e \in S, NEW l, l = Len(s)
  PROVE  Append(s, e) = [i \in 1..(l + 1) |-> IF i = l + 1 THEN e ELSE s[i]]
<1> DEFINE x == Append(s, e)
<1>1. l \in Nat
  OBVIOUS
<1>2. x \in Seq(S) /\ Len(x) = l + 1 /\ x[l + 1] = e
  BY <1>1
<1>3. ASSUME NEW i \in 1..(l + 1), i # l + 1
      PROVE  x[i] = s[i]
  <2>1. i \in 1..l
    BY <1>1, <1>3
  <2> QED
    BY <2>1
<1> HIDE DEF x
<1>4. x = [i \in 1..(l + 1) |-> x[i]]
  BY <1>1, <1>2
<1>5. \A i \in 1..(l + 1) : x[i] = IF i = l + 1 THEN e ELSE s[i]
  BY <1>2, <1>3
<1> HIDE DEF x
<1>6. x = [i \in 1..(l + 1) |-> IF i = l + 1 THEN e ELSE s[i]]
  BY <1>4, <1>5
<1> QED
  BY <1>6 DEF x

\* A pair enters, and its value before it.
LEMMA EntryInserts ==
  ASSUME NEW symbols \in Nat, NEW a, IsAttrs(a, symbols),
         NEW name \in 0..(MaxString + symbols + 1), name # NameBase, NEW value \in Strings,
         ~TableIsFull(a.values, value), NEW r, r = EntryInsert(a, name, value)
  PROVE  /\ IsAttrs(r.attrs, symbols) /\ r.id \in 1..Len(r.attrs.entries)
         /\ Len(a.entries) <= Len(r.attrs.entries)
<1> DEFINE v == TableInsert(a.values, value)
           m == Len(a.values.heap)
           n == Len(v.table.heap)
           pair == <<name, v.id>>
           P == Pairs(symbols, n)
           e == a.entries
           keys == PairKeys(e)
           k == PairKey(pair)
           f == FindEntry(a, pair)
<1>1. /\ DOMAIN a = AttrFields /\ IsTable(a.values) /\ Sorts(a.sorted, keys)
      /\ m \in Nat /\ m <= LocalCap /\ e \in Seq(Pairs(symbols, m)) /\ Len(e) \in Nat
  BY AttrsAre
<1>2. IsTable(v.table) /\ v.id \in 1..n /\ m <= n
  BY <1>1, TableInserts
<1>3. n \in Nat /\ n <= LocalCap
  <2>1. IsHeap(v.table.heap)
    BY <1>2 DEF IsTable
  <2> QED
    BY <2>1 DEF IsHeap
<1> HIDE DEF v
<1>4. e \in Seq(P)
  <2> DEFINE Q == Pairs(symbols, m)
  <2>1. Q \in SUBSET P
    BY <1>1, <1>2, <1>3, PairsWiden, SMTT(30)
  <2>2. e \in Seq(Q)
    BY <1>1
  <2> HIDE DEF P, Q, e
  <2> QED
    BY <2>1, <2>2
<1>5. pair \in P
  BY <1>2 DEF Pairs
<1> HIDE DEF n
<1>6. k \in Nat
  <2>1. name \in Nat /\ v.id \in 1..LocalCap
    <3>1. MaxString \in Nat /\ LocalCap \in Nat
      BY StoreAssumption
    <3> QED
      BY <1>2, <1>3, <3>1
  <2> QED
    BY <2>1, KeyRises
<1>7. EntryKeys(a) = Listing(a.sorted, keys)
  BY KeysListed
<1>8. f = IF Hit(EntryKeys(a), k) THEN a.sorted[Bisect(EntryKeys(a), k)] ELSE None
  BY DEF FindEntry
<1>9. CASE f # None
  <2> DEFINE x == [a EXCEPT !.values = v.table]
  <2>1. Hit(EntryKeys(a), k) /\ f = a.sorted[Bisect(EntryKeys(a), k)]
    BY <1>8, <1>9
  <2>2. f \in 1..Len(e)
    BY <1>6, <2>1, EntryFinds
  <2>3. r = [attrs |-> x, id |-> f]
    BY <1>9 DEF EntryInsert, v
  <2>4. DOMAIN x = AttrFields /\ x.values = v.table /\ x.entries = e /\ x.sorted = a.sorted
    BY <1>1 DEF AttrFields
  <2> HIDE DEF x, f
  <2>5. r.attrs = x /\ r.id = f
    BY <2>3
  <2>6. Len(x.values.heap) = n
    BY <2>4 DEF n
  <2> HIDE DEF e, keys
  <2>7. IsAttrs(x, symbols)
    BY <1>1, <1>2, <1>3, <1>4, <2>4, <2>6, AttrsAlike DEF keys
  <2> QED
    BY <1>1, <2>2, <2>4, <2>5, <2>7 DEF e
<1>10. CASE f = None
  <2> DEFINE at == Bisect(EntryKeys(a), k)
             e2 == Append(e, pair)
             s2 == InsertAt(a.sorted, at, Len(e) + 1)
             x == [a EXCEPT !.values = v.table, !.entries = e2, !.sorted = s2]
  <2>1. ~Hit(EntryKeys(a), k)
    <3>1. ASSUME Hit(EntryKeys(a), k)
          PROVE  FALSE
      <4>1. f \in 1..Len(e)
        BY <1>6, <1>8, <3>1, EntryFinds
      <4> QED
        BY <1>10, <4>1 DEF None
    <3> QED
      BY <3>1
  <2>2. r = [attrs |-> x, id |-> Len(e) + 1]
    BY <1>10 DEF EntryInsert, v
  <2> HIDE DEF e2, s2
  <2>3. DOMAIN x = AttrFields /\ x.values = v.table /\ x.entries = e2 /\ x.sorted = s2
    BY <1>1 DEF AttrFields
  <2> HIDE DEF x
  <2>4. r.attrs = x /\ r.id = Len(e) + 1
    BY <2>2
  <2>5. e2 \in Seq(P) /\ Len(e2) = Len(e) + 1
    BY <1>4, <1>5 DEF e2
  <2>6. PairKeys(e2) = Append(keys, k)
    <3> DEFINE l == Len(e)
    <3>1. keys \in Seq(Nat) /\ Len(keys) = l
      BY <1>3, <1>4, KeysAre
    <3>2. \A i \in 1..l : keys[i] = PairKey(e[i])
      BY <1>3, <1>4, KeysAre
    <3>3. e2[l + 1] = pair /\ \A i \in 1..l : e2[i] = e[i]
      BY <1>4 DEF e2
    <3>4. PairKeys(e2) = [i \in 1..(l + 1) |-> PairKey(e2[i])]
      BY <2>5 DEF PairKeys
    <3>5. l \in Nat
      BY <1>1
    <3> HIDE DEF keys, k, l, e, pair, P
    <3>6. Append(keys, k) = [i \in 1..(l + 1) |-> IF i = l + 1 THEN k ELSE keys[i]]
      BY <1>6, <3>1, AppendIs
    <3>7. ASSUME NEW i \in 1..(l + 1)
          PROVE  PairKey(e2[i]) = IF i = l + 1 THEN k ELSE keys[i]
      <4>1. i = l + 1 \/ i \in 1..l
        BY <3>5
      <4>2. CASE i = l + 1
        BY <3>3, <4>2 DEF k
      <4>3. CASE i \in 1..l
        <5>1. i # l + 1
          BY <3>5, <4>3
        <5> QED
          BY <3>2, <3>3, <4>3, <5>1
      <4> QED
        BY <4>1, <4>2, <4>3
    <3> QED
      BY <3>4, <3>6, <3>7
  <2>7. Len(keys) = Len(e)
    BY <1>3, <1>4, KeysAre
  <2>8. Sorts(s2, PairKeys(e2))
    <3>1. Sorts(InsertAt(a.sorted, Bisect(Listing(a.sorted, keys), k), Len(keys) + 1), Append(keys, k))
      BY <1>1, <1>6, <1>7, <2>1, InsertSorts
    <3> QED
      BY <1>7, <2>6, <2>7, <3>1 DEF s2
  <2>9. Len(x.values.heap) = n
    BY <2>3 DEF n
  <2> HIDE DEF e, P
  <2>10. IsAttrs(x, symbols)
    BY <1>2, <1>3, <2>3, <2>5, <2>8, <2>9, AttrsAlike DEF P
  <2>11. Len(e) + 1 \in 1..Len(e2) /\ Len(e) <= Len(e2)
    BY <1>1, <2>5
  <2> QED
    BY <2>3, <2>4, <2>10, <2>11 DEF e
<1> QED
  BY <1>9, <1>10

LEMMA AttrsWiden ==
  ASSUME NEW s \in Nat, NEW s2 \in Nat, s <= s2, NEW a, IsAttrs(a, s)
  PROVE  IsAttrs(a, s2)
<1> DEFINE v == Len(a.values.heap)
           P == Pairs(s, v)
           Q == Pairs(s2, v)
           e == a.entries
<1>1. v \in Nat /\ e \in Seq(P)
  BY AttrsAre
<1>2. P \in SUBSET Q
  BY <1>1, PairsWiden
<1> HIDE DEF P, Q, e
<1>3. e \in Seq(Q)
  BY <1>1, <1>2
<1>4. Distinct(e)
  BY DEF IsAttrs, IsEntries, e
<1> QED
  BY <1>3, <1>4, EntriesAre DEF IsAttrs, Q, e

LEMMA TagsWiden ==
  ASSUME NEW s \in Nat, NEW s2 \in Nat, s <= s2, NEW ext, NEW tags, IsExtTags(ext, tags, s)
  PROVE  IsExtTags(ext, tags, s2)
<1> DEFINE S == 1..s
           T == 1..s2
           v == ext.vocab
           o == ext.overflow
           A == Nat \X S
           B == Nat \X T
<1>1. v \in Seq(S) /\ o \in Seq(A)
  BY DEF IsExtTags
<1>2. S \in SUBSET T
  OBVIOUS
<1> HIDE DEF S, T
<1>3. A \in SUBSET B
  BY <1>2
<1> HIDE DEF A, B
<1>4. v \in Seq(T) /\ o \in Seq(B)
  BY <1>1, <1>2, <1>3
<1> QED
  BY <1>4 DEF IsExtTags, T, B

-----------------------------------------------------------------------------
(* Where the runs of a node are                                              *)
SlotsIn(l, c) == [attr : 0..l, cls : 0..c]

LEMMA SlotsWiden ==
  ASSUME NEW l \in Nat, NEW c \in Nat, NEW l2 \in Nat, NEW c2 \in Nat, l <= l2, c <= c2,
         NEW slots \in Seq(SlotsIn(l, c))
  PROVE  slots \in Seq(SlotsIn(l2, c2))
<1> DEFINE S == SlotsIn(l, c)
           T == SlotsIn(l2, c2)
<1>1. S \in SUBSET T
  <2>1. 0..l \in SUBSET (0..l2) /\ 0..c \in SUBSET (0..c2)
    OBVIOUS
  <2> QED
    BY <2>1 DEF SlotsIn
<1> HIDE DEF S, T
<1> QED
  BY <1>1 DEF S, T

WithAttr(slots, i, u) == [slots EXCEPT ![i].attr = u]

LEMMA AttrSet ==
  ASSUME NEW l \in Nat, NEW c \in Nat, NEW slots \in Seq(SlotsIn(l, c)), NEW i \in 1..Len(slots),
         NEW u \in 0..l
  PROVE  WithAttr(slots, i, u) \in Seq(SlotsIn(l, c)) /\ Len(WithAttr(slots, i, u)) = Len(slots)
<1> DEFINE S == SlotsIn(l, c)
           r == slots[i]
           x == [r EXCEPT !.attr = u]
<1>1. r \in S
  OBVIOUS
<1>2. x \in S
  BY <1>1 DEF SlotsIn
<1>3. WithAttr(slots, i, u) = [slots EXCEPT ![i] = x]
  BY DEF WithAttr
<1> HIDE DEF x, S
<1> QED
  BY <1>2, <1>3 DEF S

WithClass(slots, i, u) == [slots EXCEPT ![i].cls = u]

LEMMA ClassSet ==
  ASSUME NEW l \in Nat, NEW c \in Nat, NEW slots \in Seq(SlotsIn(l, c)), NEW i \in 1..Len(slots),
         NEW u \in 0..c
  PROVE  WithClass(slots, i, u) \in Seq(SlotsIn(l, c)) /\ Len(WithClass(slots, i, u)) = Len(slots)
<1> DEFINE S == SlotsIn(l, c)
           r == slots[i]
           x == [r EXCEPT !.cls = u]
<1>1. r \in S
  OBVIOUS
<1>2. x \in S
  BY <1>1 DEF SlotsIn
<1>3. WithClass(slots, i, u) = [slots EXCEPT ![i] = x]
  BY DEF WithClass
<1> HIDE DEF x, S
<1> QED
  BY <1>2, <1>3 DEF S

-----------------------------------------------------------------------------
(* What a rebuild keeps                                                      *)

\* What a rebuild keeps of a table stays in order.
LEMMA CompactSorts ==
  ASSUME NEW sorted, NEW keys, Sorts(sorted, keys), NEW used \in SUBSET (1..Len(keys)),
         NEW new \in Seq(Nat), Len(new) = Cardinality(used),
         \A i, j \in used : keys[i] < keys[j] => new[Dense(used, i)] < new[Dense(used, j)]
  PROVE  Sorts(CompactOrder(sorted, used), new)
<1> DEFINE l == Len(sorted)
           P == {k \in 1..l : sorted[k] \in used}
           kept == InOrder(P)
           m == Cardinality(P)
           c == Cardinality(used)
           order == CompactOrder(sorted, used)
<1>1. /\ l \in Nat /\ Len(keys) \in Nat
      /\ \A r \in 1..l : sorted[r] \in 1..Len(keys)
      /\ \A r, q \in 1..l : r < q => keys[sorted[r]] < keys[sorted[q]]
      /\ \A id \in 1..Len(keys) : \E r \in 1..l : sorted[r] = id
  <2>1. \A r, q \in 1..l : r < q => keys[sorted[r]] < keys[sorted[q]]
    BY ListingRises
  <2>2. \A r \in 1..l : sorted[r] \in 1..Len(keys)
    BY ListingRises
  <2> QED
    BY <2>1, <2>2, ListingRises DEF Sorts
<1>2. used \in SUBSET Nat /\ IsFiniteSet(used) /\ P \in SUBSET Nat /\ IsFiniteSet(P)
  <2>1. IsFiniteSet(1..Len(keys)) /\ IsFiniteSet(1..l)
    BY <1>1, FS_Interval
  <2>2. P \in SUBSET (1..l)
    OBVIOUS
  <2> HIDE DEF P, l
  <2>3. IsFiniteSet(used) /\ IsFiniteSet(P)
    BY <2>1, <2>2, FS_Subset
  <2> QED
    BY <1>1, <2>2, <2>3
<1>3. \A id \in used : Dense(used, id) \in 1..c
  BY <1>2, DenseRises
<1>4. \A id \in P : id \in 1..l /\ sorted[id] \in used
  OBVIOUS
<1>5. \A id \in 1..l : sorted[id] \in used => id \in P
  OBVIOUS
<1>6. order = [j \in 1..Len(kept) |-> Dense(used, sorted[kept[j]])]
  BY DEF CompactOrder
<1> HIDE DEF P
<1>7. /\ Len(kept) = m /\ m \in Nat /\ \A j \in 1..m : kept[j] \in P
      /\ \A j, k \in 1..m : j < k => kept[j] < kept[k]
      /\ \A id \in P : Dense(P, id) \in 1..m /\ kept[Dense(P, id)] = id
  <2>1. \A j, k \in 1..m : j < k => kept[j] < kept[k]
    BY <1>2, InOrderRises
  <2>2. Len(kept) = m /\ \A j \in 1..m : kept[j] \in P
    BY <1>2, InOrderRises
  <2>3. \A id \in P : Dense(P, id) \in 1..m
    BY <1>2, DenseRises
  <2>4. \A id \in P : kept[Dense(P, id)] = id
    BY <1>2, InOrderRises
  <2> QED
    BY <1>2, <2>1, <2>2, <2>3, <2>4, DenseRises
<1> HIDE DEF kept, m, order, l
<1>8. \A j \in 1..m : order[j] = Dense(used, sorted[kept[j]])
  BY <1>6, <1>7
<1>9. order \in Seq(1..c) /\ Len(order) = m
  <2>1. \A j \in 1..m : Dense(used, sorted[kept[j]]) \in 1..c
    BY <1>3, <1>4, <1>7
  <2> HIDE DEF c
  <2> QED
    BY <1>6, <1>7, <2>1
<1>10. ASSUME NEW j \in 1..m, NEW k \in 1..m, j < k
       PROVE  new[order[j]] < new[order[k]]
  <2>1. kept[j] < kept[k] /\ kept[j] \in P /\ kept[k] \in P
    BY <1>7, <1>10
  <2>2. keys[sorted[kept[j]]] < keys[sorted[kept[k]]] /\ sorted[kept[j]] \in used /\ sorted[kept[k]] \in used
    BY <1>1, <1>4, <2>1
  <2> QED
    BY <1>8, <2>2
<1>11. Rises(Listing(order, new))
  <2>1. Len(Listing(order, new)) = m /\ \A j \in 1..m : Listing(order, new)[j] = new[order[j]]
    BY <1>7, <1>9 DEF Listing
  <2> QED
    BY <1>10, <2>1 DEF Rises
<1>12. ASSUME NEW n \in 1..c
       PROVE  \E j \in 1..m : order[j] = n
  <2>1. PICK id \in used : Dense(used, id) = n
    BY <1>2, DenseOnto
  <2>2. PICK r \in 1..l : sorted[r] = id
    BY <1>1
  <2>3. r \in P
    BY <1>5, <2>2
  <2> DEFINE j == Dense(P, r)
  <2>4. j \in 1..m /\ kept[j] = r
    BY <1>7, <2>3
  <2> HIDE DEF j
  <2>5. order[j] = n
    BY <1>8, <2>1, <2>2, <2>4
  <2> QED
    BY <2>4, <2>5
<1> QED
  BY <1>9, <1>11, <1>12 DEF Sorts, order

\* What a rebuild keeps of a table.
LEMMA TableCompacts ==
  ASSUME NEW t, IsTable(t), NEW used \in SUBSET (1..Len(t.heap))
  PROVE  IsTable(CompactTable(t, used)) /\ Len(CompactTable(t, used).heap) = Cardinality(used)
<1> DEFINE h == t.heap
           c == Cardinality(used)
           at == InOrder(used)
           new == [k \in 1..c |-> h[at[k]]]
           order == CompactOrder(t.sorted, used)
<1>1. CompactTable(t, used) = [heap |-> new, sorted |-> order]
  BY DEF CompactTable
<1>2. IsHeap(h) /\ Sorts(t.sorted, h) /\ Distinct(h) /\ LocalCap \in Nat
      /\ Len(h) \in Nat /\ Len(h) <= LocalCap
      /\ \A id \in 1..Len(h) : h[id] \in Strings /\ h[id] \in Nat
  <2>1. IsHeap(h) /\ Sorts(t.sorted, h) /\ Len(h) <= LocalCap
    BY DEF IsTable, IsHeap
  <2> HIDE DEF h
  <2>2. Distinct(h) /\ Len(h) \in Nat /\ LocalCap \in Nat
    BY <2>1, HeapKeys, StoreAssumption
  <2>3. \A id \in 1..Len(h) : h[id] \in Strings /\ h[id] \in Nat
    BY <2>1, HeapKeys
  <2> QED
    BY <2>1, <2>2, <2>3
<1>3. used \in SUBSET Nat /\ IsFiniteSet(used) /\ c <= Len(h)
  <2> DEFINE n == Len(h)
  <2>1. n \in Nat
    BY <1>2
  <2> HIDE DEF h, n
  <2>2. IsFiniteSet(1..n) /\ Cardinality(1..n) = n
    BY <2>1, FS_Interval
  <2>3. used \in SUBSET (1..n)
    BY DEF n, h
  <2>4. IsFiniteSet(used) /\ c <= n
    BY <2>2, <2>3, FS_Subset
  <2> QED
    BY <2>1, <2>3, <2>4 DEF n
<1>4. /\ c \in Nat /\ \A id \in used : Dense(used, id) \in 1..c /\ at[Dense(used, id)] = id
      /\ \A k \in 1..c : at[k] \in used /\ at[k] \in 1..Len(h) /\ Dense(used, at[k]) = k
  <2>1. c \in Nat /\ \A id \in used : Dense(used, id) \in 1..c
    BY <1>3, DenseRises
  <2>2. \A id \in used : at[Dense(used, id)] = id
    BY <1>3, InOrderRises
  <2>3. \A k \in 1..c : at[k] \in used /\ Dense(used, at[k]) = k
    BY <1>3, InOrderRises
  <2> QED
    BY <2>1, <2>2, <2>3
<1> HIDE DEF at, c
<1>5. /\ new \in Seq(Strings) /\ Len(new) = c /\ new \in Seq(Nat)
      /\ \A k \in 1..c : new[k] = h[at[k]]
  <2>1. \A k \in 1..c : h[at[k]] \in Strings /\ h[at[k]] \in Nat
    BY <1>2, <1>4
  <2> HIDE DEF h
  <2> QED
    BY <1>4, <2>1
<1> HIDE DEF new
<1>6. Distinct(new)
  <2>1. ASSUME NEW i \in 1..c, NEW j \in 1..c, new[i] = new[j]
        PROVE  i = j
    <3>1. h[at[i]] = h[at[j]]
      BY <1>5, <2>1
    <3>2. at[i] = at[j]
      BY <1>2, <1>4, <3>1 DEF Distinct
    <3> QED
      BY <1>4, <3>2
  <2> QED
    BY <1>5, <2>1 DEF Distinct
<1>7. IsHeap(new)
  BY <1>2, <1>3, <1>4, <1>5, <1>6 DEF IsHeap
<1>8. \A i, j \in used : h[i] < h[j] => new[Dense(used, i)] < new[Dense(used, j)]
  BY <1>4, <1>5
<1>9. Sorts(order, new)
  BY <1>2, <1>5, <1>8, CompactSorts DEF c
<1> HIDE DEF order
<1> QED
  BY <1>1, <1>5, <1>7, <1>9 DEF IsTable, c

-----------------------------------------------------------------------------
(* The inductive invariant: a document in which no id points nowhere and     *)
(* every table is in the order its searches need.                            *)
DocFields == {"nodes", "slots", "symbols", "attrs", "lists", "classes", "ext", "wide"}

Sound(d) ==
  /\ DOMAIN d = DocFields
  /\ IsTable(d.symbols) /\ IsAttrs(d.attrs, Len(d.symbols.heap))
  /\ IsRuns(d.lists, Len(d.attrs.entries)) /\ IsRuns(d.classes, Len(d.symbols.heap))
  /\ IsNodes(d.nodes) /\ IsSlots(d.slots, Len(d.nodes), Len(d.lists), Len(d.classes))
  /\ IsExtTags(d.ext, Tags(d.nodes), Len(d.symbols.heap))

LEMMA RunsAre ==
  ASSUME NEW arena, NEW ids, IsRuns(arena, ids)
  PROVE  Len(arena) \in Nat
BY DEF IsRuns

LEMMA TablesAre ==
  ASSUME NEW t, IsTable(t)
  PROVE  Len(t.heap) \in Nat /\ Len(t.heap) <= LocalCap
         /\ \A id \in 1..Len(t.heap) : t.heap[id] \in Nat
<1>1. IsHeap(t.heap)
  BY DEF IsTable
<1>2. \A id \in 1..Len(t.heap) : t.heap[id] \in Nat
  BY <1>1, HeapKeys
<1> QED
  BY <1>1, <1>2 DEF IsHeap

\* What the invariant is for.
LEMMA SoundFinds ==
  ASSUME NEW d, Sound(d)
  PROVE  /\ \A t \in {d.symbols, d.attrs.values} : \A id \in 1..Len(t.heap) : Find(t, t.heap[id]) = id
         /\ \A id \in 1..Len(d.attrs.entries) : FindEntry(d.attrs, d.attrs.entries[id]) = id
<1>1. ASSUME NEW t, IsTable(t), NEW id \in 1..Len(t.heap)
      PROVE  Find(t, t.heap[id]) = id
  <2>1. t.heap[id] \in Nat
    BY <1>1, TablesAre
  <2> DEFINE s == t.heap[id]
  <2>2. s \in Nat /\ t.heap[id] = s
    BY <2>1
  <2> HIDE DEF s
  <2>3. \A j \in 1..Len(t.heap) : t.heap[j] = s => Find(t, s) = j
    BY <1>1, <2>2, TableFinds
  <2> QED
    BY <2>2, <2>3
<1>2. IsTable(d.symbols) /\ IsTable(d.attrs.values) /\ IsAttrs(d.attrs, Len(d.symbols.heap))
  BY DEF Sound, IsAttrs
<1>3. Len(d.symbols.heap) \in Nat
  BY <1>2, TablesAre
<1>4. \A id \in 1..Len(d.attrs.entries) : FindEntry(d.attrs, d.attrs.entries[id]) = id
  BY <1>2, <1>3, EntryFinds
<1> QED
  BY <1>1, <1>2, <1>4

-----------------------------------------------------------------------------
(* Live edits                                                                *)
LEMMA RunWithIs ==
  ASSUME NEW ids \in Nat, NEW arena, IsRuns(arena, ids), NEW start \in 0..Len(arena), NEW id \in 1..ids,
         NEW r, r = RunWith(arena, start, id)
  PROVE  /\ IsRuns(r.arena, ids) /\ Len(arena) \in Nat /\ Len(r.arena) \in Nat
         /\ Len(arena) <= Len(r.arena) /\ r.start \in 0..Len(r.arena)
<1>1. Len(arena) \in Nat /\ arena \in Seq((1..ids) \union {Terminator})
  BY DEF IsRuns
<1>2. CASE start = 0
  <2> DEFINE u == arena \o <<id, Terminator>>
             n == Len(arena)
  <2>1. r = [arena |-> u, start |-> n + 1]
    BY <1>2 DEF RunWith, NewRun, NewRunStart, None
  <2>2. IsRuns(u, ids) /\ Len(u) = n + 2
    BY <1>1, EndedRun
  <2>3. n \in Nat
    BY <1>1
  <2> HIDE DEF u, n
  <2>4. r.arena = u /\ r.start = n + 1 /\ Len(u) \in Nat /\ n <= Len(u) /\ n + 1 \in 0..Len(u)
    BY <2>1, <2>2, <2>3
  <2> QED
    BY <1>1, <2>2, <2>4 DEF n
<1>3. CASE start # 0
  <2>1. start \in 1..Len(arena) /\ r = AppendRun(arena, start, id)
    BY <1>1, <1>3 DEF RunWith, None
  <2>2. IsRuns(r.arena, ids) /\ Len(arena) \in Nat /\ Len(r.arena) \in Nat
        /\ Len(arena) <= Len(r.arena) /\ r.start \in 1..Len(r.arena)
    BY <2>1, AppendedRun
  <2> QED
    BY <2>2
<1> QED
  BY <1>2, <1>3

Names == {"std", "ext"} \X Strings

LEMMA NameInserts ==
  ASSUME NEW d, Sound(d), NEW name \in Names, name[1] = "ext" => ~TableIsFull(d.symbols, name[2]),
         NEW t, t = NameTable(d, name), NEW sym, sym = NameSymbol(d, name)
  PROVE  /\ IsTable(t) /\ Len(d.symbols.heap) <= Len(t.heap)
         /\ sym \in 0..(MaxString + Len(t.heap) + 1) /\ sym # NameBase
<1>1. IsTable(d.symbols) /\ MaxString \in Nat
  BY StoreAssumption DEF Sound
<1>2. Len(d.symbols.heap) \in Nat
  BY <1>1, TablesAre
<1>3. name[1] \in {"std", "ext"} /\ name[2] \in Strings /\ name[2] \in 0..MaxString
  BY DEF Names, Strings
<1>4. CASE name[1] = "std"
  <2>1. t = d.symbols /\ sym = name[2]
    BY <1>4 DEF NameTable, NameSymbol
  <2> QED
    BY <1>1, <1>2, <1>3, <2>1 DEF NameBase
<1>5. CASE name[1] = "ext"
  <2> DEFINE v == TableInsert(d.symbols, name[2])
  <2>1. t = v.table /\ sym = v.id + NameBase
    BY <1>5 DEF NameTable, NameSymbol
  <2>2. IsTable(v.table) /\ v.id \in 1..Len(v.table.heap) /\ Len(d.symbols.heap) <= Len(v.table.heap)
    BY <1>1, <1>3, <1>5, TableInserts
  <2>3. Len(v.table.heap) \in Nat
    BY <2>2, TablesAre
  <2> DEFINE id == v.id
             n == Len(v.table.heap)
  <2>4. id \in 1..n /\ n \in Nat /\ t = v.table /\ sym = id + MaxString + 1 /\ NameBase = MaxString + 1
    BY <1>1, <2>1, <2>2, <2>3 DEF NameBase
  <2> HIDE DEF id, v
  <2>5. id + MaxString + 1 \in 0..(MaxString + n + 1) /\ id + MaxString + 1 # MaxString + 1
    BY <1>1, <2>4
  <2> QED
    BY <2>2, <2>4, <2>5
<1> QED
  BY <1>3, <1>4, <1>5

LEMMA EntryAppended ==
  ASSUME NEW d, Sound(d), NEW i \in 1..Len(d.nodes), NEW name \in Names, NEW value \in Strings,
         name[1] = "ext" => ~TableIsFull(d.symbols, name[2]), ~TableIsFull(d.attrs.values, value),
         NEW e, e = EntryInsert(d.attrs, NameSymbol(d, name), value)
  PROVE  Sound(AppendEntry(d, i, e, NameTable(d, name)))
<1> DEFINE t == NameTable(d, name)
           sym == NameSymbol(d, name)
           m == Len(d.symbols.heap)
           m2 == Len(t.heap)
           n == Len(d.attrs.entries)
           n2 == Len(e.attrs.entries)
           l == Len(d.lists)
           c == Len(d.classes)
           start == d.slots[i].attr
           r == RunWith(d.lists, start, e.id)
           l2 == Len(r.arena)
           slots == WithAttr(d.slots, i, r.start)
           x == AppendEntry(d, i, e, t)
<1>1. IsTable(t) /\ m <= m2 /\ sym \in 0..(MaxString + m2 + 1) /\ sym # NameBase
  BY NameInserts
<1>2. m \in Nat /\ m2 \in Nat /\ l \in Nat /\ c \in Nat /\ n \in Nat
  <2>1. IsTable(d.symbols) /\ IsAttrs(d.attrs, m)
    BY DEF Sound
  <2>2. l \in Nat /\ c \in Nat
    BY RunsAre DEF Sound
  <2> QED
    BY <1>1, <2>1, <2>2, TablesAre, AttrsAre
<1>3. IsAttrs(d.attrs, m2)
  BY <1>1, <1>2, AttrsWiden DEF Sound
<1> HIDE DEF t, sym
<1>4. e = EntryInsert(d.attrs, sym, value)
  BY DEF sym
<1>5. IsAttrs(e.attrs, m2) /\ e.id \in 1..n2 /\ n <= n2
  BY <1>1, <1>2, <1>3, <1>4, EntryInserts
<1>6. n2 \in Nat
  BY <1>2, <1>5, AttrsAre
<1>7. IsRuns(d.lists, n2)
  BY <1>2, <1>5, <1>6, RunsWiden DEF Sound
<1>8. d.slots \in Seq(SlotsIn(l, c)) /\ Len(d.slots) = Len(d.nodes)
  BY DEF Sound, IsSlots, SlotsIn
<1>9. start \in 0..l /\ i \in 1..Len(d.slots)
  <2>1. d.slots[i] \in SlotsIn(l, c)
    BY <1>8
  <2> QED
    BY <1>8, <2>1 DEF SlotsIn
<1> HIDE DEF start, r, n2, m2
<1>10. IsRuns(r.arena, n2) /\ l2 \in Nat /\ l <= l2 /\ r.start \in 0..l2
  BY <1>5, <1>6, <1>7, <1>9, RunWithIs DEF r
<1> HIDE DEF l, l2, c
<1>11. slots \in Seq(SlotsIn(l2, c)) /\ Len(slots) = Len(d.nodes)
  <2>1. d.slots \in Seq(SlotsIn(l2, c))
    BY <1>2, <1>8, <1>10, SlotsWiden
  <2> QED
    BY <1>2, <1>8, <1>9, <1>10, <2>1, AttrSet
<1>12. /\ DOMAIN x = DocFields /\ x.symbols = t /\ x.attrs = e.attrs /\ x.lists = r.arena
       /\ x.slots = slots /\ x.nodes = d.nodes /\ x.classes = d.classes /\ x.ext = d.ext
  <2>1. DOMAIN d = DocFields
    BY DEF Sound
  <2>2. x = [d EXCEPT !.symbols = t, !.attrs = e.attrs, !.lists = r.arena, !.slots[i].attr = r.start]
    BY DEF AppendEntry, r, start
  <2> HIDE DEF x
  <2> QED
    BY <2>1, <2>2 DEF DocFields, WithAttr
<1> HIDE DEF x, slots
<1>13. IsRuns(d.classes, m2)
  BY <1>1, <1>2, RunsWiden DEF Sound, m2
<1>14. IsExtTags(d.ext, Tags(d.nodes), m2)
  BY <1>1, <1>2, TagsWiden DEF Sound, m2
<1>15. IsNodes(d.nodes)
  BY DEF Sound
<1>16. IsSlots(slots, Len(d.nodes), l2, c)
  BY <1>11 DEF IsSlots, SlotsIn
<1> QED
  BY <1>1, <1>5, <1>10, <1>12, <1>13, <1>14, <1>15, <1>16 DEF Sound, x, m2, n2, l2, c, t

\* What a document says of its slots and the lengths of its stores.
LEMMA SoundIs ==
  ASSUME NEW d, Sound(d)
  PROVE  /\ Len(d.symbols.heap) \in Nat /\ Len(d.attrs.entries) \in Nat
         /\ Len(d.lists) \in Nat /\ Len(d.classes) \in Nat /\ Len(d.nodes) \in Nat
         /\ d.slots \in Seq(SlotsIn(Len(d.lists), Len(d.classes))) /\ Len(d.slots) = Len(d.nodes)
         /\ \A i \in 1..Len(d.nodes) : /\ d.slots[i].attr \in 0..Len(d.lists)
                                       /\ d.slots[i].cls \in 0..Len(d.classes)
<1> DEFINE l == Len(d.lists)
           c == Len(d.classes)
           S == SlotsIn(l, c)
<1>1. Len(d.symbols.heap) \in Nat /\ Len(d.attrs.entries) \in Nat
  <2>1. IsTable(d.symbols) /\ IsAttrs(d.attrs, Len(d.symbols.heap))
    BY DEF Sound
  <2> QED
    BY <2>1, TablesAre, AttrsAre
<1>2. l \in Nat /\ c \in Nat
  BY RunsAre DEF Sound
<1>3. Len(d.nodes) \in Nat
  BY NodesAre DEF Sound
<1>4. d.slots \in Seq(S) /\ Len(d.slots) = Len(d.nodes)
  BY DEF Sound, IsSlots, SlotsIn
<1>5. ASSUME NEW i \in 1..Len(d.nodes)
      PROVE  d.slots[i].attr \in 0..l /\ d.slots[i].cls \in 0..c
  <2>1. d.slots[i] \in S
    BY <1>4
  <2> QED
    BY <2>1 DEF SlotsIn
<1> QED
  BY <1>1, <1>2, <1>3, <1>4, <1>5

LEMMA ClassAppended ==
  ASSUME NEW d, Sound(d), NEW i \in 1..Len(d.nodes), NEW c \in Strings,
         ~TableIsFull(d.symbols, c), NEW s, s = TableInsert(d.symbols, c)
  PROVE  Sound(AppendClassSymbol(d, i, s))
<1> DEFINE t == s.table
           m == Len(d.symbols.heap)
           m2 == Len(t.heap)
           l == Len(d.lists)
           k == Len(d.classes)
           start == d.slots[i].cls
           r == RunWith(d.classes, start, s.id)
           k2 == Len(r.arena)
           slots == WithClass(d.slots, i, r.start)
           x == AppendClassSymbol(d, i, s)
<1>1. IsTable(t) /\ s.id \in 1..m2 /\ m <= m2
  BY TableInserts DEF Sound
<1>2. m \in Nat /\ m2 \in Nat /\ l \in Nat /\ k \in Nat
  BY <1>1, SoundIs, TablesAre
<1>3. IsAttrs(d.attrs, m2)
  BY <1>1, <1>2, AttrsWiden DEF Sound
<1>4. IsRuns(d.classes, m2)
  BY <1>1, <1>2, RunsWiden DEF Sound
<1>5. d.slots \in Seq(SlotsIn(l, k)) /\ Len(d.slots) = Len(d.nodes) /\ start \in 0..k /\ i \in 1..Len(d.slots)
  BY SoundIs
<1> HIDE DEF start, r, m2, t
<1>6. IsRuns(r.arena, m2) /\ k2 \in Nat /\ k <= k2 /\ r.start \in 0..k2
  BY <1>1, <1>2, <1>4, <1>5, RunWithIs DEF r
<1> HIDE DEF l, k, k2
<1>7. slots \in Seq(SlotsIn(l, k2)) /\ Len(slots) = Len(d.nodes)
  <2>1. d.slots \in Seq(SlotsIn(l, k2))
    BY <1>2, <1>5, <1>6, SlotsWiden
  <2> QED
    BY <1>2, <1>5, <1>6, <2>1, ClassSet
<1>8. /\ DOMAIN x = DocFields /\ x.symbols = t /\ x.attrs = d.attrs /\ x.lists = d.lists
      /\ x.slots = slots /\ x.nodes = d.nodes /\ x.classes = r.arena /\ x.ext = d.ext
  <2>1. DOMAIN d = DocFields
    BY DEF Sound
  <2>2. x = [d EXCEPT !.symbols = t, !.classes = r.arena, !.slots[i].cls = r.start]
    BY DEF AppendClassSymbol, r, start, t
  <2> HIDE DEF x
  <2> QED
    BY <2>1, <2>2 DEF DocFields, WithClass
<1> HIDE DEF x, slots
<1>9. IsExtTags(d.ext, Tags(d.nodes), m2)
  BY <1>1, <1>2, TagsWiden DEF Sound, m2
<1>10. IsNodes(d.nodes) /\ IsRuns(d.lists, Len(d.attrs.entries))
  BY DEF Sound
<1>11. IsSlots(slots, Len(d.nodes), l, k2)
  BY <1>7 DEF IsSlots, SlotsIn
<1> QED
  BY <1>1, <1>3, <1>6, <1>8, <1>9, <1>10, <1>11 DEF Sound, x, m2, l, k2

LEMMA IdsRemoved ==
  ASSUME NEW ids \in Nat, NEW arena, IsRuns(arena, ids), NEW start \in 0..Len(arena), NEW doomed,
         NEW new, new = RemoveIds(arena, start, doomed)
  PROVE  IsRuns(new, ids) /\ Len(new) = Len(arena) /\ Kept(new, start) \in 0..Len(new)
<1>1. Len(arena) \in Nat
  BY RunsAre
<1>2. IsRuns(new, ids) /\ Len(new) = Len(arena)
  <2>1. CASE start = 0
    BY <2>1 DEF RemoveIds, None
  <2>2. CASE start # 0
    <3>1. start \in 1..Len(arena) /\ new = RemoveFromRun(arena, start, doomed)
      BY <1>1, <2>2 DEF RemoveIds, None
    <3> QED
      BY <3>1, ShortenedRun
  <2> QED
    BY <2>1, <2>2
<1>3. Kept(new, start) \in {0, start}
  BY DEF Kept, None
<1> QED
  BY <1>1, <1>2, <1>3

LEMMA AttributesRemoved ==
  ASSUME NEW d, Sound(d), NEW i \in 1..Len(d.nodes), NEW doomed,
         NEW lists, lists = RemoveIds(d.lists, d.slots[i].attr, doomed)
  PROVE  Sound([d EXCEPT !.lists = lists, !.slots[i].attr = Kept(lists, d.slots[i].attr)])
<1> DEFINE l == Len(d.lists)
           k == Len(d.classes)
           n == Len(d.attrs.entries)
           start == d.slots[i].attr
           to == Kept(lists, start)
           slots == WithAttr(d.slots, i, to)
           x == [d EXCEPT !.lists = lists, !.slots[i].attr = to]
<1>1. /\ l \in Nat /\ k \in Nat /\ n \in Nat /\ start \in 0..l
      /\ d.slots \in Seq(SlotsIn(l, k)) /\ Len(d.slots) = Len(d.nodes) /\ i \in 1..Len(d.slots)
  BY SoundIs
<1>2. IsRuns(lists, n) /\ Len(lists) = l /\ to \in 0..l
  <2>1. IsRuns(d.lists, n)
    BY DEF Sound
  <2> QED
    BY <1>1, <2>1, IdsRemoved, SMTT(30)
<1> HIDE DEF to
<1>3. slots \in Seq(SlotsIn(l, k)) /\ Len(slots) = Len(d.nodes)
  BY <1>1, <1>2, AttrSet
<1>4. /\ DOMAIN x = DocFields /\ x.symbols = d.symbols /\ x.attrs = d.attrs /\ x.lists = lists
      /\ x.slots = slots /\ x.nodes = d.nodes /\ x.classes = d.classes /\ x.ext = d.ext
  <2>1. DOMAIN d = DocFields
    BY DEF Sound
  <2> QED
    BY <2>1 DEF DocFields, WithAttr
<1> HIDE DEF x, slots
<1>5. IsSlots(slots, Len(d.nodes), Len(lists), k)
  BY <1>2, <1>3 DEF IsSlots, SlotsIn
<1>6. Sound(x)
  BY <1>2, <1>4, <1>5 DEF Sound
<1> QED
  BY <1>6 DEF x, to

LEMMA ClassesRemoved ==
  ASSUME NEW d, Sound(d), NEW i \in 1..Len(d.nodes), NEW doomed,
         NEW classes, classes = RemoveIds(d.classes, d.slots[i].cls, doomed)
  PROVE  Sound([d EXCEPT !.classes = classes, !.slots[i].cls = Kept(classes, d.slots[i].cls)])
<1> DEFINE l == Len(d.lists)
           k == Len(d.classes)
           m == Len(d.symbols.heap)
           start == d.slots[i].cls
           to == Kept(classes, start)
           slots == WithClass(d.slots, i, to)
           x == [d EXCEPT !.classes = classes, !.slots[i].cls = to]
<1>1. /\ l \in Nat /\ k \in Nat /\ m \in Nat /\ start \in 0..k
      /\ d.slots \in Seq(SlotsIn(l, k)) /\ Len(d.slots) = Len(d.nodes) /\ i \in 1..Len(d.slots)
  BY SoundIs
<1>2. IsRuns(classes, m) /\ Len(classes) = k /\ to \in 0..k
  <2>1. IsRuns(d.classes, m)
    BY DEF Sound
  <2> QED
    BY <1>1, <2>1, IdsRemoved, SMTT(30)
<1> HIDE DEF to
<1>3. slots \in Seq(SlotsIn(l, k)) /\ Len(slots) = Len(d.nodes)
  BY <1>1, <1>2, ClassSet, SMTT(30)
<1>4. /\ DOMAIN x = DocFields /\ x.symbols = d.symbols /\ x.attrs = d.attrs /\ x.lists = d.lists
      /\ x.slots = slots /\ x.nodes = d.nodes /\ x.classes = classes /\ x.ext = d.ext
  <2>1. DOMAIN d = DocFields
    BY DEF Sound
  <2> QED
    BY <2>1 DEF DocFields, WithClass
<1> HIDE DEF x, slots
<1>5. IsSlots(slots, Len(d.nodes), l, Len(classes))
  BY <1>2, <1>3 DEF IsSlots, SlotsIn
<1>6. Sound(x)
  BY <1>2, <1>4, <1>5 DEF Sound
<1> QED
  BY <1>6 DEF x, to

LEMMA ChildAppended ==
  ASSUME NEW d, Sound(d), NEW i \in 1..Len(d.nodes), NEW tag \in STRING
  PROVE  Sound([d EXCEPT !.nodes = AddLastChild(@, i, Std(tag), <<>>), !.slots = Append(@, NoRuns)])
<1> DEFINE l == Len(d.lists)
           k == Len(d.classes)
           m == Len(d.symbols.heap)
           n == Len(d.nodes)
           byte == Std(tag)
           nodes == AddLastChild(d.nodes, i, byte, <<>>)
           slots == Append(d.slots, NoRuns)
           x == [d EXCEPT !.nodes = nodes, !.slots = slots]
<1>1. l \in Nat /\ k \in Nat /\ m \in Nat /\ n \in Nat /\ d.slots \in Seq(SlotsIn(l, k)) /\ Len(d.slots) = n
  BY SoundIs
<1>2. byte \in Byte /\ byte[1] = "std" /\ <<>> \in Seq(Nat)
  BY DEF Byte, Std
<1> HIDE DEF byte
<1>3. IsNodes(nodes) /\ Len(nodes) = n + 1 /\ Tags(nodes) = Append(Tags(d.nodes), byte)
  BY <1>2, ChildAdded DEF Sound
<1>4. slots \in Seq(SlotsIn(l, k)) /\ Len(slots) = n + 1
  <2>1. NoRuns \in SlotsIn(l, k)
    BY <1>1 DEF NoRuns, SlotsIn, None
  <2> DEFINE S == SlotsIn(l, k)
  <2> HIDE DEF S
  <2>2. d.slots \in Seq(S) /\ NoRuns \in S
    BY <1>1, <2>1 DEF S
  <2>3. slots \in Seq(S) /\ Len(slots) = n + 1
    BY <1>1, <2>2
  <2> QED
    BY <2>3 DEF S
<1> HIDE DEF nodes, slots
<1>5. /\ DOMAIN x = DocFields /\ x.symbols = d.symbols /\ x.attrs = d.attrs /\ x.lists = d.lists
      /\ x.slots = slots /\ x.nodes = nodes /\ x.classes = d.classes /\ x.ext = d.ext
  <2>1. DOMAIN d = DocFields
    BY DEF Sound
  <2> QED
    BY <2>1 DEF DocFields
<1> HIDE DEF x
<1>6. IsSlots(slots, Len(nodes), l, k)
  BY <1>3, <1>4 DEF IsSlots, SlotsIn
<1>7. IsExtTags(d.ext, Tags(nodes), m)
  <2>1. Tags(d.nodes) \in Seq({Tags(d.nodes)[j] : j \in 1..n})
    BY <1>1 DEF Tags
  <2>2. IsExtTags(d.ext, Tags(d.nodes), m)
    BY DEF Sound
  <2> QED
    BY <1>1, <1>2, <1>3, <2>1, <2>2, TagsMore
<1>8. Sound(x)
  BY <1>3, <1>5, <1>6, <1>7 DEF Sound
<1> QED
  BY <1>8 DEF x, nodes, slots, byte

LEMMA ChildrenGone ==
  ASSUME NEW d, Sound(d), NEW i \in 1..Len(d.nodes)
  PROVE  Sound([d EXCEPT !.nodes = RemoveChildren(@, i)])
<1> DEFINE nodes == RemoveChildren(d.nodes, i)
           x == [d EXCEPT !.nodes = nodes]
<1>1. IsNodes(nodes) /\ Tags(nodes) = Tags(d.nodes) /\ Len(nodes) = Len(d.nodes)
  BY ChildrenDropped DEF Sound
<1> HIDE DEF nodes
<1>2. /\ DOMAIN x = DocFields /\ x.symbols = d.symbols /\ x.attrs = d.attrs /\ x.lists = d.lists
      /\ x.slots = d.slots /\ x.nodes = nodes /\ x.classes = d.classes /\ x.ext = d.ext
  <2>1. DOMAIN d = DocFields
    BY DEF Sound
  <2> QED
    BY <2>1 DEF DocFields
<1> HIDE DEF x
<1>3. Sound(x)
  BY <1>1, <1>2 DEF Sound
<1> QED
  BY <1>3 DEF x, nodes

-----------------------------------------------------------------------------
(* A rebuild                                                                 *)
LEMMA OrderIs ==
  ASSUME NEW d, Sound(d)
  PROVE  /\ Order(d) \in Seq(1..Len(d.nodes)) /\ Len(Order(d)) \in Nat
         /\ Len(Order(d)) >= 1 /\ Order(d)[1] = Root
<1> DEFINE S == 1..Len(d.nodes)
           below == Descendants(d.nodes, Root)
<1>1. below \in Seq(S) /\ Root \in S
  BY LiveStays DEF Sound
<1>2. Order(d) = <<Root>> \o below
  BY DEF Order
<1> HIDE DEF S, below
<1>3. <<Root>> \in Seq(S) /\ Len(<<Root>>) = 1 /\ <<Root>>[1] = Root
  BY <1>1
<1>4. Len(below) \in Nat
  BY <1>1
<1>5. <<Root>> \o below \in Seq(S) /\ Len(<<Root>> \o below) = 1 + Len(below)
  BY <1>1, <1>3, ConcatProperties
<1>6. (<<Root>> \o below)[1] = Root
  BY <1>1, <1>3, <1>4, ConcatProperties
<1> QED
  BY <1>2, <1>4, <1>5, <1>6 DEF S

LEMMA RunsReached ==
  ASSUME NEW d, Sound(d), NEW order \in Seq(1..Len(d.nodes))
  PROVE  /\ RunsFrom(d, order, "attr") \in SUBSET (1..Len(d.lists))
         /\ RunsFrom(d, order, "cls") \in SUBSET (1..Len(d.classes))
<1>1. /\ Len(d.lists) \in Nat /\ Len(d.classes) \in Nat
      /\ \A i \in 1..Len(d.nodes) : d.slots[i].attr \in 0..Len(d.lists) /\ d.slots[i].cls \in 0..Len(d.classes)
  BY SoundIs
<1>2. \A k \in 2..Len(order) : order[k] \in 1..Len(d.nodes)
  OBVIOUS
<1>3. ASSUME NEW s \in RunsFrom(d, order, "attr")
      PROVE  s \in 1..Len(d.lists)
  <2>1. PICK k \in 2..Len(order) : s = d.slots[order[k]].attr
    BY <1>3 DEF RunsFrom
  <2>2. s # 0
    BY <1>3 DEF RunsFrom, None
  <2>3. s \in 0..Len(d.lists)
    BY <1>1, <1>2, <2>1
  <2> QED
    BY <1>1, <2>2, <2>3
<1>4. ASSUME NEW s \in RunsFrom(d, order, "cls")
      PROVE  s \in 1..Len(d.classes)
  <2>1. PICK k \in 2..Len(order) : s = d.slots[order[k]].cls
    BY <1>4 DEF RunsFrom
  <2>2. s # 0
    BY <1>4 DEF RunsFrom, None
  <2>3. s \in 0..Len(d.classes)
    BY <1>1, <1>2, <2>1
  <2> QED
    BY <1>1, <2>2, <2>3
<1> QED
  BY <1>3, <1>4

LEMMA IdsUsed ==
  ASSUME NEW ids \in Nat, NEW arena, IsRuns(arena, ids), NEW starts \in SUBSET (1..Len(arena))
  PROVE  UsedIn(arena, starts) \in SUBSET (1..ids)
<1>1. ASSUME NEW id \in UsedIn(arena, starts)
      PROVE  id \in 1..ids
  <2>1. PICK s \in starts : id \in ToSet(RunAt(arena, s))
    BY <1>1 DEF UsedIn
  <2>2. s \in 0..Len(arena)
    <3>1. Len(arena) \in Nat /\ s \in 1..Len(arena)
      BY RunsAre
    <3> QED
      BY <3>1
  <2>3. RunAt(arena, s) \in Seq(1..ids)
    BY <2>2, RunLists
  <2> QED
    BY <2>1, <2>3 DEF ToSet
<1> QED
  BY <1>1

\* What a rebuild marks as used.
LEMMA UsedAre ==
  ASSUME NEW d, Sound(d), NEW order \in Seq(1..Len(d.nodes)),
         NEW entries, entries = UsedIn(d.lists, RunsFrom(d, order, "attr"))
  PROVE  /\ entries \in SUBSET (1..Len(d.attrs.entries))
         /\ UsedSyms(d, order) \in SUBSET (1..Len(d.symbols.heap))
         /\ UsedIn(d.classes, RunsFrom(d, order, "cls")) \in SUBSET UsedSyms(d, order)
         /\ EntrySyms(d.attrs, entries) \in SUBSET UsedSyms(d, order)
         /\ \A i \in ToSet(order) :
              IsExt(d.nodes[i].tag) => TagSym(d.ext, i, d.nodes[i].tag) \in UsedSyms(d, order)
<1> DEFINE m == Len(d.symbols.heap)
           n == Len(d.nodes)
           classes == UsedIn(d.classes, RunsFrom(d, order, "cls"))
<1>1. m \in Nat /\ n \in Nat /\ Len(d.attrs.entries) \in Nat
  BY SoundIs
<1>2. entries \in SUBSET (1..Len(d.attrs.entries)) /\ classes \in SUBSET (1..m)
  <2>1. IsRuns(d.lists, Len(d.attrs.entries)) /\ IsRuns(d.classes, m)
    BY DEF Sound
  <2> QED
    BY <1>1, <2>1, RunsReached, IdsUsed
<1>3. ASSUME NEW i \in 1..n, IsExt(d.nodes[i].tag)
      PROVE  TagSym(d.ext, i, d.nodes[i].tag) \in 1..m
  <2> DEFINE tags == Tags(d.nodes)
  <2>1. i \in 1..Len(tags) /\ i \in Nat /\ tags[i] = d.nodes[i].tag
    BY <1>1 DEF Tags
  <2>2. IsExtTags(d.ext, tags, m)
    BY DEF Sound
  <2> HIDE DEF tags
  <2> QED
    BY <1>1, <1>3, <2>1, <2>2, TagNamed
<1>4. \A i \in ToSet(order) : i \in 1..n
  BY DEF ToSet
<1>5. ASSUME NEW s \in ExtSyms(d, order)
      PROVE  s \in 1..m
  BY <1>3, <1>4, <1>5 DEF ExtSyms
<1>6. ASSUME NEW s \in EntrySyms(d.attrs, entries)
      PROVE  s \in 1..m
  <2>1. PICK id \in entries : d.attrs.entries[id][1] >= NameBase /\ s = d.attrs.entries[id][1] - NameBase
    BY <1>6 DEF EntrySyms
  <2>2. IsAttrs(d.attrs, m)
    BY DEF Sound
  <2> DEFINE v == Len(d.attrs.values.heap)
             p == d.attrs.entries[id]
  <2>3. d.attrs.entries \in Seq(Pairs(m, v)) /\ v \in Nat /\ v <= LocalCap
    BY <2>2, AttrsAre
  <2>4. p \in Pairs(m, v)
    BY <1>2, <2>1, <2>3
  <2> HIDE DEF p, v
  <2>5. p[1] \in Nat /\ p[1] # NameBase /\ p[1] <= MaxString + m + 1
    BY <1>1, <2>3, <2>4, PairIs
  <2>6. p[1] >= NameBase /\ s = p[1] - NameBase
    BY <2>1 DEF p
  <2> DEFINE q == p[1]
  <2> HIDE DEF q, m
  <2>7. q \in Nat /\ q # MaxString + 1 /\ q <= MaxString + m + 1 /\ q >= MaxString + 1 /\ s = q - (MaxString + 1)
        /\ MaxString \in Nat /\ m \in Nat
    BY <1>1, <2>5, <2>6, StoreAssumption DEF NameBase, q
  <2> QED
    BY <2>7
<1>7. \A i \in ToSet(order) : IsExt(d.nodes[i].tag) => TagSym(d.ext, i, d.nodes[i].tag) \in ExtSyms(d, order)
  BY DEF ExtSyms
<1> QED
  BY <1>2, <1>5, <1>6, <1>7 DEF UsedSyms

LEMMA SubsetRises ==
  ASSUME NEW n \in Nat, NEW S \in SUBSET (1..n)
  PROVE  /\ IsFiniteSet(S) /\ S \in SUBSET Nat /\ Cardinality(S) \in Nat /\ Cardinality(S) <= n
         /\ \A m \in S : Dense(S, m) \in 1..Cardinality(S)
         /\ \A k, m \in S : k < m => Dense(S, k) < Dense(S, m)
<1>1. IsFiniteSet(1..n) /\ Cardinality(1..n) = n
  BY FS_Interval
<1>2. IsFiniteSet(S) /\ Cardinality(S) <= n
  BY <1>1, FS_Subset
<1>3. S \in SUBSET Nat
  OBVIOUS
<1>4. Cardinality(S) \in Nat /\ \A m \in S : Dense(S, m) \in 1..Cardinality(S)
  BY <1>2, <1>3, DenseRises
<1>5. \A k, m \in S : k < m => Dense(S, k) < Dense(S, m)
  BY <1>2, <1>3, DenseRises
<1> QED
  BY <1>2, <1>3, <1>4, <1>5

\* An entry by its new name and its new value.
LEMMA EntryRenamed ==
  ASSUME NEW s \in Nat, NEW v \in Nat, v <= LocalCap,
         NEW syms \in SUBSET (1..s), NEW values \in SUBSET (1..v),
         NEW p \in Pairs(s, v), p[1] >= NameBase => p[1] - NameBase \in syms, p[2] \in values
  PROVE  /\ RenamedEntry(p, syms, values) \in Pairs(Cardinality(syms), Cardinality(values))
         /\ RenamedEntry(p, syms, values)[2] = Dense(values, p[2])
         /\ p[1] < NameBase => RenamedEntry(p, syms, values)[1] = p[1]
         /\ p[1] >= NameBase => RenamedEntry(p, syms, values)[1] = Dense(syms, p[1] - NameBase) + NameBase
<1> DEFINE r == RenamedEntry(p, syms, values)
           k == Cardinality(syms)
           w == Cardinality(values)
           a == p[1]
           y == Dense(values, p[2])
           z == Dense(syms, a - NameBase)
           x == IF a < NameBase THEN a ELSE z + NameBase
<1>1. k \in Nat /\ w \in Nat /\ y \in 1..w
  BY SubsetRises
<1>2. a >= NameBase => z \in 1..k
  BY SubsetRises
<1>3. a \in Nat /\ NameBase = MaxString + 1 /\ MaxString \in Nat /\ a # NameBase
  BY PairIs, StoreAssumption DEF NameBase
<1>4. r = <<x, y>>
  BY DEF RenamedEntry
<1> HIDE DEF r, k, w, a, y, z
<1>5. x \in 0..(MaxString + k + 1) /\ x # NameBase
  <2>1. CASE a < NameBase
    BY <1>1, <1>3, <2>1
  <2>2. CASE a >= NameBase
    <3>1. z \in 1..k /\ x = z + NameBase
      BY <1>2, <1>3, <2>2
    <3> QED
      BY <1>1, <1>3, <3>1
  <2> QED
    BY <1>3, <2>1, <2>2
<1>6. x = a \/ x = z + NameBase
  OBVIOUS
<1>7. (a < NameBase => x = a) /\ (a >= NameBase => x = z + NameBase)
  BY <1>3
<1> HIDE DEF x
<1>8. r \in Pairs(k, w)
  BY <1>1, <1>4, <1>5 DEF Pairs
<1> QED
  BY <1>4, <1>7, <1>8 DEF r, k, w, a, y, z

LEMMA RenamedRises ==
  ASSUME NEW s \in Nat, NEW v \in Nat, v <= LocalCap,
         NEW syms \in SUBSET (1..s), NEW values \in SUBSET (1..v),
         NEW p \in Pairs(s, v), p[1] >= NameBase => p[1] - NameBase \in syms, p[2] \in values,
         NEW q \in Pairs(s, v), q[1] >= NameBase => q[1] - NameBase \in syms, q[2] \in values,
         PairKey(p) < PairKey(q)
  PROVE  PairKey(RenamedEntry(p, syms, values)) < PairKey(RenamedEntry(q, syms, values))
<1> DEFINE pr == RenamedEntry(p, syms, values)
           qr == RenamedEntry(q, syms, values)
           k == Cardinality(syms)
           w == Cardinality(values)
<1>1. /\ pr \in Pairs(k, w) /\ pr[2] = Dense(values, p[2])
      /\ p[1] < NameBase => pr[1] = p[1]
      /\ p[1] >= NameBase => pr[1] = Dense(syms, p[1] - NameBase) + NameBase
  BY EntryRenamed
<1>2. /\ qr \in Pairs(k, w) /\ qr[2] = Dense(values, q[2])
      /\ q[1] < NameBase => qr[1] = q[1]
      /\ q[1] >= NameBase => qr[1] = Dense(syms, q[1] - NameBase) + NameBase
  BY EntryRenamed
<1> SUFFICES PairKey(pr) < PairKey(qr)
  OBVIOUS
<1> HIDE DEF pr, qr
<1>3. p[1] < q[1] \/ (p[1] = q[1] /\ p[2] < q[2])
  BY KeysDiffer
<1>4. k \in Nat /\ w \in Nat /\ w <= LocalCap
  <2>1. w <= v /\ k \in Nat /\ w \in Nat
    BY SubsetRises
  <2> QED
    BY <2>1, StoreAssumption
<1>5. p[1] \in Nat /\ q[1] \in Nat /\ NameBase \in Nat
  BY PairIs, StoreAssumption DEF NameBase
<1>6. CASE p[1] < q[1]
  <2>1. CASE p[1] >= NameBase
    <3>1. q[1] >= NameBase
      BY <1>5, <1>6, <2>1
    <3> DEFINE m == p[1] - NameBase
               n == q[1] - NameBase
    <3>2. m \in syms /\ n \in syms /\ m < n
      BY <1>5, <1>6, <2>1, <3>1
    <3> HIDE DEF m, n
    <3>3. Dense(syms, m) < Dense(syms, n) /\ Dense(syms, m) \in 1..k /\ Dense(syms, n) \in 1..k
      BY <3>2, SubsetRises
    <3>4. pr[1] = Dense(syms, m) + NameBase /\ qr[1] = Dense(syms, n) + NameBase
      BY <1>1, <1>2, <2>1, <3>1 DEF m, n
    <3>5. pr[1] < qr[1]
      BY <1>4, <1>5, <3>3, <3>4
    <3> QED
      BY <1>1, <1>2, <1>4, <3>5, KeysDiffer
  <2>2. CASE p[1] < NameBase /\ q[1] < NameBase
    <3>1. pr[1] < qr[1]
      BY <1>1, <1>2, <1>6, <2>2
    <3> QED
      BY <1>1, <1>2, <1>4, <3>1, KeysDiffer
  <2>3. CASE p[1] < NameBase /\ q[1] >= NameBase
    <3> DEFINE n == q[1] - NameBase
    <3>1. Dense(syms, n) \in 1..k
      BY <2>3, SubsetRises
    <3>2. pr[1] = p[1] /\ qr[1] = Dense(syms, n) + NameBase
      BY <1>1, <1>2, <2>3
    <3> HIDE DEF n
    <3>3. pr[1] < qr[1]
      BY <1>4, <1>5, <2>3, <3>1, <3>2
    <3> QED
      BY <1>1, <1>2, <1>4, <3>3, KeysDiffer
  <2> QED
    BY <1>5, <2>1, <2>2, <2>3
<1>7. CASE p[1] = q[1] /\ p[2] < q[2]
  <2>1. pr[1] = qr[1]
    BY <1>1, <1>2, <1>5, <1>7
  <2>2. pr[2] < qr[2]
    BY <1>1, <1>2, <1>7, SubsetRises
  <2> QED
    BY <1>1, <1>2, <1>4, <2>1, <2>2, KeysDiffer
<1> QED
  BY <1>3, <1>6, <1>7

\* What a rebuild keeps of the attributes.
LEMMA AttrsCompact ==
  ASSUME NEW s \in Nat, NEW a, IsAttrs(a, s), NEW used \in SUBSET (1..Len(a.entries)),
         NEW syms \in SUBSET (1..s), EntrySyms(a, used) \in SUBSET syms,
         NEW x, x = CompactAttrs(a, used, syms)
  PROVE  IsAttrs(x, Cardinality(syms)) /\ Len(x.entries) = Cardinality(used)
<1> DEFINE v == Len(a.values.heap)
           l == Len(a.entries)
           values == UsedValues(a, used)
           k == Cardinality(syms)
           w == Cardinality(values)
           c == Cardinality(used)
           at == InOrder(used)
           named == [j \in 1..c |-> RenamedEntry(a.entries[at[j]], syms, values)]
           sorted == CompactOrder(a.sorted, used)
           table == CompactTable(a.values, values)
           keys == PairKeys(a.entries)
           new == PairKeys(named)
<1>1. /\ IsTable(a.values) /\ Sorts(a.sorted, keys) /\ v \in Nat /\ v <= LocalCap /\ l \in Nat
      /\ a.entries \in Seq(Pairs(s, v))
  BY AttrsAre
<1>2. x = [entries |-> named, sorted |-> sorted, values |-> table]
  BY DEF CompactAttrs
<1>3. ASSUME NEW id \in used
      PROVE  /\ a.entries[id] \in Pairs(s, v) /\ a.entries[id][2] \in values
             /\ a.entries[id][1] >= NameBase => a.entries[id][1] - NameBase \in syms
  <2>1. a.entries[id] \in Pairs(s, v)
    <3> DEFINE S == Pairs(s, v)
    <3> HIDE DEF S
    <3>1. a.entries \in Seq(S) /\ id \in 1..Len(a.entries)
      BY <1>1 DEF S
    <3>2. a.entries[id] \in S
      BY <3>1
    <3> QED
      BY <3>2 DEF S
  <2>2. a.entries[id][2] \in values
    BY DEF UsedValues
  <2>3. a.entries[id][1] >= NameBase => a.entries[id][1] - NameBase \in EntrySyms(a, used)
    BY DEF EntrySyms
  <2> QED
    BY <2>1, <2>2, <2>3
<1>4. values \in SUBSET (1..v)
  <2>1. ASSUME NEW y \in values
        PROVE  y \in 1..v
    <3>1. PICK id \in used : y = a.entries[id][2]
      BY <2>1 DEF UsedValues
    <3>2. a.entries[id] \in Pairs(s, v)
      BY <1>3
    <3> DEFINE p == a.entries[id]
    <3> HIDE DEF p, v
    <3>3. p \in Pairs(s, v)
      BY <3>2 DEF p
    <3>4. p[2] \in 1..v
      BY <1>1, <3>3, PairIs
    <3> QED
      BY <3>1, <3>4 DEF p
  <2> QED
    BY <2>1
<1>5. c \in Nat /\ used \in SUBSET Nat /\ IsFiniteSet(used) /\ k \in Nat /\ w \in Nat /\ w <= LocalCap
  <2>1. c \in Nat /\ used \in SUBSET Nat /\ IsFiniteSet(used) /\ k \in Nat
    BY <1>1, SubsetRises
  <2> HIDE DEF v, values
  <2>2. w \in Nat /\ w <= v
    BY <1>1, <1>4, SubsetRises
  <2> HIDE DEF w
  <2>3. w <= LocalCap
    BY <1>1, <2>2, StoreAssumption
  <2> QED
    BY <2>1, <2>2, <2>3
<1>6. /\ \A j \in 1..c : at[j] \in used
      /\ \A id \in used : Dense(used, id) \in 1..c /\ at[Dense(used, id)] = id
      /\ \A j \in 1..c : Dense(used, at[j]) = j
  <2>1. \A j \in 1..c : at[j] \in used /\ Dense(used, at[j]) = j
    BY <1>5, InOrderRises
  <2>2. \A id \in used : Dense(used, id) \in 1..c
    BY <1>5, DenseRises
  <2>3. \A id \in used : at[Dense(used, id)] = id
    BY <1>5, InOrderRises
  <2> QED
    BY <2>1, <2>2, <2>3
<1>7. IsTable(table) /\ Len(table.heap) = w
  BY <1>1, <1>4, TableCompacts
<1> HIDE DEF values, at, c, w, k, table, v
<1>8. ASSUME NEW id \in used
      PROVE  RenamedEntry(a.entries[id], syms, values) \in Pairs(k, w)
  <2> DEFINE p == a.entries[id]
  <2> HIDE DEF p
  <2>1. p \in Pairs(s, v) /\ p[2] \in values /\ (p[1] >= NameBase => p[1] - NameBase \in syms)
    BY <1>3 DEF p
  <2>2. RenamedEntry(p, syms, values) \in Pairs(k, w)
    BY <1>1, <1>4, <2>1, EntryRenamed DEF k, w
  <2> QED
    BY <2>2 DEF p
<1>9. /\ named \in Seq(Pairs(k, w)) /\ Len(named) = c
      /\ \A j \in 1..c : named[j] = RenamedEntry(a.entries[at[j]], syms, values)
  <2> DEFINE S == Pairs(k, w)
             f(j) == RenamedEntry(a.entries[at[j]], syms, values)
  <2>1. \A j \in 1..c : f(j) \in S
    BY <1>6, <1>8
  <2> HIDE DEF S, f
  <2>2. [j \in 1..c |-> f(j)] \in Seq(S) /\ Len([j \in 1..c |-> f(j)]) = c
        /\ \A j \in 1..c : [i \in 1..c |-> f(i)][j] = f(j)
    BY <1>5, <2>1
  <2> QED
    BY <2>2 DEF S, f
<1> HIDE DEF named
<1>10. new \in Seq(Nat) /\ Len(new) = c /\ \A j \in 1..c : new[j] = PairKey(named[j])
  BY <1>5, <1>9, KeysAre
<1>11. Len(keys) = l /\ \A id \in 1..l : keys[id] = PairKey(a.entries[id])
  BY <1>1, KeysAre
<1> HIDE DEF new, keys, l
<1>12. ASSUME NEW i \in used, NEW j \in used, keys[i] < keys[j]
       PROVE  new[Dense(used, i)] < new[Dense(used, j)]
  <2> DEFINE p == a.entries[i]
             q == a.entries[j]
             pr == RenamedEntry(p, syms, values)
             qr == RenamedEntry(q, syms, values)
  <2>1. new[Dense(used, i)] = PairKey(pr) /\ new[Dense(used, j)] = PairKey(qr)
    BY <1>6, <1>9, <1>10, SMTT(30)
  <2>2. PairKey(p) < PairKey(q)
    BY <1>11, <1>12 DEF l
  <2>3. p \in Pairs(s, v) /\ p[2] \in values /\ (p[1] >= NameBase => p[1] - NameBase \in syms)
    BY <1>3
  <2>4. q \in Pairs(s, v) /\ q[2] \in values /\ (q[1] >= NameBase => q[1] - NameBase \in syms)
    BY <1>3
  <2> HIDE DEF p, q
  <2>5. PairKey(pr) < PairKey(qr)
    BY <1>1, <1>4, <2>2, <2>3, <2>4, RenamedRises
  <2> QED
    BY <2>1, <2>5
<1>13. Sorts(sorted, new)
  <2>1. used \in SUBSET (1..Len(keys)) /\ Len(new) = Cardinality(used)
    BY <1>10, <1>11 DEF l, c
  <2>2. \A i, j \in used : keys[i] < keys[j] => new[Dense(used, i)] < new[Dense(used, j)]
    BY <1>12
  <2> QED
    BY <1>1, <1>10, <2>1, <2>2, CompactSorts
<1> HIDE DEF sorted
<1>14. x.entries = named /\ x.sorted = sorted /\ x.values = table /\ DOMAIN x = AttrFields
  BY <1>2 DEF AttrFields
<1>15. IsAttrs(x, k)
  BY <1>5, <1>7, <1>9, <1>13, <1>14, AttrsAlike DEF new
<1> QED
  BY <1>9, <1>14, <1>15 DEF k, c

\* Where the k-th list begins among all of them.
LEMMA JoinedPart ==
  ASSUME NEW S, NEW lists \in Seq(Seq(S)), NEW k \in 1..Len(lists), lists[k] # <<>>
  PROVE  /\ Joined(lists) \in Seq(S) /\ Len(Joined(SubSeq(lists, 1, k - 1))) \in Nat
         /\ Len(Joined(SubSeq(lists, 1, k - 1))) + 1 <= Len(Joined(lists))
<1> DEFINE n == Len(lists)
           part == SubSeq(lists, 1, k - 1)
<1>1. n \in Nat /\ k \in Nat /\ k - 1 \in Nat /\ k <= n /\ k >= 1 /\ k \in 1..n
  OBVIOUS
<1>2. part \in Seq(Seq(S)) /\ Len(part) = k - 1 /\ \A i \in 1..(k - 1) : part[i] = lists[i]
  <2> DEFINE Q == Seq(S)
  <2>1. lists \in Seq(Q) /\ 1 \in 1..(n + 1) /\ k - 1 \in 0..n
    BY <1>1
  <2> HIDE DEF Q
  <2>2. part \in Seq(Q) /\ Len(part) = k - 1 /\ \A i \in 1..(k - 1) : part[i] = lists[i]
    BY <1>1, <2>1
  <2> QED
    BY <2>2 DEF Q
<1>3. PICK f : Joins(f, lists, n, S) /\ Joined(lists) = f[n]
  BY JoinedIs
<1> HIDE DEF part
<1>4. PICK g : Joins(g, part, k - 1, S) /\ Joined(part) = g[k - 1]
  BY <1>2, JoinedIs
<1>5. \A i \in 0..n : f[i] \in Seq(S)
  BY <1>3 DEF Joins
<1>6. \A i \in 1..n : f[i] = f[i - 1] \o lists[i]
  BY <1>3 DEF Joins, Grows
<1> HIDE DEF n
<1>7. f[k - 1] = g[k - 1]
  <2> DEFINE m == k - 1
  <2>1. m \in Nat /\ \A i \in 1..m : i \in 1..n
    BY <1>1
  <2>2. Grows(g, part, m)
    BY <1>4 DEF Joins
  <2>3. \A i \in 1..m : part[i] = lists[i]
    BY <1>2
  <2> HIDE DEF m
  <2>4. Grows(f, lists, m)
    BY <1>3, <1>6, <2>1 DEF Joins, Grows
  <2>5. \A i \in 0..m : g[i] = f[i]
    BY ONLY <2>1, <2>2, <2>3, <2>4, JoinsAlike
  <2>6. f[m] = g[m]
    BY <2>1, <2>5
  <2> QED
    BY <2>6 DEF m
<1>8. ASSUME NEW i \in 1..n
      PROVE  /\ Len(f[i - 1]) \in Nat /\ Len(lists[i]) \in Nat /\ Len(f[i]) = Len(f[i - 1]) + Len(lists[i])
  <2> DEFINE Q == Seq(S)
  <2>1. i - 1 \in 0..n
    BY <1>1
  <2>2. f[i - 1] \in Seq(S) /\ f[i] = f[i - 1] \o lists[i]
    BY <1>5, <1>6, <2>1
  <2>3. lists \in Seq(Q) /\ i \in 1..Len(lists)
    BY DEF n
  <2> HIDE DEF Q
  <2>4. lists[i] \in Q
    BY <2>3
  <2>5. lists[i] \in Seq(S)
    BY <2>4 DEF Q
  <2> QED
    BY <2>2, <2>5, ConcatProperties
<1>9. Len(f[k - 1]) + 1 <= Len(f[k]) /\ Len(f[k - 1]) \in Nat /\ Len(f[k]) \in Nat
  <2> DEFINE Q == Seq(S)
  <2>7. lists \in Seq(Q) /\ k \in 1..Len(lists)
    OBVIOUS
  <2> HIDE DEF Q
  <2>1. lists[k] \in Q /\ lists[k] # <<>>
    BY <2>7
  <2> USE DEF Q
  <2>2. Len(lists[k]) > 0 /\ Len(lists[k]) \in Nat
    BY <2>1, EmptySeq
  <2>3. Len(f[k - 1]) \in Nat /\ Len(f[k]) = Len(f[k - 1]) + Len(lists[k])
    BY <1>1, <1>8
  <2> DEFINE a == Len(f[k - 1])
             b == Len(lists[k])
             c == Len(f[k])
  <2> HIDE DEF a, b, c
  <2>4. a \in Nat /\ b \in Nat /\ b > 0 /\ c = a + b
    BY <2>2, <2>3 DEF a, b, c
  <2>5. a + 1 <= c /\ c \in Nat
    BY <2>4
  <2> QED
    BY <2>4, <2>5 DEF a, c
<1>10. Len(f[k]) <= Len(f[n])
  <2> DEFINE T == {i \in Nat : k + i <= n => Len(f[k]) <= Len(f[k + i]) /\ Len(f[k + i]) \in Nat}
  <2>1. 0 \in T
    BY <1>1, <1>9
  <2>2. ASSUME NEW i \in 0..(n - k), i \in T, i < n - k
        PROVE  (i + 1) \in T
    <3> DEFINE j == k + i + 1
    <3>1. i \in Nat /\ j \in 1..n /\ j - 1 = k + i /\ k + i <= n
      BY <1>1, <2>2
    <3>2. Len(f[k]) <= Len(f[j - 1]) /\ Len(f[j - 1]) \in Nat
      BY <2>2, <3>1
    <3>3. Len(lists[j]) \in Nat /\ Len(f[j]) = Len(f[j - 1]) + Len(lists[j])
      BY <1>8, <3>1
    <3>4. k + (i + 1) = j
      BY <1>1, <3>1
    <3> HIDE DEF j
    <3> DEFINE a == Len(f[k])
               b == Len(f[j - 1])
               c == Len(f[j])
               e == Len(lists[j])
    <3> HIDE DEF a, b, c, e
    <3>5. a \in Nat /\ b \in Nat /\ e \in Nat /\ a <= b /\ c = b + e
      BY <1>9, <3>2, <3>3 DEF a, b, c, e
    <3>6. a <= c /\ c \in Nat
      BY <3>5
    <3> QED
      BY <3>1, <3>4, <3>6 DEF a, c
  <2>3. n - k \in Nat
    BY <1>1
  <2> HIDE DEF T
  <2>4. \A i \in 0..(n - k) : i \in T
    BY <2>1, <2>2, <2>3, Upward
  <2>5. n - k \in T /\ k + (n - k) = n
    BY <1>1, <2>3, <2>4
  <2> QED
    BY <1>1, <2>5 DEF T
<1>11. f[n] \in Seq(S)
  BY <1>1, <1>5
<1>12. Len(f[n]) \in Nat
  BY <1>11
<1>13. Joined(part) = f[k - 1]
  BY <1>4, <1>7
<1> DEFINE a == Len(f[k - 1])
           b == Len(f[k])
           c == Len(f[n])
<1> HIDE DEF a, b, c
<1>14. a \in Nat /\ b \in Nat /\ c \in Nat /\ a + 1 <= b /\ b <= c
  BY <1>9, <1>10, <1>12 DEF a, b, c
<1>15. a + 1 <= c
  BY <1>14
<1> QED
  BY <1>3, <1>11, <1>13, <1>14, <1>15 DEF a, c, part

LEMMA Ended ==
  ASSUME NEW S, NEW s \in Seq(S), NEW e \in S
  PROVE  /\ s \o <<e>> \in Seq(S) /\ s \o <<e>> # <<>>
         /\ Len(s \o <<e>>) = Len(s) + 1 /\ (s \o <<e>>)[Len(s) + 1] = e
<1>1. <<e>> \in Seq(S) /\ Len(<<e>>) = 1 /\ <<e>>[1] = e
  OBVIOUS
<1>2. Len(s) \in Nat
  OBVIOUS
<1>3. s \o <<e>> \in Seq(S) /\ Len(s \o <<e>>) = Len(s) + 1
  BY <1>1, ConcatProperties
<1>4. (s \o <<e>>)[Len(s) + 1] = <<e>>[1]
  <2>1. Len(s) + 1 \in (Len(s) + 1)..(Len(s) + Len(<<e>>)) /\ (Len(s) + 1) - Len(s) = 1
    BY <1>1, <1>2
  <2> DEFINE l == Len(s)
             u == s \o <<e>>
  <2>2. \A i \in (l + 1)..(l + Len(<<e>>)) : u[i] = <<e>>[i - l]
    BY <1>1, ConcatProperties
  <2> HIDE DEF u, l
  <2>3. u[l + 1] = <<e>>[(l + 1) - l]
    BY <2>1, <2>2 DEF l
  <2> QED
    BY <2>1, <2>3 DEF u, l
<1>5. s \o <<e>> # <<>>
  BY <1>2, <1>3
<1> QED
  BY <1>1, <1>3, <1>4, <1>5

EndedList(list, U) == \E run \in Seq(U) : list = run \o <<Terminator>>

\* The live runs: each of ids in use, and ended.
LEMMA LiveRunsAre ==
  ASSUME NEW ids \in Nat, NEW arena, IsRuns(arena, ids), NEW starts \in SUBSET (1..Len(arena)),
         NEW used, UsedIn(arena, starts) \in SUBSET used,
         NEW lists, lists = LiveRuns(arena, starts)
  PROVE  /\ lists \in Seq(Seq(used \union {Terminator})) /\ Len(lists) = Cardinality(starts)
         /\ \A k \in 1..Len(lists) : EndedList(lists[k], used \union {Terminator})
<1> DEFINE U == used \union {Terminator}
           Q == Seq(U)
           c == Cardinality(starts)
           at == InOrder(starts)
           f(k) == RunAt(arena, at[k]) \o <<Terminator>>
<1>1. Len(arena) \in Nat
  BY RunsAre
<1>2. c \in Nat /\ IsFiniteSet(starts) /\ starts \in SUBSET Nat
  BY <1>1, SubsetRises
<1>3. ASSUME NEW k \in 1..c
      PROVE  RunAt(arena, at[k]) \in Seq(U)
  <2>1. at[k] \in starts
    BY <1>2, InOrderRises
  <2> DEFINE run == RunAt(arena, at[k])
             s == at[k]
             n == Len(arena)
  <2>2. at[k] \in 0..Len(arena)
    <3>1. s \in 1..n /\ n \in Nat
      BY <1>1, <2>1
    <3> HIDE DEF s, n
    <3>2. s \in 0..n
      BY <3>1
    <3> QED
      BY <3>2 DEF s, n
  <2>3. run \in Seq(1..ids)
    BY <2>2, RunLists
  <2>4. \A j \in 1..Len(run) : run[j] \in UsedIn(arena, starts)
    <3>1. ToSet(run) \in SUBSET UsedIn(arena, starts)
      BY <2>1 DEF UsedIn
    <3> HIDE DEF run
    <3> QED
      BY <3>1 DEF ToSet
  <2> HIDE DEF run
  <2>5. run \in Seq(U)
    BY <2>3, <2>4
  <2> QED
    BY <2>5 DEF run
<1>4. Terminator \in U
  OBVIOUS
<1> HIDE DEF U, at, c
<1>5. \A k \in 1..c : f(k) \in Q
  BY <1>3, <1>4, Ended
<1>6. lists = [k \in 1..c |-> f(k)]
  BY DEF LiveRuns, c, at
<1>7. \A k \in 1..c : EndedList(f(k), U)
  BY <1>3 DEF EndedList
<1> HIDE DEF f, Q
<1>8. lists \in Seq(Q) /\ Len(lists) = c /\ \A k \in 1..c : lists[k] = f(k)
  BY <1>2, <1>5, <1>6
<1> QED
  BY <1>7, <1>8 DEF U, c, Q

LEMMA RunsCompact ==
  ASSUME NEW ids \in Nat, NEW arena, IsRuns(arena, ids), NEW starts \in SUBSET (1..Len(arena)),
         NEW used \in SUBSET (1..ids), UsedIn(arena, starts) \in SUBSET used,
         NEW new, new = Compacted(arena, starts, used)
  PROVE  IsRuns(new, Cardinality(used)) /\ Len(new) \in Nat
         /\ \A start : Moved(arena, starts, start) \in 0..Len(new)
<1> DEFINE U == used \union {Terminator}
           c == Cardinality(starts)
           lists == LiveRuns(arena, starts)
           laid == Joined(lists)
           k == Cardinality(used)
           R == (1..k) \union {Terminator}
<1>1. Len(arena) \in Nat
  BY RunsAre
<1>2. c \in Nat /\ \A s \in starts : Dense(starts, s) \in 1..c
  BY <1>1, SubsetRises
<1>3. k \in Nat /\ \A id \in used : Dense(used, id) \in 1..k
  BY SubsetRises
<1>4. lists \in Seq(Seq(U)) /\ Len(lists) = c
      /\ \A j \in 1..c : EndedList(lists[j], U)
  <2> DEFINE x == LiveRuns(arena, starts)
  <2>1. x \in Seq(Seq(used \union {Terminator})) /\ Len(x) = Cardinality(starts)
    BY LiveRunsAre
  <2>2. \A j \in 1..Len(x) : EndedList(x[j], used \union {Terminator})
    BY LiveRunsAre
  <2> QED
    BY <2>1, <2>2
<1>5. Terminator \in U
  OBVIOUS
<1>6. \A e \in U : Renumbered(e, used) \in R /\ (e = Terminator => Renumbered(e, used) = Terminator)
  BY <1>3 DEF Renumbered
<1> HIDE DEF U, lists
<1>7. \A j \in 1..c : lists[j] # <<>>
  BY <1>4, <1>5, Ended DEF EndedList
<1>8. laid \in Seq(U) /\ (laid # <<>> => laid[Len(laid)] = Terminator)
  <2>1. PICK f : Joins(f, lists, c, U) /\ laid = f[c]
    BY <1>4, JoinedIs
  <2>2. f[0] = <<>> /\ \A j \in 0..c : f[j] \in Seq(U)
    BY <2>1 DEF Joins, Grows
  <2>3. CASE c = 0
    BY <1>2, <2>1, <2>2, <2>3
  <2>4. CASE c # 0
    <3>1. c \in 1..c /\ c - 1 \in 0..c
      BY <1>2, <2>4
    <3>2. f[c] = f[c - 1] \o lists[c] /\ f[c - 1] \in Seq(U)
      BY <2>1, <2>2, <3>1 DEF Joins, Grows
    <3>3. PICK run \in Seq(U) : lists[c] = run \o <<Terminator>>
      BY <1>4, <3>1 DEF EndedList
    <3> DEFINE a == f[c - 1]
               s == a \o run
    <3>4. s \in Seq(U)
      BY <3>2, ConcatProperties
    <3>5. a \o (run \o <<Terminator>>) = s \o <<Terminator>>
      <4>1. a \in Seq(U) /\ run \in Seq(U) /\ <<Terminator>> \in Seq(U)
        BY <1>5, <3>2
      <4> DEFINE t == <<Terminator>>
      <4> HIDE DEF a, t
      <4>2. (a \o run) \o t = a \o (run \o t)
        BY <4>1, ConcatAssociative DEF t
      <4> QED
        BY <4>2 DEF t
    <3>6. laid = s \o <<Terminator>>
      BY <2>1, <3>2, <3>3, <3>5
    <3> HIDE DEF s, laid
    <3> QED
      BY <1>5, <3>4, <3>6, Ended
  <2> QED
    BY <2>3, <2>4
<1> HIDE DEF laid, R, k
<1>9. new = [j \in 1..Len(laid) |-> Renumbered(laid[j], used)]
  BY DEF Compacted, laid, lists
<1>10. /\ new \in Seq(R) /\ Len(new) = Len(laid) /\ Len(new) \in Nat
       /\ \A j \in 1..Len(laid) : new[j] = Renumbered(laid[j], used)
  <2>1. Len(laid) \in Nat /\ \A j \in 1..Len(laid) : laid[j] \in U
    BY <1>8
  <2>2. \A j \in 1..Len(laid) : Renumbered(laid[j], used) \in R
    BY <1>6, <2>1
  <2> QED
    BY <1>9, <2>1, <2>2
<1>11. new # <<>> => Last(new) = Terminator
  <2> SUFFICES ASSUME new # <<>>
               PROVE  Last(new) = Terminator
    OBVIOUS
  <2> DEFINE l == Len(laid)
  <2>1. l \in Nat /\ l # 0
    BY <1>10
  <2>2. laid # <<>> /\ l \in 1..l
    BY <2>1
  <2>3. laid[l] = Terminator
    BY <1>8, <2>2
  <2>4. new[l] = Terminator
    BY <1>5, <1>6, <1>10, <2>2, <2>3
  <2> QED
    BY <1>10, <2>4 DEF Last
<1>12. IsRuns(new, k)
  BY <1>10, <1>11 DEF IsRuns, R
<1>13. ASSUME NEW start
       PROVE  Moved(arena, starts, start) \in 0..Len(new)
  <2>1. CASE start \notin starts
    BY <1>10, <2>1 DEF Moved, None
  <2>2. CASE start \in starts
    <3> DEFINE i == Dense(starts, start)
               m == Len(Joined(SubSeq(lists, 1, i - 1)))
    <3>1. i \in 1..c
      BY <1>2, <2>2
    <3>2. Moved(arena, starts, start) = m + 1
      BY <2>2 DEF Moved, lists
    <3> HIDE DEF i
    <3>3. m \in Nat /\ m + 1 <= Len(laid)
      BY <1>4, <1>7, <3>1, JoinedPart DEF laid
    <3> HIDE DEF m
    <3>4. m + 1 \in 0..Len(new)
      BY <1>10, <3>3
    <3> QED
      BY <3>2, <3>4
  <2> QED
    BY <2>1, <2>2
<1> QED
  BY <1>10, <1>12, <1>13 DEF k

\* What the k-th tag adds to the tags before it.
TagStep(d, order, syms, acc, k) ==
  LET byte == d.nodes[order[k]].tag
      e == EncodeTag(acc.ext, Dense(syms, TagSym(d.ext, order[k], byte)), k)
  IN IF IsExt(byte) THEN [ext |-> e.ext, bytes |-> Append(acc.bytes, e.byte)]
     ELSE [ext |-> acc.ext, bytes |-> Append(acc.bytes, byte)]

LEMMA TagsStep ==
  ASSUME NEW d, NEW order, Len(order) \in Nat, NEW syms
  PROVE  \E u : /\ ReEncoded(d, order, syms) = u[Len(order)]
                /\ u[0] = [ext |-> NoExtTags, bytes |-> <<>>]
                /\ \A k \in 1..Len(order) : u[k] = TagStep(d, order, syms, u[k - 1], k)
<1> DEFINE n == Len(order)
           none == [ext |-> NoExtTags, bytes |-> <<>>]
           F(a, k) == TagStep(d, order, syms, a, k)
           Right(u, m) == u = [k \in 0..m |-> IF k = 0 THEN none ELSE F(u[k - 1], k)]
           u == CHOOSE u : Right(u, n)
           T == {m \in 0..n : \E w : Right(w, m)}
<1>1. ReEncoded(d, order, syms) = u[n]
  BY DEF ReEncoded, TagStep
<1> HIDE DEF none, F, u
<1>2. 0 \in T
  <2> DEFINE w == [k \in 0..0 |-> none]
  <2>1. w = [k \in 0..0 |-> IF k = 0 THEN none ELSE F(w[k - 1], k)]
    OBVIOUS
  <2> HIDE DEF w
  <2>2. \E w1 : Right(w1, 0)
    BY <2>1
  <2>3. 0 \in 0..n
    OBVIOUS
  <2> HIDE DEF Right
  <2> QED
    BY <2>2, <2>3
<1>3. ASSUME NEW m \in 0..n, m \in T, m < n
      PROVE  m + 1 \in T
  <2>1. PICK w : Right(w, m)
    BY <1>3
  <2> DEFINE x == [k \in 0..(m + 1) |-> IF k = m + 1 THEN F(w[m], k) ELSE w[k]]
             y == [k \in 0..(m + 1) |-> IF k = 0 THEN none ELSE F(x[k - 1], k)]
  <2>2. ASSUME NEW k \in 0..(m + 1)
        PROVE  x[k] = y[k]
    <3>1. CASE k = m + 1
      <4>1. k # 0 /\ k - 1 = m /\ m \in 0..(m + 1) /\ m # m + 1
        BY <3>1
      <4>2. x[m] = w[m]
        BY <4>1
      <4>3. y[k] = F(x[m], k) /\ x[k] = F(w[m], k)
        BY <3>1, <4>1
      <4> QED
        BY <4>2, <4>3
    <3>2. CASE k = 0
      <4>1. 0 # m + 1 /\ 0 \in 0..m /\ 0 \in 0..(m + 1)
        OBVIOUS
      <4>2. x[0] = w[0]
        BY <4>1
      <4>3. w[0] = none
        BY <2>1, <4>1
      <4>4. y[0] = none
        BY <4>1
      <4> QED
        BY <3>2, <4>2, <4>3, <4>4
    <3>3. CASE k # 0 /\ k # m + 1
      <4>1. k \in 0..m /\ k - 1 \in 0..(m + 1) /\ k - 1 # m + 1
        BY <3>3
      <4>2. x[k] = w[k] /\ x[k - 1] = w[k - 1]
        BY <3>3, <4>1
      <4>3. w[k] = F(w[k - 1], k)
        BY <2>1, <3>3, <4>1
      <4>4. y[k] = F(x[k - 1], k)
        BY <3>3
      <4> QED
        BY <4>2, <4>3, <4>4
    <3> QED
      BY <3>1, <3>2, <3>3
  <2>3. x = y
    BY <2>2
  <2>4. Right(x, m + 1)
    BY <2>3
  <2>5. m + 1 \in 0..n
    BY <1>3
  <2> QED
    BY <2>4, <2>5
<1>4. n \in T
  <2> HIDE DEF T
  <2>1. \A i \in 0..n : i \in T /\ i < n => (i + 1) \in T
    BY <1>3
  <2>2. \A i \in 0..n : i \in T
    BY <1>2, <2>1, Upward
  <2> QED
    BY <2>2
<1>5. \E w : Right(w, n)
  BY <1>4
<1>6. Right(u, n)
  BY <1>5 DEF u
<1>7. u[0] = none /\ \A k \in 1..n : u[k] = F(u[k - 1], k)
  BY <1>6
<1> QED
  BY <1>1, <1>7 DEF none, F

LEMMA TagsReEncoded ==
  ASSUME NEW d, IsNodes(d.nodes), NEW order \in Seq(1..Len(d.nodes)), NEW s \in Nat,
         NEW syms \in SUBSET (1..s),
         \A i \in ToSet(order) : IsExt(d.nodes[i].tag) => TagSym(d.ext, i, d.nodes[i].tag) \in syms,
         NEW r, r = ReEncoded(d, order, syms)
  PROVE  /\ r.bytes \in Seq(Byte) /\ Len(r.bytes) = Len(order)
         /\ Tagged(r.ext, r.bytes, Cardinality(syms))
<1> DEFINE n == Len(order)
           c == Cardinality(syms)
           Whole(a, k) == a.bytes \in Seq(Byte) /\ Len(a.bytes) = k /\ Tagged(a.ext, a.bytes, c)
<1>1. n \in Nat
  OBVIOUS
<1>2. PICK u : /\ r = u[n] /\ u[0] = [ext |-> NoExtTags, bytes |-> <<>>]
               /\ \A k \in 1..n : u[k] = TagStep(d, order, syms, u[k - 1], k)
  BY <1>1, TagsStep
<1>3. c \in Nat /\ \A id \in syms : Dense(syms, id) \in 1..c
  BY SubsetRises
<1> DEFINE T == {k \in 0..n : Whole(u[k], k)}
<1> HIDE DEF c
<1>4. 0 \in T
  <2>1. u[0].ext = NoExtTags /\ u[0].bytes = <<>>
    BY <1>2
  <2>2. Tagged(NoExtTags, <<>>, c)
    BY <1>3 DEF Tagged, IsExtTags, NoExtTags, ExtFields
  <2> DEFINE x == u[0]
  <2>3. x.ext = NoExtTags /\ x.bytes = <<>>
    BY <2>1
  <2> HIDE DEF x
  <2>4. x.bytes \in Seq(Byte) /\ Len(x.bytes) = 0
    BY <2>3
  <2>5. Tagged(x.ext, x.bytes, c)
    BY <2>2, <2>3
  <2>6. Whole(u[0], 0)
    BY <2>4, <2>5 DEF x
  <2> QED
    BY <1>1, <2>6
<1>5. ASSUME NEW j \in 0..n, j \in T, j < n
      PROVE  j + 1 \in T
  <2> DEFINE k == j + 1
             a == u[j]
             i == order[k]
             byte == d.nodes[i].tag
             sym == Dense(syms, TagSym(d.ext, i, byte))
             e == EncodeTag(a.ext, sym, k)
  <2>1. k \in 1..n /\ k - 1 = j /\ k \in 0..n /\ j \in Nat
    BY <1>1, <1>5
  <2>2. i \in 1..Len(d.nodes) /\ i \in ToSet(order)
    BY <2>1 DEF ToSet
  <2>3. byte \in Byte
    <3> DEFINE l == Len(d.nodes)
               nodes == d.nodes
    <3>1. nodes \in Seq(NodesIn(l)) /\ i \in 1..Len(nodes)
      BY <2>2, NodesAre
    <3> HIDE DEF nodes, i, l
    <3>2. nodes[i] \in NodesIn(l)
      BY <3>1
    <3>3. nodes[i].tag \in Byte
      BY <3>2 DEF NodesIn
    <3> QED
      BY <3>3 DEF nodes
  <2>4. a.bytes \in Seq(Byte) /\ Len(a.bytes) = j /\ Tagged(a.ext, a.bytes, c)
    BY <1>5
  <2>5. u[k] = TagStep(d, order, syms, a, k)
    BY <1>2, <2>1
  <2>6. CASE IsExt(byte)
    <3>1. sym \in 1..c
      BY <1>3, <2>2, <2>6
    <3>2. u[k] = [ext |-> e.ext, bytes |-> Append(a.bytes, e.byte)]
      BY <2>5, <2>6 DEF TagStep
    <3> HIDE DEF sym, a
    <3>3. e = EncodeTag(a.ext, sym, Len(a.bytes) + 1)
      BY <2>4
    <3> HIDE DEF e
    <3>4. e.byte \in Byte /\ Tagged(e.ext, Append(a.bytes, e.byte), c)
      BY <1>3, <2>4, <3>1, <3>3, TagEncoded
    <3> DEFINE bytes == Append(a.bytes, e.byte)
    <3>5. bytes \in Seq(Byte) /\ Len(bytes) = k
      BY <2>4, <3>4
    <3> HIDE DEF bytes
    <3>6. u[k].ext = e.ext /\ u[k].bytes = bytes
      BY <3>2 DEF bytes
    <3>7. Tagged(e.ext, bytes, c)
      BY <3>4 DEF bytes
    <3> QED
      BY <2>1, <3>5, <3>6, <3>7
  <2>7. CASE ~IsExt(byte)
    <3>1. u[k] = [ext |-> a.ext, bytes |-> Append(a.bytes, byte)]
      BY <2>5, <2>7 DEF TagStep
    <3>2. byte[1] # "ext" /\ byte[1] # "over"
      BY <2>7 DEF IsExt
    <3> HIDE DEF a, byte
    <3>3. DOMAIN a.ext = ExtFields /\ a.ext.vocab \in Seq(1..c)
          /\ Overflown(a.ext.overflow, j, c)
      BY <2>4, TaggedIs
    <3>4. \A x \in 1..j : Known(a.ext.vocab, a.ext.overflow, a.bytes[x], x)
      BY <2>4, TaggedIs
    <3>5. Overflown(a.ext.overflow, j + 1, c)
      BY <1>3, <2>1, <3>3, OverflownLater
    <3>6. Known(a.ext.vocab, a.ext.overflow, byte, j + 1)
      BY <3>2 DEF Known
    <3>7. Tagged(a.ext, Append(a.bytes, byte), c)
      BY <1>3, <2>4, <3>3, <3>4, <3>5, <3>6, TaggedMore
    <3> DEFINE bytes == Append(a.bytes, byte)
    <3>8. bytes \in Seq(Byte) /\ Len(bytes) = k
      BY <2>3, <2>4
    <3>9. Tagged(a.ext, bytes, c)
      BY <3>7
    <3> HIDE DEF bytes
    <3>10. u[k].ext = a.ext /\ u[k].bytes = bytes
      BY <3>1 DEF bytes
    <3> QED
      BY <2>1, <3>8, <3>9, <3>10
  <2> QED
    BY <2>6, <2>7
<1>6. n \in T
  <2> HIDE DEF T
  <2>1. \A i \in 0..n : i \in T /\ i < n => (i + 1) \in T
    BY <1>5
  <2>2. \A i \in 0..n : i \in T
    BY <1>1, <1>4, <2>1, Upward
  <2> QED
    BY <1>1, <2>2
<1> QED
  BY <1>2, <1>6 DEF c

\* Links of a node that moved lead into the new arena.
LEMMA NodesMoved ==
  ASSUME NEW nodes, IsNodes(nodes), NEW order \in Seq(1..Len(nodes)), Len(order) >= 1,
         NEW bytes \in Seq(Byte), Len(bytes) = Len(order),
         NEW new, new = [k \in 1..Len(order) |-> MovedNode(nodes[order[k]], order, bytes[k])]
  PROVE  IsNodes(new) /\ Len(new) = Len(order) /\ Tags(new) = bytes
<1> DEFINE n == Len(order)
           l == Len(nodes)
           f(k) == MovedNode(nodes[order[k]], order, bytes[k])
           N == NodesIn(n)
<1>1. n \in Nat /\ n >= 1 /\ \A k \in 1..n : order[k] \in 1..l
  OBVIOUS
<1>2. ASSUME NEW i
      PROVE  NewIndex(order, i) \in 0..n
  <2>1. CASE i \in ToSet(order)
    <3>1. PICK k \in 1..n : order[k] = i
      BY <2>1 DEF ToSet
    <3>2. IndexIn(order, i) \in 1..n
      BY <3>1, IndexIs
    <3>3. IndexIn(order, i) \in 0..n
      BY <1>1, <3>2
    <3> QED
      BY <2>1, <3>3 DEF NewIndex
  <2>2. CASE i \notin ToSet(order)
    BY <1>1, <2>2 DEF NewIndex, NoNode
  <2> QED
    BY <2>1, <2>2
<1>3. ASSUME NEW k \in 1..n
      PROVE  f(k) \in N /\ f(k).tag = bytes[k]
  <2> DEFINE o == nodes[order[k]]
             b == bytes[k]
  <2>1. o \in NodesIn(l)
    <3>1. nodes \in Seq(NodesIn(l)) /\ order[k] \in 1..Len(nodes)
      BY <1>1, NodesAre
    <3> DEFINE S == NodesIn(l)
               i == order[k]
    <3> HIDE DEF S, i
    <3>2. nodes \in Seq(S) /\ i \in 1..Len(nodes)
      BY <3>1 DEF S, i
    <3>3. nodes[i] \in S
      BY <3>2
    <3> QED
      BY <3>3 DEF S, i
  <2>2. b \in Byte
    BY <1>1
  <2> HIDE DEF o, b, n, l
  <2> DEFINE x == MovedNode(o, order, b)
  <2> DEFINE p == NewIndex(order, o.parent)
             q == NewIndex(order, o.prev)
             r == NewIndex(order, o.next)
             s == NewIndex(order, o.first)
             t == NewIndex(order, o.last)
  <2>3. x = [o EXCEPT !.tag = b, !.parent = p, !.prev = q, !.next = r, !.first = s, !.last = t]
    BY DEF MovedNode
  <2>4. p \in 0..n /\ q \in 0..n /\ r \in 0..n /\ s \in 0..n /\ t \in 0..n
    BY <1>2
  <2> HIDE DEF p, q, r, s, t, x
  <2> DEFINE I == 0..n
             J == 0..l
             Text == Seq(Nat)
  <2>5. o \in [tag : Byte, text : Text, parent : J, prev : J, next : J, first : J, last : J]
    BY <2>1 DEF NodesIn
  <2> HIDE DEF I, J, Text
  <2>6. x \in [tag : Byte, text : Text, parent : I, prev : I, next : I, first : I, last : I]
        /\ x.tag = b
    BY <2>2, <2>3, <2>4, <2>5 DEF I
  <2>7. x \in NodesIn(n) /\ x.tag = b
    BY <2>6 DEF NodesIn, I, Text
  <2> QED
    BY <2>7 DEF o, b, x
<1> HIDE DEF f, N
<1>4. new = [k \in 1..n |-> f(k)]
  BY DEF f
<1>5. new \in Seq(N) /\ Len(new) = n /\ \A k \in 1..n : new[k] = f(k)
  BY <1>1, <1>3, <1>4
<1>6. Tags(new) = bytes
  <2>1. Tags(new) = [k \in 1..n |-> bytes[k]]
    BY <1>3, <1>5 DEF Tags
  <2>2. bytes = [k \in 1..n |-> bytes[k]]
    BY <1>1
  <2> QED
    BY <2>1, <2>2
<1>7. IsNodes(new)
  <2>1. new # <<>>
    BY <1>1, <1>5
  <2>2. new \in Seq(NodesIn(Len(new)))
    BY <1>5 DEF N
  <2> QED
    BY <2>1, <2>2, NodesAre
<1> QED
  BY <1>5, <1>6, <1>7

\* A rebuilt document is a sound one.
LEMMA RebuiltSound ==
  ASSUME NEW d, Sound(d)
  PROVE  Sound(Rebuilt(d, Order(d)))
<1> DEFINE order == Order(d)
           starts == RunsFrom(d, order, "attr")
           heads == RunsFrom(d, order, "cls")
           entries == UsedIn(d.lists, starts)
           syms == UsedSyms(d, order)
           tags == ReEncoded(d, order, syms)
           x == Rebuilt(d, order)
           n == Len(order)
           m == Len(d.symbols.heap)
           c == Cardinality(syms)
           nodes == [k \in 1..n |-> MovedNode(d.nodes[order[k]], order, tags.bytes[k])]
           slots == [k \in 1..n |-> MovedSlots(d, order, d.slots[order[k]])]
           symbols == CompactTable(d.symbols, syms)
           attrs == CompactAttrs(d.attrs, entries, syms)
           lists == Compacted(d.lists, starts, entries)
           classes == Compacted(d.classes, heads, syms)
           ext == tags.ext
<1>1. order \in Seq(1..Len(d.nodes)) /\ n \in Nat /\ n >= 1
  BY OrderIs
<1>2. /\ m \in Nat /\ Len(d.attrs.entries) \in Nat /\ Len(d.nodes) \in Nat
      /\ Len(d.slots) = Len(d.nodes)
  BY SoundIs
<1>3. x = [nodes |-> nodes, slots |-> slots, symbols |-> symbols, attrs |-> attrs,
           lists |-> lists, classes |-> classes, ext |-> ext, wide |-> TRUE]
  BY DEF Rebuilt, RebuiltWith
<1> HIDE DEF order
<1>4. starts \in SUBSET (1..Len(d.lists)) /\ heads \in SUBSET (1..Len(d.classes))
  BY <1>1, RunsReached
<1>5. /\ entries \in SUBSET (1..Len(d.attrs.entries)) /\ syms \in SUBSET (1..m)
      /\ UsedIn(d.classes, heads) \in SUBSET syms /\ EntrySyms(d.attrs, entries) \in SUBSET syms
  BY <1>1, UsedAre
<1>6. \A i \in ToSet(order) : IsExt(d.nodes[i].tag) => TagSym(d.ext, i, d.nodes[i].tag) \in syms
  BY <1>1, UsedAre
<1> HIDE DEF x, tags, syms, nodes, slots, symbols, attrs, lists, classes, ext
<1>7. /\ DOMAIN x = DocFields /\ x.nodes = nodes /\ x.slots = slots /\ x.symbols = symbols
      /\ x.attrs = attrs /\ x.lists = lists /\ x.classes = classes /\ x.ext = ext
  BY <1>3 DEF DocFields
<1>8. IsTable(x.symbols) /\ Len(x.symbols.heap) = c
  <2>1. x.symbols = CompactTable(d.symbols, syms)
    BY <1>7 DEF symbols
  <2>2. IsTable(d.symbols)
    BY DEF Sound
  <2> QED
    BY <1>5, <2>1, <2>2, TableCompacts
<1>9. IsAttrs(x.attrs, c) /\ Len(x.attrs.entries) = Cardinality(entries)
  <2>1. x.attrs = CompactAttrs(d.attrs, entries, syms)
    BY <1>7 DEF attrs
  <2>2. IsAttrs(d.attrs, m)
    BY DEF Sound
  <2> QED
    BY <1>2, <1>5, <2>1, <2>2, AttrsCompact
<1> HIDE DEF entries
<1>10. /\ IsRuns(x.lists, Cardinality(entries)) /\ Len(x.lists) \in Nat
       /\ \A s : Moved(d.lists, starts, s) \in 0..Len(x.lists)
  <2>1. x.lists = Compacted(d.lists, starts, entries)
    BY <1>7 DEF lists
  <2>2. IsRuns(d.lists, Len(d.attrs.entries)) /\ UsedIn(d.lists, starts) \in SUBSET entries
    BY DEF Sound, entries
  <2> HIDE DEF starts
  <2>3. IsRuns(x.lists, Cardinality(entries)) /\ Len(x.lists) \in Nat
    BY <1>2, <1>4, <1>5, <2>1, <2>2, RunsCompact
  <2>4. \A s : Moved(d.lists, starts, s) \in 0..Len(x.lists)
    BY <1>2, <1>4, <1>5, <2>1, <2>2, RunsCompact
  <2> QED
    BY <2>3, <2>4
<1>11. /\ IsRuns(x.classes, c) /\ Len(x.classes) \in Nat
       /\ \A s : Moved(d.classes, heads, s) \in 0..Len(x.classes)
  <2>1. x.classes = Compacted(d.classes, heads, syms)
    BY <1>7 DEF classes
  <2>2. IsRuns(d.classes, m)
    BY DEF Sound
  <2> HIDE DEF heads
  <2>3. IsRuns(x.classes, c) /\ Len(x.classes) \in Nat
    BY <1>2, <1>4, <1>5, <2>1, <2>2, RunsCompact
  <2>4. \A s : Moved(d.classes, heads, s) \in 0..Len(x.classes)
    BY <1>2, <1>4, <1>5, <2>1, <2>2, RunsCompact
  <2> QED
    BY <2>3, <2>4
<1>12. tags.bytes \in Seq(Byte) /\ Len(tags.bytes) = n /\ Tagged(tags.ext, tags.bytes, c)
  <2>1. IsNodes(d.nodes)
    BY DEF Sound
  <2> QED
    BY <1>1, <1>2, <1>5, <1>6, <2>1, TagsReEncoded DEF tags
<1>13. IsNodes(x.nodes) /\ Len(x.nodes) = n /\ Tags(x.nodes) = tags.bytes
  <2>1. x.nodes = [k \in 1..Len(order) |-> MovedNode(d.nodes[order[k]], order, tags.bytes[k])]
    BY <1>7 DEF nodes
  <2>2. IsNodes(d.nodes)
    BY DEF Sound
  <2> QED
    BY <1>1, <1>12, <2>1, <2>2, NodesMoved, SMTT(30)
<1>14. IsExtTags(x.ext, Tags(x.nodes), Len(x.symbols.heap))
  <2>1. x.ext = tags.ext
    BY <1>7 DEF ext
  <2> QED
    BY <1>8, <1>12, <1>13, <2>1 DEF Tagged
<1>15. IsSlots(x.slots, Len(x.nodes), Len(x.lists), Len(x.classes))
  <2> DEFINE S == SlotsIn(Len(x.lists), Len(x.classes))
             f(k) == MovedSlots(d, order, d.slots[order[k]])
  <2>1. slots = [k \in 1..n |-> f(k)]
    BY DEF slots
  <2>2. ASSUME NEW k \in 1..n
        PROVE  f(k) \in S
    BY <1>10, <1>11 DEF MovedSlots, SlotsIn
  <2> HIDE DEF S, f
  <2>3. slots \in Seq(S) /\ Len(slots) = n
    BY <1>1, <2>1, <2>2
  <2> QED
    BY <1>7, <1>13, <2>3 DEF IsSlots, SlotsIn, S
<1>16. IsAttrs(x.attrs, Len(x.symbols.heap)) /\ IsRuns(x.lists, Len(x.attrs.entries))
       /\ IsRuns(x.classes, Len(x.symbols.heap))
  BY <1>8, <1>9, <1>10, <1>11
<1>17. Sound(x)
  BY <1>7, <1>8, <1>13, <1>14, <1>15, <1>16 DEF Sound
<1> QED
  BY <1>17 DEF x, order

-----------------------------------------------------------------------------
(* The session                                                               *)
LEMMA BuiltSound ==
  ASSUME NEW b, IsWhole(b)
  PROVE  Sound(Built(b))
<1> DEFINE m == Len(b.symbols)
           v == Len(b.values)
           n == Len(b.entries)
           symbols == Table(b.symbols)
           values == Table(b.values)
           keys == PairKeys(b.entries)
           attrs == [entries |-> b.entries, sorted |-> SortedPairs(b.entries), values |-> values]
           x == Built(b)
<1>1. /\ IsHeap(b.symbols) /\ IsHeap(b.values) /\ IsEntries(b.entries, m, v)
      /\ IsRuns(b.lists, n) /\ IsRuns(b.classes, m) /\ IsNodes(b.nodes)
      /\ IsSlots(b.slots, Len(b.nodes), Len(b.lists), Len(b.classes))
      /\ IsExtTags(b.ext, Tags(b.nodes), m)
  BY DEF IsWhole
<1>2. IsTable(symbols) /\ symbols.heap = b.symbols /\ IsTable(values) /\ values.heap = b.values
  BY <1>1, TableOf
<1>3. m \in Nat /\ v \in Nat /\ v <= LocalCap
  BY <1>2, TablesAre
<1>4. b.entries \in Seq(Pairs(m, v)) /\ Distinct(b.entries)
  BY <1>1, EntriesAre
<1>5. SortedPairs(b.entries) = Ranked(keys)
  BY DEF SortedPairs
<1>6. Sorts(Ranked(keys), keys)
  <2>1. keys \in Seq(Nat)
    BY <1>3, <1>4, KeysAre
  <2>2. Distinct(keys)
    BY <1>3, <1>4, KeysDistinct
  <2> QED
    BY <2>1, <2>2, RankedSorts
<1>7. x = [nodes |-> b.nodes, slots |-> b.slots, symbols |-> symbols, attrs |-> attrs,
           lists |-> b.lists, classes |-> b.classes, ext |-> b.ext, wide |-> TRUE]
  BY DEF Built
<1> HIDE DEF x, symbols, values
<1>8. DOMAIN attrs = AttrFields /\ attrs.entries = b.entries /\ attrs.values = values
      /\ attrs.sorted = Ranked(keys)
  BY <1>5 DEF AttrFields
<1> HIDE DEF attrs
<1>9. IsAttrs(attrs, m)
  BY <1>2, <1>3, <1>4, <1>6, <1>8, AttrsAlike
<1>10. /\ DOMAIN x = DocFields /\ x.nodes = b.nodes /\ x.slots = b.slots /\ x.symbols = symbols
       /\ x.attrs = attrs /\ x.lists = b.lists /\ x.classes = b.classes /\ x.ext = b.ext
  BY <1>7 DEF DocFields
<1>11. Sound(x)
  BY <1>1, <1>2, <1>8, <1>9, <1>10 DEF Sound
<1> QED
  BY <1>11 DEF x

LEMMA PackedSound ==
  ASSUME NEW d, Sound(d)
  PROVE  Sound(Packed(d))
<1> DEFINE w == d.wide /\ Len(d.nodes) > Margin
           x == [d EXCEPT !.wide = w]
<1>1. Packed(d) = x
  BY DEF Packed
<1>2. DOMAIN d = DocFields
  BY DEF Sound
<1> HIDE DEF w
<1>3. /\ DOMAIN x = DocFields /\ x.nodes = d.nodes /\ x.slots = d.slots /\ x.symbols = d.symbols
      /\ x.attrs = d.attrs /\ x.lists = d.lists /\ x.classes = d.classes /\ x.ext = d.ext
  BY <1>2 DEF DocFields
<1> HIDE DEF x
<1>4. Sound(x)
  BY <1>3 DEF Sound
<1> QED
  BY <1>1, <1>4

SoundInv == Sound(dom)

LEMMA InitSound == Init => SoundInv
<1> SUFFICES ASSUME Init
             PROVE  Sound(dom)
  BY DEF SoundInv
<1>1. PICK b \in Docs : dom = Built(b)
  BY DEF Init
<1>2. IsWhole(b)
  BY CallsAssumption
<1> QED
  BY <1>1, <1>2, BuiltSound

LEMMA NextSound == SoundInv /\ [Next]_vars => SoundInv'
<1> SUFFICES ASSUME Sound(dom), [Next]_vars
             PROVE  Sound(dom')
  BY DEF SoundInv
<1>1. ASSUME NEW i \in Elements
      PROVE  i \in 1..Len(dom.nodes)
  <2>1. Live(dom.nodes) \in SUBSET (1..Len(dom.nodes))
    BY LiveStays DEF Sound
  <2> QED
    BY <2>1 DEF Elements
<1>2. ASSUME NEW a \in Attributes
      PROVE  a[1] \in Names /\ a[2] \in Strings
  BY CallsAssumption DEF Names
<1>3. ASSUME NEW i \in Elements, NEW a \in Attributes, AppendAttribute(i, a)
      PROVE  Sound(dom')
  <2> DEFINE e == EntryInsert(dom.attrs, NameSymbol(dom, a[1]), a[2])
  <2>1. CASE dom' = dom
    BY <2>1
  <2>2. CASE /\ a[1][1] = "ext" => ~TableIsFull(dom.symbols, a[1][2])
             /\ ~TableIsFull(dom.attrs.values, a[2])
             /\ dom' = AppendEntry(dom, i, e, NameTable(dom, a[1]))
    BY <1>1, <1>2, <2>2, EntryAppended
  <2> QED
    BY <1>3, <2>1, <2>2 DEF AppendAttribute, Panic
<1>4. ASSUME NEW i \in Elements, NEW a \in Attributes, RemoveAttributes(i, a[1])
      PROVE  Sound(dom')
  <2> DEFINE start == dom.slots[i].attr
             doomed == {id \in ToSet(RunAt(dom.lists, start)) : AttributeAt(dom, id)[1] = a[1]}
             lists == RemoveIds(dom.lists, start, doomed)
  <2>1. dom' = [dom EXCEPT !.lists = lists, !.slots[i].attr = Kept(lists, start)]
    BY <1>4 DEF RemoveAttributes
  <2> HIDE DEF doomed
  <2> QED
    BY <1>1, <2>1, AttributesRemoved
<1>5. ASSUME NEW i \in Elements, NEW c \in ClassNames, AppendClass(i, c)
      PROVE  Sound(dom')
  <2> DEFINE s == TableInsert(dom.symbols, c)
  <2>1. CASE dom' = dom
    BY <2>1
  <2>2. CASE ~TableIsFull(dom.symbols, c) /\ dom' = AppendClassSymbol(dom, i, s)
    <3>1. c \in Strings
      BY CallsAssumption
    <3> QED
      BY <1>1, <2>2, <3>1, ClassAppended
  <2> QED
    BY <1>5, <2>1, <2>2 DEF AppendClass, Panic
<1>6. ASSUME NEW i \in Elements, NEW c \in ClassNames, RemoveClass(i, c)
      PROVE  Sound(dom')
  <2> DEFINE start == dom.slots[i].cls
             doomed == {id \in ToSet(RunAt(dom.classes, start)) : dom.symbols.heap[id] = c}
             classes == RemoveIds(dom.classes, start, doomed)
  <2>1. dom' = [dom EXCEPT !.classes = classes, !.slots[i].cls = Kept(classes, start)]
    BY <1>6 DEF RemoveClass
  <2> HIDE DEF doomed
  <2> QED
    BY <1>1, <2>1, ClassesRemoved
<1>7. ASSUME NEW i \in Elements, NEW tag \in ChildNames, AppendChild(i, tag)
      PROVE  Sound(dom')
  <2> DEFINE x == [dom EXCEPT !.nodes = AddLastChild(@, i, Std(tag), <<>>), !.slots = Append(@, NoRuns)]
  <2>1. dom' = dom \/ dom' = x
    BY <1>7 DEF AppendChild, Panic
  <2>2. tag \in STRING
    BY CallsAssumption
  <2>3. Sound(x)
    BY <1>1, <2>2, ChildAppended
  <2> HIDE DEF x
  <2> QED
    BY <2>1, <2>3
<1>8. ASSUME NEW i \in Elements, DropChildren(i)
      PROVE  Sound(dom')
  <2> DEFINE x == [dom EXCEPT !.nodes = RemoveChildren(@, i)]
  <2>1. dom' = x
    BY <1>8 DEF DropChildren
  <2>2. Sound(x)
    BY <1>1, ChildrenGone
  <2> HIDE DEF x
  <2> QED
    BY <2>1, <2>2
<1>9. CASE Repackage
  BY <1>9, RebuiltSound DEF Repackage
<1>10. CASE StoreAndLoad
  BY <1>10, RebuiltSound, PackedSound DEF StoreAndLoad
<1>11. CASE UNCHANGED vars
  BY <1>11 DEF vars
<1> QED
  BY <1>3, <1>4, <1>5, <1>6, <1>7, <1>8, <1>9, <1>10, <1>11 DEF Next

\* Whatever is edited, rebuilt or stored and loaded: binary search finds each
\* name, class and value, and each pair of name and value, at the id it has
\* (SymbolTable::find, the attribute table's find_entry).
THEOREM EditsFind == Spec => []Findable
<1>1. SoundInv => Findable
  <2> SUFFICES ASSUME Sound(dom)
               PROVE  Findable
    BY DEF SoundInv
  <2>1. \A t \in {dom.symbols, dom.attrs.values} : \A id \in 1..Len(t.heap) : Find(t, t.heap[id]) = id
    BY SoundFinds
  <2>2. \A id \in 1..Len(dom.attrs.entries) : FindEntry(dom.attrs, dom.attrs.entries[id]) = id
    BY SoundFinds
  <2> QED
    BY <2>1, <2>2 DEF Findable
<1> QED
  BY <1>1, InitSound, NextSound, PTL DEF Spec
=============================================================================
