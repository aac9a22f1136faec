---------------------------- MODULE ListsProofs -----------------------------
(* Facts about Lists, and how a recursive function is reasoned about: that   *)
(* it exists by taking its steps one after the other (Iterates), what it is  *)
(* by the least place where it would not be that (Least, Upward).            *)
EXTENDS Lists, FiniteSetTheorems, SequenceTheorems, NaturalsInduction, WellFoundedInduction, TLAPS

(* A set of numbers that is not empty has a least element: with it a fact    *)
(* about every length is proved from its first exception.                    *)
LEMMA Least ==
  ASSUME NEW T \in SUBSET Nat, T # {}
  PROVE  \E m \in T : \A n \in T : m <= n
<1>1. \E x \in T : \A y \in T : ~(<<y, x>> \in OpToRel(<, Nat))
  BY NatLessThanWellFounded, WFMin
<1>2. PICK m \in T : \A y \in T : ~(<<y, m>> \in OpToRel(<, Nat))
  BY <1>1
<1>3. \A y \in T : ~(y < m)
  BY <1>2 DEF OpToRel
<1> QED
  BY <1>3

(* Any number of steps can be taken one after the other; the i-th is g[i]. *)
Iterate(f, S, base, len, g) ==
  f \in [0..len -> S] /\ f[0] = base /\ \A i \in 1..len : f[i] = g[i][f[i - 1]]

LEMMA Iterates ==
  ASSUME NEW S, NEW base \in S, NEW len \in Nat, NEW g \in [1..len -> [S -> S]]
  PROVE  \E f : Iterate(f, S, base, len, g)
<1> DEFINE Reaches(n) == \E f \in [0..n -> S] :
                           f[0] = base /\ \A i \in 1..n : f[i] = g[i][f[i - 1]]
           T == {n \in Nat : n <= len /\ ~Reaches(n)}
<1>a. SUFFICES Reaches(len)
  BY DEF Iterate
<1>1. SUFFICES ASSUME T # {} PROVE FALSE
  <2> HIDE DEF Reaches
  <2> QED
    OBVIOUS
<1>2. PICK m \in T : \A n \in T : m <= n
  <2>1. T \in SUBSET Nat
    OBVIOUS
  <2> HIDE DEF T
  <2> QED
    BY <1>1, <2>1, Least
<1>3. m \in Nat /\ m <= len /\ ~Reaches(m)
  OBVIOUS
<1>4. m # 0
  <2>1. Reaches(0)
    <3> DEFINE f == [i \in 0..0 |-> base]
    <3>1. f \in [0..0 -> S] /\ f[0] = base
      OBVIOUS
    <3>2. 1..0 = {}
      OBVIOUS
    <3> HIDE DEF f
    <3> QED
      BY <3>1, <3>2
  <2> HIDE DEF Reaches
  <2> QED
    BY <1>3, <2>1
<1>5. PICK n \in Nat : m = n + 1
  BY <1>3, <1>4
<1>6. n <= len /\ n + 1 \in 1..len /\ ~(m <= n)
  BY <1>3, <1>5
<1>7. Reaches(n)
  BY <1>2, <1>6
<1>8. PICK f \in [0..n -> S] : f[0] = base /\ \A i \in 1..n : f[i] = g[i][f[i - 1]]
  BY <1>7
<1> DEFINE h == [i \in 0..(n + 1) |-> IF i = n + 1 THEN g[n + 1][f[n]] ELSE f[i]]
<1>9. g[n + 1][f[n]] \in S
  <2>1. g[n + 1] \in [S -> S] /\ f[n] \in S
    BY <1>6
  <2> QED
    BY <2>1
<1>10. h \in [0..(n + 1) -> S] /\ h[0] = base
  BY <1>8, <1>9
<1>11. ASSUME NEW i \in 1..(n + 1)
       PROVE  h[i] = g[i][h[i - 1]]
  <2>1. h[i - 1] = f[i - 1]
    OBVIOUS
  <2>2. CASE i = n + 1
    BY <2>1, <2>2
  <2>3. CASE i # n + 1
    <3>1. i \in 1..n /\ h[i] = f[i]
      BY <2>3
    <3> QED
      BY <1>8, <2>1, <3>1
  <2> QED
    BY <2>2, <2>3
<1>12. Reaches(n + 1)
  <2> HIDE DEF h
  <2> QED
    BY <1>10, <1>11
<1> HIDE DEF Reaches
<1> QED
  BY <1>3, <1>5, <1>12

(* What passes from each number to the next holds of all of them.            *)
LEMMA Upward ==
  ASSUME NEW n \in Nat, NEW T, 0 \in T, \A i \in 0..n : i \in T /\ i < n => (i + 1) \in T
  PROVE  \A i \in 0..n : i \in T
<1> DEFINE U == {i \in Nat : i \in 0..n /\ i \notin T}
<1>1. SUFFICES ASSUME U # {} PROVE FALSE
  OBVIOUS
<1>2. PICK m \in U : \A i \in U : m <= i
  <2>1. U \in SUBSET Nat
    OBVIOUS
  <2> HIDE DEF U
  <2> QED
    BY <1>1, <2>1, Least
<1>3. m \in 0..n /\ m \notin T /\ m # 0
  OBVIOUS
<1>4. m - 1 \in Nat /\ m - 1 \in 0..n /\ m - 1 < n /\ (m - 1) + 1 = m /\ ~(m <= m - 1)
  BY <1>3
<1>5. m - 1 \in T
  BY <1>2, <1>4
<1>6. (m - 1) + 1 \in T
  BY <1>4, <1>5
<1> QED
  BY <1>3, <1>4, <1>6

-----------------------------------------------------------------------------
(* The lists up to the n-th one after the other.                           *)
Grows(f, lists, n) == f[0] = <<>> /\ \A i \in 1..n : f[i] = f[i - 1] \o lists[i]

Joins(f, lists, n, S) == f \in [0..n -> Seq(S)] /\ Grows(f, lists, n)

LEMMA JoinsAlike ==
  ASSUME NEW S, NEW n \in Nat, NEW f, NEW g, NEW a, NEW b,
         Grows(f, a, n), Grows(g, b, n), \A i \in 1..n : a[i] = b[i]
  PROVE  \A i \in 0..n : f[i] = g[i]
<1> DEFINE T == {r \in Nat : r \in 0..n /\ f[r] # g[r]}
<1>1. T = {}
  <2>1. SUFFICES ASSUME T # {} PROVE FALSE
    OBVIOUS
  <2>2. PICK m \in T : \A k \in T : m <= k
    <3>1. T \in SUBSET Nat
      OBVIOUS
    <3> HIDE DEF T
    <3> QED
      BY <2>1, <3>1, Least
  <2>3. m \in 1..n /\ f[m] # g[m] /\ m - 1 \in 0..n /\ ~(m <= m - 1)
    BY DEF Grows
  <2>4. f[m - 1] = g[m - 1]
    BY <2>2, <2>3
  <2> QED
    BY <2>3, <2>4 DEF Grows
<1> QED
  BY <1>1

LEMMA JoinedIs ==
  ASSUME NEW S, NEW lists \in Seq(Seq(S))
  PROVE  \E f : Joins(f, lists, Len(lists), S) /\ Joined(lists) = f[Len(lists)]
<1> DEFINE l == Len(lists)
           g == [i \in 1..l |-> [s \in Seq(S) |-> s \o lists[i]]]
           Right(G) == G = [n \in 0..Len(lists) |->
                              IF n = 0 THEN <<>> ELSE G[n - 1] \o lists[n]]
           G == CHOOSE G : Right(G)
<1>1. l \in Nat /\ \A i \in 1..l : lists[i] \in Seq(S)
  OBVIOUS
<1>2. g \in [1..l -> [Seq(S) -> Seq(S)]]
  BY <1>1
<1>3. PICK h \in [0..l -> Seq(S)] : h[0] = <<>> /\ \A i \in 1..l : h[i] = g[i][h[i - 1]]
  <2>1. l \in Nat /\ <<>> \in Seq(S)
    BY <1>1
  <2> HIDE DEF g, l
  <2>2. PICK h : Iterate(h, Seq(S), <<>>, l, g)
    BY <1>2, <2>1, Iterates
  <2> QED
    BY <2>2 DEF Iterate
<1>4. ASSUME NEW i \in 1..l
      PROVE  h[i] = h[i - 1] \o lists[i]
  <2>1. i - 1 \in 0..l
    BY ONLY <1>1, i \in 1..l
  <2>2. h[i - 1] \in Seq(S)
    BY <1>3, <2>1
  <2>3. h[i] = g[i][h[i - 1]]
    BY <1>3
  <2> QED
    BY <2>2, <2>3
<1>5. Right(h)
  <2> DEFINE R == [n \in 0..l |-> IF n = 0 THEN <<>> ELSE h[n - 1] \o lists[n]]
  <2>1. ASSUME NEW n \in 0..l PROVE h[n] = R[n]
    <3>1. CASE n = 0
      BY <1>3, <3>1
    <3>2. CASE n # 0
      <4>1. n \in 1..l
        BY <1>1, <3>2
      <4> QED
        BY <1>4, <3>2, <4>1
    <3> QED
      BY <3>1, <3>2
  <2>2. h = R
    BY <2>1
  <2> QED
    BY <2>2
<1>6. Right(G)
  <2> HIDE DEF Right
  <2> QED
    BY <1>5
<1>7. DOMAIN G = 0..l /\ Grows(G, lists, l)
  <2> DEFINE R == [n \in 0..l |-> IF n = 0 THEN <<>> ELSE G[n - 1] \o lists[n]]
  <2>1. G = R
    BY <1>6
  <2> HIDE DEF G, l
  <2>2. DOMAIN R = 0..l /\ R[0] = <<>>
    BY <1>1
  <2>3. ASSUME NEW n \in 1..l PROVE R[n] = G[n - 1] \o lists[n]
    <3>1. n \in 0..l /\ n # 0
      BY <1>1
    <3> QED
      BY <3>1
  <2> HIDE DEF R
  <2> QED
    BY <2>1, <2>2, <2>3 DEF Grows
<1>8. Joined(lists) = G[l]
  BY DEF Joined
<1> HIDE DEF G
<1>8a. Grows(h, lists, l)
  BY <1>3, <1>4 DEF Grows
<1>9. \A i \in 0..l : h[i] = G[i]
  <2>1. l \in Nat /\ Grows(G, lists, l)
    BY <1>1, <1>7
  <2>2. \A i \in 1..l : lists[i] = lists[i]
    OBVIOUS
  <2> HIDE DEF l
  <2> QED
    BY ONLY <1>8a, <2>1, <2>2, JoinsAlike
<1>10. Joined(lists) = h[l]
  BY <1>1, <1>8, <1>9
<1>11. Joins(h, lists, l, S)
  BY <1>3, <1>8a DEF Joins
<1> QED
  BY <1>10, <1>11

LEMMA JoinedNothing == Joined(<<>>) = <<>>
<1>1. <<>> \in Seq(Seq(Nat)) /\ Len(<<>>) = 0
  OBVIOUS
<1>2. PICK f : Joins(f, <<>>, 0, Nat) /\ Joined(<<>>) = f[0]
  BY <1>1, JoinedIs
<1> QED
  BY <1>2 DEF Joins, Grows

LEMMA JoinedMore ==
  ASSUME NEW S, NEW lists \in Seq(Seq(S)), NEW list \in Seq(S)
  PROVE  /\ Joined(Append(lists, list)) = Joined(lists) \o list
         /\ Joined(lists) \in Seq(S)
<1> DEFINE more == Append(lists, list)
           l == Len(lists)
<1>1. /\ more \in Seq(Seq(S)) /\ Len(more) = l + 1 /\ l \in Nat
      /\ more[l + 1] = list /\ \A i \in 1..l : more[i] = lists[i]
  OBVIOUS
<1> HIDE DEF more
<1>2. PICK f : Joins(f, lists, l, S) /\ Joined(lists) = f[l]
  BY JoinedIs
<1>3. PICK g : Joins(g, more, l + 1, S) /\ Joined(more) = g[l + 1]
  BY <1>1, JoinedIs
<1> HIDE DEF l
<1>4. Grows(f, lists, l) /\ Grows(g, more, l) /\ f[l] \in Seq(S)
  <2>1. \A i \in 1..l : i \in 1..(l + 1)
    BY <1>1
  <2>2. l \in 0..l /\ f \in [0..l -> Seq(S)] /\ Grows(f, lists, l) /\ Grows(g, more, l + 1)
    BY <1>1, <1>2, <1>3 DEF Joins
  <2>3. Grows(g, more, l)
    BY <2>1, <2>2 DEF Grows
  <2> QED
    BY <2>2, <2>3
<1>5. \A i \in 0..l : g[i] = f[i]
  BY <1>1, <1>4, JoinsAlike
<1>6. l + 1 \in 1..(l + 1) /\ (l + 1) - 1 = l /\ l \in 0..l
  BY <1>1
<1>7. g[l + 1] = g[l] \o more[l + 1]
  BY <1>3, <1>6 DEF Joins, Grows
<1> QED
  BY <1>1, <1>2, <1>3, <1>4, <1>5, <1>6, <1>7 DEF more

-----------------------------------------------------------------------------
\* Each number has a place, a larger one a later place.
LEMMA DenseRises ==
  ASSUME NEW S \in SUBSET Nat, IsFiniteSet(S)
  PROVE  /\ Cardinality(S) \in Nat
         /\ \A n \in S : Dense(S, n) \in 1..Cardinality(S)
         /\ \A m, n \in S : m < n => Dense(S, m) < Dense(S, n)
<1> DEFINE E(n) == {m \in S : m <= n}
<1>0. \A n \in S : n \in Nat
  OBVIOUS
<1>1. Cardinality(S) \in Nat
  BY FS_CardinalityType
<1>2. \A n \in S : E(n) \in SUBSET S /\ n \in E(n)
  OBVIOUS
<1>3. ASSUME NEW m \in S, NEW n \in S, m < n
      PROVE  E(m) \in SUBSET E(n) /\ n \notin E(m)
  <2>1. m \in Nat /\ n \in Nat
    BY <1>0
  <2>2. \A i \in S : i \in Nat /\ (i <= m => i <= n)
    BY <1>0, <1>3, <2>1
  <2>3. E(m) \in SUBSET E(n)
    BY <2>2
  <2>4. ~(n <= m)
    BY <1>3, <2>1
  <2> QED
    BY <2>3, <2>4
<1>4. \A n : Dense(S, n) = Cardinality(E(n))
  BY DEF Dense
<1> HIDE DEF E
<1>5. ASSUME NEW n \in S
      PROVE  IsFiniteSet(E(n)) /\ Cardinality(E(n)) \in 1..Cardinality(S)
  <2>1. IsFiniteSet(E(n)) /\ Cardinality(E(n)) <= Cardinality(S)
    BY <1>2, FS_Subset
  <2>2. Cardinality(E(n)) \in Nat /\ (Cardinality(E(n)) = 0 <=> E(n) = {})
    BY <2>1, FS_CardinalityType, FS_EmptySet
  <2>3. E(n) # {}
    BY <1>2
  <2> QED
    BY <1>1, <2>1, <2>2, <2>3
<1>6. ASSUME NEW m \in S, NEW n \in S, m < n
      PROVE  Cardinality(E(m)) < Cardinality(E(n))
  <2>1. E(m) \in SUBSET E(n) /\ n \in E(n) /\ n \notin E(m)
    BY <1>2, <1>3, <1>6
  <2>2. E(m) # E(n)
    BY <2>1
  <2>3. Cardinality(E(m)) <= Cardinality(E(n)) /\ Cardinality(E(n)) # Cardinality(E(m))
    BY <1>5, <2>1, <2>2, FS_Subset
  <2> QED
    BY <1>5, <2>3
<1> QED
  BY <1>1, <1>4, <1>5, <1>6

LEMMA DenseDiffers ==
  ASSUME NEW S \in SUBSET Nat, IsFiniteSet(S), NEW m \in S, NEW n \in S,
         Dense(S, m) <= Dense(S, n)
  PROVE  m <= n
<1>1. m \in Nat /\ n \in Nat
  OBVIOUS
<1>2. Dense(S, m) \in Nat /\ Dense(S, n) \in Nat
  BY DenseRises
<1>3. n < m => Dense(S, n) < Dense(S, m)
  BY DenseRises
<1> QED
  BY <1>1, <1>2, <1>3

\* Each place has a number.
LEMMA DenseOnto ==
  ASSUME NEW S \in SUBSET Nat, IsFiniteSet(S), NEW k \in 1..Cardinality(S)
  PROVE  \E n \in S : Dense(S, n) = k
<1> DEFINE c == Cardinality(S)
           T == 1..c
           f == [n \in S |-> Dense(S, n)]
<1>1. c \in Nat /\ k \in T
  BY DenseRises
<1>2. f \in [S -> T] /\ \A m, n \in S : f[m] = f[n] => m = n
  <2>1. \A n \in S : Dense(S, n) \in T
    BY DenseRises
  <2>2. ASSUME NEW m \in S, NEW n \in S, Dense(S, m) = Dense(S, n)
        PROVE  m = n
    <3>1. m \in Nat /\ n \in Nat /\ Dense(S, m) \in Nat /\ Dense(S, n) \in Nat
      BY DenseRises
    <3>2. m <= n /\ n <= m
      BY <2>2, <3>1, DenseDiffers
    <3> QED
      BY <3>1, <3>2
  <2> QED
    BY <2>1, <2>2
<1>3. IsFiniteSet(T) /\ Cardinality(T) = c
  <2>1. 1 \in Int /\ c \in Int /\ (IF 1 > c THEN 0 ELSE c - 1 + 1) = c
    BY <1>1
  <2> HIDE DEF c
  <2> QED
    BY <2>1, FS_Interval
<1>4. f \in Injection(S, T)
  <2> HIDE DEF f, T
  <2> QED
    BY <1>2 DEF Injection, IsInjective
<1>5. Cardinality(S) = Cardinality(T)
  BY <1>3
<1> HIDE DEF f, T, c
<1>6. f \in Surjection(S, T)
  BY <1>3, <1>4, <1>5, FS_Injection
<1>7. \E n \in S : f[n] = k
  BY <1>1, <1>6 DEF Surjection
<1> QED
  BY <1>7 DEF f

\* The set in order is a rising sequence of its numbers, each at its place.
LEMMA InOrderRises ==
  ASSUME NEW S \in SUBSET Nat, IsFiniteSet(S)
  PROVE  /\ InOrder(S) \in Seq(S) /\ Len(InOrder(S)) = Cardinality(S)
         /\ \A k \in 1..Cardinality(S) : InOrder(S)[k] \in S /\ Dense(S, InOrder(S)[k]) = k
         /\ \A n \in S : InOrder(S)[Dense(S, n)] = n
         /\ \A k, l \in 1..Cardinality(S) : k < l => InOrder(S)[k] < InOrder(S)[l]
<1> DEFINE c == Cardinality(S)
           at(k) == CHOOSE n \in S : Dense(S, n) = k
           s == InOrder(S)
<1>1. c \in Nat
  BY DenseRises
<1>2. \A k \in 1..c : at(k) \in S /\ Dense(S, at(k)) = k
  <2>1. \A k \in 1..c : \E n \in S : Dense(S, n) = k
    BY DenseOnto
  <2> QED
    BY <2>1
<1>3. s = [k \in 1..c |-> at(k)]
  BY DEF InOrder
<1> HIDE DEF at, s, c
<1>4. s \in Seq(S) /\ Len(s) = c
  BY <1>1, <1>2, <1>3, IsASeq
<1>5. \A k \in 1..c : s[k] \in S /\ Dense(S, s[k]) = k
  BY <1>2, <1>3
<1>6. ASSUME NEW n \in S
      PROVE  s[Dense(S, n)] = n
  <2>1. Dense(S, n) \in 1..c
    BY DenseRises DEF c
  <2>2. s[Dense(S, n)] \in S /\ Dense(S, s[Dense(S, n)]) = Dense(S, n)
    BY <1>5, <2>1
  <2> DEFINE m == s[Dense(S, n)]
  <2>3. m \in S /\ Dense(S, m) = Dense(S, n) /\ Dense(S, n) \in Nat
    BY <2>1, <2>2
  <2> HIDE DEF m
  <2>4. m <= n /\ n <= m
    BY <2>3, DenseDiffers
  <2>5. m \in Nat /\ n \in Nat
    BY <2>3
  <2>6. m = n
    BY <2>4, <2>5
  <2> QED
    BY <2>6 DEF m
<1>7. ASSUME NEW k \in 1..c, NEW l \in 1..c, k < l
      PROVE  s[k] < s[l]
  <2>1. s[k] \in S /\ s[l] \in S /\ Dense(S, s[k]) = k /\ Dense(S, s[l]) = l
    BY <1>5
  <2> DEFINE m == s[k]  n == s[l]
  <2>0. \A i \in S : i \in Nat
    OBVIOUS
  <2>2. m \in S /\ n \in S /\ Dense(S, m) = k /\ Dense(S, n) = l
    BY <2>1
  <2>3a. m \in Nat /\ n \in Nat
    BY <2>0, <2>2
  <2>3b. k \in Nat /\ l \in Nat
    BY <1>1
  <2>3. m \in Nat /\ n \in Nat /\ k \in Nat /\ l \in Nat
    BY <2>3a, <2>3b
  <2> HIDE DEF m, n
  <2>4. m <= n
    BY <1>7, <2>2, <2>3, DenseDiffers
  <2>5. m # n
    BY <1>7, <2>2, <2>3
  <2>6. m < n
    BY <2>3, <2>4, <2>5
  <2> QED
    BY <2>6 DEF m, n
<1> QED
  BY <1>4, <1>5, <1>6, <1>7 DEF s, c

Rises(s) == \A k, l \in 1..Len(s) : k < l => s[k] < s[l]

\* There is one rising sequence of a set of numbers.
LEMMA OnlyInOrder ==
  ASSUME NEW S \in SUBSET Nat, NEW s \in Seq(S), Rises(s),
         \A n \in S : \E k \in 1..Len(s) : s[k] = n
  PROVE  IsFiniteSet(S) /\ s = InOrder(S) /\ Len(s) = Cardinality(S)
<1> DEFINE l == Len(s)
<1>1. l \in Nat /\ s = [k \in 1..l |-> s[k]]
  OBVIOUS
<1>2. \A k \in 1..l : s[k] \in S /\ s[k] \in Nat
  <2>1. \A k \in 1..l : s[k] \in S
    OBVIOUS
  <2>2. \A n \in S : n \in Nat
    OBVIOUS
  <2> QED
    BY <2>1, <2>2
<1>3. \A j, k \in 1..l : s[j] <= s[k] <=> j <= k
  <2>1. ASSUME NEW j \in 1..l, NEW k \in 1..l
        PROVE  s[j] <= s[k] <=> j <= k
    <3>1. j < k => s[j] < s[k]
      BY DEF Rises
    <3>2. k < j => s[k] < s[j]
      BY DEF Rises
    <3>3. s[j] \in Nat /\ s[k] \in Nat /\ j \in Nat /\ k \in Nat
      BY <1>1, <1>2
    <3> QED
      BY <3>1, <3>2, <3>3
  <2> QED
    BY <2>1
<1>4. ASSUME NEW k \in 0..l, NEW E, E = {s[j] : j \in 1..k}
      PROVE  IsFiniteSet(E) /\ Cardinality(E) = k
  <2> DEFINE D == 1..k
             f == [j \in D |-> s[j]]
  <2>1. f \in [D -> E] /\ \A i, j \in D : f[i] = f[j] => i = j
    <3>1. ASSUME NEW i \in D, NEW j \in D, s[i] = s[j]
          PROVE  i = j
      <4>1. i \in 1..l /\ j \in 1..l /\ i \in Nat /\ j \in Nat
        BY <1>1
      <4>2. s[i] <= s[j] /\ s[j] <= s[i]
        BY <1>2, <3>1, <4>1
      <4> QED
        BY <1>3, <4>1, <4>2
    <3> QED
      BY <1>4, <3>1
  <2>2. \A e \in E : \E j \in D : f[j] = e
    BY <1>4
  <2>3. IsFiniteSet(D) /\ Cardinality(D) = k
    <3>1. 1 \in Int /\ k \in Int /\ (IF 1 > k THEN 0 ELSE k - 1 + 1) = k
      BY <1>1
    <3> QED
      BY <3>1, FS_Interval
  <2> HIDE DEF f, D
  <2>4. f \in Bijection(D, E)
    BY <2>1, <2>2 DEF Bijection, Injection, Surjection, IsInjective
  <2>5. ExistsBijection(D, E)
    BY <2>4 DEF ExistsBijection
  <2> QED
    BY <2>3, <2>5, FS_Bijection
<1>5. S = {s[j] : j \in 1..l} /\ l \in 0..l
  BY <1>1, <1>2
<1>6. IsFiniteSet(S) /\ Cardinality(S) = l
  BY <1>4, <1>5
<1>7. ASSUME NEW k \in 1..l
      PROVE  s[k] = InOrder(S)[k]
  <2> DEFINE n == s[k]
             E == {m \in S : m <= n}
             F == {s[j] : j \in 1..k}
  <2>1. n \in S /\ k \in 0..l
    BY <1>1, <1>2
  <2>2. E = F
    <3>1. ASSUME NEW m \in S, m <= n
          PROVE  m \in F
      <4>1. PICK j \in 1..l : s[j] = m
        OBVIOUS
      <4>2. j <= k /\ j \in Nat
        BY <1>1, <1>3, <3>1, <4>1
      <4> QED
        BY <1>1, <4>1, <4>2
    <3>2. ASSUME NEW j \in 1..k
          PROVE  s[j] \in S /\ s[j] <= n
      <4>1. j \in 1..l /\ j <= k
        BY <1>1
      <4> QED
        BY <1>2, <1>3, <4>1
    <3> QED
      BY <3>1, <3>2
  <2>3. Dense(S, n) = k
    <3>1. Cardinality(F) = k
      BY <1>4, <2>1
    <3> QED
      BY <2>2, <3>1 DEF Dense
  <2> HIDE DEF n
  <2>4. InOrder(S)[Dense(S, n)] = n
    BY <1>6, <2>1, InOrderRises
  <2> QED
    BY <2>3, <2>4 DEF n
<1>8. InOrder(S) = [k \in 1..l |-> InOrder(S)[k]]
  BY <1>6 DEF InOrder
<1> QED
  BY <1>1, <1>6, <1>7, <1>8

\* Numbers below others come before them.
LEMMA InOrderJoins ==
  ASSUME NEW A \in SUBSET Nat, IsFiniteSet(A), NEW B \in SUBSET Nat, IsFiniteSet(B),
         \A a \in A, b \in B : a < b
  PROVE  IsFiniteSet(A \cup B) /\ InOrder(A \cup B) = InOrder(A) \o InOrder(B)
<1> DEFINE s == InOrder(A)
           t == InOrder(B)
           u == s \o t
           S == A \cup B
<1>1. /\ s \in Seq(A) /\ \A n \in A : \E k \in 1..Len(s) : s[k] = n
      /\ \A k, l \in 1..Len(s) : k < l => s[k] < s[l]
  <2>1. \A n \in A : Dense(A, n) \in 1..Cardinality(A)
    BY DenseRises
  <2>2. s \in Seq(A) /\ Len(s) = Cardinality(A) /\ \A n \in A : s[Dense(A, n)] = n
    BY InOrderRises
  <2>3. \A k, l \in 1..Cardinality(A) : k < l => s[k] < s[l]
    BY InOrderRises
  <2> HIDE DEF s
  <2> QED
    BY <2>1, <2>2, <2>3
<1>2. /\ t \in Seq(B) /\ \A n \in B : \E k \in 1..Len(t) : t[k] = n
      /\ \A k, l \in 1..Len(t) : k < l => t[k] < t[l]
  <2>1. \A n \in B : Dense(B, n) \in 1..Cardinality(B)
    BY DenseRises
  <2>2. t \in Seq(B) /\ Len(t) = Cardinality(B) /\ \A n \in B : t[Dense(B, n)] = n
    BY InOrderRises
  <2>3. \A k, l \in 1..Cardinality(B) : k < l => t[k] < t[l]
    BY InOrderRises
  <2> HIDE DEF t
  <2> QED
    BY <2>1, <2>2, <2>3
<1> HIDE DEF s, t
<1>3. /\ Len(u) = Len(s) + Len(t) /\ Len(s) \in Nat /\ Len(t) \in Nat
      /\ \A k \in 1..Len(s) : u[k] = s[k] /\ s[k] \in A
      /\ \A k \in 1..Len(t) : u[Len(s) + k] = t[k] /\ t[k] \in B
      /\ \A k \in 1..Len(u) : k \in 1..Len(s) \/ (k - Len(s) \in 1..Len(t) /\ u[k] = t[k - Len(s)])
  BY <1>1, <1>2
<1>4. u \in Seq(S)
  BY <1>1, <1>2
<1> HIDE DEF u
<1>5. Rises(u)
  <2>1. ASSUME NEW k \in 1..Len(u), NEW l \in 1..Len(u), k < l
        PROVE  u[k] < u[l]
    <3>1. CASE l \in 1..Len(s)
      <4>1. k \in 1..Len(s)
        BY <1>3, <2>1, <3>1
      <4> QED
        BY <1>1, <1>3, <2>1, <3>1, <4>1
    <3>2. CASE k \in 1..Len(s) /\ l \notin 1..Len(s)
      <4>1. u[k] \in A /\ u[l] \in B
        BY <1>3, <3>2
      <4> QED
        BY <4>1
    <3>3. CASE k \notin 1..Len(s) /\ l \notin 1..Len(s)
      <4> DEFINE i == k - Len(s)
                 j == l - Len(s)
      <4>1. i \in 1..Len(t) /\ j \in 1..Len(t) /\ u[k] = t[i] /\ u[l] = t[j]
        BY <1>3, <3>3
      <4>2. i < j
        BY <1>3, <2>1
      <4> HIDE DEF i, j
      <4> QED
        BY <1>2, <4>1, <4>2
    <3> QED
      BY <1>3, <2>1, <3>1, <3>2, <3>3
  <2> QED
    BY <2>1 DEF Rises
<1>6. ASSUME NEW n \in S
      PROVE  \E k \in 1..Len(u) : u[k] = n
  <2>1. CASE n \in A
    <3>1. PICK k \in 1..Len(s) : s[k] = n
      BY <1>1, <2>1
    <3> QED
      BY <1>3, <3>1
  <2>2. CASE n \in B
    <3>1. PICK k \in 1..Len(t) : t[k] = n
      BY <1>2, <2>2
    <3>2. u[Len(s) + k] = n /\ Len(s) + k \in 1..Len(u)
      BY <1>3, <3>1
    <3> QED
      BY <3>2
  <2> QED
    BY <2>1, <2>2
<1>7. S \in SUBSET Nat
  OBVIOUS
<1> HIDE DEF S
<1>8. IsFiniteSet(S) /\ u = InOrder(S)
  BY <1>4, <1>5, <1>6, <1>7, OnlyInOrder
<1> QED
  BY <1>8 DEF S, u, s, t

-----------------------------------------------------------------------------
(* Searching                                                                 *)

\* v is the place of k among the keys from l up to r.
Splits(keys, k, l, r, v) ==
  /\ v \in l..r
  /\ \A i \in l..(r - 1) : i < v => keys[i] < k
  /\ \A i \in l..(r - 1) : i >= v => keys[i] >= k

LEMMA SplitUnique ==
  ASSUME NEW keys \in Seq(Nat), NEW k \in Nat, NEW l \in 1..(Len(keys) + 1),
         NEW r \in 1..(Len(keys) + 1), NEW v, NEW w,
         Splits(keys, k, l, r, v), Splits(keys, k, l, r, w)
  PROVE  v = w
<1>1. v \in l..r /\ w \in l..r /\ v \in Nat /\ w \in Nat
  BY DEF Splits
<1>2. ASSUME NEW a \in l..r, NEW b \in l..r, a < b, Splits(keys, k, l, r, a), Splits(keys, k, l, r, b)
      PROVE  FALSE
  <2>1. a \in l..(r - 1) /\ a \in 1..Len(keys)
    BY <1>2
  <2>2. keys[a] >= k /\ keys[a] < k /\ keys[a] \in Nat
    BY <1>2, <2>1 DEF Splits
  <2> QED
    BY <2>2
<1> QED
  BY <1>1, <1>2

\* One step of the search.
Halve(keys, k, F, l, r, mid) ==
  IF l >= r THEN l
  ELSE IF keys[mid] < k THEN F[<<mid + 1, r>>]
  ELSE IF keys[mid] > k THEN F[<<l, mid>>]
  ELSE mid

LEMMA HalveSplits ==
  ASSUME NEW keys \in Seq(Nat), Rises(keys), NEW k \in Nat, NEW F,
         NEW l \in 1..(Len(keys) + 1), NEW r \in 1..(Len(keys) + 1), l <= r,
         NEW mid, mid = l + (r - l) \div 2,
         l < r => /\ Splits(keys, k, mid + 1, r, F[<<mid + 1, r>>])
                  /\ Splits(keys, k, l, mid, F[<<l, mid>>])
  PROVE  Splits(keys, k, l, r, Halve(keys, k, F, l, r, mid))
<1>1. CASE l >= r
  <2>1. l = r /\ Halve(keys, k, F, l, r, mid) = l
    BY <1>1 DEF Halve
  <2> QED
    BY <2>1 DEF Splits
<1>2. CASE l < r
  <2>1. mid \in l..(r - 1) /\ mid \in 1..Len(keys) /\ mid \in Nat
    BY <1>2
  <2>2. keys[mid] \in Nat /\ \A i \in 1..Len(keys) : keys[i] \in Nat
    BY <2>1, SMTT(30)
  <2>3. \A i \in l..(r - 1) : i \in 1..Len(keys) /\ i \in Nat
    OBVIOUS
  <2>4. ASSUME NEW i \in l..(r - 1)
        PROVE  (i <= mid => keys[i] <= keys[mid]) /\ (i >= mid => keys[i] >= keys[mid])
    <3>1. i \in 1..Len(keys) /\ i \in Nat /\ mid \in Nat /\ keys[i] \in Nat /\ keys[mid] \in Nat
      BY <2>1, <2>2, <2>3
    <3>2. (i < mid => keys[i] < keys[mid]) /\ (mid < i => keys[mid] < keys[i])
      BY <2>1, <3>1 DEF Rises
    <3>3. i = mid => keys[i] = keys[mid]
      OBVIOUS
    <3> DEFINE x == keys[i]  y == keys[mid]
    <3> HIDE DEF x, y
    <3>4. x \in Nat /\ y \in Nat /\ (i < mid => x < y) /\ (mid < i => y < x) /\ (i = mid => x = y)
      BY <3>1, <3>2, <3>3 DEF x, y
    <3>5. (i <= mid => x <= y) /\ (i >= mid => x >= y)
      BY ONLY <3>1, <3>4
    <3> QED
      BY <3>5 DEF x, y
  <2>5. CASE keys[mid] < k
    <3> DEFINE v == F[<<mid + 1, r>>]
    <3>1. Halve(keys, k, F, l, r, mid) = v
      BY <1>2, <2>5 DEF Halve
    <3>2. Splits(keys, k, mid + 1, r, v)
      BY <1>2
    <3> HIDE DEF v
    <3>3. v \in l..r /\ v > mid
      BY <2>1, <3>2 DEF Splits
    <3>4. ASSUME NEW i \in l..(r - 1), i < v
          PROVE  keys[i] < k
      <4>1. CASE i <= mid
        <5>1. keys[i] <= keys[mid]
          BY <2>4, <4>1
        <5> QED
          BY <2>2, <2>3, <2>5, <5>1, SMTT(30)
      <4>2. CASE i > mid
        <5>1. i \in (mid + 1)..(r - 1)
          BY <2>1, <4>2
        <5> QED
          BY <3>2, <3>4, <5>1 DEF Splits
      <4> QED
        BY <2>1, <4>1, <4>2
    <3>5. ASSUME NEW i \in l..(r - 1), i >= v
          PROVE  keys[i] >= k
      <4>1. i \in (mid + 1)..(r - 1)
        BY <2>1, <3>3, <3>5
      <4> QED
        BY <3>2, <3>5, <4>1 DEF Splits
    <3> QED
      BY <3>1, <3>3, <3>4, <3>5 DEF Splits
  <2>6. CASE keys[mid] > k
    <3> DEFINE v == F[<<l, mid>>]
    <3>1. Halve(keys, k, F, l, r, mid) = v
      BY <1>2, <2>2, <2>6, SMTT(30) DEF Halve
    <3>2. Splits(keys, k, l, mid, v)
      BY <1>2
    <3> HIDE DEF v
    <3>3. v \in l..r /\ v <= mid
      BY <2>1, <3>2 DEF Splits
    <3>4. ASSUME NEW i \in l..(r - 1), i < v
          PROVE  keys[i] < k
      <4>1. i \in l..(mid - 1)
        BY <2>1, <3>3, <3>4
      <4> QED
        BY <3>2, <3>4, <4>1 DEF Splits
    <3>5. ASSUME NEW i \in l..(r - 1), i >= v
          PROVE  keys[i] >= k
      <4>1. CASE i >= mid
        <5>1. keys[i] >= keys[mid]
          BY <2>4, <4>1
        <5> QED
          BY <2>2, <2>3, <2>6, <5>1, SMTT(30)
      <4>2. CASE i < mid
        <5>1. i \in l..(mid - 1)
          BY <2>1, <4>2
        <5> QED
          BY <3>2, <3>5, <5>1 DEF Splits
      <4> QED
        BY <2>1, <4>1, <4>2
    <3> QED
      BY <3>1, <3>3, <3>4, <3>5 DEF Splits
  <2>7. CASE keys[mid] = k
    <3>1. Halve(keys, k, F, l, r, mid) = mid
      BY <1>2, <2>2, <2>7 DEF Halve
    <3>2. ASSUME NEW i \in l..(r - 1), i >= mid
          PROVE  keys[i] >= k
      BY <2>4, <2>7, <3>2
    <3>3. ASSUME NEW i \in l..(r - 1), i < mid
          PROVE  keys[i] < k
      BY <2>1, <2>3, <2>7, <3>3 DEF Rises
    <3>4. mid \in l..r
      BY <2>1
    <3> QED
      BY <3>1, <3>2, <3>3, <3>4 DEF Splits
  <2> QED
    BY <2>2, <2>5, <2>6, <2>7
<1> QED
  BY <1>1, <1>2

LEMMA SplitExists ==
  ASSUME NEW keys \in Seq(Nat), Rises(keys), NEW k \in Nat,
         NEW l \in 1..(Len(keys) + 1), NEW r \in 1..(Len(keys) + 1), l <= r
  PROVE  \E v : Splits(keys, k, l, r, v)
<1> DEFINE T == {i \in Nat : i \in l..r /\ (i = r \/ keys[i] >= k)}
<1>1. r \in T
  OBVIOUS
<1>2. PICK v \in T : \A i \in T : v <= i
  <2>1. T \in SUBSET Nat
    OBVIOUS
  <2> HIDE DEF T
  <2> QED
    BY <1>1, <2>1, Least
<1>3. v \in l..r /\ v \in Nat /\ (v = r \/ keys[v] >= k)
  OBVIOUS
<1>4. ASSUME NEW i \in l..(r - 1)
      PROVE  (i < v => keys[i] < k) /\ (i >= v => keys[i] >= k)
  <2>1. i \in Nat /\ i \in l..r /\ i # r /\ i \in 1..Len(keys) /\ keys[i] \in Nat
    OBVIOUS
  <2>2. CASE i < v
    <3>1. i \notin T
      <4> HIDE DEF T
      <4> QED
        BY <1>2, <1>3, <2>1, <2>2
    <3>2. ~(keys[i] >= k)
      BY <2>1, <3>1
    <3> QED
      BY <2>1, <2>2, <3>2
  <2>3. CASE i >= v
    <3>1. v # r /\ v \in 1..Len(keys) /\ keys[v] >= k /\ keys[v] \in Nat
      BY <1>3, <2>1, <2>3, SMTT(30)
    <3>2. v < i => keys[v] < keys[i]
      BY <2>1, <3>1 DEF Rises
    <3>3. v = i \/ v < i
      BY <1>3, <2>1, <2>3
    <3>4. keys[i] >= k
      BY <2>1, <3>1, <3>2, <3>3
    <3> QED
      BY <1>3, <2>1, <2>3, <3>4
  <2> QED
    BY <1>3, <2>1, <2>2, <2>3
<1> QED
  BY <1>3, <1>4 DEF Splits

(* Binary search finds the place of k among rising keys.                     *)
LEMMA BisectSplits ==
  ASSUME NEW keys \in Seq(Nat), Rises(keys), NEW k \in Nat
  PROVE  Splits(keys, k, 1, Len(keys) + 1, Bisect(keys, k))
<1> DEFINE n == Len(keys)
           A == 1..(n + 1)
           Step(F, l, r) == Halve(keys, k, F, l, r, l + (r - l) \div 2)
           Right(F) == F = [p \in A \X A |-> Step(F, p[1], p[2])]
           ok(l, r, v) == IF l > r THEN v = l ELSE Splits(keys, k, l, r, v)
           some(l, r) == CHOOSE v : ok(l, r, v)
           H == [p \in A \X A |-> some(p[1], p[2])]
           G == CHOOSE F : Right(F)
<1>1. n \in Nat
  OBVIOUS
<1>2. Bisect(keys, k) = G[<<1, n + 1>>]
  BY DEF Bisect, Halve
<1>3. ASSUME NEW F, NEW l \in A, NEW r \in A,
             \A a, b \in A : b - a < r - l /\ a <= b => ok(a, b, F[<<a, b>>])
      PROVE  ok(l, r, Step(F, l, r))
  <2> DEFINE mid == l + (r - l) \div 2
  <2>0. l \in Nat /\ r \in Nat
    BY <1>1
  <2>1. CASE l > r
    <3>1. l >= r
      BY <2>0, <2>1
    <3> QED
      BY <2>1, <3>1 DEF Halve
  <2>2. CASE l <= r
    <3>1. l < r => /\ mid + 1 \in A /\ mid \in A /\ mid + 1 <= r /\ l <= mid
                   /\ r - (mid + 1) < r - l /\ mid - l < r - l
                   /\ ~(mid + 1 > r) /\ ~(l > mid)
      BY <1>1, <2>2
    <3>3. mid = l + (r - l) \div 2
      OBVIOUS
    <3> HIDE DEF mid
    <3>2. l < r => /\ Splits(keys, k, mid + 1, r, F[<<mid + 1, r>>])
                   /\ Splits(keys, k, l, mid, F[<<l, mid>>])
      <4>1. l < r => ok(mid + 1, r, F[<<mid + 1, r>>]) /\ ok(l, mid, F[<<l, mid>>])
        BY <1>3, <3>1
      <4> QED
        BY <3>1, <4>1
    <3>4. Splits(keys, k, l, r, Halve(keys, k, F, l, r, mid))
      BY <2>2, <3>2, <3>3, HalveSplits
    <3>5. ~(l > r)
      BY <2>0, <2>2
    <3> QED
      BY <3>3, <3>4, <3>5
  <2> QED
    BY <2>0, <2>1, <2>2
<1>4. ASSUME NEW l \in A, NEW r \in A
      PROVE  /\ \E v : ok(l, r, v)
             /\ \A v, w : ok(l, r, v) /\ ok(l, r, w) => v = w
  <2>1. l \in Nat /\ r \in Nat /\ (~(l > r) => l <= r)
    BY <1>1
  <2>2. CASE l > r
    BY <2>2
  <2>3. CASE ~(l > r)
    <3>1. \E v : Splits(keys, k, l, r, v)
      BY <2>1, <2>3, SplitExists
    <3> QED
      BY <2>3, <3>1, SplitUnique
  <2> QED
    BY <2>2, <2>3
<1> HIDE DEF ok, Step
<1>5. ASSUME NEW l \in A, NEW r \in A
      PROVE  ok(l, r, H[<<l, r>>])
  <2>1. H[<<l, r>>] = some(l, r)
    OBVIOUS
  <2> HIDE DEF H
  <2>2. \E v : ok(l, r, v)
    BY <1>4
  <2> QED
    BY <2>1, <2>2
<1> HIDE DEF some
<1>6. Right(H)
  <2>1. H = [p \in A \X A |-> H[p]]
    BY DEF H
  <2>2. ASSUME NEW p \in A \X A
        PROVE  H[p] = Step(H, p[1], p[2])
    <3>1. p = <<p[1], p[2]>> /\ p[1] \in A /\ p[2] \in A
      OBVIOUS
    <3> DEFINE l == p[1]  r == p[2]
    <3> HIDE DEF H
    <3>2. l \in A /\ r \in A /\ p = <<l, r>>
      BY <3>1
    <3> HIDE DEF l, r
    <3>3. ok(l, r, H[<<l, r>>])
      BY <1>5, <3>2
    <3>4. ok(l, r, Step(H, l, r))
      BY <1>3, <1>5, <3>2
    <3>5. H[<<l, r>>] = Step(H, l, r)
      BY <1>4, <3>2, <3>3, <3>4
    <3> QED
      BY <3>2, <3>5 DEF l, r
  <2> HIDE DEF H
  <2> QED
    BY <2>1, <2>2
<1>7. Right(G)
  <2> HIDE DEF Right, H
  <2> QED
    BY <1>6
<1>8. \A l, r \in A : G[<<l, r>>] = Step(G, l, r)
  <2> HIDE DEF G
  <2> QED
    BY <1>7
<1> HIDE DEF G, H
<1> DEFINE Bad(w) == \E l \in A, r \in A : w = r + (n + 1) - l /\ l <= r /\ ~ok(l, r, G[<<l, r>>])
           T == {w \in Nat : Bad(w)}
<1>9. T = {}
  <2>1. SUFFICES ASSUME T # {} PROVE FALSE
    OBVIOUS
  <2>2. PICK m \in T : \A w \in T : m <= w
    <3>1. T \in SUBSET Nat
      OBVIOUS
    <3> HIDE DEF T
    <3> QED
      BY <2>1, <3>1, Least
  <2>3. PICK l \in A, r \in A : m = r + (n + 1) - l /\ l <= r /\ ~ok(l, r, G[<<l, r>>])
    OBVIOUS
  <2>4. ASSUME NEW a \in A, NEW b \in A, b - a < r - l, a <= b
        PROVE  ok(a, b, G[<<a, b>>])
    <3> DEFINE w == b + (n + 1) - a
    <3>1. w \in Nat /\ ~(m <= w)
      BY <1>1, <2>3, <2>4
    <3> HIDE DEF T
    <3>2. w \notin T
      BY <2>2, <3>1
    <3> QED
      BY <2>4, <3>1, <3>2 DEF T
  <2>5. ok(l, r, Step(G, l, r))
    BY <1>3, <2>4
  <2> QED
    BY <1>8, <2>3, <2>5
<1>10. 1 \in A /\ n + 1 \in A /\ 1 <= n + 1 /\ ~(1 > n + 1) /\ n + 1 + (n + 1) - 1 \in Nat
  BY <1>1
<1>11. ok(1, n + 1, G[<<1, n + 1>>])
  BY <1>9, <1>10
<1> QED
  BY <1>2, <1>10, <1>11 DEF ok

-----------------------------------------------------------------------------
(* Steps                                                                     *)

StepsOf(f, S, longer, n) ==
  /\ f \in [0..n -> S] /\ f[0] = <<>> /\ f[n] = Steps(longer, n)
  /\ \A k \in 1..n : f[k] = longer[f[k - 1]]

LEMMA StepsAre ==
  ASSUME NEW n \in Nat, NEW S, <<>> \in S, NEW longer \in [S -> S]
  PROVE  \E f : StepsOf(f, S, longer, n)
<1> DEFINE Right(path) == path = [k \in 0..n |-> IF k = 0 THEN <<>> ELSE longer[path[k - 1]]]
           path == CHOOSE p : Right(p)
           T == {k \in 0..n : path[k] \in S}
           g == [i \in 1..n |-> longer]
<1>1. Steps(longer, n) = path[n]
  BY DEF Steps
<1>2. g \in [1..n -> [S -> S]] /\ \A i \in 1..n : g[i] = longer
  OBVIOUS
<1> HIDE DEF g
<1>3. PICK f : Iterate(f, S, <<>>, n, g)
  BY <1>2, Iterates
<1>4. f = [k \in 0..n |-> f[k]] /\ f[0] = <<>> /\ \A k \in 1..n : f[k] = longer[f[k - 1]]
  BY <1>2, <1>3 DEF Iterate
<1>5. \A k \in 0..n : k = 0 \/ k \in 1..n
  OBVIOUS
<1>6. Right(f)
  BY <1>4, <1>5
<1>7. Right(path)
  BY <1>6
<1> HIDE DEF path
<1>8. path[0] = <<>> /\ \A k \in 1..n : path[k] = longer[path[k - 1]]
  BY <1>7
<1>9. 0 \in T
  BY <1>8
<1>10. ASSUME NEW k \in 0..n, k \in T, k < n
       PROVE  k + 1 \in T
  <2>1. k + 1 \in 1..n /\ (k + 1) - 1 = k /\ k + 1 \in 0..n
    BY <1>10
  <2>2. path[k + 1] = longer[path[k]]
    BY <1>8, <2>1
  <2>3. path[k + 1] \in S
    BY <1>10, <2>2
  <2> QED
    BY <2>1, <2>3
<1>11. \A k \in 0..n : k \in T
  <2> HIDE DEF T
  <2>1. \A k \in 0..n : k \in T /\ k < n => (k + 1) \in T
    BY <1>10
  <2> QED
    BY <1>9, <2>1, Upward
<1>12. path \in [0..n -> S]
  <2>1. \A k \in 0..n : path[k] \in S
    BY <1>11
  <2> QED
    BY <1>7, <2>1
<1> HIDE DEF T
<1> QED
  BY <1>1, <1>8, <1>12 DEF StepsOf

LEMMA StepsStay ==
  ASSUME NEW n \in Nat, NEW S, <<>> \in S, NEW longer \in [S -> S]
  PROVE  Steps(longer, n) \in S
<1>1. PICK f : StepsOf(f, S, longer, n)
  BY StepsAre
<1> QED
  BY <1>1 DEF StepsOf

\* What each step keeps, as a set of what may be reached in k steps, holds after n.
LEMMA StepsReach ==
  ASSUME NEW n \in Nat, NEW S, <<>> \in S, NEW longer \in [S -> S], NEW T, <<0, <<>>>> \in T,
         \A k \in 0..n, s \in S : <<k, s>> \in T /\ k < n => <<k + 1, longer[s]>> \in T
  PROVE  <<n, Steps(longer, n)>> \in T
<1>0. PICK f : StepsOf(f, S, longer, n)
  BY StepsAre
<1>1. /\ f \in [0..n -> S] /\ f[0] = <<>> /\ f[n] = Steps(longer, n)
      /\ \A k \in 1..n : f[k] = longer[f[k - 1]]
  BY <1>0 DEF StepsOf
<1> DEFINE U == {k \in 0..n : <<k, f[k]>> \in T}
<1>2. 0 \in U
  BY <1>1
<1>3. ASSUME NEW k \in 0..n, k \in U, k < n
      PROVE  k + 1 \in U
  <2>1. k + 1 \in 1..n /\ (k + 1) - 1 = k /\ k + 1 \in 0..n
    BY <1>3
  <2>2. f[k + 1] = longer[f[k]] /\ f[k] \in S
    BY <1>1, <2>1
  <2> QED
    BY <1>3, <2>1, <2>2
<1>4. n \in 0..n
  OBVIOUS
<1> HIDE DEF U
<1>5. \A k \in 0..n : k \in U /\ k < n => (k + 1) \in U
  BY <1>3
<1>6. \A k \in 0..n : k \in U
  BY <1>2, <1>5, Upward
<1> QED
  BY <1>1, <1>4, <1>6 DEF U
=============================================================================
