------------------------- MODULE TreeBuilderProofs --------------------------
(* Proofs about the parser: whatever the source and the capacities, the open *)
(* elements are one path of the tree, and the arena is in document order.    *)
EXTENDS TreeBuilder, ListsProofs

-----------------------------------------------------------------------------
(* Trees in document order                                                   *)

\* A parent comes before its children, and the root has neither parent nor next.
Parents(t) ==
  /\ Len(t) \in Nat /\ 1 <= Len(t)
  /\ t[1].parent = 0 /\ t[1].next = 0
  /\ \A i \in 2..Len(t) : t[i].parent \in 1..(i - 1)
  /\ \A i \in 1..Len(t) : t[i].next \in 0..Len(t)

\* e[i] is one past the last node below i.
Ends(t, e) ==
  /\ e \in [1..Len(t) -> 1..(Len(t) + 1)]
  /\ e[1] = Len(t) + 1
  /\ \A i \in 2..Len(t) : t[i].next = 0 => e[i] = e[t[i].parent]
  /\ \A i \in 2..Len(t) : t[i].next # 0 => e[i] = t[i].next /\ e[i] < e[t[i].parent]

\* What is below i, and nothing else, lies between i and e[i].
Below(t, e) ==
  /\ \A i \in 1..Len(t) :
        IF t[i].first = 0 THEN t[i].last = 0 /\ e[i] = i + 1
        ELSE t[i].first = i + 1 /\ t[i].last # 0 /\ i + 1 < e[i]
  /\ \A i \in 1..Len(t) : \A j \in (i + 1)..(e[i] - 1) : t[j].parent >= i /\ e[j] <= e[i]

Lasts(t) ==
  /\ \A i \in 1..Len(t) :
        t[i].last # 0 => /\ t[i].last \in 2..Len(t)
                         /\ t[t[i].last].parent = i /\ t[t[i].last].next = 0
  /\ \A i \in 2..Len(t) : t[i].next = 0 => t[t[i].parent].last = i

Preorder(t, e) == Parents(t) /\ Ends(t, e) /\ Below(t, e) /\ Lasts(t)

\* up climbs from parent to parent.
Climbs(t, up) ==
  /\ up \in Seq(1..Len(t))
  /\ \A k \in 1..(Len(up) - 1) : up[k + 1] = t[up[k]].parent

\* As long as there is no next sibling, a node ends where its parent does.
LEMMA ClimbEnds ==
  ASSUME NEW t, NEW e, Parents(t), Ends(t, e), NEW up, Climbs(t, up), NEW m \in 1..Len(up),
         \A l \in 1..(m - 1) : t[up[l]].next = 0
  PROVE  e[up[m]] = e[up[1]]
<1> DEFINE n == Len(t)
           T == {l \in Nat : l < m => e[up[l + 1]] = e[up[1]]}
<1>1. /\ n \in Nat /\ Len(up) \in Nat /\ m \in Nat /\ m - 1 \in Nat
      /\ \A k \in 1..Len(up) : up[k] \in 1..n
  BY DEF Parents, Climbs
<1>2. 0 \in T
  OBVIOUS
<1>3. ASSUME NEW l \in 0..(m - 1), l \in T, l < m - 1
      PROVE  l + 1 \in T
  <2> DEFINE k == l + 1
  <2>1. /\ k \in 1..(m - 1) /\ k \in 1..(Len(up) - 1) /\ k \in 1..Len(up) /\ k + 1 \in 1..Len(up)
        /\ l < m /\ k \in Nat
    BY <1>1, <1>3
  <2>2. e[up[k]] = e[up[1]]
    BY <1>3, <2>1
  <2> HIDE DEF k
  <2>3. t[up[k]].next = 0 /\ up[k + 1] = t[up[k]].parent
    BY <2>1 DEF Climbs
  <2> DEFINE x == up[k]
  <2>4. x \in 1..n /\ t[x].parent \in 1..n
    BY <1>1, <2>1, <2>3
  <2> HIDE DEF x
  <2>5. x # 1
    BY <2>4 DEF Parents
  <2>6. x \in 2..n
    BY <1>1, <2>4, <2>5
  <2>7. e[x] = e[t[x].parent]
    BY <2>3, <2>6 DEF Ends, n, x
  <2>8. e[up[k + 1]] = e[up[1]]
    BY <2>2, <2>3, <2>7 DEF x
  <2> QED
    BY <2>1, <2>8 DEF k
<1>4. m - 1 \in 0..(m - 1) /\ (m - 1) + 1 = m /\ m - 1 < m
  BY <1>1
<1> HIDE DEF T
<1>5. \A l \in 0..(m - 1) : l \in T /\ l < m - 1 => (l + 1) \in T
  BY <1>3
<1>6. \A l \in 0..(m - 1) : l \in T
  BY <1>1, <1>2, <1>5, Upward
<1> QED
  BY <1>4, <1>6 DEF T

\* What comes after a whole subtree.
Leads(t, e, up, next) ==
  \/ next = 0 /\ e[up[Len(up)]] = e[up[1]] /\ t[up[Len(up)]].next = 0
  \/ \E m \in 1..Len(up) : next = t[up[m]].next /\ t[up[m]].next # 0 /\ e[up[m]] = e[up[1]]

LEMMA ClimbOnward ==
  ASSUME NEW t, NEW e, Parents(t), Ends(t, e), NEW up, Climbs(t, up), up # <<>>
  PROVE  Leads(t, e, up, Onward(t, up))
<1> DEFINE n == Len(t)
           l == Len(up)
           nexts == {k \in 1..Len(up) : t[up[k]].next # NoNode}
           m == Min(nexts)
<1>1. n \in Nat /\ l \in Nat /\ up \in Seq(1..n)
  BY DEF Parents, Climbs
<1>2. 1 \in 1..l /\ l \in 1..l /\ l \in 1..Len(up)
  BY <1>1
<1>3. Onward(t, up) = IF nexts = {} THEN NoNode ELSE t[up[m]].next
  BY DEF Onward
<1>4. CASE nexts = {}
  <2>1. \A k \in 1..l : t[up[k]].next = 0
    BY <1>4 DEF NoNode
  <2>2. \A k \in 1..(l - 1) : t[up[k]].next = 0
    BY <1>1, <2>1
  <2>3. e[up[l]] = e[up[1]]
    BY <1>2, <2>2, ClimbEnds
  <2> QED
    BY <1>2, <1>3, <1>4, <2>1, <2>3 DEF NoNode, Leads
<1>5. CASE nexts # {}
  <2>1. nexts \in SUBSET Nat /\ nexts \in SUBSET (1..l)
    BY <1>1
  <2>2. \A k \in 1..l : k \in nexts <=> t[up[k]].next # 0
    BY DEF NoNode
  <2> HIDE DEF nexts
  <2>3. PICK k \in nexts : \A j \in nexts : k <= j
    BY <1>5, <2>1, Least
  <2>4. m \in nexts /\ \A j \in nexts : m <= j
    BY <2>3 DEF Min
  <2> HIDE DEF m
  <2>5. m \in 1..Len(up) /\ m \in 1..l
    BY <2>1, <2>4
  <2>6. \A j \in 1..(m - 1) : t[up[j]].next = 0
    <3>1. \A j \in 1..(m - 1) : j \in 1..l /\ j < m /\ j \in Nat /\ m \in Nat
      BY <1>1, <2>5
    <3>2. \A j \in 1..(m - 1) : j \notin nexts
      BY <2>4, <3>1
    <3> QED
      BY <2>2, <3>1, <3>2
  <2>7. e[up[m]] = e[up[1]]
    BY <2>5, <2>6, ClimbEnds
  <2> QED
    BY <1>3, <1>5, <2>2, <2>4, <2>5, <2>7 DEF Leads
<1> QED
  BY <1>4, <1>5

\* A chain of parents, from i up to below `stop` or to the root.
Chained(t, c, i, stop) ==
  /\ Climbs(t, c)
  /\ c = <<>> <=> i \in {0, stop}
  /\ c # <<>> => /\ c[1] = i /\ t[c[Len(c)]].parent \in {0, stop}
                 /\ \A k \in 1..Len(c) : c[k] # stop

LEMMA ChainsUp ==
  ASSUME NEW t, Parents(t), NEW i \in 0..Len(t), NEW stop
  PROVE  Chained(t, ChainTo(t, i, "parent", stop), i, stop)
<1> DEFINE n == Len(t)
           S == Seq(1..n)
           next(s) == IF s = <<>> THEN i ELSE t[Last(s)].parent
           longer == [s \in S |-> Extend(s, next(s), stop)]
           Done(s) == next(s) \in {0, stop}
           Part(k, s) == /\ Climbs(t, s) /\ (Len(s) = k \/ (Len(s) <= k /\ Done(s)))
                         /\ s # <<>> => s[1] = i /\ i \notin {0, stop}
                         /\ \A m \in 1..Len(s) : s[m] + m <= i + 1 /\ s[m] # stop
           T == {p \in Nat \X S : Part(p[1], p[2])}
           c == Steps(longer, n)
<1>1. n \in Nat /\ i \in 0..n /\ <<>> \in S /\ Len(<<>>) = 0
  BY DEF Parents
<1>2. ChainTo(t, i, "parent", stop) = c
  BY DEF ChainTo
<1>3. \A j \in 1..n : t[j].parent \in 0..n /\ t[j].parent < j
  <2>1. ASSUME NEW j \in 1..n
        PROVE  t[j].parent \in 0..n /\ t[j].parent < j
    <3>1. j = 1 \/ j \in 2..n
      BY <1>1
    <3> QED
      BY <1>1, <3>1 DEF Parents
  <2> QED
    BY <2>1
<1>4. ASSUME NEW s \in S
      PROVE  /\ Len(s) \in Nat /\ \A m \in 1..Len(s) : s[m] \in 1..n
             /\ s # <<>> => Len(s) \in 1..Len(s) /\ Last(s) = s[Len(s)]
             /\ next(s) \in 0..n
  <2>1. Len(s) \in Nat /\ \A m \in 1..Len(s) : s[m] \in 1..n
    OBVIOUS
  <2>2. s # <<>> => Len(s) \in 1..Len(s) /\ Last(s) = s[Len(s)]
    BY <2>1 DEF Last
  <2>3. next(s) \in 0..n
    BY <1>1, <1>3, <2>1, <2>2
  <2> HIDE DEF next
  <2> QED
    BY <2>1, <2>2, <2>3
<1>5. ASSUME NEW s \in S
      PROVE  Extend(s, next(s), stop) \in S
  <2>1. next(s) \in 0..n
    BY <1>4
  <2> HIDE DEF next
  <2>2. CASE next(s) \in {NoNode, stop}
    BY <2>2 DEF Extend
  <2>3. CASE next(s) \notin {NoNode, stop}
    <3>1. next(s) \in 1..n
      BY <1>1, <2>1, <2>3 DEF NoNode
    <3>2. Extend(s, next(s), stop) = Append(s, next(s))
      BY <2>3 DEF Extend
    <3> QED
      BY <3>1, <3>2
  <2> QED
    BY <2>2, <2>3
<1>6. longer \in [S -> S]
  <2> HIDE DEF next, S
  <2> QED
    BY <1>5
<1>7. <<0, <<>>>> \in T
  <2>1. Climbs(t, <<>>)
    BY <1>1 DEF Climbs
  <2>2. \A m \in 1..Len(<<>>) : FALSE
    BY <1>1
  <2>3. Part(0, <<>>)
    BY <1>1, <2>1, <2>2
  <2> HIDE DEF Part, S
  <2> QED
    BY <1>1, <2>3
<1>8. ASSUME NEW k \in 0..n, NEW s \in S, <<k, s>> \in T, k < n
      PROVE  <<k + 1, longer[s]>> \in T
  <2> DEFINE x == next(s)
             u == Extend(s, x, stop)
             l == Len(s)
  <2>1. Part(k, s) /\ k \in Nat /\ k + 1 \in Nat
    BY <1>8
  <2>2. longer[s] = u /\ u \in S
    BY <1>5
  <2>3. CASE x \in {0, stop}
    <3>1. u = s
      BY <2>3 DEF Extend, NoNode
    <3>2. Len(s) <= k
      BY <1>4, <2>1
    <3>3. Len(s) <= k + 1
      BY <1>4, <2>1, <3>2
    <3>4. Done(s)
      BY <2>3
    <3>5. Part(k + 1, s)
      <4> HIDE DEF Done, next
      <4> QED
        BY <2>1, <3>3, <3>4
    <3> HIDE DEF u, Part
    <3> QED
      BY <2>1, <2>2, <3>1, <3>5
  <2>4. CASE x \notin {0, stop}
    <3>1. u = Append(s, x)
      BY <2>4 DEF Extend, NoNode
    <3>2. ~Done(s)
      BY <2>4
    <3>3. Len(s) = k
      BY <2>1, <3>2
    <3>4. x \in 1..n /\ l \in Nat
      BY <1>4, <2>4
    <3>5. s # <<>> => l \in 1..l /\ s[l] \in 1..n /\ x = t[s[l]].parent
      BY <1>4
    <3>6. s = <<>> => x = i /\ l = 0
      BY <1>1
    <3> HIDE DEF next
    <3>7. Len(u) = l + 1 /\ u[l + 1] = x /\ \A m \in 1..l : u[m] = s[m]
      BY <3>1, <3>4
    <3>8. \A m \in 1..(l + 1) : m \in 1..l \/ m = l + 1
      BY <3>4
    <3>9. Climbs(t, u)
      <4>1. ASSUME NEW m \in 1..(Len(u) - 1)
            PROVE  u[m + 1] = t[u[m]].parent
        <5>1. m \in 1..l
          BY <3>4, <3>7
        <5>2. CASE m = l
          <6>1. s # <<>>
            BY <1>1, <5>1
          <6> QED
            BY <3>5, <3>7, <5>1, <5>2, <6>1
        <5>3. CASE m # l
          <6>1. m \in 1..(l - 1) /\ m + 1 \in 1..l
            BY <3>4, <5>1, <5>3
          <6> QED
            BY <2>1, <3>7, <5>1, <6>1 DEF Climbs
        <5> QED
          BY <5>2, <5>3
      <4> QED
        BY <2>2, <4>1 DEF Climbs
    <3>10. u[1] = i /\ i \notin {0, stop}
      <4>1. CASE s = <<>>
        BY <2>4, <3>6, <3>7, <4>1
      <4>2. CASE s # <<>>
        <5>1. 1 \in 1..l
          BY <3>4, <3>5, <4>2
        <5> QED
          BY <2>1, <3>7, <4>2, <5>1
      <4> QED
        BY <4>1, <4>2
    <3>11. x + (l + 1) <= i + 1
      <4>1. CASE s = <<>>
        BY <1>1, <3>6, <4>1
      <4>2. CASE s # <<>>
        <5> DEFINE y == s[l]
        <5>1. y + l <= i + 1 /\ y \in Nat /\ x < y
          BY <1>3, <2>1, <3>5, <4>2
        <5> HIDE DEF y, l, x
        <5> QED
          BY <1>1, <3>4, <5>1
      <4> QED
        BY <4>1, <4>2
    <3>12. ASSUME NEW m \in 1..Len(u)
           PROVE  u[m] + m <= i + 1 /\ u[m] # stop
      <4>1. m \in 1..l \/ m = l + 1
        BY <3>7, <3>8
      <4>2. CASE m \in 1..l
        BY <2>1, <3>7, <4>2
      <4>3. CASE m = l + 1
        BY <2>4, <3>7, <3>11, <4>3
      <4> QED
        BY <4>1, <4>2, <4>3
    <3>13. Part(k + 1, u)
      <4>1. Len(u) = k + 1
        BY <3>3, <3>7
      <4> HIDE DEF u, Done
      <4> QED
        BY <3>9, <3>10, <3>12, <4>1
    <3> HIDE DEF u, Part
    <3> QED
      BY <2>1, <2>2, <3>13
  <2> QED
    BY <2>3, <2>4
<1>9. <<n, c>> \in T
  <2> HIDE DEF T, S, longer
  <2> QED
    BY <1>1, <1>6, <1>7, <1>8, StepsReach
<1>10. Part(n, c) /\ c \in S
  BY <1>9
<1> HIDE DEF c, longer
<1>11. Done(c)
  <2>1. SUFFICES ASSUME ~Done(c)
                 PROVE  FALSE
    OBVIOUS
  <2>2. Len(c) = n
    BY <1>10, <2>1
  <2>3. n \in 1..n
    BY <1>1 DEF Parents
  <2>4. c[n] + n <= i + 1 /\ c[n] \in 1..n /\ Last(c) = c[n] /\ c # <<>>
    BY <1>1, <1>4, <1>10, <2>2, <2>3
  <2> DEFINE y == c[n]
  <2>5. next(c) = t[y].parent
    BY <2>4
  <2>6. y = 1
    <3>1. y + n <= i + 1 /\ y \in 1..n
      BY <2>4
    <3> HIDE DEF y
    <3> QED
      BY <1>1, <3>1
  <2>7. next(c) = 0
    BY <2>5, <2>6 DEF Parents
  <2> HIDE DEF next
  <2> QED
    BY <2>1, <2>7
<1>12. c = <<>> <=> i \in {0, stop}
  <2>1. ASSUME c = <<>> PROVE i \in {0, stop}
    BY <1>11, <2>1
  <2> QED
    BY <1>10, <2>1
<1>13. ASSUME c # <<>>
       PROVE  c[1] = i /\ t[c[Len(c)]].parent \in {0, stop} /\ \A k \in 1..Len(c) : c[k] # stop
  <2>1. next(c) = t[c[Len(c)]].parent
    BY <1>4, <1>10, <1>13
  <2> QED
    BY <1>10, <1>11, <1>13, <2>1
<1> HIDE DEF Done, next
<1> QED
  BY <1>2, <1>10, <1>12, <1>13 DEF Chained


\* One past the last descendant of i, as the links tell it.
LEMMA SubtreeEndIs ==
  ASSUME NEW t, NEW e, Preorder(t, e), NEW i \in 1..Len(t)
  PROVE  SubtreeEnd(t, i) = e[i]
<1> DEFINE n == Len(t)
           p == t[i].parent
           a == Ancestors(t, i)
           up == <<i>> \o a
           l == Len(a)
<1>1. n \in Nat /\ i \in 1..n /\ Parents(t) /\ Ends(t, e)
  BY DEF Preorder, Parents
<1>2. p \in 0..n /\ (p = 0 <=> i = 1)
  <2>1. i = 1 \/ i \in 2..n
    BY <1>1
  <2> QED
    BY <1>1, <2>1 DEF Parents
<1>3. Chained(t, a, p, 0)
  BY <1>1, <1>2, ChainsUp DEF Ancestors, Chain, NoNode
<1> HIDE DEF a, p
<1>4. a \in Seq(1..n) /\ l \in Nat
  BY <1>3 DEF Chained, Climbs
<1>5. /\ up \in Seq(1..n) /\ Len(up) = l + 1 /\ up[1] = i /\ up # <<>>
      /\ \A k \in 1..l : up[k + 1] = a[k]
  BY <1>1, <1>4
<1> HIDE DEF up
<1>6. ASSUME NEW k \in 1..l
      PROVE  up[k + 1] = t[up[k]].parent
  <2>1. CASE k = 1
    <3>1. a # <<>>
      BY <1>4, <2>1
    <3>2. a[1] = p
      BY <1>3, <3>1 DEF Chained
    <3> QED
      BY <1>5, <2>1, <3>2 DEF p
  <2>2. CASE k # 1
    <3>1. k - 1 \in 1..(l - 1) /\ k - 1 \in 1..l /\ (k - 1) + 1 = k
      BY <1>4, <2>2
    <3>2. a[k] = t[a[k - 1]].parent
      BY <1>3, <3>1 DEF Chained, Climbs
    <3>3. up[k] = a[k - 1]
      BY <1>5, <3>1
    <3> QED
      BY <1>5, <3>2, <3>3
  <2> QED
    BY <2>1, <2>2
<1>7. Climbs(t, up)
  <2>1. Len(up) - 1 = l
    BY <1>4, <1>5
  <2> QED
    BY <1>5, <1>6, <2>1 DEF Climbs
<1>8. t[up[Len(up)]].parent = 0
  <2>1. CASE a = <<>>
    <3>1. p = 0 /\ l = 0
      BY <1>3, <2>1 DEF Chained
    <3> QED
      BY <1>5, <3>1 DEF p
  <2>2. CASE a # <<>>
    <3>1. t[a[l]].parent = 0 /\ l \in 1..l
      BY <1>3, <1>4, <2>2 DEF Chained
    <3> QED
      BY <1>5, <3>1
  <2> QED
    BY <2>1, <2>2
<1>9. SubtreeEnd(t, i) = IF Onward(t, up) = 0 THEN n + 1 ELSE Onward(t, up)
  BY DEF SubtreeEnd, NoNode, up, a
<1>10. CASE Onward(t, up) = 0 /\ e[up[Len(up)]] = e[up[1]]
  <2> DEFINE x == up[Len(up)]
  <2>1. x \in 1..n
    BY <1>4, <1>5
  <2>2. x = 1
    <3>1. x = 1 \/ x \in 2..n
      BY <1>1, <2>1
    <3> QED
      BY <1>1, <1>8, <3>1 DEF Parents
  <2> QED
    BY <1>1, <1>5, <1>9, <1>10, <2>2 DEF Ends
<1>11. CASE \E m \in 1..Len(up) : /\ Onward(t, up) = t[up[m]].next /\ t[up[m]].next # 0
                                  /\ e[up[m]] = e[up[1]]
  <2>1. PICK m \in 1..Len(up) : /\ Onward(t, up) = t[up[m]].next /\ t[up[m]].next # 0
                                /\ e[up[m]] = e[up[1]]
    BY <1>11
  <2> DEFINE x == up[m]
  <2>2. x \in 1..n
    BY <1>5
  <2>3. x \in 2..n
    <3>1. x = 1 \/ x \in 2..n
      BY <1>1, <2>2
    <3> QED
      BY <1>1, <2>1, <3>1 DEF Parents
  <2>4. e[x] = t[x].next
    BY <1>1, <2>1, <2>3 DEF Ends
  <2> QED
    BY <1>5, <1>9, <2>1, <2>4
<1>12. Leads(t, e, up, Onward(t, up))
  BY <1>1, <1>5, <1>7, ClimbOnward
<1> QED
  BY <1>10, <1>11, <1>12 DEF Leads

\* The walk below top goes through its range one node after the other.
LEMMA AfterIs ==
  ASSUME NEW t, NEW e, Preorder(t, e), NEW top \in 1..Len(t), NEW j \in top..(e[top] - 1)
  PROVE  After(t, top, j) = IF j + 1 < e[top] THEN j + 1 ELSE 0
<1> DEFINE n == Len(t)
           z == e[top]
           c == ChainTo(t, j, "parent", top)
<1>1. n \in Nat /\ top \in 1..n /\ Parents(t) /\ Ends(t, e) /\ e \in [1..n -> 1..(n + 1)]
  BY DEF Preorder, Parents, Ends
<1>2. z \in 1..(n + 1) /\ j \in 1..n /\ z \in Nat /\ j \in Nat /\ top \in Nat
  <2>1. z \in 1..(n + 1)
    BY <1>1
  <2> HIDE DEF z
  <2>2. j \in top..(z - 1)
    BY DEF z
  <2> QED
    BY <1>1, <2>1, <2>2
<1>3. ASSUME NEW k \in (top + 1)..(z - 1)
      PROVE  k \in 2..n /\ k \in 1..n /\ t[k].parent >= top /\ e[k] <= z /\ t[k].parent \in 1..(k - 1)
  <2>1. k \in 2..n /\ k \in 1..n
    BY <1>1, <1>2
  <2>2. t[k].parent >= top /\ e[k] <= z
    BY DEF Preorder, Below
  <2> QED
    BY <1>1, <2>1, <2>2 DEF Parents
<1>4. e[j] <= z
  <2>1. j = top \/ j \in (top + 1)..(z - 1)
    BY <1>1, <1>2
  <2> QED
    BY <1>2, <1>3, <2>1
<1>5. e[j] \in Nat
  BY <1>1, <1>2
<1>6. CASE t[j].first # 0
  <2>1. t[j].first = j + 1 /\ j + 1 < e[j]
    BY <1>2, <1>6 DEF Preorder, Below
  <2>2. After(t, top, j) = t[j].first
    BY <1>6 DEF After, NoNode
  <2>3. j + 1 < z
    BY <1>2, <1>4, <1>5, <2>1
  <2> QED
    BY <2>1, <2>2, <2>3
<1>7. CASE t[j].first = 0
  <2>1. e[j] = j + 1
    BY <1>2, <1>7 DEF Preorder, Below
  <2>2. After(t, top, j) = Onward(t, c)
    BY <1>7 DEF After, NoNode
  <2>3. Chained(t, c, j, top)
    BY <1>1, <1>2, ChainsUp
  <2> HIDE DEF c
  <2>4. c \in Seq(1..n) /\ Climbs(t, c) /\ Len(c) \in Nat
    BY <2>3 DEF Chained, Climbs
  <2>5. CASE c = <<>>
    <3>1. j = top
      BY <1>2, <2>3, <2>5 DEF Chained
    <3>2. {k \in 1..Len(c) : t[c[k]].next # NoNode} = {}
      BY <2>5
    <3>3. Onward(t, c) = 0
      BY <3>2 DEF Onward, NoNode
    <3>4. ~(j + 1 < z)
      BY <1>2, <2>1, <3>1
    <3> QED
      BY <2>2, <3>3, <3>4
  <2>6. CASE c # <<>>
    <3> DEFINE T == {k \in Nat : k < Len(c) => c[k + 1] \in (top + 1)..(z - 1)}
    <3>1. c[1] = j /\ t[c[Len(c)]].parent \in {0, top} /\ \A k \in 1..Len(c) : c[k] # top
      BY <2>3, <2>6 DEF Chained
    <3>2. 1 \in 1..Len(c) /\ Len(c) \in 1..Len(c)
      BY <2>4, <2>6
    <3>3. 0 \in T
      <4>1. j # top
        BY <3>1, <3>2
      <4>2. j \in (top + 1)..(z - 1)
        <5> HIDE DEF z
        <5> QED
          BY <1>2, <4>1 DEF z
      <4> QED
        BY <3>1, <4>2
    <3>4. ASSUME NEW k \in 0..Len(c), k \in T, k < Len(c)
          PROVE  k + 1 \in T
      <4>1. CASE k + 1 < Len(c)
        <5> DEFINE x == c[k + 1]
                   y == c[(k + 1) + 1]
        <5>1. k + 1 \in 1..(Len(c) - 1) /\ (k + 1) + 1 \in 1..Len(c)
          BY <2>4, <4>1
        <5>2. y = t[x].parent /\ y # top
          BY <2>4, <3>1, <5>1 DEF Climbs
        <5>3. x \in (top + 1)..(z - 1)
          BY <3>4
        <5> HIDE DEF x, y
        <5>4. y \in 1..(x - 1) /\ y >= top
          BY <1>3, <5>2, <5>3
        <5>5. y \in (top + 1)..(z - 1)
          <6> HIDE DEF z
          <6> QED
            BY <1>2, <5>2, <5>3, <5>4
        <5>6. k + 1 \in Nat
          BY <2>4
        <5> QED
          BY <5>5, <5>6 DEF y
      <4>2. CASE ~(k + 1 < Len(c))
        BY <2>4, <4>2
      <4> QED
        BY <4>1, <4>2
    <3>5. ASSUME NEW m \in 1..Len(c)
          PROVE  c[m] \in (top + 1)..(z - 1)
      <4>1. \A k \in 0..Len(c) : k \in T /\ k < Len(c) => (k + 1) \in T
        BY <3>4
      <4>2. m - 1 \in 0..Len(c) /\ (m - 1) + 1 = m /\ m - 1 < Len(c)
        BY <2>4
      <4>3. m - 1 \in T
        <5> HIDE DEF T
        <5>1. \A k \in 0..Len(c) : k \in T
          BY <2>4, <3>3, <4>1, Upward
        <5> QED
          BY <4>2, <5>1
      <4> QED
        BY <4>2, <4>3
    <3>6. Leads(t, e, c, Onward(t, c))
      BY <1>1, <2>4, <2>6, ClimbOnward
    <3>7. CASE Onward(t, c) = 0 /\ e[c[Len(c)]] = e[c[1]] /\ t[c[Len(c)]].next = 0
      <4> DEFINE x == c[Len(c)]
      <4>1. x \in 2..n /\ t[x].parent >= top /\ t[x].parent \in 1..(x - 1)
        BY <1>3, <3>2, <3>5
      <4>2. t[x].parent = top
        BY <1>2, <3>1, <4>1
      <4>3. e[x] = e[top]
        BY <1>1, <3>7, <4>1, <4>2 DEF Ends
      <4>4. ~(j + 1 < z)
        BY <1>2, <2>1, <3>1, <3>7, <4>3
      <4> QED
        BY <2>2, <3>7, <4>4
    <3>8. CASE \E m \in 1..Len(c) : /\ Onward(t, c) = t[c[m]].next /\ t[c[m]].next # 0
                                    /\ e[c[m]] = e[c[1]]
      <4>1. PICK m \in 1..Len(c) : /\ Onward(t, c) = t[c[m]].next /\ t[c[m]].next # 0
                                   /\ e[c[m]] = e[c[1]]
        BY <3>8
      <4> DEFINE x == c[m]
                 q == t[x].parent
      <4>2. x \in 2..n /\ q >= top /\ q \in 1..(x - 1) /\ x \in (top + 1)..(z - 1)
        BY <1>3, <3>5
      <4>3. e[x] = t[x].next /\ e[x] < e[q] /\ e[x] = j + 1
        BY <1>1, <2>1, <3>1, <4>1, <4>2 DEF Ends
      <4>4. e[q] <= z /\ e[q] \in Nat
        <5>1. q \in 1..n /\ (q = top \/ q \in (top + 1)..(z - 1))
          <6> HIDE DEF q, x, z
          <6> QED
            BY <1>1, <1>2, <4>2
        <5>2. e[q] \in Nat
          BY <1>1, <5>1
        <5>3. e[q] <= z
          BY <1>2, <1>3, <5>1
        <5> QED
          BY <5>2, <5>3
      <4>5. j + 1 < z
        <5> DEFINE w == e[q]
        <5>1. j + 1 < w /\ w <= z /\ w \in Nat
          BY <4>3, <4>4
        <5> HIDE DEF w, z
        <5> QED
          BY <1>2, <5>1
      <4> QED
        BY <2>2, <4>1, <4>3, <4>5
    <3> QED
      BY <3>6, <3>7, <3>8 DEF Leads
  <2> QED
    BY <2>5, <2>6
<1> QED
  BY <1>6, <1>7


LEMMA OnwardIn ==
  ASSUME NEW t, Parents(t), NEW c \in Seq(1..Len(t))
  PROVE  Onward(t, c) \in 0..Len(t)
<1> DEFINE n == Len(t)
           nexts == {k \in 1..Len(c) : t[c[k]].next # NoNode}
           m == Min(nexts)
<1>1. n \in Nat /\ 0 \in 0..n
  BY DEF Parents
<1>2. Onward(t, c) = IF nexts = {} THEN 0 ELSE t[c[m]].next
  BY DEF Onward, NoNode
<1>3. nexts \in SUBSET Nat /\ \A k \in nexts : k \in 1..Len(c)
  OBVIOUS
<1> HIDE DEF nexts
<1>4. CASE nexts = {}
  BY <1>1, <1>2, <1>4
<1>5. CASE nexts # {}
  <2>1. PICK k \in nexts : \A j \in nexts : k <= j
    BY <1>3, <1>5, Least
  <2>2. m \in nexts
    BY <2>1 DEF Min
  <2> HIDE DEF m
  <2>3. c[m] \in 1..n
    BY <1>3, <2>2
  <2> QED
    BY <1>2, <1>5, <2>3 DEF Parents
<1> QED
  BY <1>4, <1>5

\* d is what comes behind top and before z.
Between(d, top, z) == d = [k \in 1..(z - top - 1) |-> top + k]

LEMMA DescendantsAre ==
  ASSUME NEW t, NEW e, Preorder(t, e), NEW top \in 1..Len(t)
  PROVE  Between(Descendants(t, top), top, e[top])
<1> DEFINE n == Len(t)
           S == Seq(1..n)
           z == e[top]
           count == z - top - 1
           from(s) == IF s = <<>> THEN top ELSE Last(s)
           longer == [s \in S |-> Extend(s, After(t, top, from(s)), NoNode)]
           w == Steps(longer, n)
           least(k) == IF k < count THEN k ELSE count
           T == {p \in Nat \X S : /\ Len(p[2]) = least(p[1])
                                  /\ \A m \in 1..Len(p[2]) : p[2][m] = top + m}
<1>1. n \in Nat /\ top \in 1..n /\ top \in Nat /\ <<>> \in S /\ Len(<<>>) = 0
  BY DEF Preorder, Parents
<1>2. z \in (top + 1)..(n + 1)
  <2>1. z \in 1..(n + 1)
    BY DEF Preorder, Ends
  <2>2. z > top
    BY <1>1, <2>1 DEF Preorder, Below
  <2> HIDE DEF z
  <2> QED
    BY <1>1, <2>1, <2>2
<1>3. count \in Nat /\ count < n
  <2> HIDE DEF z
  <2> QED
    BY <1>1, <1>2
<1>4. Descendants(t, top) = w
  BY DEF Descendants, WalkFrom
<1>5. ASSUME NEW j \in top..(z - 1)
      PROVE  After(t, top, j) = IF j + 1 < z THEN j + 1 ELSE 0
  BY AfterIs
<1>6. ASSUME NEW s \in S, Len(s) <= count, \A m \in 1..Len(s) : s[m] = top + m
      PROVE  /\ Len(s) < count => /\ Extend(s, After(t, top, from(s)), NoNode) = Append(s, top + Len(s) + 1)
                                  /\ top + Len(s) + 1 \in 1..n
             /\ Len(s) = count => Extend(s, After(t, top, from(s)), NoNode) = s
  <2> DEFINE l == Len(s)
             j == top + l
  <2>1. l \in Nat
    OBVIOUS
  <2>2. from(s) = j
    <3>1. CASE s = <<>>
      BY <1>1, <3>1
    <3>2. CASE s # <<>>
      <4>1. l \in 1..l
        BY <2>1, <3>2
      <4> QED
        BY <1>6, <3>2, <4>1 DEF Last
    <3> QED
      BY <3>1, <3>2
  <2> HIDE DEF from
  <2>3. j \in top..(z - 1) /\ (l < count <=> j + 1 < z) /\ (l < count => j + 1 \in 1..n)
        /\ j + 1 # 0
    <3>1. l <= z - top - 1
      BY <1>6
    <3> HIDE DEF z, l
    <3> QED
      BY <1>1, <1>2, <2>1, <3>1
  <2>4. After(t, top, j) = IF j + 1 < z THEN j + 1 ELSE 0
    BY <1>5, <2>3
  <2>5. CASE l < count
    BY <2>2, <2>3, <2>4, <2>5 DEF Extend, NoNode
  <2>6. CASE ~(l < count)
    BY <2>2, <2>3, <2>4, <2>6 DEF Extend, NoNode
  <2> QED
    BY <2>5, <2>6
<1>7. longer \in [S -> S]
  <2>1. ASSUME NEW s \in S
        PROVE  Extend(s, After(t, top, from(s)), NoNode) \in S
    <3> DEFINE x == After(t, top, from(s))
    <3>1. from(s) \in 1..n
      <4>1. s # <<>> => Len(s) \in 1..Len(s)
        OBVIOUS
      <4> QED
        BY <1>1, <4>1 DEF Last
    <3>2. t[from(s)].first \in 0..n
      <4> DEFINE y == from(s)
      <4> HIDE DEF from
      <4>1. IF t[y].first = 0 THEN TRUE ELSE t[y].first = y + 1 /\ y + 1 < e[y]
        BY <3>1 DEF Preorder, Below
      <4>2. e[y] \in 1..(n + 1) /\ y \in 1..n
        BY <3>1 DEF Preorder, Ends
      <4> DEFINE z2 == e[y]
      <4> HIDE DEF y
      <4>3. y + 1 < z2 /\ z2 \in 1..(n + 1) => y + 1 \in 0..n
        BY <1>1, <4>2
      <4> QED
        BY <1>1, <4>1, <4>2, <4>3 DEF y
    <3> HIDE DEF from
    <3>3. x \in 0..n
      <4> DEFINE y == from(s)
                 c == ChainTo(t, y, "parent", top)
      <4>1. x = IF t[y].first # NoNode THEN t[y].first ELSE Onward(t, c)
        BY DEF After
      <4>2. Chained(t, c, y, top)
        BY <1>1, <3>1, ChainsUp DEF Preorder
      <4> HIDE DEF c, x, y
      <4>3. c \in Seq(1..n) /\ Parents(t)
        BY <4>2 DEF Chained, Climbs, Preorder
      <4>4. Onward(t, c) \in 0..n
        BY <4>3, OnwardIn
      <4> QED
        BY <3>2, <4>1, <4>4 DEF y
    <3> HIDE DEF x
    <3> HIDE DEF x
    <3>4. Extend(s, x, NoNode) \in S
      <4>1. CASE x = 0
        <5>1. Extend(s, x, NoNode) = s
          BY <4>1 DEF Extend, NoNode
        <5> QED
          BY <5>1
      <4>2. CASE x # 0
        <5>1. x \in 1..n
          BY <1>1, <3>3, <4>2
        <5>2. Extend(s, x, NoNode) = s \/ Extend(s, x, NoNode) = Append(s, x)
          BY DEF Extend
        <5> QED
          BY <5>1, <5>2, SMTT(30)
      <4> QED
        BY <4>1, <4>2
    <3> QED
      BY <3>4 DEF x
  <2> HIDE DEF S, from
  <2> QED
    BY <2>1
<1>8. <<0, <<>>>> \in T
  <2>1. least(0) = 0
    <3> HIDE DEF count
    <3> QED
      BY <1>3
  <2>2. \A m \in 1..Len(<<>>) : FALSE
    BY <1>1
  <2> HIDE DEF S, least
  <2> QED
    BY <1>1, <2>1, <2>2
<1>9. ASSUME NEW k \in 0..n, NEW s \in S, <<k, s>> \in T, k < n
      PROVE  <<k + 1, longer[s]>> \in T
  <2> DEFINE l == Len(s)
             u == Extend(s, After(t, top, from(s)), NoNode)
  <2>1. l = least(k) /\ (\A m \in 1..l : s[m] = top + m) /\ k \in Nat /\ k + 1 \in Nat
    BY <1>9
  <2>2. longer[s] = u /\ longer[s] \in S
    BY <1>7
  <2> HIDE DEF T, longer, u, from
  <2>3. l \in Nat /\ l <= count
    BY <1>3, <2>1
  <2>4. CASE l < count
    <3>1. u = Append(s, top + l + 1) /\ top + l + 1 \in 1..n
      BY <1>6, <2>1, <2>3, <2>4 DEF u, from
    <3>2. Len(u) = l + 1 /\ u[l + 1] = top + l + 1 /\ \A m \in 1..l : u[m] = s[m]
      BY <2>3, <3>1
    <3>3. least(k + 1) = l + 1
      <4> HIDE DEF count, l
      <4> QED
        BY <1>3, <2>1, <2>4
    <3>4. ASSUME NEW m \in 1..Len(u)
          PROVE  u[m] = top + m
      <4>1. m \in 1..l \/ m = l + 1
        BY <2>3, <3>2
      <4>2. top + l + 1 = top + (l + 1)
        BY <1>1, <2>3
      <4> QED
        BY <2>1, <3>2, <4>1, <4>2
    <3> HIDE DEF least, l
    <3> QED
      BY <2>1, <2>2, <3>2, <3>3, <3>4 DEF T
  <2>5. CASE ~(l < count)
    <3>1. l = count
      <4> HIDE DEF count, l
      <4> QED
        BY <1>3, <2>3, <2>5
    <3>2. u = s
      BY <1>6, <2>1, <2>3, <3>1 DEF u, from
    <3>3. least(k + 1) = l
      <4> HIDE DEF count, l
      <4> QED
        BY <1>3, <2>1, <2>5
    <3> HIDE DEF least, l
    <3> QED
      BY <2>1, <2>2, <3>2, <3>3 DEF T, l
  <2> QED
    BY <2>4, <2>5
<1>10. <<n, w>> \in T
  <2> HIDE DEF T, S, longer
  <2> QED
    BY <1>1, <1>7, <1>8, <1>9, StepsReach
<1>11. w \in S /\ Len(w) = least(n) /\ \A m \in 1..Len(w) : w[m] = top + m
  BY <1>10
<1> HIDE DEF w
<1>12. least(n) = count
  <2> HIDE DEF count
  <2> QED
    BY <1>1, <1>3
<1> HIDE DEF count, least
<1>13. w = [m \in 1..count |-> w[m]]
  BY <1>11, <1>12
<1>14. w = [m \in 1..count |-> top + m]
  BY <1>11, <1>12, <1>13
<1>15. Between(w, top, z)
  BY <1>14 DEF Between, count
<1> QED
  BY <1>4, <1>15


-----------------------------------------------------------------------------
(* A last child is added to a node whose range reaches the end               *)

\* u is t with a last child of p, node m.
ChildOf(t, u, p, m) ==
  /\ Len(u) = m /\ m = Len(t) + 1
  /\ \A k \in 1..Len(t) :
        /\ u[k].parent = t[k].parent /\ u[k].tag = t[k].tag
        /\ u[k].first = IF k = p /\ t[p].last = 0 THEN m ELSE t[k].first
        /\ u[k].last = IF k = p THEN m ELSE t[k].last
        /\ u[k].next = IF k = t[p].last THEN m ELSE t[k].next
  /\ u[m].parent = p /\ u[m].next = 0 /\ u[m].first = 0 /\ u[m].last = 0

\* Only the ranges of p and of what encloses it grow.
Widened(t, e, p) ==
  [k \in 1..(Len(t) + 1) |->
      IF k = Len(t) + 1 \/ (k <= p /\ e[k] = Len(t) + 1) THEN Len(t) + 2 ELSE e[k]]

LEMMA PreorderGrows ==
  ASSUME NEW t, NEW e, Preorder(t, e), NEW p \in 1..Len(t), e[p] = Len(t) + 1,
         NEW u, NEW m, ChildOf(t, u, p, m)
  PROVE  Preorder(u, Widened(t, e, p))
<1> DEFINE n == Len(t)
           f == Widened(t, e, p)
           x == t[p].last
<1>1. /\ n \in Nat /\ m \in Nat /\ m = n + 1 /\ p \in Nat /\ p \in 1..n /\ e[p] = m
      /\ e \in [1..n -> 1..m] /\ Len(u) = m
  BY DEF Preorder, Parents, Ends, ChildOf
<1>2. /\ Parents(t) /\ Ends(t, e) /\ Below(t, e) /\ Lasts(t)
  BY DEF Preorder
<1>3. /\ f[m] = n + 2 /\ m \in 1..m /\ m \notin 1..n
      /\ \A k \in 1..n : k \in 1..m /\ k \in Nat /\ k < m /\ e[k] \in 1..m /\ e[k] \in Nat
      /\ \A k \in 1..n : f[k] = IF k <= p /\ e[k] = m THEN n + 2 ELSE e[k]
      /\ \A k \in 1..m : k = m \/ k \in 1..n
  <2>1. \A k \in 1..n : k \in 1..m /\ k \in Nat /\ k < m /\ k # m
    BY <1>1
  <2>2. m \in 1..m /\ m \notin 1..n
    BY <1>1
  <2>3. \A k \in 1..m : k = m \/ k \in 1..n
    BY <1>1
  <2>4. \A k \in 1..n : e[k] \in 1..m /\ e[k] \in Nat
    BY <1>1
  <2>5. f = [k \in 1..m |-> IF k = m \/ (k <= p /\ e[k] = m) THEN n + 2 ELSE e[k]]
    BY <1>1 DEF Widened
  <2> HIDE DEF f
  <2> QED
    BY <2>1, <2>2, <2>3, <2>4, <2>5
<1>4. \A k \in 1..n : e[k] <= f[k] /\ f[k] \in 1..(m + 1) /\ f[k] \in Nat
  <2>1. ASSUME NEW k \in 1..n
        PROVE  e[k] <= f[k] /\ f[k] \in 1..(m + 1) /\ f[k] \in Nat
    <3> DEFINE a == e[k]
               b == f[k]
    <3>1. a \in 1..m /\ (b = n + 2 \/ b = a)
      BY <1>3
    <3> HIDE DEF a, b
    <3>2. a <= b /\ b \in 1..(m + 1) /\ b \in Nat
      BY <1>1, <3>1
    <3> QED
      BY <3>2 DEF a, b
  <2> QED
    BY <2>1
<1>5. f \in [1..m -> 1..(m + 1)]
  <2>1. m + 1 = n + 2 /\ m + 1 \in 1..(m + 1)
    BY <1>1
  <2>2. \A k \in 1..m : f[k] \in 1..(m + 1)
    BY <1>3, <1>4, <2>1
  <2>3. f = [k \in 1..m |-> f[k]]
    BY <1>1 DEF Widened
  <2> HIDE DEF f
  <2> QED
    BY <2>2, <2>3
<1> HIDE DEF f
<1>6. \A k \in 1..n :
        /\ u[k].parent = t[k].parent
        /\ u[k].first = IF k = p /\ x = 0 THEN m ELSE t[k].first
        /\ u[k].last = IF k = p THEN m ELSE t[k].last
        /\ u[k].next = IF k = x THEN m ELSE t[k].next
  BY DEF ChildOf
<1>7. u[m].parent = p /\ u[m].next = 0 /\ u[m].first = 0 /\ u[m].last = 0
  BY DEF ChildOf
\* The last child so far.
<1>8. x # 0 => x \in 2..n /\ t[x].parent = p /\ t[x].next = 0
  BY <1>2 DEF Lasts
<1>9. \A k \in 2..n : k \in 1..n /\ t[k].parent \in 1..n /\ t[k].parent < k /\ t[k].parent \in Nat
  <2>1. ASSUME NEW k \in 2..n
        PROVE  k \in 1..n /\ t[k].parent \in 1..n /\ t[k].parent < k /\ t[k].parent \in Nat
    <3>1. t[k].parent \in 1..(k - 1)
      BY <1>2 DEF Parents
    <3>2. k \in 1..n
      BY <1>1
    <3> QED
      BY <1>1, <3>1, <3>2
  <2> QED
    BY <2>1
<1> HIDE DEF x
<1>10. x # 0 => p < x
  BY <1>8, <1>9
\* A node after p is inside p.
<1>11. \A k \in 1..n : k > p => t[k].parent >= p
  <2>1. ASSUME NEW k \in 1..n, k > p
        PROVE  t[k].parent >= p
    <3>1. k \in (p + 1)..(e[p] - 1)
      BY <1>1, <2>1
    <3> QED
      BY <1>1, <1>2, <3>1 DEF Below
  <2> QED
    BY <2>1
<1>12. Parents(u)
  <2>1. Len(u) \in Nat /\ 1 <= Len(u) /\ 1 \in 1..n
    BY <1>1
  <2>2. u[1].parent = 0 /\ u[1].next = 0
    <3>1. x # 1
      BY <1>1, <1>8
    <3> QED
      BY <1>2, <1>6, <2>1, <3>1 DEF Parents
  <2>3. ASSUME NEW k \in 2..Len(u)
        PROVE  u[k].parent \in 1..(k - 1)
    <3>1. CASE k = m
      BY <1>1, <1>7, <3>1
    <3>2. CASE k # m
      <4>1. k \in 2..n /\ k \in 1..n
        BY <1>1, <3>2
      <4> QED
        BY <1>2, <1>6, <4>1 DEF Parents
    <3> QED
      BY <3>1, <3>2
  <2>4. ASSUME NEW k \in 1..Len(u)
        PROVE  u[k].next \in 0..Len(u)
    <3>1. k = m \/ k \in 1..n
      BY <1>1, <1>3
    <3>2. 0 \in 0..m /\ m \in 0..m /\ \A y \in 0..n : y \in 0..m
      BY <1>1
    <3>3. CASE k = m
      BY <1>1, <1>7, <3>2, <3>3
    <3>4. CASE k \in 1..n
      <4>1. t[k].next \in 0..n
        BY <1>2, <3>4 DEF Parents
      <4> QED
        BY <1>1, <1>6, <3>2, <3>4, <4>1
    <3> QED
      BY <3>1, <3>3, <3>4
  <2> QED
    BY <2>1, <2>2, <2>3, <2>4 DEF Parents
<1>13. Ends(u, f)
  <2>1. f[1] = Len(u) + 1
    <3>1. 1 \in 1..n /\ e[1] = m /\ 1 <= p
      BY <1>1, <1>2 DEF Ends
    <3> QED
      BY <1>1, <1>3, <3>1
  <2>2. ASSUME NEW k \in 2..Len(u)
        PROVE  /\ u[k].next = 0 => f[k] = f[u[k].parent]
               /\ u[k].next # 0 => f[k] = u[k].next /\ f[k] < f[u[k].parent]
    <3>1. CASE k = m
      <4>1. f[p] = n + 2
        BY <1>1, <1>3
      <4> QED
        BY <1>3, <1>7, <3>1, <4>1
    <3>2. CASE k # m
      <4> DEFINE q == t[k].parent
      <4>1. k \in 2..n /\ k \in 1..n
        BY <1>1, <3>2
      <4>2. q \in 1..n /\ q < k /\ u[k].parent = q /\ q \in Nat
        BY <1>6, <1>9, <4>1
      <4>3. f[k] = (IF k <= p /\ e[k] = m THEN n + 2 ELSE e[k])
            /\ f[q] = (IF q <= p /\ e[q] = m THEN n + 2 ELSE e[q])
        BY <1>3, <4>1, <4>2
      <4>4. k > p => q >= p
        BY <1>11, <4>1
      <4>5. k \in Nat /\ e[k] \in 1..m /\ e[q] \in 1..m /\ e[q] <= f[q] /\ f[q] \in Nat
        BY <1>3, <1>4, <4>1, <4>2
      <4>6. (t[k].next = 0 => e[k] = e[q]) /\ (t[k].next # 0 => e[k] = t[k].next /\ e[k] < e[q])
        BY <1>2, <4>1 DEF Ends
      <4>7. t[k].next = 0 => t[q].last = k
        BY <1>2, <4>1 DEF Lasts
      <4> HIDE DEF q
      <4>8. CASE k = x
        <5>1. u[k].next = m /\ q = p /\ k > p /\ t[k].next = 0
          BY <1>1, <1>6, <1>8, <1>10, <4>1, <4>8 DEF q
        <5>2. f[k] = m
          BY <1>1, <4>3, <4>5, <4>6, <5>1
        <5>3. f[q] = n + 2
          BY <1>1, <4>3, <5>1
        <5> QED
          BY <1>1, <4>2, <5>1, <5>2, <5>3
      <4>9. CASE k # x
        <5>1. u[k].next = t[k].next
          BY <1>6, <4>1, <4>9
        <5>2. CASE t[k].next = 0
          <6>1. CASE k <= p
            BY <1>1, <4>2, <4>3, <4>5, <4>6, <5>1, <5>2, <6>1
          <6>2. CASE k > p
            <7>1. q # p
              BY <4>7, <4>9, <5>2 DEF x
            <7>2. ~(q <= p) /\ ~(k <= p)
              BY <1>1, <4>2, <4>4, <4>5, <6>2, <7>1
            <7> QED
              BY <4>2, <4>3, <4>6, <5>1, <5>2, <7>2
          <6> QED
            BY <1>1, <4>5, <6>1, <6>2
        <5>3. CASE t[k].next # 0
          <6> DEFINE a == e[k]
                     b == e[q]
                     c == f[q]
          <6>1. a = t[k].next /\ a < b /\ a \in 1..m /\ b \in 1..m /\ b <= c /\ c \in Nat
            BY <4>5, <4>6, <5>3
          <6>2. f[k] = IF k <= p /\ a = m THEN n + 2 ELSE a
            BY <4>3
          <6> HIDE DEF a, b, c
          <6>3. a # m /\ a < c
            BY <1>1, <6>1
          <6>4. f[k] = a
            BY <6>2, <6>3
          <6> QED
            BY <4>2, <5>1, <5>3, <6>1, <6>3, <6>4 DEF c
        <5> QED
          BY <5>2, <5>3
      <4> QED
        BY <4>8, <4>9
    <3> QED
      BY <3>1, <3>2
  <2> QED
    BY <1>1, <1>5, <2>1, <2>2 DEF Ends
<1>14. Below(u, f)
  <2>1. ASSUME NEW k \in 1..Len(u)
        PROVE  IF u[k].first = 0 THEN u[k].last = 0 /\ f[k] = k + 1
               ELSE u[k].first = k + 1 /\ u[k].last # 0 /\ k + 1 < f[k]
    <3>1. CASE k = m
      <4>1. f[m] = m + 1
        BY <1>1, <1>3
      <4> QED
        BY <1>7, <3>1, <4>1
    <3>2. CASE k # m
      <4> DEFINE a == e[k]
                 b == f[k]
      <4>1. k \in 1..n
        BY <1>1, <1>3, <3>2
      <4>2. b = (IF k <= p /\ a = m THEN n + 2 ELSE a) /\ a <= b /\ a \in Nat /\ b \in Nat /\ k \in Nat
        BY <1>3, <1>4, <4>1
      <4>3. IF t[k].first = 0 THEN t[k].last = 0 /\ a = k + 1
            ELSE t[k].first = k + 1 /\ t[k].last # 0 /\ k + 1 < a
        BY <1>2, <4>1 DEF Below
      <4>4. k = p => a = m /\ x = t[k].last
        BY <1>1 DEF x
      <4> HIDE DEF a, b
      <4>5. CASE k = p
        <5>1. b = n + 2 /\ u[k].last = m /\ m # 0
          BY <1>1, <1>6, <4>1, <4>2, <4>4, <4>5
        <5>2. CASE t[k].first = 0
          <6>1. u[k].first = m
            BY <1>6, <4>1, <4>3, <4>4, <4>5, <5>2
          <6>2. m = k + 1
            BY <4>3, <4>4, <4>5, <5>2
          <6> QED
            BY <1>1, <5>1, <6>1, <6>2 DEF b
        <5>3. CASE t[k].first # 0
          <6>1. u[k].first = t[k].first
            BY <1>6, <4>1, <4>3, <4>4, <4>5, <5>3
          <6>2. k + 1 < b
            BY <1>1, <4>2, <4>3, <5>3
          <6> QED
            BY <4>3, <5>1, <5>3, <6>1, <6>2 DEF b
        <5> QED
          BY <5>2, <5>3
      <4>6. CASE k # p
        <5>1. u[k].first = t[k].first /\ u[k].last = t[k].last
          BY <1>6, <4>1, <4>6
        <5>2. CASE t[k].first = 0
          <6>1. a = k + 1 /\ t[k].last = 0
            BY <4>3, <5>2
          <6>2. ~(k <= p /\ a = m)
            BY <1>1, <4>1, <4>2, <4>6, <6>1
          <6>3. b = k + 1
            BY <4>2, <6>1, <6>2
          <6> QED
            BY <5>1, <5>2, <6>1, <6>3 DEF b
        <5>3. CASE t[k].first # 0
          <6>1. k + 1 < b
            BY <4>2, <4>3, <5>3
          <6> QED
            BY <4>3, <5>1, <5>3, <6>1 DEF b
        <5> QED
          BY <5>2, <5>3
      <4> QED
        BY <4>5, <4>6
    <3> QED
      BY <3>1, <3>2
  <2>2. ASSUME NEW k \in 1..Len(u), NEW j \in (k + 1)..(f[k] - 1)
        PROVE  u[j].parent >= k /\ f[j] <= f[k]
    <3> DEFINE a == e[k]
               b == f[k]
               c == e[j]
               d == f[j]
    <3>1. j \in Nat /\ k \in Nat /\ k < j /\ b \in 1..(m + 1) /\ j \in (k + 1)..(b - 1)
      <4>1. b \in 1..(m + 1)
        BY <1>1, <1>5
      <4> HIDE DEF b
      <4>2. j \in (k + 1)..(b - 1)
        BY DEF b
      <4> QED
        BY <1>1, <4>1, <4>2
    <3> HIDE DEF a, b, c, d
    <3>2. k \in 1..n /\ j \in 1..m
      BY <1>1, <3>1
    <3>3. b = (IF k <= p /\ a = m THEN n + 2 ELSE a) /\ a <= b /\ a \in 1..m
      BY <1>3, <1>4, <3>2 DEF a, b
    <3>4. CASE j = m
      <4>1. k <= p /\ b = n + 2
        BY <1>1, <3>1, <3>3, <3>4
      <4>2. d = n + 2
        BY <1>3, <3>4 DEF d
      <4> QED
        BY <1>1, <1>7, <3>1, <3>4, <4>1, <4>2 DEF b, d
    <3>5. CASE j # m
      <4>1. j \in 1..n
        BY <1>1, <3>2, <3>5
      <4>2. j \in (k + 1)..(a - 1)
        BY <1>1, <3>1, <3>3, <4>1
      <4>3. t[j].parent >= k /\ c <= a
        BY <1>2, <3>2, <4>2 DEF Below, a, c
      <4>4. u[j].parent = t[j].parent
        BY <1>6, <4>1
      <4>5. d = (IF j <= p /\ c = m THEN n + 2 ELSE c) /\ c \in 1..m
        BY <1>3, <4>1 DEF c, d
      <4>6. d <= b
        BY <1>1, <3>1, <3>3, <4>3, <4>5
      <4> QED
        BY <4>3, <4>4, <4>6 DEF b, d
    <3> QED
      BY <3>4, <3>5
  <2> QED
    BY <2>1, <2>2 DEF Below
<1>15. Lasts(u)
  <2>1. ASSUME NEW k \in 1..Len(u), u[k].last # 0
        PROVE  /\ u[k].last \in 2..Len(u)
               /\ u[u[k].last].parent = k /\ u[u[k].last].next = 0
    <3>1. k # m /\ k \in 1..n
      BY <1>1, <1>3, <1>7, <2>1
    <3>2. CASE k = p
      BY <1>1, <1>6, <1>7, <3>1, <3>2
    <3>3. CASE k # p
      <4> DEFINE y == t[k].last
      <4>1. u[k].last = y
        BY <1>6, <3>1, <3>3
      <4>2. y \in 2..n /\ t[y].parent = k /\ t[y].next = 0
        BY <1>2, <2>1, <3>1, <4>1 DEF Lasts
      <4> HIDE DEF y
      <4>3. y \in 1..n /\ y \in 2..Len(u) /\ y # 0
        BY <1>1, <4>2
      <4>4. y # x
        BY <1>8, <3>3, <4>2, <4>3
      <4> QED
        BY <1>6, <4>1, <4>2, <4>3, <4>4
    <3> QED
      BY <3>2, <3>3
  <2>2. ASSUME NEW k \in 2..Len(u), u[k].next = 0
        PROVE  u[u[k].parent].last = k
    <3>1. CASE k = m
      BY <1>1, <1>6, <1>7, <3>1
    <3>2. CASE k # m
      <4>1. k \in 2..n /\ k \in 1..n
        BY <1>1, <3>2
      <4>2. k # x /\ t[k].next = 0
        BY <1>1, <1>6, <2>2, <4>1
      <4>3. t[t[k].parent].last = k /\ t[k].parent \in 1..n
        BY <1>2, <1>9, <4>1, <4>2 DEF Lasts
      <4>4. t[k].parent # p
        BY <4>2, <4>3 DEF x
      <4> QED
        BY <1>6, <4>1, <4>3, <4>4
    <3> QED
      BY <3>1, <3>2
  <2> QED
    BY <2>1, <2>2 DEF Lasts
<1> QED
  BY <1>12, <1>13, <1>14, <1>15 DEF Preorder, f


(* Nodes with links in 0..n.  The names the parser itself gives are strings, *)
(* but no prover here knows that a literal is one.                           *)
OwnNames == {"root", "doctype", "text", "comment"}
StdTags == {"std"} \X (STRING \union OwnNames)
NodeByte == StdTags \union ({"ext", "over"} \X Nat)
NodesIn(n) ==
  [tag : NodeByte, text : Seq(Nat), parent : 0..n, prev : 0..n, next : 0..n, first : 0..n, last : 0..n]

\* u is t but for one link of one node.
Relinked(t, u, i, link, to) ==
  /\ DOMAIN u = DOMAIN t /\ Len(u) = Len(t)
  /\ \A k \in 1..Len(t), f \in {"tag", "parent", "next", "first", "last"} :
        u[k][f] = IF k = i /\ f = link THEN to ELSE t[k][f]

LEMMA LinkSet ==
  ASSUME NEW n \in Nat, NEW t \in Seq(NodesIn(n)), NEW i \in 1..Len(t), NEW link \in Links, NEW to \in 0..n
  PROVE  Set(t, i, link, to) \in Seq(NodesIn(n)) /\ Relinked(t, Set(t, i, link, to), i, link, to)
<1> DEFINE r == t[i]
           x == [r EXCEPT ![link] = to]
           u == [t EXCEPT ![i] = x]
           N == NodesIn(n)
<1>1. r \in N /\ i # 0
  OBVIOUS
<1>2. /\ x \in N
      /\ \A f \in {"tag", "parent", "next", "first", "last"} : x[f] = IF f = link THEN to ELSE r[f]
  BY <1>1 DEF NodesIn, Links
<1>3. Set(t, i, link, to) = u
  BY <1>1 DEF Set, NoNode
<1> HIDE DEF x, N
<1>4. u \in Seq(N) /\ Len(u) = Len(t) /\ DOMAIN u = DOMAIN t
  BY <1>2 DEF N
<1>5. \A k \in 1..Len(t) : u[k] = IF k = i THEN x ELSE t[k]
  OBVIOUS
<1> HIDE DEF u
<1> QED
  BY <1>2, <1>3, <1>4, <1>5 DEF N, Relinked

LEMMA ChildIs ==
  ASSUME NEW t, NEW e, Preorder(t, e), NEW n, n = Len(t), t \in Seq(NodesIn(n)),
         NEW p \in 1..n, NEW tag \in NodeByte, NEW text \in Seq(Nat)
  PROVE  /\ ChildOf(t, AddLastChild(t, p, tag, text), p, n + 1)
         /\ AddLastChild(t, p, tag, text)[n + 1].tag = tag
         /\ AddLastChild(t, p, tag, text) \in Seq(NodesIn(n + 1))
<1> DEFINE m == n + 1
           M == NodesIn(m)
           prev == t[p].last
           x == Node(tag, text, p, prev, NoNode)
           u == Append(t, x)
           v == IF prev = NoNode THEN Set(u, p, "first", m) ELSE Set(u, prev, "next", m)
           w == Set(v, p, "last", m)
           F == {"tag", "parent", "next", "first", "last"}
<1>1. n \in Nat /\ m \in Nat /\ p \in 1..n /\ n = Len(t) /\ p \in 1..m /\ m \in 1..m /\ m \notin 1..n
      /\ \A k \in 1..n : k \in 1..m /\ k # m
  BY DEF Preorder, Parents
<1>2. t \in Seq(M)
  <2> DEFINE N == NodesIn(n)
             B == NodeByte
             Q == Seq(Nat)
             I == 0..n
             J == 0..m
  <2>1. N = [tag : B, text : Q, parent : I, prev : I, next : I, first : I, last : I]
    BY DEF NodesIn
  <2>2. M = [tag : B, text : Q, parent : J, prev : J, next : J, first : J, last : J]
    BY DEF NodesIn
  <2>3. I \in SUBSET J
    BY <1>1
  <2> HIDE DEF B, Q, N, M, I, J
  <2>4. N \in SUBSET M
    BY <2>1, <2>2, <2>3
  <2>5. t \in Seq(N)
    BY DEF N
  <2> QED
    BY <2>4, <2>5
<1>3. prev \in 0..n /\ (prev # 0 => prev \in 1..n)
  <2>1. prev # 0 => prev \in 2..n
    BY <1>1 DEF Preorder, Lasts
  <2> HIDE DEF prev
  <2> QED
    BY <1>1, <2>1
<1>4. x \in M /\ x.tag = tag /\ x.parent = p /\ x.next = 0 /\ x.first = 0 /\ x.last = 0
  <2>1. p \in 0..m /\ prev \in 0..m /\ 0 \in 0..m
    BY <1>1, <1>3
  <2> HIDE DEF prev, m
  <2> QED
    BY <2>1 DEF Node, NoNode, NodesIn
<1> HIDE DEF x, M
<1>5. /\ u \in Seq(M) /\ Len(u) = m /\ \A j \in 1..n : u[j] = t[j]
      /\ u[m] = x
  BY <1>1, <1>2, <1>4
<1>6. AddLastChild(t, p, tag, text) = w
  BY DEF AddLastChild, x
<1> HIDE DEF u
<1>7. p \in 1..Len(u) /\ (prev # 0 => prev \in 1..Len(u)) /\ m \in 0..m
  BY <1>1, <1>3, <1>5
<1>8. "first" \in Links /\ "next" \in Links /\ "last" \in Links
  BY DEF Links
<1> HIDE DEF prev, m
<1>9. v \in Seq(M) /\ (IF prev = 0 THEN Relinked(u, v, p, "first", m) ELSE Relinked(u, v, prev, "next", m))
  <2>1. CASE prev = 0
    BY <1>1, <1>5, <1>7, <1>8, <2>1, LinkSet DEF M, NoNode
  <2>2. CASE prev # 0
    BY <1>1, <1>5, <1>7, <1>8, <2>2, LinkSet DEF M, NoNode
  <2> QED
    BY <2>1, <2>2
<1> HIDE DEF v
<1>10. Len(v) = m
  BY <1>5, <1>9 DEF Relinked
<1>11. w \in Seq(M) /\ Relinked(v, w, p, "last", m)
  BY <1>1, <1>7, <1>8, <1>9, <1>10, LinkSet DEF M
<1> HIDE DEF w
<1>12. Len(w) = m
  BY <1>10, <1>11 DEF Relinked
<1>13. ASSUME NEW k \in 1..m
       PROVE  /\ w[k].tag = u[k].tag /\ w[k].parent = u[k].parent
              /\ w[k].last = IF k = p THEN m ELSE u[k].last
              /\ w[k].first = IF k = p /\ prev = 0 THEN m ELSE u[k].first
              /\ w[k].next = IF k = prev /\ prev # 0 THEN m ELSE u[k].next
  <2>1. \A f \in F : w[k][f] = IF k = p /\ f = "last" THEN m ELSE v[k][f]
    BY <1>10, <1>11 DEF Relinked
  <2>2. \A f \in F : v[k][f] = IF prev = 0 THEN IF k = p /\ f = "first" THEN m ELSE u[k][f]
                               ELSE IF k = prev /\ f = "next" THEN m ELSE u[k][f]
    BY <1>5, <1>9 DEF Relinked
  <2> QED
    BY <2>1, <2>2
<1>14. ASSUME NEW k \in 1..n
       PROVE  /\ w[k].parent = t[k].parent /\ w[k].tag = t[k].tag
              /\ w[k].first = IF k = p /\ prev = 0 THEN m ELSE t[k].first
              /\ w[k].last = IF k = p THEN m ELSE t[k].last
              /\ w[k].next = IF k = prev THEN m ELSE t[k].next
  <2>1. u[k] = t[k] /\ k \in 1..m /\ k # 0
    BY <1>1, <1>5
  <2> QED
    BY <1>13, <2>1
<1>15. w[m].parent = p /\ w[m].next = 0 /\ w[m].first = 0 /\ w[m].last = 0 /\ w[m].tag = tag
  <2>1. m # p /\ (prev # 0 => m # prev)
    BY <1>1, <1>3
  <2> QED
    BY <1>1, <1>4, <1>5, <1>13, <2>1
<1>16. ChildOf(t, w, p, m)
  BY <1>1, <1>12, <1>14, <1>15 DEF ChildOf, prev, m
<1> QED
  BY <1>6, <1>11, <1>15, <1>16 DEF M, m


-----------------------------------------------------------------------------
(* The open elements, and the names of their nodes                           *)

\* s goes from a child of the root to the node whose last child comes next.
Path(t, e, s) ==
  /\ \A j \in 1..Len(s) :
        /\ s[j] \in 2..Len(t) /\ t[s[j]].next = 0 /\ e[s[j]] = Len(t) + 1
        /\ t[s[j]].parent = IF j = 1 THEN 1 ELSE s[j - 1]
  /\ \A j, k \in 1..Len(s) : j < k => s[j] < s[k]

TopOf(s) == IF s = <<>> THEN Root ELSE Last(s)

LEMMA PathTop ==
  ASSUME NEW t, NEW e, Preorder(t, e), NEW s \in Seq(Nat), Path(t, e, s)
  PROVE  /\ TopOf(s) \in 1..Len(t) /\ e[TopOf(s)] = Len(t) + 1
         /\ \A j \in 1..Len(s) : s[j] <= TopOf(s)
         /\ TopOf(s) = IF Len(s) = 0 THEN 1 ELSE s[Len(s)]
<1> DEFINE n == Len(t)
           l == Len(s)
<1>1. n \in Nat /\ 1 \in 1..n /\ e[1] = n + 1 /\ l \in Nat
  BY DEF Preorder, Parents, Ends
<1>2. CASE l = 0
  <2>1. s = <<>>
    BY <1>2
  <2> QED
    BY <1>1, <1>2, <2>1 DEF TopOf, Root
<1>3. CASE l # 0
  <2>1. s # <<>> /\ l \in 1..l
    BY <1>1, <1>3
  <2>2. TopOf(s) = s[l]
    BY <2>1 DEF TopOf, Last
  <2>3. s[l] \in 2..n /\ e[s[l]] = n + 1
    BY <2>1 DEF Path
  <2>4. s[l] \in 1..n
    BY <1>1, <2>3
  <2>5. ASSUME NEW j \in 1..l
        PROVE  s[j] <= s[l]
    <3>1. j = l \/ j < l
      BY <1>1
    <3>2. s[j] \in Nat
      OBVIOUS
    <3>3. CASE j = l
      BY <3>2, <3>3
    <3>4. CASE j < l
      <4>1. s[j] < s[l] /\ s[l] \in Nat
        BY <2>1, <3>4 DEF Path
      <4> QED
        BY <3>2, <4>1
    <3> QED
      BY <3>1, <3>3, <3>4
  <2> QED
    BY <1>3, <2>2, <2>3, <2>4, <2>5
<1> QED
  BY <1>2, <1>3

LEMMA PathGrows ==
  ASSUME NEW t, NEW e, Preorder(t, e), NEW s \in Seq(Nat), Path(t, e, s),
         NEW p, p = TopOf(s), NEW u, NEW m, ChildOf(t, u, p, m)
  PROVE  Path(u, Widened(t, e, p), s) /\ Path(u, Widened(t, e, p), Append(s, m))
<1> DEFINE n == Len(t)
           l == Len(s)
           f == Widened(t, e, p)
           r == Append(s, m)
<1>1. /\ n \in Nat /\ l \in Nat /\ m \in Nat /\ m = n + 1 /\ Len(u) = m
      /\ p \in 1..n /\ p \in Nat /\ e[p] = m
      /\ \A j \in 1..l : s[j] <= p
      /\ p = IF l = 0 THEN 1 ELSE s[l]
  <2>1. n \in Nat /\ l \in Nat /\ m = n + 1 /\ Len(u) = m
    BY DEF Preorder, Parents, ChildOf
  <2>2. p \in 1..n /\ e[p] = n + 1 /\ (\A j \in 1..l : s[j] <= p) /\ p = IF l = 0 THEN 1 ELSE s[l]
    BY PathTop
  <2> QED
    BY <2>1, <2>2
<1>2. \A k \in 1..m : f[k] = IF k = m \/ (k <= p /\ e[k] = m) THEN m + 1 ELSE e[k]
  <2>1. n + 2 = m + 1
    BY <1>1
  <2> QED
    BY <1>1, <2>1 DEF Widened
<1> HIDE DEF f
<1>3. ASSUME NEW j \in 1..l
      PROVE  /\ s[j] \in 2..m /\ u[s[j]].next = 0 /\ f[s[j]] = m + 1
             /\ u[s[j]].parent = IF j = 1 THEN 1 ELSE s[j - 1]
  <2> DEFINE i == s[j]
  <2>1. /\ i \in 2..n /\ t[i].next = 0 /\ e[i] = n + 1 /\ i <= p
        /\ t[i].parent = IF j = 1 THEN 1 ELSE s[j - 1]
    BY <1>1 DEF Path
  <2> HIDE DEF i
  <2>2. i \in 1..n /\ i \in 1..m /\ i \in 2..m
    BY <1>1, <2>1
  <2>3. i # t[p].last
    <3>1. SUFFICES ASSUME i = t[p].last PROVE FALSE
      OBVIOUS
    <3>2. t[i].parent = p
      BY <1>1, <2>1, <3>1, SMTT(30) DEF Preorder, Lasts
    <3>3. t[i].parent \in 1..(i - 1)
      BY <2>1 DEF Preorder, Parents
    <3> QED
      BY <1>1, <2>1, <2>2, <3>2, <3>3
  <2>4. u[i].next = t[i].next /\ u[i].parent = t[i].parent
    BY <2>2, <2>3 DEF ChildOf
  <2>5. f[i] = m + 1
    BY <1>1, <1>2, <2>1, <2>2
  <2> QED
    BY <2>1, <2>2, <2>4, <2>5 DEF i
<1>4. Path(u, f, s)
  <2>1. \A j, k \in 1..l : j < k => s[j] < s[k]
    BY DEF Path
  <2> QED
    BY <1>1, <1>3, <2>1 DEF Path
<1>5. r \in Seq(Nat) /\ Len(r) = l + 1 /\ r[l + 1] = m /\ \A j \in 1..l : r[j] = s[j]
  BY <1>1
<1> HIDE DEF r
<1>6. /\ m \in 2..m /\ u[m].next = 0 /\ f[m] = m + 1 /\ u[m].parent = p
  <2>1. m \in 2..m /\ m \in 1..m
    BY <1>1
  <2> QED
    BY <1>2, <2>1 DEF ChildOf
<1>7. ASSUME NEW j \in 1..Len(r)
      PROVE  /\ r[j] \in 2..m /\ u[r[j]].next = 0 /\ f[r[j]] = m + 1
             /\ u[r[j]].parent = IF j = 1 THEN 1 ELSE r[j - 1]
  <2>1. j \in 1..l \/ j = l + 1
    BY <1>1, <1>5
  <2>2. CASE j \in 1..l
    <3>1. j # 1 => j - 1 \in 1..l
      BY <1>1, <2>2
    <3> QED
      BY <1>3, <1>5, <2>2, <3>1
  <2>3. CASE j = l + 1
    <3>1. u[m].parent = IF j = 1 THEN 1 ELSE r[j - 1]
      <4>1. CASE l = 0
        BY <1>1, <1>6, <2>3, <4>1
      <4>2. CASE l # 0
        <5>1. j - 1 = l /\ l \in 1..l /\ j # 1
          BY <1>1, <2>3, <4>2
        <5> QED
          BY <1>1, <1>5, <1>6, <4>2, <5>1
      <4> QED
        BY <4>1, <4>2
    <3> QED
      BY <1>5, <1>6, <2>3, <3>1
  <2> QED
    BY <2>1, <2>2, <2>3
<1>8. ASSUME NEW j \in 1..Len(r), NEW k \in 1..Len(r), j < k
      PROVE  r[j] < r[k]
  <2>1. j \in 1..l /\ (k \in 1..l \/ k = l + 1)
    BY <1>1, <1>5, <1>8, SMTT(30)
  <2>2. CASE k \in 1..l
    BY <1>5, <1>8, <2>1, <2>2 DEF Path
  <2>3. CASE k = l + 1
    <3>1. r[j] = s[j] /\ r[k] = m /\ s[j] <= p /\ s[j] \in Nat
      BY <1>1, <1>5, <2>1, <2>3
    <3> DEFINE a == s[j]
    <3> HIDE DEF a
    <3>2. a <= p /\ a \in Nat
      BY <3>1 DEF a
    <3>3. a < m
      BY <1>1, <3>2
    <3> QED
      BY <3>1, <3>3 DEF a
  <2> QED
    BY <2>1, <2>2, <2>3
<1>9. Path(u, f, r)
  BY <1>1, <1>7, <1>8 DEF Path
<1> QED
  BY <1>4, <1>9 DEF f, r

LEMMA PathShrinks ==
  ASSUME NEW t, NEW e, NEW s \in Seq(Nat), Path(t, e, s), NEW r \in Seq(Nat), Len(r) <= Len(s),
         \A j \in 1..Len(r) : r[j] = s[j]
  PROVE  Path(t, e, r)
<1>1. \A j \in 1..Len(r) : j \in 1..Len(s) /\ (j # 1 => j - 1 \in 1..Len(r))
  OBVIOUS
<1> QED
  BY <1>1 DEF Path

\* The names given out to n nodes.
Names(ext, n) ==
  /\ DOMAIN ext = {"vocab", "overflow"}
  /\ ext.vocab \in Seq(Nat) /\ ext.overflow \in Seq(Nat \X Nat)
  /\ \A j, k \in 1..Len(ext.overflow) : j < k => ext.overflow[j][1] < ext.overflow[k][1]
  /\ \A k \in 1..Len(ext.overflow) : ext.overflow[k][1] <= n

\* The byte of node i stands for a tag.
Spelt(ext, i, byte, tag) ==
  IF tag[1] = "std" THEN byte = tag
  ELSE \/ byte[1] = "ext" /\ byte[2] \in 1..Len(ext.vocab) /\ ext.vocab[byte[2]] = tag[2]
       \/ byte = OverflowByte /\ \E k \in 1..Len(ext.overflow) : ext.overflow[k] = <<i, tag[2]>>

LEMMA SpeltIs ==
  ASSUME NEW ext, NEW n, Names(ext, n), NEW i \in Nat, NEW byte, NEW tag, tag[1] # "std",
         Spelt(ext, i, byte, tag)
  PROVE  IsExt(byte) /\ TagSym(ext, i, byte) = tag[2]
<1> DEFINE o == ext.overflow
           keys == OverflowNodes(ext)
<1>1. o \in Seq(Nat \X Nat) /\ \A j, k \in 1..Len(o) : j < k => o[j][1] < o[k][1]
  BY DEF Names
<1>2. CASE byte[1] = "ext" /\ byte[2] \in 1..Len(ext.vocab) /\ ext.vocab[byte[2]] = tag[2]
  <2>1. byte # OverflowByte
    BY <1>2 DEF OverflowByte
  <2> QED
    BY <1>2, <2>1 DEF IsExt, TagSym
<1>3. CASE byte = OverflowByte /\ \E k \in 1..Len(o) : o[k] = <<i, tag[2]>>
  <2>1. PICK k \in 1..Len(o) : o[k] = <<i, tag[2]>>
    BY <1>3
  <2>2. TagSym(ext, i, byte) = o[Bisect(keys, i)][2] /\ IsExt(byte)
    BY <1>3 DEF TagSym, IsExt, OverflowByte
  <2>3. keys = [j \in 1..Len(o) |-> o[j][1]]
    BY DEF OverflowNodes
  <2> HIDE DEF o, keys
  <2>4. Len(o) \in Nat /\ \A j \in 1..Len(o) : o[j][1] \in Nat
    BY <1>1, SMTT(30)
  <2>5. keys \in Seq(Nat) /\ Len(keys) = Len(o) /\ \A j \in 1..Len(o) : keys[j] = o[j][1]
    BY <2>3, <2>4
  <2>6. Rises(keys)
    BY <1>1, <2>5 DEF Rises
  <2> DEFINE at == Bisect(keys, i)
             l == Len(keys)
  <2>7. Splits(keys, i, 1, l + 1, at)
    BY <2>5, <2>6, BisectSplits
  <2> HIDE DEF at, l
  <2>8. /\ at \in 1..(l + 1) /\ (l + 1) - 1 = l /\ l \in Nat
        /\ \A j \in 1..l : (j < at => keys[j] < i) /\ (j >= at => keys[j] >= i)
    BY <2>4, <2>5, <2>7 DEF Splits, l
  <2>9. k \in 1..l /\ keys[k] = i /\ k \in Nat
    BY <2>1, <2>4, <2>5 DEF l
  <2>10. ~(k < at)
    BY <2>8, <2>9
  <2>11. at \in 1..l /\ at <= k
    BY <2>8, <2>9, <2>10
  <2>12. at = k
    <3>1. SUFFICES ASSUME at < k PROVE FALSE
      BY <2>8, <2>9, <2>11
    <3>2. keys[at] < keys[k]
      BY <1>1, <2>5, <2>9, <2>11, <3>1 DEF l
    <3>3. keys[at] >= i /\ keys[at] \in Nat
      BY <2>5, <2>8, <2>11 DEF l
    <3> QED
      BY <2>9, <3>2, <3>3
  <2> QED
    BY <2>1, <2>2, <2>12 DEF at
<1> QED
  BY <1>2, <1>3 DEF Spelt


KeepsNames(a, b) ==
  /\ Len(a.vocab) <= Len(b.vocab) /\ Len(a.overflow) <= Len(b.overflow)
  /\ \A k \in 1..Len(a.vocab) : b.vocab[k] = a.vocab[k]
  /\ \A k \in 1..Len(a.overflow) : b.overflow[k] = a.overflow[k]

LEMMA SpeltStays ==
  ASSUME NEW a, NEW n, Names(a, n), NEW b, NEW m, Names(b, m), KeepsNames(a, b),
         NEW i, NEW byte, NEW tag, Spelt(a, i, byte, tag)
  PROVE  Spelt(b, i, byte, tag)
<1> DEFINE v == a.vocab
           w == b.vocab
           o == a.overflow
           q == b.overflow
<1>1. v \in Seq(Nat) /\ w \in Seq(Nat) /\ o \in Seq(Nat \X Nat) /\ q \in Seq(Nat \X Nat)
  BY DEF Names
<1>2. Len(v) <= Len(w) /\ Len(o) <= Len(q)
      /\ (\A k \in 1..Len(v) : w[k] = v[k]) /\ \A k \in 1..Len(o) : q[k] = o[k]
  BY DEF KeepsNames
<1> HIDE DEF v, w, o, q
<1>3. (\A k \in 1..Len(v) : k \in 1..Len(w)) /\ \A k \in 1..Len(o) : k \in 1..Len(q)
  BY <1>1, <1>2
<1> QED
  BY <1>2, <1>3 DEF Spelt, v, w, o, q

\* A custom name gets a byte, and the names given before keep theirs.
NameGiven(ext, r, sym, m) ==
  /\ Names(r.ext, m) /\ Spelt(r.ext, m, r.byte, <<"sym", sym>>) /\ r.byte \in NodeByte
  /\ KeepsNames(ext, r.ext)

LEMMA NamesLater ==
  ASSUME NEW n \in Nat, NEW ext, Names(ext, n)
  PROVE  Names(ext, n + 1) /\ KeepsNames(ext, ext)
<1> DEFINE o == ext.overflow
<1>1. o \in Seq(Nat \X Nat) /\ ext.vocab \in Seq(Nat)
  BY DEF Names
<1>2. ASSUME NEW k \in 1..Len(o)
      PROVE  o[k][1] <= n + 1
  <2> DEFINE x == o[k][1]
  <2>1. x <= n
    BY DEF Names
  <2>2. x \in Nat
    BY <1>1
  <2> HIDE DEF x
  <2>3. x <= n + 1
    BY <2>1, <2>2
  <2> QED
    BY <2>3 DEF x
<1>3. Names(ext, n + 1)
  BY <1>2 DEF Names
<1>4. Len(o) \in Nat /\ Len(ext.vocab) \in Nat
  BY <1>1
<1>5. KeepsNames(ext, ext)
  BY <1>4 DEF KeepsNames
<1> QED
  BY <1>3, <1>5

LEMMA NameIsGiven ==
  ASSUME NEW n \in Nat, NEW ext, Names(ext, n), NEW sym \in Nat
  PROVE  NameGiven(ext, EncodeTag(ext, sym, n + 1), sym, n + 1)
<1> DEFINE v == ext.vocab
           o == ext.overflow
           m == n + 1
           r == EncodeTag(ext, sym, m)
           x == r.ext
<1>1. /\ DOMAIN ext = {"vocab", "overflow"} /\ v \in Seq(Nat) /\ o \in Seq(Nat \X Nat)
      /\ m \in Nat /\ Len(v) \in Nat /\ Len(o) \in Nat
  BY DEF Names
<1>2. /\ \A j, k \in 1..Len(o) : j < k => o[j][1] < o[k][1]
      /\ \A k \in 1..Len(o) : o[k][1] <= n
  BY DEF Names
<1>3. Names(ext, m) /\ KeepsNames(ext, ext)
  BY NamesLater
<1>4. CASE sym \in ToSet(v)
  <2> DEFINE i == IndexIn(v, sym)
  <2>1. r = [ext |-> ext, byte |-> <<"ext", i>>]
    BY <1>4 DEF EncodeTag
  <2>2. \E k \in 1..Len(v) : v[k] = sym
    BY <1>1, <1>4 DEF ToSet
  <2>3. i \in 1..Len(v) /\ v[i] = sym
    BY <2>2 DEF IndexIn
  <2> HIDE DEF i
  <2>4. i \in Nat
    BY <1>1, <2>3
  <2>5. r.byte \in NodeByte
    BY <2>1, <2>4 DEF NodeByte
  <2>6. Spelt(ext, m, r.byte, <<"sym", sym>>)
    BY <2>1, <2>3 DEF Spelt
  <2> QED
    BY <1>3, <2>1, <2>5, <2>6 DEF NameGiven
<1>5. CASE sym \notin ToSet(v) /\ Len(v) < VocabCap
  <2> DEFINE w == Append(v, sym)
  <2>1. r = [ext |-> [ext EXCEPT !.vocab = w], byte |-> <<"ext", Len(v) + 1>>]
    BY <1>5 DEF EncodeTag
  <2>2. w \in Seq(Nat) /\ Len(w) = Len(v) + 1 /\ w[Len(v) + 1] = sym /\ \A k \in 1..Len(v) : w[k] = v[k]
    BY <1>1
  <2> HIDE DEF w
  <2>3. DOMAIN x = {"vocab", "overflow"} /\ x.vocab = w /\ x.overflow = o
        /\ r.byte = <<"ext", Len(v) + 1>>
    BY <1>1, <2>1
  <2> HIDE DEF r, x
  <2>4. Names(x, m)
    BY <1>3, <2>2, <2>3 DEF Names
  <2>5. r.byte \in NodeByte
    BY <1>1, <2>3 DEF NodeByte
  <2>6. Len(v) + 1 \in 1..Len(w) /\ Len(v) <= Len(w) /\ Len(o) <= Len(o)
    BY <1>1, <2>2
  <2>7. Spelt(x, m, r.byte, <<"sym", sym>>)
    BY <2>2, <2>3, <2>6 DEF Spelt
  <2>8. KeepsNames(ext, x)
    BY <2>2, <2>3, <2>6 DEF KeepsNames
  <2> QED
    BY <2>4, <2>5, <2>7, <2>8 DEF NameGiven, x, r
<1>6. CASE sym \notin ToSet(v) /\ ~(Len(v) < VocabCap)
  <2> DEFINE y == <<m, sym>>
             q == Append(o, y)
  <2>1. r = [ext |-> [ext EXCEPT !.overflow = q], byte |-> OverflowByte]
    BY <1>6 DEF EncodeTag
  <2>2. y \in Nat \X Nat /\ y[1] = m
    BY <1>1
  <2>3. q \in Seq(Nat \X Nat) /\ Len(q) = Len(o) + 1 /\ q[Len(o) + 1] = y
        /\ \A k \in 1..Len(o) : q[k] = o[k]
    <3> HIDE DEF y
    <3> QED
      BY <1>1, <2>2
  <2> HIDE DEF q
  <2>4. DOMAIN x = {"vocab", "overflow"} /\ x.vocab = v /\ x.overflow = q /\ r.byte = OverflowByte
    BY <1>1, <2>1
  <2> HIDE DEF r, x
  <2>5. \A k \in 1..Len(q) : k \in 1..Len(o) \/ k = Len(o) + 1
    BY <1>1, <2>3
  <2>6. ASSUME NEW k \in 1..Len(o)
        PROVE  o[k][1] \in Nat /\ o[k][1] < m /\ o[k][1] <= m
    <3> DEFINE z == o[k][1]
    <3>1. z <= n
      BY <1>2
    <3>2. z \in Nat
      BY <1>1
    <3> HIDE DEF z
    <3>3. z \in Nat /\ z < m /\ z <= m
      BY <3>1, <3>2
    <3> QED
      BY <3>3 DEF z
  <2>7. ASSUME NEW j \in 1..Len(q), NEW k \in 1..Len(q), j < k
        PROVE  q[j][1] < q[k][1]
    <3>1. j \in 1..Len(o)
      BY <1>1, <2>3, <2>7
    <3>2. CASE k \in 1..Len(o)
      BY <1>2, <2>3, <2>7, <3>1, <3>2
    <3>3. CASE k = Len(o) + 1
      BY <2>2, <2>3, <2>6, <3>1, <3>3
    <3> QED
      BY <2>5, <3>2, <3>3
  <2>8. ASSUME NEW k \in 1..Len(q)
        PROVE  q[k][1] <= m
    <3>1. CASE k \in 1..Len(o)
      BY <2>3, <2>6, <3>1
    <3>2. CASE k = Len(o) + 1
      BY <1>1, <2>2, <2>3, <3>2
    <3> QED
      BY <2>5, <3>1, <3>2
  <2>9. Names(x, m)
    BY <1>1, <2>3, <2>4, <2>7, <2>8 DEF Names
  <2>10. r.byte \in NodeByte
    BY <2>4 DEF NodeByte, OverflowByte
  <2>11. Len(o) + 1 \in 1..Len(q) /\ Len(o) <= Len(q) /\ Len(v) <= Len(v)
    BY <1>1, <2>3
  <2>12. Spelt(x, m, r.byte, <<"sym", sym>>)
    <3>1. q[Len(o) + 1] = <<m, sym>>
      BY <2>3
    <3> QED
      BY <2>4, <2>11, <3>1 DEF Spelt
  <2>13. KeepsNames(ext, x)
    BY <2>3, <2>4, <2>11 DEF KeepsNames
  <2> QED
    BY <2>9, <2>10, <2>12, <2>13 DEF NameGiven, x, r
<1> QED
  BY <1>4, <1>5, <1>6


-----------------------------------------------------------------------------
(* The builder                                                               *)
Fields == {"tags", "indexes", "nodes", "slots", "run", "symbols", "values", "entries",
           "lists", "classes", "ext", "overflow"}

StackTag == StdTags \union ({"sym"} \X Nat)

Stacked(ext, t, tags, s) ==
  /\ tags \in Seq(StackTag) /\ s \in Seq(Nat) /\ Len(tags) = Len(s)
  /\ \A j \in 1..Len(s) : Spelt(ext, s[j], t[s[j]].tag, tags[j])

InTree(t, s) == \E e : Preorder(t, e) /\ Path(t, e, s)

OnPath(b) ==
  /\ DOMAIN b = Fields /\ b.symbols \in Seq(Strings)
  /\ b.nodes \in Seq(NodesIn(Len(b.nodes))) /\ InTree(b.nodes, b.indexes)
  /\ Names(b.ext, Len(b.nodes)) /\ Stacked(b.ext, b.nodes, b.tags, b.indexes)

\* What does not touch the tree.
SameTree(b, c) ==
  /\ DOMAIN c = Fields /\ c.symbols \in Seq(Strings)
  /\ c.tags = b.tags /\ c.indexes = b.indexes /\ c.nodes = b.nodes /\ c.ext = b.ext

LEMMA SameTreeOnPath ==
  ASSUME NEW b, OnPath(b), NEW c, SameTree(b, c)
  PROVE  OnPath(c)
BY DEF OnPath, SameTree

LEMMA SameTreeOn ==
  ASSUME NEW b, NEW c, NEW d, SameTree(b, c), SameTree(c, d)
  PROVE  SameTree(b, d)
BY DEF SameTree

LEMMA SameTreeSelf ==
  ASSUME NEW b, OnPath(b)
  PROVE  SameTree(b, b) /\ SameTree(b, Poisoned(b))
BY DEF OnPath, SameTree, Poisoned, Fields

LEMMA NewOnPath == OnPath(NewBuilder)
<1> DEFINE x == Node(Std("root"), <<>>, 0, 0, 0)
           t == <<x>>
           e == [i \in 1..1 |-> 2]
<1>1. x.parent = 0 /\ x.next = 0 /\ x.first = 0 /\ x.last = 0 /\ x.prev = 0
  BY DEF Node, NoNode
<1>2. x \in NodesIn(1)
  <2>1. Std("root") \in NodeByte
    BY DEF Std, NodeByte, StdTags, OwnNames
  <2>2. <<>> \in Seq(Nat) /\ 0 \in 0..1
    OBVIOUS
  <2> QED
    BY <2>1, <2>2 DEF NodesIn, Node, NoNode
<1> HIDE DEF x
<1>3. t \in Seq(NodesIn(1)) /\ Len(t) = 1 /\ t[1] = x
  BY <1>2
<1> HIDE DEF t
<1>4. 1..1 = {1} /\ 2..1 = {} /\ e[1] = 2 /\ e \in [1..1 -> 1..2] /\ (1 + 1)..(2 - 1) = {}
  OBVIOUS
<1> HIDE DEF e
<1>5. Parents(t)
  BY <1>1, <1>3, <1>4 DEF Parents
<1>6. Ends(t, e)
  BY <1>3, <1>4 DEF Ends
<1>7. Below(t, e)
  BY <1>1, <1>3, <1>4 DEF Below
<1>8. Lasts(t)
  BY <1>1, <1>3, <1>4 DEF Lasts
<1>9. Preorder(t, e)
  BY <1>5, <1>6, <1>7, <1>8 DEF Preorder
<1> DEFINE none == <<>>
<1>10. none \in Seq(Nat) /\ none \in Seq(Nat \X Nat) /\ none \in Seq(StackTag) /\ none \in Seq(Strings)
       /\ Len(none) = 0 /\ 1..0 = {}
  OBVIOUS
<1>11. /\ NewBuilder.tags = none /\ NewBuilder.indexes = none /\ NewBuilder.nodes = t
       /\ NewBuilder.symbols = none /\ NewBuilder.ext = [vocab |-> none, overflow |-> none]
       /\ DOMAIN NewBuilder = Fields
  BY DEF NewBuilder, NoExtTags, Fields, t, x
<1> HIDE DEF none
<1>12. Path(t, e, none)
  BY <1>10 DEF Path
<1>13. InTree(t, none)
  BY <1>9, <1>12 DEF InTree
<1> DEFINE ext == [vocab |-> none, overflow |-> none]
<1>14. DOMAIN ext = {"vocab", "overflow"} /\ ext.vocab = none /\ ext.overflow = none
  OBVIOUS
<1> HIDE DEF ext
<1>15. Names(ext, 1)
  BY <1>10, <1>14 DEF Names
<1>16. Stacked(ext, t, none, none)
  BY <1>10 DEF Stacked
<1> QED
  BY <1>3, <1>10, <1>11, <1>13, <1>15, <1>16 DEF OnPath, ext

LEMMA InternIs ==
  ASSUME NEW heap \in Seq(Strings), NEW s \in Strings
  PROVE  Intern(heap, s).heap \in Seq(Strings) /\ Intern(heap, s).id \in Nat
<1>1. Len(heap) \in Nat /\ 1 \in Nat
  OBVIOUS
<1>2. CASE s \in ToSet(heap)
  <2>1. \E k \in 1..Len(heap) : heap[k] = s
    BY <1>2 DEF ToSet
  <2>2. IndexIn(heap, s) \in 1..Len(heap)
    BY <2>1 DEF IndexIn
  <2> QED
    BY <1>1, <1>2, <2>2 DEF Intern
<1>3. CASE s \notin ToSet(heap)
  <2>1. Append(heap, s) \in Seq(Strings)
    OBVIOUS
  <2> QED
    BY <1>1, <1>3, <2>1 DEF Intern, Poison
<1> QED
  BY <1>2, <1>3

LEMMA NamedOnPath ==
  ASSUME NEW b, OnPath(b), NEW name, name[1] # "std" => name[2] \in Strings
  PROVE  SameTree(b, Named(b, name))
<1>1. CASE name[1] = "std"
  BY <1>1, SameTreeSelf DEF Named
<1>2. CASE name[1] # "std"
  <2> DEFINE i == Intern(b.symbols, name[2])
             h == i.heap
             o == b.overflow \/ i.full
  <2>1. h \in Seq(Strings)
    BY <1>2, InternIs DEF OnPath
  <2>2. Named(b, name) = [b EXCEPT !.symbols = h, !.overflow = o]
    BY <1>2 DEF Named
  <2> HIDE DEF h, o
  <2> QED
    BY <2>1, <2>2 DEF OnPath, SameTree, Fields
<1> QED
  BY <1>1, <1>2

LEMMA TagMade ==
  ASSUME NEW b, OnPath(b), NEW name \in TagNames
  PROVE  MakeTag(b, name) \in StackTag /\ (name[1] # "std" => name[2] \in Strings)
<1>1. (name[1] = "std" /\ name \in {"std"} \X STRING) \/ (name[1] # "std" /\ name[2] \in Strings)
  BY DEF TagNames
<1>2. CASE name[1] = "std" /\ name \in {"std"} \X STRING
  <2>1. name \in StdTags
    BY <1>2 DEF StdTags
  <2> QED
    BY <1>2, <2>1 DEF MakeTag, StackTag
<1>3. CASE name[1] # "std" /\ name[2] \in Strings
  <2> DEFINE x == Intern(b.symbols, name[2]).id
  <2>1. x \in Nat
    BY <1>3, InternIs DEF OnPath
  <2>2. MakeTag(b, name) = <<"sym", x>>
    BY <1>3 DEF MakeTag
  <2> HIDE DEF x
  <2> QED
    BY <1>3, <2>1, <2>2 DEF StackTag
<1> QED
  BY <1>1, <1>2, <1>3

\* Closing elements cuts both stacks alike.
Cut(s, r, m) == Len(r) = m /\ \A j \in 1..m : r[j] = s[j]

LEMMA CutOnPath ==
  ASSUME NEW b, OnPath(b), NEW m \in 0..Len(b.tags), NEW c, DOMAIN c = Fields,
         c.symbols = b.symbols, c.nodes = b.nodes, c.ext = b.ext,
         c.tags \in Seq(StackTag), Cut(b.tags, c.tags, m),
         c.indexes \in Seq(Nat), Cut(b.indexes, c.indexes, m)
  PROVE  OnPath(c)
<1>1. Len(b.tags) = Len(b.indexes) /\ b.indexes \in Seq(Nat) /\ Len(b.indexes) \in Nat /\ m \in Nat
      /\ m <= Len(b.indexes) /\ Len(c.tags) = m /\ Len(c.indexes) = m
      /\ \A j \in 1..m : j \in 1..Len(b.indexes) /\ c.tags[j] = b.tags[j] /\ c.indexes[j] = b.indexes[j]
  BY DEF OnPath, Stacked, Cut
<1>2. PICK e : Preorder(b.nodes, e) /\ Path(b.nodes, e, b.indexes)
  BY DEF OnPath, InTree
<1>3. Path(b.nodes, e, c.indexes)
  BY <1>1, <1>2, PathShrinks
<1>4. InTree(c.nodes, c.indexes)
  BY <1>2, <1>3 DEF InTree
<1>5. Stacked(c.ext, c.nodes, c.tags, c.indexes)
  BY <1>1 DEF OnPath, Stacked
<1> QED
  BY <1>4, <1>5 DEF OnPath

LEMMA FrontCuts ==
  ASSUME NEW S, NEW s \in Seq(S), s # <<>>
  PROVE  Front(s) \in Seq(S) /\ Cut(s, Front(s), Len(s) - 1) /\ Len(s) - 1 \in 0..Len(s)
<1>1. Len(s) \in Nat /\ Len(s) # 0
  OBVIOUS
<1>2. Len(s) - 1 \in 0..Len(s) /\ Len(s) - 1 \in Nat /\ Len(s) - 1 <= Len(s)
  BY <1>1
<1>3. Front(s) = SubSeq(s, 1, Len(s) - 1)
  BY DEF Front
<1> DEFINE m == Len(s) - 1
<1>4. m \in Nat /\ m <= Len(s)
  BY <1>2
<1> HIDE DEF m
<1>5. SubSeq(s, 1, m) \in Seq(S) /\ Len(SubSeq(s, 1, m)) = m /\ \A j \in 1..m : SubSeq(s, 1, m)[j] = s[j]
  BY <1>1, <1>4
<1> QED
  BY <1>2, <1>3, <1>5 DEF Cut, m

LEMMA PopOnPath ==
  ASSUME NEW b, OnPath(b)
  PROVE  OnPath(PopTag(b)) /\ PopTag(b).symbols = b.symbols
<1>1. CASE b.tags = <<>>
  <2>1. PopTag(b) = [b EXCEPT !.run = None]
    BY <1>1 DEF PopTag
  <2>2. SameTree(b, PopTag(b)) /\ PopTag(b).symbols = b.symbols
    BY <2>1 DEF OnPath, SameTree, Fields
  <2> QED
    BY <2>2, SameTreeOnPath
<1>2. CASE b.tags # <<>>
  <2> DEFINE x == b.tags
             y == b.indexes
             m == Len(x) - 1
             c == [b EXCEPT !.tags = Front(x), !.indexes = Front(y), !.run = None]
  <2>1. PopTag(b) = c
    BY <1>2 DEF PopTag
  <2>2. x \in Seq(StackTag) /\ y \in Seq(Nat) /\ Len(x) = Len(y) /\ x # <<>> /\ y # <<>>
    BY <1>2 DEF OnPath, Stacked
  <2>3. Front(x) \in Seq(StackTag) /\ Cut(x, Front(x), m) /\ m \in 0..Len(x)
    BY <2>2, FrontCuts
  <2>4. Front(y) \in Seq(Nat) /\ Cut(y, Front(y), m)
    BY <2>2, FrontCuts
  <2>5. DOMAIN c = Fields /\ c.tags = Front(x) /\ c.indexes = Front(y) /\ c.nodes = b.nodes
        /\ c.ext = b.ext /\ c.symbols = b.symbols
    BY DEF OnPath, Fields
  <2> HIDE DEF c, m
  <2>6. OnPath(c)
    BY <2>3, <2>4, <2>5, CutOnPath
  <2> QED
    BY <2>1, <2>5, <2>6
<1> QED
  BY <1>1, <1>2


LEMMA ThroughOnPath ==
  ASSUME NEW b, OnPath(b), NEW tag, tag \in ToSet(b.tags)
  PROVE  OnPath(PopThrough(b, tag)) /\ PopThrough(b, tag).symbols = b.symbols
<1> DEFINE x == b.tags
           y == b.indexes
           n == Len(x)
           Is(j) == x[j] = tag /\ \A k \in (j + 1)..n : x[k] # tag
           T == {d \in 0..n : d < n /\ x[n - d] = tag}
           at == CHOOSE j \in 1..n : Is(j)
           m == at - 1
           c == [b EXCEPT !.tags = SubSeq(x, 1, m), !.indexes = SubSeq(y, 1, m), !.run = None]
<1>1. x \in Seq(StackTag) /\ y \in Seq(Nat) /\ Len(x) = Len(y) /\ n \in Nat
  BY DEF OnPath, Stacked
<1>2. PICK i \in 1..n : x[i] = tag
  BY <1>1 DEF ToSet
<1>3. T \in SUBSET Nat /\ T # {}
  <2> HIDE DEF n
  <2>1. n - i \in 0..n /\ n - i < n /\ n - (n - i) = i
    BY <1>1, <1>2
  <2>2. n - i \in T
    BY <1>2, <2>1
  <2>3. T \in SUBSET Nat
    BY <1>1
  <2> QED
    BY <2>2, <2>3
<1>4. \A d : d \in T <=> d \in 0..n /\ d < n /\ x[n - d] = tag
  OBVIOUS
<1> HIDE DEF T
<1>5. PICK d \in T : \A f \in T : d <= f
  BY <1>3, Least
<1>6. n - d \in 1..n /\ x[n - d] = tag /\ d \in Nat
  BY <1>1, <1>4, <1>5
<1>7. ASSUME NEW k \in ((n - d) + 1)..n
      PROVE  x[k] # tag
  <2> HIDE DEF n
  <2>1. n - k \in 0..n /\ n - k < n /\ n - (n - k) = k /\ ~(d <= n - k)
    <3>1. d \in 0..n /\ n - d \in 1..n
      BY <1>4, <1>5, <1>6
    <3> QED
      BY <1>1, <3>1
  <2> QED
    BY <1>4, <1>5, <2>1
<1>8. \E j \in 1..n : Is(j)
  BY <1>6, <1>7
<1>9. at \in 1..n
  <2> HIDE DEF Is
  <2> QED
    BY <1>8
<1>10. PopThrough(b, tag) = c
  BY DEF PopThrough
<1> HIDE DEF at
<1>11. m \in 0..n /\ m \in Nat /\ m <= n
  BY <1>1, <1>9
<1> HIDE DEF m, n
<1>12. SubSeq(x, 1, m) \in Seq(StackTag) /\ Cut(x, SubSeq(x, 1, m), m)
  <2>1. Len(SubSeq(x, 1, m)) = m /\ \A j \in 1..m : SubSeq(x, 1, m)[j] = x[j]
    BY <1>1, <1>11 DEF n
  <2> QED
    BY <1>1, <1>11, <2>1 DEF Cut, n
<1>13. SubSeq(y, 1, m) \in Seq(Nat) /\ Cut(y, SubSeq(y, 1, m), m)
  <2>1. Len(SubSeq(y, 1, m)) = m /\ \A j \in 1..m : SubSeq(y, 1, m)[j] = y[j]
    BY <1>1, <1>11 DEF n
  <2> QED
    BY <1>1, <1>11, <2>1 DEF Cut, n
<1>14. DOMAIN c = Fields /\ c.tags = SubSeq(x, 1, m) /\ c.indexes = SubSeq(y, 1, m)
       /\ c.nodes = b.nodes /\ c.ext = b.ext /\ c.symbols = b.symbols
  BY DEF OnPath, Fields
<1> HIDE DEF c
<1>15. OnPath(c)
  BY <1>11, <1>12, <1>13, <1>14, CutOnPath DEF n
<1> QED
  BY <1>10, <1>14, <1>15

LEMMA ClosedOnPath ==
  ASSUME NEW b, OnPath(b), NEW tag
  PROVE  OnPath(CloseOpen(b, tag))
<1> DEFINE c == PopTag(b)
<1>1. OnPath(c)
  BY PopOnPath
<1>2. CASE LastTag(b) = tag
  BY <1>1, <1>2 DEF CloseOpen
<1>3. CASE LastTag(b) # tag /\ tag \notin ToSet(b.tags)
  BY <1>3 DEF CloseOpen
<1>4. CASE LastTag(b) # tag /\ tag \in ToSet(b.tags)
  <2>1. tag \in ToSet(c.tags)
    <3> DEFINE x == b.tags
               n == Len(x)
    <3>1. x \in Seq(StackTag) /\ n \in Nat
      BY DEF OnPath, Stacked
    <3>2. PICK i \in 1..n : x[i] = tag
      BY <1>4, <3>1 DEF ToSet
    <3>3. x # <<>> /\ x[n] # tag
      BY <1>4, <3>1, <3>2 DEF LastTag, Last
    <3>4. c.tags = Front(x)
      <4>1. c = [b EXCEPT !.tags = Front(@), !.indexes = Front(@), !.run = None]
        BY <3>3 DEF PopTag
      <4> QED
        BY <4>1 DEF OnPath, Fields
    <3>5. Front(x) \in Seq(StackTag) /\ Cut(x, Front(x), n - 1)
      BY <3>1, <3>3, FrontCuts
    <3>6. i \in 1..(n - 1)
      BY <3>1, <3>2, <3>3
    <3>7. Front(x)[i] = tag /\ i \in DOMAIN Front(x)
      BY <3>2, <3>5, <3>6 DEF Cut
    <3> QED
      BY <3>4, <3>7 DEF ToSet
  <2>2. OnPath(PopThrough(c, tag))
    BY <1>1, <2>1, ThroughOnPath
  <2>3. CloseOpen(b, tag) = c \/ CloseOpen(b, tag) = PopThrough(c, tag)
    BY <1>4 DEF CloseOpen
  <2> QED
    BY <1>1, <2>2, <2>3
<1> QED
  BY <1>2, <1>3, <1>4

LEMMA EndedOnPath ==
  ASSUME NEW b, OnPath(b), NEW name \in TagNames
  PROVE  OnPath(PopNamed(b, name))
<1> DEFINE c == Named(b, name)
<1>1. OnPath(c)
  BY NamedOnPath, SameTreeOnPath, TagMade
<1> HIDE DEF c
<1>2. OnPath(CloseOpen(c, MakeTag(b, name)))
  BY <1>1, ClosedOnPath
<1> QED
  BY <1>2 DEF PopNamed, c

\* A node at the end of the document, and whether it is opened.
LEMMA AddedOnPath ==
  ASSUME NEW b, OnPath(b), NEW text \in Seq(Nat), NEW byte \in NodeByte, NEW ext,
         Names(ext, Len(b.nodes) + 1), KeepsNames(b.ext, ext),
         NEW c, DOMAIN c = Fields, c.symbols = b.symbols, c.ext = ext,
         c.nodes = AddLastChild(b.nodes, Index(b), byte, text),
         \/ c.tags = b.tags /\ c.indexes = b.indexes
         \/ \E tag \in StackTag : /\ c.tags = Append(b.tags, tag)
                                  /\ c.indexes = Append(b.indexes, Len(b.nodes) + 1)
                                  /\ Spelt(ext, Len(b.nodes) + 1, byte, tag)
  PROVE  OnPath(c)
<1> DEFINE t == b.nodes
           n == Len(t)
           m == n + 1
           s == b.indexes
           l == Len(s)
           p == Index(b)
           u == AddLastChild(t, p, byte, text)
<1>1. PICK e : Preorder(t, e) /\ Path(t, e, s)
  BY DEF OnPath, InTree
<1>2. s \in Seq(Nat) /\ b.tags \in Seq(StackTag) /\ Len(b.tags) = l /\ n \in Nat /\ l \in Nat
  BY <1>1 DEF OnPath, Stacked, Preorder, Parents
<1>3. p = TopOf(s)
  BY DEF Index, TopOf
<1> HIDE DEF p
<1>4. p \in 1..n /\ e[p] = n + 1
  BY <1>1, <1>2, <1>3, PathTop
<1>5. t \in Seq(NodesIn(n)) /\ c.nodes = u
  BY DEF OnPath, p
<1> HIDE DEF n
<1>6. ChildOf(t, u, p, m) /\ u[m].tag = byte /\ u \in Seq(NodesIn(m))
  <2>1. n = Len(t)
    BY DEF n
  <2> HIDE DEF t
  <2> QED
    BY <1>1, <1>4, <1>5, <2>1, ChildIs, SMTT(30)
<1> HIDE DEF u
<1>7. Len(u) = m /\ \A k \in 1..n : u[k].tag = t[k].tag
  BY <1>6 DEF ChildOf, n
<1>8. Preorder(u, Widened(t, e, p))
  BY <1>1, <1>4, <1>6, PreorderGrows DEF n
<1>9. Path(u, Widened(t, e, p), s) /\ Path(u, Widened(t, e, p), Append(s, m))
  BY <1>1, <1>2, <1>3, <1>6, PathGrows
<1>10. ASSUME NEW j \in 1..l
       PROVE  Spelt(ext, s[j], u[s[j]].tag, b.tags[j])
  <2>1. s[j] \in 1..n
    <3>1. s[j] \in 2..n
      BY <1>1 DEF Path, n
    <3> QED
      BY <1>2, <3>1
  <2>2. Spelt(b.ext, s[j], t[s[j]].tag, b.tags[j]) /\ Names(b.ext, n)
    BY DEF OnPath, Stacked, n
  <2>3. Spelt(ext, s[j], t[s[j]].tag, b.tags[j])
    BY <2>2, SpeltStays DEF n
  <2> QED
    BY <1>7, <2>1, <2>3
<1>11. CASE c.tags = b.tags /\ c.indexes = b.indexes
  <2>1. InTree(c.nodes, c.indexes)
    BY <1>5, <1>8, <1>9, <1>11 DEF InTree
  <2>2. Stacked(c.ext, c.nodes, c.tags, c.indexes)
    BY <1>2, <1>5, <1>10, <1>11 DEF Stacked
  <2> QED
    BY <1>5, <1>6, <1>7, <2>1, <2>2 DEF OnPath, n
<1>12. CASE \E tag \in StackTag : /\ c.tags = Append(b.tags, tag)
                                  /\ c.indexes = Append(b.indexes, Len(b.nodes) + 1)
                                  /\ Spelt(ext, Len(b.nodes) + 1, byte, tag)
  <2>1. PICK tag \in StackTag : /\ c.tags = Append(b.tags, tag) /\ c.indexes = Append(s, m)
                                /\ Spelt(ext, m, byte, tag)
    BY <1>12 DEF n
  <2>2. InTree(c.nodes, c.indexes)
    BY <1>5, <1>8, <1>9, <2>1 DEF InTree
  <2> DEFINE r == c.indexes
             q == c.tags
  <2>3. /\ r \in Seq(Nat) /\ Len(r) = l + 1 /\ r[l + 1] = m /\ \A j \in 1..l : r[j] = s[j]
    <3>1. m \in Nat
      BY <1>2
    <3> HIDE DEF m
    <3> QED
      BY <1>2, <2>1, <3>1
  <2>4. /\ q \in Seq(StackTag) /\ Len(q) = l + 1 /\ q[l + 1] = tag /\ \A j \in 1..l : q[j] = b.tags[j]
    BY <1>2, <2>1
  <2> HIDE DEF r, q
  <2>5. ASSUME NEW j \in 1..Len(r)
        PROVE  Spelt(ext, r[j], u[r[j]].tag, q[j])
    <3>1. j \in 1..l \/ j = l + 1
      BY <1>2, <2>3
    <3>2. CASE j \in 1..l
      BY <1>10, <2>3, <2>4, <3>2
    <3>3. CASE j = l + 1
      BY <1>6, <2>1, <2>3, <2>4, <3>3
    <3> QED
      BY <3>1, <3>2, <3>3
  <2>6. Stacked(c.ext, c.nodes, c.tags, c.indexes)
    BY <1>5, <2>3, <2>4, <2>5 DEF Stacked, r, q
  <2> QED
    BY <1>5, <1>6, <1>7, <2>2, <2>6 DEF OnPath, n
<1> QED
  BY <1>11, <1>12


LEMMA OpenedOnPath ==
  ASSUME NEW b, OnPath(b), NEW tag \in StackTag
  PROVE  OnPath(PushOpen(b, tag))
<1> DEFINE n == Len(b.nodes)
           d == Encoded(b, tag)
           x == d.ext
           y == d.byte
           p == Index(b)
           u == AddLastChild(b.nodes, p, y, <<>>)
           w == Append(b.slots, NoRuns)
           q == Append(b.tags, tag)
           r == Append(b.indexes, n + 1)
           c == [b EXCEPT !.tags = q, !.indexes = r, !.nodes = u, !.slots = w, !.ext = x, !.run = None]
<1>1. n \in Nat /\ Names(b.ext, n)
  BY DEF OnPath, InTree, Preorder, Parents
<1>2. /\ Names(x, n + 1) /\ KeepsNames(b.ext, x) /\ y \in NodeByte /\ Spelt(x, n + 1, y, tag)
  <2>1. CASE tag[1] = "std"
    <3>1. x = b.ext /\ y = tag
      BY <2>1 DEF Encoded
    <3>2. tag \in NodeByte
      BY <2>1 DEF StackTag, NodeByte
    <3>3. Names(b.ext, n + 1) /\ KeepsNames(b.ext, b.ext)
      BY <1>1, NamesLater
    <3> QED
      BY <2>1, <3>1, <3>2, <3>3 DEF Spelt
  <2>2. CASE tag[1] # "std"
    <3>1. tag = <<"sym", tag[2]>> /\ tag[2] \in Nat
      BY <2>2 DEF StackTag, StdTags
    <3>2. d = EncodeTag(b.ext, tag[2], n + 1)
      BY <2>2 DEF Encoded
    <3>3. NameGiven(b.ext, d, tag[2], n + 1)
      <4> HIDE DEF n, d
      <4> QED
        BY <1>1, <3>1, <3>2, NameIsGiven
    <3> HIDE DEF d
    <3> QED
      BY <3>1, <3>3 DEF NameGiven
  <2> QED
    BY <2>1, <2>2
<1>3. CASE Len(b.tags) >= MaxDepth \/ n >= MaxNodes
  BY <1>3, SameTreeSelf, SameTreeOnPath DEF PushOpen
<1>4. CASE ~(Len(b.tags) >= MaxDepth \/ n >= MaxNodes)
  <2>1. PushOpen(b, tag) = c
    BY <1>4 DEF PushOpen
  <2>2. <<>> \in Seq(Nat)
    OBVIOUS
  <2> HIDE DEF x, y, q, r, u, w
  <2>3. DOMAIN c = Fields /\ c.symbols = b.symbols /\ c.ext = x /\ c.nodes = u
        /\ c.tags = q /\ c.indexes = r
    BY DEF OnPath, Fields
  <2> HIDE DEF c
  <2>4. OnPath(c)
    <3>1. \E g \in StackTag : /\ c.tags = Append(b.tags, g)
                              /\ c.indexes = Append(b.indexes, Len(b.nodes) + 1)
                              /\ Spelt(x, Len(b.nodes) + 1, y, g)
      BY <1>2, <2>3 DEF q, r
    <3>2. c.nodes = AddLastChild(b.nodes, Index(b), y, <<>>)
      BY <2>3 DEF u
    <3> QED
      BY <1>2, <2>2, <2>3, <3>1, <3>2, AddedOnPath
  <2> QED
    BY <2>1, <2>4
<1> QED
  BY <1>3, <1>4

LEMMA PushedOnPath ==
  ASSUME NEW b, OnPath(b), NEW name, name \in TagNames \union StdTags
  PROVE  OnPath(PushTag(b, name))
<1> DEFINE tag == MakeTag(b, name)
           c == Named(b, name)
           d == IF AutoCloseWhenNext(Kind(LastTag(c)), Kind(tag)) THEN PopTag(c) ELSE c
<1>1. tag \in StackTag /\ (name[1] # "std" => name[2] \in Strings)
  <2>1. CASE name \in TagNames
    BY <2>1, TagMade
  <2>2. CASE name \in StdTags
    BY <2>2 DEF StdTags, StackTag, MakeTag
  <2> QED
    BY <2>1, <2>2
<1>2. OnPath(c)
  BY <1>1, NamedOnPath, SameTreeOnPath
<1> HIDE DEF c
<1>3. OnPath(d)
  BY <1>2, PopOnPath
<1> HIDE DEF d, tag
<1>4. OnPath(PushOpen(d, tag))
  BY <1>1, <1>3, OpenedOnPath
<1> QED
  BY <1>4 DEF PushTag, c, d, tag

LEMMA TextOnPath ==
  ASSUME NEW b, OnPath(b), NEW tag \in OwnNames, NEW text \in Seq(Nat)
  PROVE  OnPath(AddText(b, tag, text))
<1> DEFINE n == Len(b.nodes)
           p == Index(b)
           y == Std(tag)
           u == AddLastChild(b.nodes, p, y, text)
           w == Append(b.slots, NoRuns)
           c == [b EXCEPT !.nodes = u, !.slots = w, !.run = None]
<1>1. n \in Nat /\ Names(b.ext, n)
  BY DEF OnPath, InTree, Preorder, Parents
<1>2. y \in NodeByte
  BY DEF Std, NodeByte, StdTags
<1>3. CASE n >= MaxNodes
  BY <1>3, SameTreeSelf, SameTreeOnPath DEF AddText
<1>4. CASE ~(n >= MaxNodes)
  <2>1. AddText(b, tag, text) = c
    BY <1>4 DEF AddText
  <2> HIDE DEF y, u, w
  <2>2. DOMAIN c = Fields /\ c.symbols = b.symbols /\ c.ext = b.ext /\ c.nodes = u
        /\ c.tags = b.tags /\ c.indexes = b.indexes
    BY DEF OnPath, Fields
  <2> HIDE DEF c
  <2>3. Names(b.ext, n + 1) /\ KeepsNames(b.ext, b.ext)
    BY <1>1, NamesLater
  <2>4. c.nodes = AddLastChild(b.nodes, Index(b), y, text)
    BY <2>2 DEF u
  <2>5. OnPath(c)
    BY <1>2, <2>2, <2>3, <2>4, AddedOnPath
  <2> QED
    BY <2>1, <2>5
<1> QED
  BY <1>3, <1>4


\* Classes and attributes leave the tree alone.
Accs == {"b", "start", "open"}

LEMMA ClassKeeps ==
  ASSUME NEW b, NEW acc, DOMAIN acc = Accs, SameTree(b, acc.b), NEW s \in Strings
  PROVE  DOMAIN AddClass(acc, s) = Accs /\ SameTree(b, AddClass(acc, s).b)
<1> DEFINE c == acc.b
           i == Intern(c.symbols, s)
           x == ExtendLast(c.classes, acc.start, i.id)
           h == i.heap
           a == x.arena
           o == c.overflow \/ i.full \/ x.full
           q == ~x.full
           d == [c EXCEPT !.symbols = h, !.classes = a, !.overflow = o]
<1>1. h \in Seq(Strings)
  BY InternIs DEF SameTree
<1>2. AddClass(acc, s) = IF ~acc.open THEN acc ELSE [acc EXCEPT !.b = d, !.open = q]
  BY DEF AddClass
<1> HIDE DEF h, a, o, q
<1>3. SameTree(b, d)
  BY <1>1 DEF SameTree, Fields
<1> HIDE DEF d, c
<1>4. CASE ~acc.open
  BY <1>2, <1>4
<1>5. CASE acc.open
  <2>1. AddClass(acc, s) = [acc EXCEPT !.b = d, !.open = q]
    BY <1>2, <1>5
  <2> QED
    BY <1>3, <2>1 DEF Accs
<1> QED
  BY <1>4, <1>5

\* names added one after the other.
Adding(f, fresh, names, n) ==
  /\ f = [k \in 1..n |-> f[k]]
  /\ \A k \in 1..n : f[k] = IF k = 1 THEN fresh ELSE AddClass(f[k - 1], names[k])

LEMMA AddingEnds ==
  ASSUME NEW fresh, NEW names, NEW n \in Nat
  PROVE  \E f : Adding(f, fresh, names, n)
<1> DEFINE T == {k \in Nat : \E f : Adding(f, fresh, names, k)}
<1>1. 0 \in T
  <2> DEFINE f == [k \in 1..0 |-> k]
  <2>1. f = [k \in 1..0 |-> f[k]] /\ 1..0 = {}
    OBVIOUS
  <2> HIDE DEF f
  <2>2. Adding(f, fresh, names, 0)
    BY <2>1 DEF Adding
  <2> QED
    BY <2>2
<1>2. ASSUME NEW k \in 0..n, k \in T, k < n
      PROVE  k + 1 \in T
  <2>1. k \in Nat /\ k + 1 \in Nat
    OBVIOUS
  <2>2. PICK f : Adding(f, fresh, names, k)
    BY <1>2
  <2> DEFINE m == k + 1
             g == [j \in 1..m |-> IF j = m THEN IF m = 1 THEN fresh ELSE AddClass(f[k], names[m])
                                  ELSE f[j]]
  <2>3. g = [j \in 1..m |-> g[j]]
    OBVIOUS
  <2>4. \A j \in 1..m : g[j] = IF j = m THEN IF m = 1 THEN fresh ELSE AddClass(f[k], names[m])
                               ELSE f[j]
    OBVIOUS
  <2> HIDE DEF g
  <2>5. ASSUME NEW j \in 1..m
        PROVE  g[j] = IF j = 1 THEN fresh ELSE AddClass(g[j - 1], names[j])
    <3>1. CASE j = m
      <4>1. CASE m = 1
        BY <2>4, <3>1, <4>1
      <4>2. CASE m # 1
        <5>1. j - 1 = k /\ k \in 1..m /\ k # m
          BY <2>1, <3>1, <4>2
        <5>2. g[j - 1] = f[k]
          BY <2>4, <5>1
        <5> QED
          BY <2>4, <3>1, <4>2, <5>2
      <4> QED
        BY <4>1, <4>2
    <3>2. CASE j # m
      <4>1. j \in 1..k /\ g[j] = f[j]
        BY <2>1, <2>4, <3>2
      <4>2. f[j] = IF j = 1 THEN fresh ELSE AddClass(f[j - 1], names[j])
        BY <2>2, <4>1 DEF Adding
      <4>3. j # 1 => g[j - 1] = f[j - 1]
        <5>1. j # 1 => j - 1 \in 1..m /\ j - 1 # m
          BY <2>1, <4>1
        <5> QED
          BY <2>4, <5>1
      <4> QED
        BY <4>1, <4>2, <4>3
    <3> QED
      BY <3>1, <3>2
  <2>6. Adding(g, fresh, names, m)
    BY <2>3, <2>5 DEF Adding
  <2> QED
    BY <2>1, <2>6
<1>3. n \in 0..n
  OBVIOUS
<1> HIDE DEF T
<1>4. \A k \in 0..n : k \in T /\ k < n => (k + 1) \in T
  BY <1>2
<1>5. \A k \in 0..n : k \in T
  BY <1>1, <1>4, Upward
<1> QED
  BY <1>3, <1>5 DEF T

LEMMA ClassesKeep ==
  ASSUME NEW b, OnPath(b), NEW names \in Seq(Strings)
  PROVE  SameTree(b, AddClasses(b, names))
<1> DEFINE first == IF names = <<>> THEN 0 ELSE Head(names)
           i == Intern(b.symbols, first)
           h == i.heap
           o == b.overflow \/ i.full
           fits == NewRunFits(b.classes)
           start == IF fits THEN NewRunStart(b.classes) ELSE Poison
           slots == [b.slots EXCEPT ![Index(b)].cls = start]
           c == [b EXCEPT !.symbols = h, !.overflow = o, !.slots = slots]
           a == NewRun(c.classes, i.id)
           d == [c EXCEPT !.classes = a]
           fresh == [b |-> d, start |-> start, open |-> TRUE]
           n == Len(names)
           m == n + 1
           Right(f) == f = [k \in 1..m |-> IF k = 1 THEN fresh ELSE AddClass(f[k - 1], names[k])]
           added == CHOOSE f : Right(f)
<1>1. first \in Strings /\ n \in Nat /\ \A k \in 1..n : names[k] \in Strings
  <2>1. 0 \in Strings
    BY StoreAssumption DEF Strings
  <2> QED
    BY <2>1
<1> HIDE DEF first
<1>2. h \in Seq(Strings)
  BY <1>1, InternIs DEF OnPath
<1>3. AddClasses(b, names) = IF ~fits THEN Poisoned(c)
                             ELSE IF names = <<>> THEN fresh.b ELSE added[n].b
  BY DEF AddClasses, first
<1> HIDE DEF h, o, slots, start, fits, a
<1>4. SameTree(b, c)
  BY <1>2 DEF OnPath, SameTree, Fields
<1>5. SameTree(b, d)
  BY <1>4 DEF SameTree, Fields
<1>6. SameTree(b, Poisoned(c))
  BY <1>4 DEF SameTree, Fields, Poisoned
<1> HIDE DEF c, d
<1>7. DOMAIN fresh = Accs /\ fresh.b = d
  BY DEF Accs
<1> HIDE DEF fresh
<1>8. Right(added)
  <2>1. PICK f : Adding(f, fresh, names, m)
    <3>1. m \in Nat
      BY <1>1
    <3> HIDE DEF m
    <3> QED
      BY <3>1, AddingEnds
  <2>2. Right(f)
    <3> HIDE DEF m
    <3> QED
      BY <2>1 DEF Adding
  <2> QED
    BY <2>2
<1> HIDE DEF added
<1>9. \A k \in 1..m : added[k] = IF k = 1 THEN fresh ELSE AddClass(added[k - 1], names[k])
  <2> HIDE DEF m
  <2> QED
    BY <1>8
<1> DEFINE T == {k \in Nat : k < n => DOMAIN added[k + 1] = Accs /\ SameTree(b, added[k + 1].b)}
<1>10. 0 \in T
  <2>1. 1 \in 1..m
    BY <1>1
  <2>2. added[1] = fresh
    BY <1>9, <2>1
  <2> QED
    BY <1>5, <1>7, <2>2
<1>11. ASSUME NEW k \in 0..n, k \in T, k < n
       PROVE  k + 1 \in T
  <2> DEFINE j == k + 1
  <2>1. j \in Nat /\ k \in Nat /\ j + 1 \in 1..m /\ j + 1 # 1 /\ (j + 1) - 1 = j
    BY <1>1, <1>11
  <2>2. DOMAIN added[j] = Accs /\ SameTree(b, added[j].b)
    BY <1>11
  <2> HIDE DEF j
  <2>3. CASE j < n
    <3>1. added[j + 1] = AddClass(added[j], names[j + 1])
      BY <1>9, <2>1
    <3>2. names[j + 1] \in Strings
      BY <1>1, <2>1, <2>3
    <3>3. DOMAIN AddClass(added[j], names[j + 1]) = Accs
          /\ SameTree(b, AddClass(added[j], names[j + 1]).b)
      BY <2>2, <3>2, ClassKeeps
    <3> QED
      BY <2>1, <3>1, <3>3 DEF j
  <2>4. CASE ~(j < n)
    BY <2>1, <2>4 DEF j
  <2> QED
    BY <2>3, <2>4
<1> HIDE DEF T
<1>12. \A k \in 0..n : k \in T /\ k < n => (k + 1) \in T
  BY <1>11
<1>13. \A k \in 0..n : k \in T
  <2> HIDE DEF n
  <2> QED
    BY <1>1, <1>10, <1>12, Upward
<1>14. names # <<>> => SameTree(b, added[n].b)
  <2>1. ASSUME names # <<>>
        PROVE  n - 1 \in 0..n /\ n - 1 < n /\ (n - 1) + 1 = n
    BY <1>1, <2>1
  <2> QED
    BY <1>13, <2>1 DEF T
<1> QED
  BY <1>3, <1>5, <1>6, <1>7, <1>14

LEMMA EnteredKeeps ==
  ASSUME NEW b, OnPath(b), NEW name, name[1] # "std" => name[2] \in Strings, NEW value
  PROVE  SameTree(b, Entered(b, name, value).b)
<1> DEFINE v == Intern(b.values, value)
           pair == <<NameSym(b, name), v.id>>
           h == v.heap
           d == Named(b, name)
           c == [d EXCEPT !.values = h]
           g == Append(c.entries, pair)
           k == EntryId(b, pair)
           x == [b |-> Poisoned(c), id |-> Poison]
           y == [b |-> c, id |-> k]
           z == [b |-> [c EXCEPT !.entries = g], id |-> k]
<1>1. SameTree(b, d)
  BY NamedOnPath
<1>2. Entered(b, name, value) = x \/ Entered(b, name, value) = y \/ Entered(b, name, value) = z
  BY DEF Entered
<1>3. x.b = Poisoned(c) /\ y.b = c /\ z.b = [c EXCEPT !.entries = g]
  OBVIOUS
<1> HIDE DEF d, h, g, k, x, y, z
<1>4. SameTree(b, c)
  BY <1>1 DEF SameTree, Fields
<1> HIDE DEF c
<1>5. SameTree(b, Poisoned(c))
  BY <1>4 DEF SameTree, Fields, Poisoned
<1>6. SameTree(b, [c EXCEPT !.entries = g])
  BY <1>4 DEF SameTree, Fields
<1> QED
  BY <1>2, <1>3, <1>4, <1>5, <1>6

LEMMA ListedKeeps ==
  ASSUME NEW b, OnPath(b), NEW id
  PROVE  SameTree(b, ListAttribute(b, id))
<1> DEFINE x == ExtendLast(b.lists, b.run, id)
           a == x.arena
           o == b.overflow \/ x.full
           r == NewRun(b.lists, id)
           start == NewRunStart(b.lists)
           s == [b.slots EXCEPT ![Index(b)].attr = start]
           q == [b.slots EXCEPT ![Index(b)].attr = Poison]
           c == [b EXCEPT !.lists = a, !.overflow = o]
           d == [b EXCEPT !.lists = r, !.run = start, !.slots = s]
           e == [b EXCEPT !.overflow = TRUE]
           f == [e EXCEPT !.run = Poison, !.slots = q]
<1>1. ListAttribute(b, id) = c \/ ListAttribute(b, id) = d \/ ListAttribute(b, id) = f
  <2>1. Poisoned(b).slots = b.slots
    BY DEF Poisoned, OnPath, Fields
  <2> QED
    BY <2>1 DEF ListAttribute, Poisoned
<1> HIDE DEF a, o, r, start, s, q
<1>2. SameTree(b, c)
  BY DEF OnPath, SameTree, Fields
<1>3. SameTree(b, d)
  BY DEF OnPath, SameTree, Fields
<1>4. SameTree(b, e)
  BY DEF OnPath, SameTree, Fields
<1>5. SameTree(b, f)
  BY <1>4 DEF SameTree, Fields
<1> QED
  BY <1>1, <1>2, <1>3, <1>5

\* A value as the name takes it.
Fits(name, value) ==
  IF name[1] = "class" THEN value \in Seq(Strings) ELSE name[1] # "std" => name[2] \in Strings

LEMMA AttributeOnPath ==
  ASSUME NEW b, OnPath(b), NEW name, NEW value, Fits(name, value)
  PROVE  OnPath(AddAttribute(b, name, value))
<1>1. CASE name[1] = "class"
  <2>1. value \in Seq(Strings)
    BY <1>1 DEF Fits
  <2>2. SameTree(b, AddClasses(b, value))
    BY <2>1, ClassesKeep
  <2>3. OnPath(AddClasses(b, value))
    BY <2>2, SameTreeOnPath
  <2> QED
    BY <1>1, <2>3 DEF AddAttribute
<1>2. CASE name[1] # "class"
  <2> DEFINE e == Entered(b, name, value)
             c == e.b
             d == ListAttribute(c, e.id)
  <2>1. SameTree(b, c)
    BY <1>2, EnteredKeeps DEF Fits
  <2> HIDE DEF e
  <2>2. OnPath(c)
    BY <2>1, SameTreeOnPath
  <2> HIDE DEF c
  <2>3. SameTree(c, d)
    BY <2>2, ListedKeeps
  <2>4. OnPath(d)
    BY <2>2, <2>3, SameTreeOnPath
  <2>5. AddAttribute(b, name, value) = d
    BY <1>2 DEF AddAttribute, c, e
  <2> QED
    BY <2>4, <2>5
<1> QED
  BY <1>1, <1>2


-----------------------------------------------------------------------------
(* The events                                                                *)
AttrNames == OtherNames \union {ClassName}

Event ==
  [kind : {"OpenStartTag", "EndTag"}, name : TagNames]
  \union [kind : {"AttributeName"}, name : AttrNames]
  \union [kind : {"AttributeValue"}, value : Strings \union Seq(Strings)]
  \union [kind : {"CloseStartTag"}, slash : BOOLEAN]
  \union [kind : {"String", "Comment"}, text : Seq(Nat)]
  \union [kind : {"Doctype"}]

LEMMA EventIs ==
  ASSUME NEW x \in Event
  PROVE  /\ x.kind \in {"OpenStartTag", "EndTag"} => x.name \in TagNames
         /\ x.kind = "AttributeName" => x.name \in AttrNames
         /\ x.kind \in {"String", "Comment"} => x.text \in Seq(Nat)
BY DEF Event

LEMMA AttrFits ==
  ASSUME NEW name \in AttrNames
  PROVE  /\ name[1] = "class" => Fits(name, <<>>)
         /\ name[1] # "class" => \A value : Fits(name, value)
<1>1. name[1] \notin {"class", "std"} => name[2] \in Strings
  <2>1. 0 \in Strings
    BY StoreAssumption DEF Strings
  <2> QED
    BY <2>1 DEF AttrNames, OtherNames, ClassName
<1>2. <<>> \in Seq(Strings)
  OBVIOUS
<1> QED
  BY <1>1, <1>2 DEF Fits

\* A value comes after its name.
Paired(attr, s) ==
  \A k \in 1..Len(s) :
     s[k].kind = "AttributeValue" =>
        IF k = 1 THEN attr = Nothing \/ Fits(attr, s[k].value)
        ELSE s[k - 1].kind = "AttributeName" /\ Fits(s[k - 1].name, s[k].value)

LEMMA PairedTail ==
  ASSUME NEW s \in Seq(Event), s # <<>>, NEW attr, Paired(attr, s), NEW next,
         Head(s).kind = "AttributeName" => next \in {Nothing, Head(s).name}
  PROVE  Tail(s) \in Seq(Event) /\ Paired(next, Tail(s))
<1>1. /\ Tail(s) \in Seq(Event) /\ Len(s) \in Nat /\ Len(Tail(s)) = Len(s) - 1 /\ Head(s) = s[1]
      /\ \A k \in 1..Len(Tail(s)) : Tail(s)[k] = s[k + 1]
  OBVIOUS
<1> DEFINE r == Tail(s)
<1>2. ASSUME NEW k \in 1..Len(r), r[k].kind = "AttributeValue"
      PROVE  IF k = 1 THEN next = Nothing \/ Fits(next, r[k].value)
             ELSE r[k - 1].kind = "AttributeName" /\ Fits(r[k - 1].name, r[k].value)
  <2>1. k \in Nat /\ k + 1 \in 1..Len(s) /\ k + 1 # 1 /\ (k + 1) - 1 = k
    BY <1>1
  <2>2. r[k] = s[k + 1]
    BY <1>1
  <2> HIDE DEF r
  <2>3. s[k].kind = "AttributeName" /\ Fits(s[k].name, r[k].value)
    BY <1>2, <2>1, <2>2 DEF Paired
  <2>4. CASE k = 1
    BY <1>1, <2>3, <2>4
  <2>5. CASE k # 1
    <3>1. k - 1 \in 1..Len(Tail(s)) /\ (k - 1) + 1 = k
      BY <1>1, <2>1, <2>5
    <3>2. r[k - 1] = s[k]
      BY <1>1, <3>1 DEF r
    <3> QED
      BY <2>3, <2>5, <3>2
  <2> QED
    BY <2>4, <2>5
<1> QED
  BY <1>1, <1>2 DEF Paired

\* Events that start with no value: they can follow any others.
Whole(s) ==
  /\ s \in Seq(Event)
  /\ \A k \in 1..Len(s) :
        s[k].kind = "AttributeValue" =>
           k # 1 /\ s[k - 1].kind = "AttributeName" /\ Fits(s[k - 1].name, s[k].value)

LEMMA WholePaired ==
  ASSUME NEW s, Whole(s), NEW attr
  PROVE  s \in Seq(Event) /\ Paired(attr, s)
BY DEF Whole, Paired

LEMMA WholeOne ==
  ASSUME NEW x \in Event, x.kind # "AttributeValue"
  PROVE  Whole(<<x>>)
<1>1. <<x>> \in Seq(Event) /\ Len(<<x>>) = 1 /\ <<x>>[1] = x
  OBVIOUS
<1> QED
  BY <1>1 DEF Whole

LEMMA WholeNone == Whole(<<>>)
<1>1. <<>> \in Seq(Event) /\ Len(<<>>) = 0 /\ 1..0 = {}
  OBVIOUS
<1> QED
  BY <1>1 DEF Whole

LEMMA WholeBoth ==
  ASSUME NEW a, Whole(a), NEW b, Whole(b)
  PROVE  Whole(a \o b)
<1> DEFINE c == a \o b
           n == Len(a)
           m == Len(b)
<1>1. a \in Seq(Event) /\ b \in Seq(Event)
  BY DEF Whole
<1>2. c \in Seq(Event) /\ Len(c) = n + m /\ n \in Nat /\ m \in Nat
      /\ (\A k \in 1..n : c[k] = a[k]) /\ \A k \in 1..m : c[n + k] = b[k]
  <2> DEFINE E == Event
  <2> HIDE DEF E
  <2>1. a \in Seq(E) /\ b \in Seq(E)
    BY <1>1 DEF E
  <2>2. c \in Seq(E) /\ Len(c) = n + m /\ n \in Nat /\ m \in Nat
    BY <2>1
  <2>3. \A k \in 1..n : c[k] = a[k]
    BY <2>1
  <2>4. \A k \in 1..m : c[n + k] = b[k]
    <3>1. ASSUME NEW k \in 1..m
          PROVE  c[n + k] = b[k]
      <4>1. n + k \in 1..(n + m) /\ ~(n + k <= n) /\ (n + k) - n = k
        BY <2>2
      <4> QED
        BY <2>1, <4>1
    <3> QED
      BY <3>1
  <2> QED
    BY <2>2, <2>3, <2>4 DEF E
<1> HIDE DEF c
<1>3. ASSUME NEW k \in 1..Len(c), c[k].kind = "AttributeValue"
      PROVE  k # 1 /\ c[k - 1].kind = "AttributeName" /\ Fits(c[k - 1].name, c[k].value)
  <2>1. CASE k \in 1..n
    <3>1. c[k] = a[k]
      BY <1>2, <2>1
    <3>2. k # 1 /\ a[k - 1].kind = "AttributeName" /\ Fits(a[k - 1].name, a[k].value)
      BY <1>3, <2>1, <3>1 DEF Whole
    <3>3. k - 1 \in 1..n
      BY <1>2, <2>1, <3>2
    <3> QED
      BY <1>2, <3>1, <3>2, <3>3
  <2>2. CASE k \notin 1..n
    <3> DEFINE j == k - n
    <3>1. j \in 1..m /\ k = n + j /\ j \in Nat
      BY <1>2, <2>2
    <3> HIDE DEF j
    <3>2. c[k] = b[j]
      BY <1>2, <3>1
    <3>3. j # 1 /\ b[j - 1].kind = "AttributeName" /\ Fits(b[j - 1].name, b[j].value)
      BY <1>3, <3>1, <3>2 DEF Whole
    <3>4. j - 1 \in 1..m /\ k - 1 = n + (j - 1) /\ k # 1
      BY <1>2, <3>1, <3>3
    <3>5. c[n + (j - 1)] = b[j - 1]
      BY <1>2, <3>4
    <3> QED
      BY <3>2, <3>3, <3>4, <3>5
  <2> QED
    BY <2>1, <2>2
<1> QED
  BY <1>2, <1>3 DEF Whole, c

LEMMA WholeJoined ==
  ASSUME NEW lists \in Seq(Seq(Event)), \A k \in 1..Len(lists) : Whole(lists[k])
  PROVE  Whole(Joined(lists))
<1> DEFINE n == Len(lists)
<1>1. PICK f : Joins(f, lists, n, Event) /\ Joined(lists) = f[n]
  BY JoinedIs
<1>2. n \in Nat /\ f[0] = <<>> /\ \A k \in 1..n : f[k] = f[k - 1] \o lists[k]
  BY <1>1 DEF Joins, Grows
<1> DEFINE T == {k \in Nat : Whole(f[k])}
<1>3. 0 \in T
  BY <1>2, WholeNone
<1>4. ASSUME NEW k \in 0..n, k \in T, k < n
      PROVE  k + 1 \in T
  <2>1. k + 1 \in 1..n /\ (k + 1) - 1 = k /\ k + 1 \in Nat
    BY <1>2, <1>4
  <2>2. f[k + 1] = f[k] \o lists[k + 1]
    BY <1>2, <2>1
  <2>3. Whole(f[k]) /\ Whole(lists[k + 1])
    BY <1>4, <2>1
  <2>4. Whole(f[k] \o lists[k + 1])
    BY <2>3, WholeBoth
  <2> QED
    BY <2>1, <2>2, <2>4
<1>5. n \in 0..n
  BY <1>2
<1> HIDE DEF T
<1>6. \A k \in 0..n : k \in T /\ k < n => (k + 1) \in T
  BY <1>4
<1>7. \A k \in 0..n : k \in T
  <2> HIDE DEF n
  <2> QED
    BY <1>2, <1>3, <1>6, Upward
<1> QED
  BY <1>1, <1>5, <1>7 DEF T


LEMMA AttributeWhole ==
  ASSUME NEW a \in Attributes
  PROVE  Whole(AttributeEvents(a)) /\ AttributeEvents(a) \in Seq(Event)
<1> DEFINE x == [kind |-> "AttributeName", name |-> a[1]]
           y == [kind |-> "AttributeValue", value |-> a[2]]
           s == <<x>> \o (IF Len(a) = 1 THEN <<>> ELSE <<y>>)
<1>1. AttributeEvents(a) = s
  BY DEF AttributeEvents
<1>2. /\ a[1] \in AttrNames
      /\ Len(a) = 1 \/ (a[2] \in Strings \union Seq(Strings) /\ Fits(a[1], a[2]))
  <2>1. CASE a \in {<<name>> : name \in OtherNames \union {ClassName}}
    BY <2>1 DEF AttrNames
  <2>2. CASE a \in OtherNames \X Strings
    <3>1. a[1] \in AttrNames /\ a[2] \in Strings /\ a[1] \in OtherNames
      BY <2>2 DEF AttrNames
    <3>2. a[1][1] # "class"
      BY <3>1 DEF OtherNames
    <3> QED
      BY <3>1, <3>2, AttrFits
  <2>3. CASE a \in {ClassName} \X Seq(Strings)
    BY <2>3 DEF AttrNames, ClassName, Fits
  <2> QED
    BY <2>1, <2>2, <2>3 DEF Attributes
<1>3. x \in Event
  BY <1>2 DEF Event
<1>4. CASE Len(a) = 1
  <2>1. s = <<x>>
    BY <1>4
  <2>2. x.kind # "AttributeValue"
    OBVIOUS
  <2> HIDE DEF x
  <2> QED
    BY <1>1, <1>3, <2>1, <2>2, WholeOne DEF Whole
<1>5. CASE Len(a) # 1
  <2>1. s = <<x>> \o <<y>>
    BY <1>5
  <2>2. y \in Event
    BY <1>2, <1>5 DEF Event
  <2>3. x.kind = "AttributeName" /\ x.name = a[1] /\ y.value = a[2] /\ Fits(a[1], a[2])
    BY <1>2, <1>5
  <2> DEFINE r == <<x>> \o <<y>>
  <2> HIDE DEF x, y
  <2>4. r \in Seq(Event) /\ Len(r) = 2 /\ r[1] = x /\ r[2] = y
    BY <1>3, <2>2
  <2> HIDE DEF r, s
  <2>5. \A k \in 1..2 : k = 1 \/ (k = 2 /\ k - 1 = 1)
    OBVIOUS
  <2>6. Whole(r)
    BY <2>3, <2>4, <2>5 DEF Whole
  <2> QED
    BY <1>1, <2>1, <2>4, <2>6 DEF r
<1> QED
  BY <1>4, <1>5

LEMMA FlushedWhole ==
  ASSUME held \in Seq(Nat)
  PROVE  Whole(Flushed)
<1> DEFINE x == [kind |-> "String", text |-> held]
<1>1. x \in Event /\ x.kind # "AttributeValue"
  BY DEF Event
<1>2. Flushed = IF held = <<>> THEN <<>> ELSE <<x>>
  BY DEF Flushed
<1> HIDE DEF x
<1> QED
  BY <1>1, <1>2, WholeOne, WholeNone

LEMMA EmittedWhole ==
  ASSUME held \in Seq(Nat), src \in Seq(Tokens), NEW tok, IsToken(tok)
  PROVE  Whole(Emitted(tok))
<1>1. Whole(Flushed)
  BY FlushedWhole
<1>2. CASE tok.kind = "start"
  <2> DEFINE x == [kind |-> "OpenStartTag", name |-> tok.name]
             y == [kind |-> "CloseStartTag", slash |-> tok.slash]
             lists == [k \in 1..Len(tok.attrs) |-> AttributeEvents(tok.attrs[k])]
  <2>1. x \in Event /\ x.kind # "AttributeValue" /\ y \in Event /\ y.kind # "AttributeValue"
    BY <1>2 DEF IsToken, Event
  <2>2. tok.attrs \in Seq(Attributes)
    BY <1>2 DEF IsToken
  <2>3. \A k \in 1..Len(tok.attrs) : Whole(AttributeEvents(tok.attrs[k]))
                                     /\ AttributeEvents(tok.attrs[k]) \in Seq(Event)
    <3>1. ASSUME NEW k \in 1..Len(tok.attrs)
          PROVE  tok.attrs[k] \in Attributes
      BY <2>2
    <3> QED
      BY <3>1, AttributeWhole
  <2> DEFINE Q == Seq(Event)
  <2> HIDE DEF Q
  <2>4. lists \in Seq(Q) /\ \A k \in 1..Len(lists) : Whole(lists[k])
    <3> DEFINE n == Len(tok.attrs)
    <3>1. n \in Nat
      BY <2>2
    <3>2. \A k \in 1..n : lists[k] = AttributeEvents(tok.attrs[k])
      OBVIOUS
    <3>3. \A k \in 1..n : lists[k] \in Q /\ Whole(lists[k])
      BY <2>3, <3>2 DEF Q
    <3>4. lists \in [1..n -> Q]
      <4>1. \A k \in 1..n : AttributeEvents(tok.attrs[k]) \in Q
        BY <2>3 DEF Q
      <4> QED
        BY <4>1
    <3> HIDE DEF lists, n
    <3>5. lists \in Seq(Q) /\ Len(lists) = n
      BY <3>1, <3>4
    <3> QED
      BY <3>3, <3>5
  <2>5. Emitted(tok) = ((<<x>> \o Flushed) \o Joined(lists)) \o <<y>>
    BY <1>2 DEF Emitted
  <2> HIDE DEF x, y, lists
  <2>6. Whole(Joined(lists))
    BY <2>4, WholeJoined DEF Q
  <2>7. Whole(<<x>>) /\ Whole(<<y>>)
    BY <2>1, WholeOne
  <2>8. Whole(<<x>> \o Flushed)
    BY <1>1, <2>7, WholeBoth
  <2>9. Whole((<<x>> \o Flushed) \o Joined(lists))
    BY <2>6, <2>8, WholeBoth
  <2> QED
    BY <2>5, <2>7, <2>9, WholeBoth
<1>3. CASE tok.kind # "start"
  <2> DEFINE x == IF tok.kind = "end" THEN [kind |-> "EndTag", name |-> tok.name]
                  ELSE IF tok.kind = "doctype" THEN [kind |-> "Doctype"]
                  ELSE [kind |-> "Comment", text |-> <<Len(src) + 1>>]
  <2>1. x \in Event /\ x.kind # "AttributeValue"
    <3>1. CASE tok.kind = "end"
      BY <3>1 DEF IsToken, Event
    <3>2. CASE tok.kind = "doctype"
      BY <3>2 DEF Event
    <3>3. CASE tok.kind \notin {"end", "doctype"}
      <4>1. Len(src) + 1 \in Nat
        OBVIOUS
      <4>2. <<Len(src) + 1>> \in Seq(Nat)
        BY <4>1
      <4> QED
        BY <3>3, <4>2 DEF Event
    <3> QED
      BY <3>1, <3>2, <3>3
  <2>2. Emitted(tok) = Flushed \o <<x>>
    BY <1>3 DEF Emitted
  <2> HIDE DEF x
  <2>3. Whole(<<x>>)
    BY <2>1, WholeOne
  <2> QED
    BY <1>1, <2>2, <2>3, WholeBoth
<1> QED
  BY <1>2, <1>3

-----------------------------------------------------------------------------
(* The parser                                                                *)
ReadInv == src \in Seq(Tokens) /\ held \in Seq(Nat)

DriverInv ==
  /\ DOMAIN driver = {"start", "attr", "current", "depth"}
  /\ driver.start \in TagNames \union {Nothing}
  /\ driver.attr \in AttrNames \union {Nothing}
  /\ events \in Seq(Event) /\ Paired(driver.attr, events)

ParseInv == ReadInv /\ DriverInv /\ OnPath(builder)

LEMMA HandleIs ==
  ASSUME DriverInv, NEW kind, Handle(kind), NEW next,
         kind = "AttributeName" => next \in {Nothing, Head(events).name}
  PROVE  /\ events' \in Seq(Event) /\ Paired(next, events')
         /\ Head(events) \in Event /\ Head(events).kind = kind
         /\ UNCHANGED <<tokenizer, result>>
         /\ kind = "AttributeValue" => driver.attr = Nothing \/ Fits(driver.attr, Head(events).value)
<1>1. events # <<>> /\ Head(events).kind = kind /\ events' = Tail(events)
      /\ UNCHANGED <<tokenizer, result>>
  BY DEF Handle
<1>2. events \in Seq(Event) /\ Paired(driver.attr, events)
  BY DEF DriverInv
<1>3. Tail(events) \in Seq(Event) /\ Paired(next, Tail(events))
  BY <1>1, <1>2, PairedTail
<1>4. Head(events) = events[1] /\ 1 \in 1..Len(events) /\ events[1] \in Event
  BY <1>1, <1>2
<1>5. kind = "AttributeValue" => driver.attr = Nothing \/ Fits(driver.attr, Head(events).value)
  BY <1>1, <1>2, <1>4 DEF Paired
<1> QED
  BY <1>1, <1>3, <1>4, <1>5

LEMMA CommittedOnPath ==
  ASSUME DriverInv, OnPath(builder)
  PROVE  OnPath(Committed(driver, builder))
BY PushedOnPath DEF DriverInv, Committed

LEMMA FlushedOnPath ==
  ASSUME DriverInv, NEW b, OnPath(b), NEW value, driver.attr = Nothing \/ Fits(driver.attr, value)
  PROVE  OnPath(FlushAttr(driver, b, value))
BY AttributeOnPath DEF FlushAttr

LEMMA BareFits ==
  ASSUME DriverInv
  PROVE  driver.attr = Nothing \/ Fits(driver.attr, BareValue(driver))
BY AttrFits DEF DriverInv, BareValue

LEMMA InitParse == Init => ParseInv
<1> SUFFICES ASSUME Init PROVE ParseInv
  OBVIOUS
<1>1. OnPath(builder)
  BY NewOnPath DEF Init
<1>2. src \in Seq(Tokens) /\ held \in Seq(Nat)
  BY DEF Init
<1>3. events \in Seq(Event) /\ Paired(driver.attr, events)
  BY WholeNone, WholePaired DEF Init
<1> QED
  BY <1>1, <1>2, <1>3 DEF Init, ParseInv, ReadInv, DriverInv

LEMMA NextParse == ParseInv /\ [Next]_vars => ParseInv'
<1> SUFFICES ASSUME ParseInv, [Next]_vars PROVE ParseInv'
  OBVIOUS
<1>0. ReadInv /\ DriverInv /\ OnPath(builder)
  BY DEF ParseInv
<1>1. ASSUME NEW tok \in Tokens, Read(tok)
      PROVE  ParseInv'
  <2>1. src \in Seq(Tokens) /\ held \in Seq(Nat) /\ Len(src) + 1 \in Nat
    BY <1>0 DEF ReadInv
  <2>2. src' = Append(src, tok) /\ driver' = driver /\ builder' = builder
    BY <1>1 DEF Read
  <2>3. src' \in Seq(Tokens)
    BY <2>1, <2>2
  <2>4. CASE Text(tok)
    <3>1. held' = Append(held, Len(src) + 1) /\ events' = events
      BY <1>1, <2>4 DEF Read
    <3>2. held' \in Seq(Nat)
      BY <2>1, <3>1
    <3> QED
      BY <1>0, <2>2, <2>3, <3>1, <3>2 DEF ParseInv, ReadInv, DriverInv
  <2>5. CASE ~Text(tok)
    <3>1. held' = <<>> /\ events' = Emitted(tok)
      BY <1>1, <2>5 DEF Read
    <3>2. Whole(Emitted(tok))
      BY <2>1, EmittedWhole, TokensAssumption
    <3>3. events' \in Seq(Event) /\ Paired(driver.attr, events')
      BY <3>1, <3>2, WholePaired
    <3>4. held' \in Seq(Nat)
      BY <3>1
    <3> QED
      BY <1>0, <2>2, <2>3, <3>3, <3>4 DEF ParseInv, ReadInv, DriverInv
  <2> QED
    BY <2>4, <2>5
\* An event: what is left of the queue fits the driver as it goes on.
<1>2. ASSUME NEW kind, Handle(kind), NEW d, driver' = d,
             DOMAIN d = {"start", "attr", "current", "depth"},
             d.start \in TagNames \union {Nothing}, d.attr \in AttrNames \union {Nothing},
             kind = "AttributeName" => d.attr \in {Nothing, Head(events).name},
             OnPath(builder')
      PROVE  ParseInv'
  <2>1. events' \in Seq(Event) /\ Paired(d.attr, events') /\ UNCHANGED <<tokenizer, result>>
    BY <1>0, <1>2, HandleIs
  <2> QED
    BY <1>0, <1>2, <2>1 DEF ParseInv, ReadInv, DriverInv, tokenizer
<1>3. /\ DOMAIN driver = {"start", "attr", "current", "depth"}
      /\ driver.start \in TagNames \union {Nothing} /\ driver.attr \in AttrNames \union {Nothing}
  BY <1>0 DEF DriverInv
<1>4. ASSUME NEW kind, Handle(kind)
      PROVE  Head(events) \in Event /\ Head(events).kind = kind
  <2>1. Nothing \in {Nothing, Head(events).name}
    OBVIOUS
  <2> QED
    BY <1>0, <1>4, <2>1, HandleIs
<1>5. CASE OpenStartTag
  <2> DEFINE x == Head(events).name
             d == [driver EXCEPT !.start = x]
  <2>1. Handle("OpenStartTag") /\ driver' = d /\ builder' = builder
    BY <1>5 DEF OpenStartTag
  <2>2. x \in TagNames
    BY <1>4, <2>1, EventIs
  <2> HIDE DEF x
  <2>3. DOMAIN d = {"start", "attr", "current", "depth"} /\ d.start = x /\ d.attr = driver.attr
    BY <1>3
  <2> HIDE DEF d
  <2> QED
    BY <1>0, <1>2, <1>3, <2>1, <2>2, <2>3
<1>6. CASE AttributeName
  <2> DEFINE x == IF Head(events).name[1] = "junk" THEN Nothing ELSE Head(events).name
             y == CurrentAfter(driver)
             d == [driver EXCEPT !.start = Nothing, !.current = y, !.attr = x]
             c == Committed(driver, builder)
             v == BareValue(driver)
  <2>1. Handle("AttributeName") /\ driver' = d /\ builder' = FlushAttr(driver, c, v)
    BY <1>6 DEF AttributeName
  <2>2. Head(events).name \in AttrNames
    BY <1>4, <2>1, EventIs
  <2>3. x \in AttrNames \union {Nothing} /\ x \in {Nothing, Head(events).name}
    BY <2>2
  <2> HIDE DEF x, y
  <2>4. DOMAIN d = {"start", "attr", "current", "depth"} /\ d.start = Nothing /\ d.attr = x
    BY <1>3
  <2> HIDE DEF d, c, v
  <2>5. OnPath(c)
    BY <1>0, CommittedOnPath DEF c
  <2>6. driver.attr = Nothing \/ Fits(driver.attr, v)
    BY <1>0, BareFits DEF v
  <2>7. OnPath(builder')
    BY <1>0, <2>1, <2>5, <2>6, FlushedOnPath
  <2> QED
    BY <1>2, <2>1, <2>3, <2>4, <2>7
<1>7. CASE AttributeValue
  <2> DEFINE d == [driver EXCEPT !.attr = Nothing]
             v == Head(events).value
  <2>1. Handle("AttributeValue") /\ driver' = d /\ builder' = FlushAttr(driver, builder, v)
    BY <1>7 DEF AttributeValue
  <2>2. driver.attr = Nothing \/ Fits(driver.attr, v)
    <3>1. Nothing \in {Nothing, Head(events).name}
      OBVIOUS
    <3> QED
      BY <1>0, <2>1, <3>1, HandleIs
  <2> HIDE DEF v
  <2>3. DOMAIN d = {"start", "attr", "current", "depth"} /\ d.start = driver.start /\ d.attr = Nothing
    BY <1>3
  <2> HIDE DEF d
  <2>4. OnPath(builder')
    BY <1>0, <2>1, <2>2, FlushedOnPath
  <2> QED
    BY <1>2, <1>3, <2>1, <2>3, <2>4
<1>8. CASE CloseStartTag
  <2> DEFINE tag == CurrentAfter(driver)[2]
             slash == Head(events).slash
             childless == tag \in Void \/ (slash /\ (tag \in Foreign \/ driver.depth > 0))
             c == Committed(driver, builder)
             v == BareValue(driver)
             b == FlushAttr(driver, c, v)
             z == IF ~childless /\ tag \in Foreign THEN driver.depth + 1 ELSE driver.depth
             d == [driver EXCEPT !.start = Nothing, !.attr = Nothing, !.current = Nothing, !.depth = z]
  <2>1. Handle("CloseStartTag") /\ driver' = d /\ builder' = IF childless THEN PopTag(b) ELSE b
    BY <1>8, <1>3 DEF CloseStartTag
  <2> HIDE DEF z, childless
  <2>2. DOMAIN d = {"start", "attr", "current", "depth"} /\ d.start = Nothing /\ d.attr = Nothing
    BY <1>3
  <2> HIDE DEF d, c, v
  <2>3. OnPath(c)
    BY <1>0, CommittedOnPath DEF c
  <2>4. driver.attr = Nothing \/ Fits(driver.attr, v)
    BY <1>0, BareFits DEF v
  <2>5. OnPath(b)
    BY <1>0, <2>3, <2>4, FlushedOnPath
  <2> HIDE DEF b
  <2>6. OnPath(builder')
    BY <2>1, <2>5, PopOnPath
  <2> QED
    BY <1>2, <2>1, <2>2, <2>6
<1>9. CASE EndTag
  <2> DEFINE x == Head(events).name
             left == Kind(x) \in Foreign /\ driver.depth > 0
             z == IF left THEN driver.depth - 1 ELSE driver.depth
             d == [driver EXCEPT !.depth = z]
  <2>1. Handle("EndTag") /\ driver' = d /\ builder' = PopNamed(builder, x)
    BY <1>3, <1>9 DEF EndTag
  <2>2. x \in TagNames
    BY <1>4, <2>1, EventIs
  <2> HIDE DEF z, left, x
  <2>3. DOMAIN d = {"start", "attr", "current", "depth"} /\ d.start = driver.start /\ d.attr = driver.attr
    BY <1>3
  <2> HIDE DEF d
  <2>4. OnPath(builder')
    BY <1>0, <2>1, <2>2, EndedOnPath
  <2> QED
    BY <1>2, <1>3, <2>1, <2>3, <2>4
<1>10. CASE String
  <2> DEFINE x == Head(events).text
  <2>1. Handle("String") /\ driver' = driver /\ builder' = AddText(builder, "text", x)
    BY <1>10 DEF String
  <2>2. x \in Seq(Nat)
    BY <1>4, <2>1, EventIs
  <2>3. OnPath(builder')
    BY <1>0, <2>1, <2>2, TextOnPath DEF OwnNames
  <2> QED
    BY <1>2, <1>3, <2>1, <2>3
<1>11. CASE Comment
  <2> DEFINE x == Head(events).text
  <2>1. Handle("Comment") /\ driver' = driver /\ builder' = AddText(builder, "comment", x)
    BY <1>11 DEF Comment
  <2>2. x \in Seq(Nat)
    BY <1>4, <2>1, EventIs
  <2>3. OnPath(builder')
    BY <1>0, <2>1, <2>2, TextOnPath DEF OwnNames
  <2> QED
    BY <1>2, <1>3, <2>1, <2>3
<1>12. CASE Doctype
  <2> DEFINE c == PushTag(builder, Std("doctype"))
             b == AddAttribute(c, <<"std", 0>>, 0)
  <2>1. Handle("Doctype") /\ driver' = driver /\ builder' = PopTag(b)
    BY <1>12 DEF Doctype
  <2>2. Std("doctype") \in TagNames \union StdTags
    BY DEF Std, StdTags, OwnNames
  <2>3. OnPath(c)
    BY <1>0, <2>2, PushedOnPath
  <2> HIDE DEF c
  <2>4. Fits(<<"std", 0>>, 0)
    BY DEF Fits
  <2>5. OnPath(b)
    BY <2>3, <2>4, AttributeOnPath
  <2> HIDE DEF b
  <2>6. OnPath(builder')
    BY <2>1, <2>5, PopOnPath
  <2> QED
    BY <1>2, <1>3, <2>1, <2>6
<1>13. CASE EndOfSource
  <2>1. events' = Flushed /\ held' = <<>> /\ src' = src /\ driver' = driver /\ builder' = builder
    BY <1>13 DEF EndOfSource
  <2>2. Whole(Flushed)
    BY <1>0, FlushedWhole DEF ReadInv
  <2>3. events' \in Seq(Event) /\ Paired(driver.attr, events')
    BY <2>1, <2>2, WholePaired
  <2>4. held' \in Seq(Nat)
    BY <2>1
  <2> QED
    BY <1>0, <2>1, <2>3, <2>4 DEF ParseInv, ReadInv, DriverInv
<1>14. CASE Finish \/ UNCHANGED vars
  <2>1. UNCHANGED <<src, held, events, driver, builder>>
    BY <1>14 DEF Finish, vars, tokenizer
  <2> QED
    BY <1>0, <2>1 DEF ParseInv, ReadInv, DriverInv
<1> QED
  BY <1>1, <1>5, <1>6, <1>7, <1>8, <1>9, <1>10, <1>11, <1>12, <1>13, <1>14 DEF Next

\* Whatever the source and the capacities: the two stacks are one path of the
\* tree from the root down its last children, with the names its elements
\* have, and the arena is in document order.
THEOREM ParsedInOrder == Spec => []OpenPath
<1>1. ParseInv => OpenPath
  <2> SUFFICES ASSUME ParseInv PROVE OpenPath
    OBVIOUS
  <2> DEFINE t == builder.nodes
             s == builder.indexes
             tags == builder.tags
  <2>1. PICK e : Preorder(t, e) /\ Path(t, e, s)
    BY DEF ParseInv, OnPath, InTree
  <2>2. s \in Seq(Nat) /\ Len(tags) = Len(s)
        /\ \A j \in 1..Len(s) : Spelt(builder.ext, s[j], t[s[j]].tag, tags[j])
    BY DEF ParseInv, OnPath, Stacked
  <2>3. ASSUME NEW j \in 1..Len(s)
        PROVE  LET i == s[j]
                   tag == tags[j]
               IN /\ t[i].parent = (IF j = 1 THEN Root ELSE s[j - 1])
                  /\ t[t[i].parent].last = i
                  /\ NodeName(builder, i) = (IF tag[1] = "std" THEN tag
                                             ELSE SymbolName(builder, tag[2]))
    <3> DEFINE i == s[j]
               tag == tags[j]
               byte == t[i].tag
    <3>1. i \in 2..Len(t) /\ t[i].next = 0 /\ t[i].parent = (IF j = 1 THEN 1 ELSE s[j - 1])
      BY <2>1 DEF Path
    <3>2. t[t[i].parent].last = i
      BY <2>1, <3>1 DEF Preorder, Lasts
    <3>3. Spelt(builder.ext, i, byte, tag)
      BY <2>2
    <3>4. NodeName(builder, i) = IF IsExt(byte) THEN SymbolName(builder, TagSym(builder.ext, i, byte)) ELSE byte
      BY DEF NodeName
    <3>5. i \in Nat
      BY <2>2
    <3> HIDE DEF i, tag, byte
    <3>6. CASE tag[1] = "std"
      <4>1. byte = tag /\ ~IsExt(byte)
        BY <3>3, <3>6 DEF Spelt, IsExt
      <4> QED
        BY <3>1, <3>2, <3>4, <3>6, <4>1 DEF Root, i, tag
    <3>7. CASE tag[1] # "std"
      <4>1. Names(builder.ext, Len(t))
        BY DEF ParseInv, OnPath
      <4>2. IsExt(byte) /\ TagSym(builder.ext, i, byte) = tag[2]
        BY <3>3, <3>5, <3>7, <4>1, SpeltIs
      <4> QED
        BY <3>1, <3>2, <3>4, <3>7, <4>2 DEF Root, i, tag
    <3> QED
      BY <3>6, <3>7
  <2>4. ASSUME NEW i \in 1..Len(t)
        PROVE  Descendants(t, i) = [k \in 1..(SubtreeEnd(t, i) - i - 1) |-> i + k]
    <3>1. SubtreeEnd(t, i) = e[i]
      BY <2>1, SubtreeEndIs
    <3>2. Between(Descendants(t, i), i, e[i])
      BY <2>1, DescendantsAre
    <3> QED
      BY <3>1, <3>2 DEF Between
  <2> QED
    BY <2>2, <2>3, <2>4 DEF OpenPath
<1> QED
  BY <1>1, InitParse, NextParse, PTL DEF Spec
=============================================================================
