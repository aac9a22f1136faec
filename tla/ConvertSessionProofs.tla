------------------------ MODULE ConvertSessionProofs ------------------------
(***************************************************************************)
(* Proofs about ConvertSession, for any input, any number of runs and any  *)
(* length of the warm-up.                                                  *)
(***************************************************************************)
EXTENDS ConvertSession, ListsProofs

-----------------------------------------------------------------------------
(* Sequences of values of no known set.                                    *)

LEMMA SequenceFacts ==
  ASSUME NEW s, IsSequence(s)
  PROVE  /\ Len(s) \in Nat /\ DOMAIN s = 1..Len(s)
         /\ s = [i \in 1..Len(s) |-> s[i]]
  BY LenProperties DEF IsSequence

LEMMA Appended ==
  ASSUME NEW s, IsSequence(s), NEW e
  PROVE  /\ IsSequence(Append(s, e)) /\ Len(Append(s, e)) = Len(s) + 1
         /\ \A i \in 1..Len(s) : Append(s, e)[i] = s[i]
         /\ Append(s, e)[Len(s) + 1] = e
<1> DEFINE S == ToSet(s) \union {e}
           t == Append(s, e)
<1>1. s \in Seq(S) /\ e \in S
  <2>1. s \in Seq(ToSet(s)) /\ ToSet(s) \subseteq S
    BY DEF IsSequence
  <2> HIDE DEF S
  <2>2. s \in Seq(S)
    BY <2>1, SeqMonotonic
  <2> QED
    BY <2>2 DEF S
<1>2. /\ t \in Seq(S) /\ Len(t) = Len(s) + 1 /\ t[Len(s) + 1] = e
      /\ \A i \in 1..Len(s) : t[i] = s[i]
  <2> HIDE DEF S
  <2> QED
    BY <1>1, AppendProperties
<1>3. t \in Seq(ToSet(t))
  <2>1. Len(t) \in Nat /\ t = [i \in 1..Len(t) |-> t[i]] /\ DOMAIN t = 1..Len(t)
    <3> HIDE DEF S, t
    <3> QED
      BY <1>2, LenProperties
  <2>2. \A i \in 1..Len(t) : t[i] \in ToSet(t)
    BY <2>1 DEF ToSet
  <2> HIDE DEF S, t
  <2> QED
    BY <2>1, <2>2, IsASeq
<1> QED
  BY <1>2, <1>3 DEF IsSequence

LEMMA Rest ==
  ASSUME NEW s, IsSequence(s), s # <<>>
  PROVE  /\ Len(s) \in Nat \ {0} /\ Head(s) = s[1]
         /\ IsSequence(Tail(s)) /\ Len(Tail(s)) = Len(s) - 1
         /\ \A i \in 1..(Len(s) - 1) : Tail(s)[i] = s[i + 1]
<1>1. s \in Seq(ToSet(s))
  BY DEF IsSequence
<1> DEFINE t == Tail(s)
           S == ToSet(s)
<1>2. /\ t \in Seq(S) /\ Len(t) = Len(s) - 1
      /\ \A i \in 1..Len(t) : t[i] = s[i + 1]
  <2>1. \A Q : s \in Seq(Q) =>
          /\ Tail(s) \in Seq(Q) /\ Len(Tail(s)) = Len(s) - 1
          /\ \A i \in 1..Len(Tail(s)) : Tail(s)[i] = s[i + 1]
    BY HeadTailProperties
  <2> QED
    BY <1>1, <2>1
<1>3. Len(s) \in Nat \ {0} /\ Head(s) = s[1]
  <2> HIDE DEF S
  <2> QED
    BY <1>1, EmptySeq, LenProperties
<1>4. t \in Seq(ToSet(t))
  <2> HIDE DEF S, t
  <2>1. Len(t) \in Nat /\ t = [i \in 1..Len(t) |-> t[i]] /\ DOMAIN t = 1..Len(t)
    BY <1>2, LenProperties
  <2>2. \A i \in 1..Len(t) : t[i] \in ToSet(t)
    BY <2>1 DEF ToSet
  <2> QED
    BY <2>1, <2>2, IsASeq
<1> QED
  BY <1>2, <1>3, <1>4 DEF IsSequence

LEMMA AppendedSlices ==
  ASSUME NEW s, IsSequence(s), NEW e, NEW m \in 1..(Len(s) + 1)
  PROVE  /\ SubSeq(Append(s, e), m, Len(s) + 1) = Append(SubSeq(s, m, Len(s)), e)
         /\ \A n \in 0..Len(s) : SubSeq(Append(s, e), m, n) = SubSeq(s, m, n)
  OBVIOUS

-----------------------------------------------------------------------------
(* What the sink keeps of a run: the documents that are ok, in their order.*)

(* f goes through the first m documents as Kept does.                      *)
KeepsTo(f, run, m) ==
  f = [n \in 0..m |->
         IF n = 0 THEN <<>>
         ELSE IF run[n].ok THEN Append(f[n - 1], run[n]) ELSE f[n - 1]]

LEMMA KeepsSteps ==
  ASSUME NEW run, NEW m \in Nat, NEW f, KeepsTo(f, run, m)
  PROVE  /\ f[0] = <<>>
         /\ \A n \in 1..m : f[n] = IF run[n].ok THEN Append(f[n - 1], run[n]) ELSE f[n - 1]
<1> DEFINE step(n) == IF n = 0 THEN <<>>
                      ELSE IF run[n].ok THEN Append(f[n - 1], run[n]) ELSE f[n - 1]
           g == [n \in 0..m |-> step(n)]
<1>1. f = g
  BY DEF KeepsTo
<1>2. \A n \in 0..m : g[n] = step(n)
  <2> HIDE DEF step
  <2> QED
    OBVIOUS
<1> HIDE DEF g
<1>3. \A n \in 0..m : f[n] = step(n)
  BY <1>1, <1>2
<1> QED
  BY <1>3

LEMMA KeepsExists ==
  ASSUME NEW run, NEW len \in Nat
  PROVE  \E f : KeepsTo(f, run, len)
<1> DEFINE T == {m \in Nat : ~\E f : KeepsTo(f, run, m)}
<1>1. SUFFICES T = {}
  OBVIOUS
<1>2. SUFFICES ASSUME T # {} PROVE FALSE
  OBVIOUS
<1>3. PICK m \in T : \A n \in T : m <= n
  <2>1. T \in SUBSET Nat
    OBVIOUS
  <2> HIDE DEF T
  <2> QED
    BY <1>2, <2>1, Least
<1>4. m \in Nat /\ ~\E f : KeepsTo(f, run, m)
  OBVIOUS
<1>5. CASE m = 0
  <2>1. KeepsTo([n \in 0..0 |-> <<>>], run, 0)
    BY DEF KeepsTo
  <2> QED
    BY <1>4, <1>5, <2>1
<1>6. CASE m # 0
  <2>1. m - 1 \in Nat /\ ~(m <= m - 1)
    BY <1>4, <1>6
  <2>2. PICK f : KeepsTo(f, run, m - 1)
    BY <1>3, <2>1
  <2>3. /\ f[0] = <<>>
        /\ \A n \in 1..(m - 1) :
             f[n] = IF run[n].ok THEN Append(f[n - 1], run[n]) ELSE f[n - 1]
    BY <2>1, <2>2, KeepsSteps
  <2> DEFINE g == [n \in 0..m |->
                     IF n = m THEN IF run[m].ok THEN Append(f[m - 1], run[m]) ELSE f[m - 1]
                     ELSE f[n]]
             h == [n \in 0..m |->
                     IF n = 0 THEN <<>>
                     ELSE IF run[n].ok THEN Append(g[n - 1], run[n]) ELSE g[n - 1]]
  <2>4. ASSUME NEW n \in 0..m
        PROVE  g[n] = h[n]
    <3>1. CASE n = 0
      BY <1>4, <1>6, <2>3, <3>1
    <3>2. CASE n # 0
      <4>1. n - 1 \in 0..m /\ n - 1 # m /\ n \in 1..m
        BY <1>4, <3>2
      <4>2. g[n - 1] = f[n - 1]
        BY <4>1
      <4>3. h[n] = IF run[n].ok THEN Append(f[n - 1], run[n]) ELSE f[n - 1]
        BY <3>2, <4>2
      <4>4. CASE n = m
        BY <4>3, <4>4
      <4>5. CASE n # m
        <5>1. n \in 1..(m - 1) /\ g[n] = f[n]
          BY <1>4, <4>1, <4>5
        <5> QED
          BY <2>3, <4>3, <5>1
      <4> QED
        BY <4>4, <4>5
    <3> QED
      BY <3>1, <3>2
  <2>5. g = h
    BY <2>4
  <2>6. KeepsTo(g, run, m)
    <3> HIDE DEF g
    <3> QED
      BY <2>5 DEF KeepsTo
  <2> QED
    BY <1>4, <2>6
<1> QED
  BY <1>5, <1>6

LEMMA KeptByDocument ==
  ASSUME NEW run, IsSequence(run)
  PROVE  \E f : KeepsTo(f, run, Len(run)) /\ Kept(run) = f[Len(run)]
<1>1. Len(run) \in Nat
  BY SequenceFacts
<1>2. \E f : KeepsTo(f, run, Len(run))
  BY <1>1, KeepsExists
<1> DEFINE F == CHOOSE f : KeepsTo(f, run, Len(run))
<1>3. KeepsTo(F, run, Len(run))
  BY <1>2
<1>4. Kept(run) = F[Len(run)]
  BY DEF Kept, KeepsTo
<1> QED
  BY <1>3, <1>4

(* s is what is kept of the first n documents of run r.                    *)
Keeps(s, run, r, n) ==
  /\ IsSequence(s) /\ Len(s) <= n
  /\ \A j \in 1..Len(s) :
       Run(s[j]) = r /\ Place(s[j]) \in 1..n /\ s[j] = run[Place(s[j])] /\ s[j].ok
  /\ \A i, j \in 1..Len(s) : i < j => Place(s[i]) < Place(s[j])
  /\ \A i \in 1..n : run[i].ok => \E j \in 1..Len(s) : s[j] = run[i]

LEMMA KeepsNone ==
  ASSUME NEW run, NEW r
  PROVE  Keeps(<<>>, run, r, 0)
<1>1. IsSequence(<<>>)
  BY DEF IsSequence
<1> QED
  BY <1>1 DEF Keeps

LEMMA KeepsNext ==
  ASSUME NEW run, NEW r, NEW n \in Nat, NEW s, Keeps(s, run, r, n),
         run[n + 1].id = <<r, n + 1>>
  PROVE  Keeps(IF run[n + 1].ok THEN Append(s, run[n + 1]) ELSE s, run, r, n + 1)
<1> DEFINE d == run[n + 1]
           l == Len(s)
<1>1. IsSequence(s) /\ l \in Nat /\ l <= n
  BY SequenceFacts DEF Keeps
<1>2. Run(d) = r /\ Place(d) = n + 1
  BY DEF Run, Place
<1>3. \A j \in 1..l :
        Run(s[j]) = r /\ Place(s[j]) \in 1..n /\ s[j] = run[Place(s[j])] /\ s[j].ok
  BY DEF Keeps
<1>4. \A i, j \in 1..l : i < j => Place(s[i]) < Place(s[j])
  BY DEF Keeps
<1>5. \A i \in 1..n : run[i].ok => \E j \in 1..l : s[j] = run[i]
  BY DEF Keeps
<1>6. \A i \in 1..(n + 1) : i \in 1..n \/ i = n + 1
  OBVIOUS
<1>7. CASE ~d.ok
  <2>1. \A i \in 1..(n + 1) : run[i].ok => \E j \in 1..l : s[j] = run[i]
    BY <1>5, <1>6, <1>7
  <2>2. \A j \in 1..l :
          /\ Run(s[j]) = r /\ Place(s[j]) \in 1..(n + 1)
          /\ s[j] = run[Place(s[j])] /\ s[j].ok
    BY <1>3
  <2> QED
    BY <1>1, <1>4, <1>7, <2>1, <2>2 DEF Keeps
<1>8. CASE d.ok
  <2> DEFINE t == Append(s, d)
  <2>1. /\ IsSequence(t) /\ Len(t) = l + 1
        /\ \A i \in 1..l : t[i] = s[i]
        /\ t[l + 1] = d
    <3> HIDE DEF d
    <3> QED
      BY <1>1, Appended
  <2>2. \A j \in 1..(l + 1) : j \in 1..l \/ j = l + 1
    BY <1>1
  <2> HIDE DEF t, l
  <2>3. ASSUME NEW j \in 1..(l + 1)
        PROVE  /\ Run(t[j]) = r /\ Place(t[j]) \in 1..(n + 1)
               /\ t[j] = run[Place(t[j])] /\ t[j].ok
    <3>1. CASE j \in 1..l
      BY <1>3, <2>1, <3>1
    <3>2. CASE j = l + 1
      BY <1>2, <1>8, <2>1, <3>2
    <3> QED
      BY <2>2, <3>1, <3>2
  <2>4. ASSUME NEW i \in 1..(l + 1), NEW j \in 1..(l + 1), i < j
        PROVE  Place(t[i]) < Place(t[j])
    <3>1. i \in 1..l /\ t[i] = s[i] /\ Place(s[i]) \in 1..n
      BY <1>1, <1>3, <2>1, <2>4
    <3>2. CASE j \in 1..l
      BY <1>4, <2>1, <2>4, <3>1, <3>2
    <3>3. CASE j = l + 1
      BY <1>2, <2>1, <3>1, <3>3
    <3> QED
      BY <2>2, <3>2, <3>3
  <2>5. ASSUME NEW i \in 1..(n + 1), run[i].ok
        PROVE  \E j \in 1..(l + 1) : t[j] = run[i]
    <3>1. CASE i \in 1..n
      <4>1. PICK j \in 1..l : s[j] = run[i]
        BY <1>5, <2>5, <3>1
      <4>2. j \in 1..(l + 1) /\ t[j] = run[i]
        BY <1>1, <2>1, <4>1
      <4> QED
        BY <4>2
    <3>2. CASE i = n + 1
      <4>1. l + 1 \in 1..(l + 1) /\ t[l + 1] = run[i]
        BY <1>1, <2>1, <3>2
      <4> QED
        BY <4>1
    <3> QED
      BY <1>6, <3>1, <3>2
  <2>6. l + 1 <= n + 1
    BY <1>1
  <2>7. Keeps(t, run, r, n + 1)
    <3> HIDE DEF d
    <3>1. IsSequence(t) /\ Len(t) = l + 1
      BY <2>1
    <3> QED
      BY <2>3, <2>4, <2>5, <2>6, <3>1 DEF Keeps
  <2> QED
    BY <1>8, <2>7 DEF t
<1> QED
  BY <1>7, <1>8

LEMMA KeptDocuments ==
  ASSUME NEW run, IsSequence(run), NEW r, \A i \in DOMAIN run : run[i].id = <<r, i>>
  PROVE  Keeps(Kept(run), run, r, Len(run))
<1>1. Len(run) \in Nat /\ DOMAIN run = 1..Len(run)
  BY SequenceFacts
<1>2. PICK f : KeepsTo(f, run, Len(run)) /\ Kept(run) = f[Len(run)]
  BY KeptByDocument
<1>3. /\ f[0] = <<>>
      /\ \A n \in 1..Len(run) : f[n] = IF run[n].ok THEN Append(f[n - 1], run[n]) ELSE f[n - 1]
  BY <1>1, <1>2, KeepsSteps
<1> DEFINE T == {n \in Nat : n <= Len(run) /\ ~Keeps(f[n], run, r, n)}
<1>4. T = {}
  <2>1. SUFFICES ASSUME T # {} PROVE FALSE
    OBVIOUS
  <2>2. PICK m \in T : \A n \in T : m <= n
    <3>1. T \in SUBSET Nat
      OBVIOUS
    <3> HIDE DEF T
    <3> QED
      BY <2>1, <3>1, Least
  <2>3. m \in Nat /\ m <= Len(run) /\ ~Keeps(f[m], run, r, m)
    OBVIOUS
  <2>4. m # 0
    BY <1>3, <2>3, KeepsNone
  <2>5. m - 1 \in Nat /\ m - 1 <= Len(run) /\ ~(m <= m - 1) /\ m \in 1..Len(run)
    BY <1>1, <2>3, <2>4
  <2> DEFINE n == m - 1
  <2>6. n \in Nat /\ n + 1 = m
    BY <2>3, <2>5
  <2>7. Keeps(f[n], run, r, n)
    BY <2>2, <2>5
  <2>8. run[n + 1].id = <<r, n + 1>>
    BY <1>1, <2>5, <2>6
  <2>9. f[n + 1] = IF run[n + 1].ok THEN Append(f[n], run[n + 1]) ELSE f[n]
    BY <1>3, <2>5, <2>6
  <2> HIDE DEF n
  <2>10. Keeps(f[n + 1], run, r, n + 1)
    BY <2>6, <2>7, <2>8, <2>9, KeepsNext
  <2> QED
    BY <2>3, <2>6, <2>10
<1> QED
  BY <1>1, <1>2, <1>4

(* The drops add up run by run.                                            *)
AddsTo(f, runs, m) ==
  f = [r \in 0..m |-> IF r = 0 THEN 0 ELSE f[r - 1] + Dropped(runs[r])]

LEMMA AddsExists ==
  ASSUME NEW runs, NEW len \in Nat
  PROVE  \E f : AddsTo(f, runs, len)
<1> DEFINE T == {m \in Nat : ~\E f : AddsTo(f, runs, m)}
<1>1. SUFFICES ASSUME T # {} PROVE FALSE
  OBVIOUS
<1>2. PICK m \in T : \A n \in T : m <= n
  <2>1. T \in SUBSET Nat
    OBVIOUS
  <2> HIDE DEF T
  <2> QED
    BY <1>1, <2>1, Least
<1>3. m \in Nat /\ ~\E f : AddsTo(f, runs, m)
  OBVIOUS
<1>4. m # 0
  <2>1. AddsTo([r \in 0..0 |-> 0], runs, 0)
    BY DEF AddsTo
  <2> QED
    BY <1>3, <2>1
<1>5. m - 1 \in Nat /\ ~(m <= m - 1)
  BY <1>3, <1>4
<1>6. PICK f : AddsTo(f, runs, m - 1)
  BY <1>2, <1>5
<1> DEFINE F == [r \in 0..(m - 1) |-> IF r = 0 THEN 0 ELSE f[r - 1] + Dropped(runs[r])]
           g == [r \in 0..m |-> IF r = m THEN f[m - 1] + Dropped(runs[m]) ELSE f[r]]
           h == [r \in 0..m |-> IF r = 0 THEN 0 ELSE g[r - 1] + Dropped(runs[r])]
<1>7. \A r \in 0..(m - 1) : f[r] = IF r = 0 THEN 0 ELSE f[r - 1] + Dropped(runs[r])
  <2>1. f = F
    BY <1>6 DEF AddsTo
  <2>2. \A r \in 0..(m - 1) : F[r] = IF r = 0 THEN 0 ELSE f[r - 1] + Dropped(runs[r])
    OBVIOUS
  <2> HIDE DEF F
  <2> QED
    BY <2>1, <2>2
<1>8. ASSUME NEW r \in 0..m
      PROVE  g[r] = h[r]
  <2>1. CASE r = 0
    <3>1. 0 \in 0..(m - 1)
      BY <1>5
    <3> QED
      BY <1>3, <1>4, <1>7, <2>1, <3>1
  <2>2. CASE r # 0
    <3>1. r - 1 \in 0..m /\ r - 1 # m
      BY <1>3, <2>2
    <3>2. h[r] = f[r - 1] + Dropped(runs[r])
      BY <2>2, <3>1
    <3>3. CASE r = m
      BY <3>2, <3>3
    <3>4. CASE r # m
      <4>1. r \in 0..(m - 1) /\ g[r] = f[r]
        BY <1>3, <3>4
      <4> QED
        BY <1>7, <2>2, <3>2, <4>1
    <3> QED
      BY <3>3, <3>4
  <2> QED
    BY <2>1, <2>2
<1>9. g = h
  BY <1>8
<1>10. AddsTo(g, runs, m)
  <2> HIDE DEF g
  <2> QED
    BY <1>9 DEF AddsTo
<1> QED
  BY <1>3, <1>10

LEMMA DroppedAddsUp ==
  ASSUME NEW runs, IsSequence(runs)
  PROVE  /\ DroppedOf(runs, 0) = 0
         /\ \A n \in 1..Len(runs) :
              DroppedOf(runs, n) = DroppedOf(runs, n - 1) + Dropped(runs[n])
<1>1. Len(runs) \in Nat
  BY SequenceFacts
<1> DEFINE F == CHOOSE f : AddsTo(f, runs, Len(runs))
           G == [r \in 0..Len(runs) |-> IF r = 0 THEN 0 ELSE F[r - 1] + Dropped(runs[r])]
<1>2. AddsTo(F, runs, Len(runs))
  BY <1>1, AddsExists
<1>3. \A n : DroppedOf(runs, n) = F[n]
  BY DEF DroppedOf, AddsTo
<1>4. F = G
  BY <1>2 DEF AddsTo
<1>5. \A r \in 0..Len(runs) : G[r] = IF r = 0 THEN 0 ELSE F[r - 1] + Dropped(runs[r])
  OBVIOUS
<1> HIDE DEF F, G
<1>6. \A r \in 0..Len(runs) : F[r] = IF r = 0 THEN 0 ELSE F[r - 1] + Dropped(runs[r])
  BY <1>4, <1>5
<1> QED
  BY <1>1, <1>3, <1>6

-----------------------------------------------------------------------------
(* The writer's operations.                                                *)

LEMMA Pushed ==
  ASSUME NEW w, WriterShape(w), NEW d, ~IsDuplicate(w, d.key)
  PROVE  LET v == PushDoc(w, d) IN
         /\ WriterShape(v) /\ v.docs = Append(w.docs, d) /\ v.frames = Append(w.frames, d)
         /\ v.seen = w.seen \union {d.key} /\ v.bundles = w.bundles /\ v.start = w.start
<1> DEFINE v == PushDoc(w, d)
<1>1. w = [docs |-> w.docs, bundles |-> w.bundles, frames |-> w.frames,
           start |-> w.start, seen |-> w.seen, collapsed |-> w.collapsed]
  BY DEF WriterShape
<1>2. v = [w EXCEPT !.docs = Append(w.docs, d), !.frames = Append(w.frames, d),
                    !.seen = w.seen \union {d.key}]
  BY DEF PushDoc
<1>3. v = [docs |-> Append(w.docs, d), bundles |-> w.bundles, frames |-> Append(w.frames, d),
           start |-> w.start, seen |-> w.seen \union {d.key}, collapsed |-> w.collapsed]
  BY <1>1, <1>2
<1>4. IsSequence(w.docs) /\ IsSequence(w.bundles) /\ w.start \in 0..Len(w.docs)
  BY DEF WriterShape
<1>5. IsSequence(Append(w.docs, d)) /\ w.start \in 0..Len(Append(w.docs, d))
  BY <1>4, Appended, SequenceFacts
<1> HIDE DEF v
<1> QED
  BY <1>3, <1>4, <1>5 DEF WriterShape, v

LEMMA Collapsed ==
  ASSUME NEW w, WriterShape(w), NEW d, IsDuplicate(w, d.key)
  PROVE  LET v == PushDoc(w, d) IN
         /\ WriterShape(v) /\ v.docs = w.docs /\ v.frames = w.frames
         /\ v.seen = w.seen /\ v.bundles = w.bundles /\ v.start = w.start
<1> DEFINE v == PushDoc(w, d)
<1>1. w = [docs |-> w.docs, bundles |-> w.bundles, frames |-> w.frames,
           start |-> w.start, seen |-> w.seen, collapsed |-> w.collapsed]
  BY DEF WriterShape
<1>2. v = [w EXCEPT !.collapsed = w.collapsed + 1]
  BY DEF PushDoc
<1>3. v = [docs |-> w.docs, bundles |-> w.bundles, frames |-> w.frames,
           start |-> w.start, seen |-> w.seen, collapsed |-> w.collapsed + 1]
  BY <1>1, <1>2
<1>4. IsSequence(w.docs) /\ IsSequence(w.bundles) /\ w.start \in 0..Len(w.docs)
  BY DEF WriterShape
<1> HIDE DEF v
<1> QED
  BY <1>3, <1>4 DEF WriterShape, v

LEMMA PushFailed ==
  ASSUME NEW w, WriterShape(w), NEW d
  PROVE  LET v == PushDocFails(w, d) IN
         /\ WriterShape(v) /\ v.docs = w.docs /\ v.frames = w.frames
         /\ v.seen = w.seen \union {d.key} /\ v.bundles = w.bundles /\ v.start = w.start
<1> DEFINE v == PushDocFails(w, d)
<1>1. w = [docs |-> w.docs, bundles |-> w.bundles, frames |-> w.frames,
           start |-> w.start, seen |-> w.seen, collapsed |-> w.collapsed]
  BY DEF WriterShape
<1>2. v = [w EXCEPT !.seen = w.seen \union {d.key}]
  BY DEF PushDocFails
<1>3. v = [docs |-> w.docs, bundles |-> w.bundles, frames |-> w.frames,
           start |-> w.start, seen |-> w.seen \union {d.key}, collapsed |-> w.collapsed]
  BY <1>1, <1>2
<1>4. IsSequence(w.docs) /\ IsSequence(w.bundles) /\ w.start \in 0..Len(w.docs)
  BY DEF WriterShape
<1> HIDE DEF v
<1> QED
  BY <1>3, <1>4 DEF WriterShape, v

LEMMA SealFailed ==
  ASSUME NEW w, WriterShape(w)
  PROVE  LET v == SealFails(w) IN
         /\ WriterShape(v) /\ v.docs = w.docs
         /\ v.seen = w.seen /\ v.bundles = w.bundles /\ v.start = w.start
<1> DEFINE v == SealFails(w)
<1>1. w = [docs |-> w.docs, bundles |-> w.bundles, frames |-> w.frames,
           start |-> w.start, seen |-> w.seen, collapsed |-> w.collapsed]
  BY DEF WriterShape
<1>2. v = [w EXCEPT !.frames = <<>>]
  BY DEF SealFails
<1>3. v = [docs |-> w.docs, bundles |-> w.bundles, frames |-> <<>>,
           start |-> w.start, seen |-> w.seen, collapsed |-> w.collapsed]
  BY <1>1, <1>2
<1>4. IsSequence(w.docs) /\ IsSequence(w.bundles) /\ w.start \in 0..Len(w.docs)
  BY DEF WriterShape
<1> HIDE DEF v
<1> QED
  BY <1>3, <1>4 DEF WriterShape, v

LEMMA Sealed ==
  ASSUME NEW w, WriterShape(w), Len(w.docs) # w.start
  PROVE  LET v == Seal(w) IN
         /\ WriterShape(v) /\ v.docs = w.docs /\ v.frames = <<>>
         /\ v.bundles = Append(w.bundles, [n |-> Len(w.docs) - w.start, frames |-> w.frames])
         /\ v.seen = w.seen /\ v.start = Len(w.docs)
<1> DEFINE v == Seal(w)
           bundle == [n |-> Len(w.docs) - w.start, frames |-> w.frames]
<1>1. w = [docs |-> w.docs, bundles |-> w.bundles, frames |-> w.frames,
           start |-> w.start, seen |-> w.seen, collapsed |-> w.collapsed]
  BY DEF WriterShape
<1>2. v = [w EXCEPT !.bundles = Append(w.bundles, bundle), !.frames = <<>>,
                    !.start = Len(w.docs)]
  BY DEF Seal
<1>3. v = [docs |-> w.docs, bundles |-> Append(w.bundles, bundle), frames |-> <<>>,
           start |-> Len(w.docs), seen |-> w.seen, collapsed |-> w.collapsed]
  <2> HIDE DEF bundle, v
  <2> QED
    BY <1>1, <1>2
<1>4. IsSequence(w.docs) /\ IsSequence(w.bundles) /\ w.start \in 0..Len(w.docs)
  BY DEF WriterShape
<1>5. IsSequence(Append(w.bundles, bundle)) /\ Len(w.docs) \in 0..Len(w.docs)
  BY <1>4, Appended, SequenceFacts
<1> HIDE DEF v
<1> QED
  BY <1>3, <1>4, <1>5 DEF WriterShape, v

(* The bundles end one after the other, the last where the writer stands.  *)
LEMMA CutsGrow ==
  ASSUME NEW w, WriterShape(w),
         NEW cut \in [0..Len(w.bundles) -> 0..Len(w.docs)], Cuts(w, cut),
         NEW b \in DOMAIN w.bundles
  PROVE  cut[b] <= w.start
<1> DEFINE m == Len(w.bundles)
           T == {n \in Nat : n <= m /\ cut[m - n] > w.start}
<1>1. /\ m \in Nat /\ DOMAIN w.bundles = 1..m /\ Len(w.docs) \in Nat
      /\ w.start \in 0..Len(w.docs)
  BY SequenceFacts DEF WriterShape
<1>2. T = {}
  <2>1. SUFFICES ASSUME T # {} PROVE FALSE
    OBVIOUS
  <2>2. PICK n \in T : \A x \in T : n <= x
    <3>1. T \in SUBSET Nat
      OBVIOUS
    <3> HIDE DEF T
    <3> QED
      BY <2>1, <3>1, Least
  <2>3. n # 0
    BY <1>1, <2>2 DEF Cuts
  <2>4. n - 1 \in Nat /\ n - 1 <= m /\ ~(n <= n - 1)
    BY <1>1, <2>2, <2>3
  <2>5. ~(cut[m - (n - 1)] > w.start)
    BY <2>2, <2>4
  <2>6. m - n + 1 \in DOMAIN w.bundles /\ m - (n - 1) = m - n + 1 /\ m - n + 1 - 1 = m - n
    BY <1>1, <2>2, <2>3
  <2>7. cut[m - n] < cut[m - n + 1]
    <3>1. \A x \in DOMAIN w.bundles : cut[x - 1] < cut[x]
      BY DEF Cuts
    <3> DEFINE c == m - n + 1
    <3>2. c \in DOMAIN w.bundles /\ c - 1 = m - n
      BY <2>6
    <3> HIDE DEF m, T, c
    <3>3. cut[c - 1] < cut[c]
      BY <3>1, <3>2, Zenon
    <3>4. cut[m - n] < cut[c]
      BY <3>2, <3>3, Zenon
    <3> QED
      BY <3>4 DEF c
  <2>8. cut[m - n] \in Nat /\ cut[m - n + 1] \in Nat /\ w.start \in Nat
    <3>1. m - n \in 0..m /\ m - n + 1 \in 0..m
      BY <1>1, <2>2, <2>3
    <3>2. cut[m - n] \in 0..Len(w.docs) /\ cut[m - n + 1] \in 0..Len(w.docs)
      BY <3>1
    <3> QED
      BY <1>1, <3>2
  <2> QED
    BY <2>2, <2>5, <2>6, <2>7, <2>8
<1>3. m - b \in Nat /\ m - b <= m /\ m - (m - b) = b
  BY <1>1
<1>4. ~(cut[m - (m - b)] > w.start)
  BY <1>2, <1>3
<1> QED
  BY <1>1, <1>3, <1>4

(* A document that is added, or a bundle that is sealed, leaves the sealed *)
(* ones as they are.                                                       *)
LEMMA PushKeepsParts ==
  ASSUME NEW w, WriterShape(w), Parted(w), NEW v, NEW d,
         v.docs = Append(w.docs, d), v.bundles = w.bundles, v.start = w.start,
         \A k \in 1..w.start : Run(w.docs[k]) # Run(d)
  PROVE  Parted(v)
<1>1. PICK cut \in [0..Len(w.bundles) -> 0..Len(w.docs)] : Cuts(w, cut)
  BY DEF Parted
<1>2. /\ IsSequence(w.docs) /\ IsSequence(w.bundles) /\ w.start \in 0..Len(w.docs)
      /\ Len(w.docs) \in Nat /\ Len(v.docs) = Len(w.docs) + 1
      /\ Len(w.bundles) \in Nat /\ DOMAIN w.bundles = 1..Len(w.bundles)
      /\ DOMAIN w.docs = 1..Len(w.docs) /\ DOMAIN v.docs = 1..(Len(w.docs) + 1)
      /\ \A i \in 1..Len(w.docs) : v.docs[i] = w.docs[i]
      /\ v.docs[Len(w.docs) + 1] = d
  BY SequenceFacts, Appended DEF WriterShape
<1>3. cut \in [0..Len(v.bundles) -> 0..Len(v.docs)]
  BY <1>2
<1>4. Cuts(v, cut)
  <2>1. ASSUME NEW b \in DOMAIN v.bundles
        PROVE  /\ cut[b - 1] < cut[b]
               /\ v.bundles[b].n = cut[b] - cut[b - 1]
               /\ v.bundles[b].frames = SubSeq(v.docs, cut[b - 1] + 1, cut[b])
               /\ \A i \in (cut[b - 1] + 1)..cut[b], j \in DOMAIN v.docs :
                    Run(v.docs[j]) = Run(v.docs[i]) <=> j \in (cut[b - 1] + 1)..cut[b]
    <3>1. /\ b \in DOMAIN w.bundles
          /\ cut[b - 1] \in 0..Len(w.docs) /\ cut[b] \in 0..Len(w.docs)
      BY <1>2
    <3>2. /\ cut[b - 1] < cut[b] /\ w.bundles[b].n = cut[b] - cut[b - 1]
          /\ w.bundles[b].frames = SubSeq(w.docs, cut[b - 1] + 1, cut[b])
          /\ \A i \in (cut[b - 1] + 1)..cut[b], j \in DOMAIN w.docs :
               Run(w.docs[j]) = Run(w.docs[i]) <=> j \in (cut[b - 1] + 1)..cut[b]
      BY <1>1, <3>1 DEF Cuts
    <3>3. SubSeq(Append(w.docs, d), cut[b - 1] + 1, cut[b]) = SubSeq(w.docs, cut[b - 1] + 1, cut[b])
      <4>1. PICK m \in 1..(Len(w.docs) + 1) : m = cut[b - 1] + 1
        BY <1>2, <3>1
      <4>2. PICK docs : docs = w.docs
        OBVIOUS
      <4>3. IsSequence(docs) /\ m \in 1..(Len(docs) + 1)
        BY ONLY <1>2, <4>1, <4>2
      <4>4. \A n \in 0..Len(docs) : SubSeq(Append(docs, d), m, n) = SubSeq(docs, m, n)
        BY ONLY <4>3, AppendedSlices
      <4> QED
        BY ONLY <3>1, <4>1, <4>2, <4>4
    <3>4. \A i \in (cut[b - 1] + 1)..cut[b] : Run(w.docs[i]) # Run(d)
      <4>1. cut[b] <= w.start
        BY <1>1, <1>2, <3>1, CutsGrow
      <4> QED
        BY <1>2, <3>1, <4>1
    <3>5. ASSUME NEW i \in (cut[b - 1] + 1)..cut[b], NEW j \in DOMAIN v.docs
          PROVE  Run(v.docs[j]) = Run(v.docs[i]) <=> j \in (cut[b - 1] + 1)..cut[b]
      <4>1. i \in 1..Len(w.docs) /\ v.docs[i] = w.docs[i]
        BY <1>2, <3>1
      <4>2. CASE j \in 1..Len(w.docs)
        <5>1. v.docs[j] = w.docs[j] /\ j \in DOMAIN w.docs
          BY <1>2, <4>2
        <5> QED
          BY <3>2, <4>1, <5>1
      <4>3. CASE j = Len(w.docs) + 1
        BY <1>2, <3>1, <3>4, <4>1, <4>3
      <4> QED
        BY <1>2, <4>2, <4>3, SMTT(30)
    <3> QED
      BY <3>2, <3>3, <3>5
  <2>2. cut[0] = 0 /\ cut[Len(v.bundles)] = v.start
    BY <1>1 DEF Cuts
  <2> QED
    BY <2>1, <2>2 DEF Cuts
<1> QED
  BY <1>3, <1>4 DEF Parted

LEMMA SealParts ==
  ASSUME NEW w, WriterShape(w), Parted(w), w.start < Len(w.docs),
         w.frames = SubSeq(w.docs, w.start + 1, Len(w.docs)),
         NEW run, \A k \in DOMAIN w.docs : Run(w.docs[k]) = run <=> k > w.start,
         NEW v, v.docs = w.docs, v.start = Len(w.docs),
         v.bundles = Append(w.bundles, [n |-> Len(w.docs) - w.start, frames |-> w.frames])
  PROVE  Parted(v)
<1> DEFINE m == Len(w.bundles)
           bundle == [n |-> Len(w.docs) - w.start, frames |-> w.frames]
<1>1. PICK cut \in [0..m -> 0..Len(w.docs)] : Cuts(w, cut)
  BY DEF Parted
<1>2. /\ IsSequence(w.docs) /\ IsSequence(w.bundles) /\ Len(w.docs) \in Nat
      /\ m \in Nat /\ DOMAIN w.bundles = 1..m /\ w.start \in 0..Len(w.docs)
      /\ DOMAIN w.docs = 1..Len(w.docs)
  BY SequenceFacts DEF WriterShape
<1>3. /\ Len(v.bundles) = m + 1 /\ DOMAIN v.bundles = 1..(m + 1)
      /\ \A b \in 1..m : v.bundles[b] = w.bundles[b]
      /\ v.bundles[m + 1] = bundle
  <2> HIDE DEF bundle
  <2>1. v.bundles = Append(w.bundles, bundle)
    BY DEF bundle
  <2> QED
    BY <1>2, <2>1, Appended, SequenceFacts
<1> DEFINE now == [b \in 0..(m + 1) |-> IF b = m + 1 THEN Len(w.docs) ELSE cut[b]]
<1>4. now \in [0..Len(v.bundles) -> 0..Len(v.docs)]
  BY <1>2, <1>3
<1>5. Cuts(v, now)
  <2>1. now[0] = 0 /\ now[Len(v.bundles)] = v.start /\ cut[m] = w.start
    BY <1>1, <1>2, <1>3 DEF Cuts
  <2>2. ASSUME NEW b \in 1..m
        PROVE  /\ now[b - 1] < now[b] /\ v.bundles[b].n = now[b] - now[b - 1]
               /\ v.bundles[b].frames = SubSeq(v.docs, now[b - 1] + 1, now[b])
               /\ \A i \in (now[b - 1] + 1)..now[b], j \in DOMAIN v.docs :
                    Run(v.docs[j]) = Run(v.docs[i]) <=> j \in (now[b - 1] + 1)..now[b]
    <3>1. now[b - 1] = cut[b - 1] /\ now[b] = cut[b]
      BY <1>2
    <3>2. b \in DOMAIN w.bundles /\ v.bundles[b] = w.bundles[b]
      BY <1>2, <1>3
    <3> HIDE DEF now
    <3> QED
      BY <1>1, <3>1, <3>2 DEF Cuts
  <2>3. /\ now[m] < now[m + 1] /\ v.bundles[m + 1].n = now[m + 1] - now[m]
        /\ v.bundles[m + 1].frames = SubSeq(v.docs, now[m] + 1, now[m + 1])
        /\ \A i \in (now[m] + 1)..now[m + 1], j \in DOMAIN v.docs :
             Run(v.docs[j]) = Run(v.docs[i]) <=> j \in (now[m] + 1)..now[m + 1]
    <3>1. now[m] = w.start /\ now[m + 1] = Len(w.docs)
      BY <1>2, <2>1
    <3>2. v.bundles[m + 1].n = Len(w.docs) - w.start /\ v.bundles[m + 1].frames = w.frames
      <4>1. bundle.n = Len(w.docs) - w.start /\ bundle.frames = w.frames
        OBVIOUS
      <4> HIDE DEF bundle, now
      <4> QED
        BY <1>3, <4>1
    <3>3. ASSUME NEW i \in (w.start + 1)..Len(w.docs), NEW j \in DOMAIN w.docs
          PROVE  Run(w.docs[j]) = Run(w.docs[i]) <=> j \in (w.start + 1)..Len(w.docs)
      <4>1. i \in DOMAIN w.docs /\ i > w.start /\ j \in 1..Len(w.docs)
        BY <1>2
      <4>2. Run(w.docs[i]) = run /\ (Run(w.docs[j]) = run <=> j > w.start)
        BY <4>1
      <4>3. j > w.start <=> j \in (w.start + 1)..Len(w.docs)
        BY <1>2, <4>1
      <4> QED
        BY <4>2, <4>3
    <3>4. w.start < Len(w.docs) /\ w.frames = SubSeq(v.docs, w.start + 1, Len(w.docs))
      OBVIOUS
    <3> HIDE DEF now, bundle
    <3>5. /\ now[m] < now[m + 1] /\ v.bundles[m + 1].n = now[m + 1] - now[m]
          /\ v.bundles[m + 1].frames = SubSeq(v.docs, now[m] + 1, now[m + 1])
      BY <3>1, <3>2, <3>4, Zenon
    <3>6. \A i \in (w.start + 1)..Len(w.docs), j \in DOMAIN v.docs :
            Run(v.docs[j]) = Run(v.docs[i]) <=> j \in (w.start + 1)..Len(w.docs)
      BY <3>3
    <3> QED
      BY <3>1, <3>5, <3>6, Zenon
  <2>4. \A b \in DOMAIN v.bundles : b \in 1..m \/ (b = m + 1 /\ b - 1 = m)
    BY <1>2, <1>3
  <2> HIDE DEF now
  <2> QED
    BY <2>1, <2>2, <2>3, <2>4 DEF Cuts
<1> QED
  BY <1>4, <1>5 DEF Parted

LEMMA SameParts ==
  ASSUME NEW w, Parted(w), NEW v,
         v.docs = w.docs, v.bundles = w.bundles, v.start = w.start
  PROVE  Parted(v)
<1>1. PICK cut \in [0..Len(w.bundles) -> 0..Len(w.docs)] : Cuts(w, cut)
  BY DEF Parted
<1>2. Cuts(v, cut)
  BY <1>1 DEF Cuts
<1> QED
  BY <1>2 DEF Parted

-----------------------------------------------------------------------------
(* The invariant: it holds at first ...                                    *)

LEMMA Bounded ==
  ASSUME NEW S, NEW n, NEW s \in SeqOf(S, n)
  PROVE  \E m \in Nat : s \in [1..m -> S]
<1>1. PICK m \in 0..n : s \in [1..m -> S]
  BY DEF SeqOf
<1> QED
  BY <1>1

LEMMA InputsAtFirst ==
  ASSUME NEW runs \in SeqOf(SeqOf([key : Keys, ok : BOOLEAN], MaxDocs), MaxRuns),
         source = Documents(runs)
  PROVE  Inputs
<1>1. PICK m \in Nat : runs \in [1..m -> SeqOf([key : Keys, ok : BOOLEAN], MaxDocs)]
  BY Bounded
<1>2. DOMAIN source = 1..m
  BY <1>1 DEF Documents
<1>3. ASSUME NEW r \in 1..m
      PROVE  /\ IsSequence(source[r])
             /\ \A i \in DOMAIN source[r] : source[r][i].id = <<r, i>>
  <2>1. PICK l \in Nat : runs[r] \in [1..l -> [key : Keys, ok : BOOLEAN]]
    BY <1>1, Bounded
  <2> DEFINE doc(i) == [key |-> runs[r][i].key, ok |-> runs[r][i].ok, id |-> <<r, i>>]
  <2>2. source[r] = [i \in 1..l |-> doc(i)]
    <3>1. source[r] = [i \in DOMAIN runs[r] |->
                        [key |-> runs[r][i].key, ok |-> runs[r][i].ok, id |-> <<r, i>>]]
      BY <1>1 DEF Documents
    <3>2. DOMAIN runs[r] = 1..l
      BY <2>1
    <3> QED
      BY <3>1, <3>2
  <2>3. \A i : doc(i).id = <<r, i>>
    OBVIOUS
  <2> HIDE DEF doc
  <2>4. IsSequence(source[r])
    <3>1. DOMAIN source[r] = 1..l
      BY <2>2
    <3>2. \A i \in 1..l : source[r][i] \in ToSet(source[r])
      BY <3>1 DEF ToSet
    <3>3. source[r] = [i \in 1..l |-> source[r][i]]
      BY <2>2
    <3> QED
      BY <3>2, <3>3, IsASeq DEF IsSequence
  <2> QED
    BY <2>2, <2>3, <2>4
<1>4. IsSequence(source)
  <2>1. source = [r \in 1..m |-> source[r]]
    BY <1>1 DEF Documents
  <2>2. \A r \in 1..m : source[r] \in ToSet(source)
    BY <1>2 DEF ToSet
  <2> QED
    BY <2>1, <2>2, IsASeq DEF IsSequence
<1> QED
  BY <1>2, <1>3, <1>4 DEF Inputs

LEMMA InvAtFirst == Init => IInv
<1> SUFFICES ASSUME Init PROVE IInv
  OBVIOUS
<1>1. Inputs
  BY InputsAtFirst DEF Init
<1>2. IsSequence(<<>>) /\ Len(<<>>) = 0 /\ DOMAIN <<>> = {}
  BY DEF IsSequence
<1>3. Len(source) \in Nat
  BY <1>1, SequenceFacts DEF Inputs
<1>4. Shapes
  BY <1>2, <1>3 DEF Init, Shapes, WriterShape, NewWriter
<1>5. Phases /\ RowsPaired
  BY <1>2 DEF Init, Phases, RowsPaired, NewWriter
<1>6. Order /\ KeysOnce /\ KeysSeen
  BY <1>2 DEF Init, Order, Ordered, KeysOnce, KeysSeen, NewWriter
<1>7. NoneLost
  <2>1. ~\E r \in DOMAIN source : r < next
    BY <1>1, SequenceFacts DEF Init, Inputs
  <2> QED
    BY <2>1 DEF NoneLost
<1>8. OpenBundle
  BY <1>2 DEF Init, OpenBundle, NewWriter, Idle
<1>9. BundlesTell
  <2>1. Cuts(writer, [b \in 0..0 |-> 0])
    BY <1>2 DEF Init, Cuts, NewWriter
  <2>2. writer.bundles = <<>> /\ writer.docs = <<>>
    BY DEF Init, NewWriter
  <2>3. [b \in 0..0 |-> 0] \in [0..Len(writer.bundles) -> 0..Len(writer.docs)]
    BY <1>2, <2>2
  <2> QED
    BY <2>1, <2>3 DEF BundlesTell, Parted
<1>10. Counted
  <2>1. DroppedOf(source, 0) = 0
    BY <1>1, DroppedAddsUp DEF Inputs
  <2> QED
    BY <1>2, <1>3, <2>1 DEF Init, NewWriter, Counted, Idle
<1> QED
  BY <1>1, <1>4, <1>5, <1>6, <1>7, <1>8, <1>9, <1>10 DEF IInv

-----------------------------------------------------------------------------
(* ... and every step keeps it.  Before(d, e) orders the documents.        *)

(* What the invariant says, with the lengths at hand.                      *)
LEMMA InvShape ==
  ASSUME IInv
  PROVE  /\ Inputs /\ Shapes /\ Phases /\ RowsPaired /\ Order /\ NoneLost
         /\ KeysOnce /\ KeysSeen /\ OpenBundle /\ BundlesTell
         /\ Counted /\ report.exported = Len(writer.docs) /\ report.failed \in Nat
         /\ WriterShape(writer)
         /\ IsSequence(writer.docs) /\ Len(writer.docs) \in Nat
         /\ DOMAIN writer.docs = 1..Len(writer.docs)
         /\ writer.start \in 0..Len(writer.docs)
         /\ IsSequence(todo) /\ Len(todo) \in Nat /\ DOMAIN todo = 1..Len(todo)
         /\ IsSequence(source) /\ Len(source) \in Nat /\ DOMAIN source = 1..Len(source)
         /\ IsSequence(warmup) /\ Len(warmup) \in Nat /\ Len(warmup) <= Len(source)
         /\ next \in Nat \ {0} /\ tally \in Nat \union {NoRun}
  BY SequenceFacts DEF IInv, Inputs, Shapes, WriterShape, Counted

LEMMA ParseWarmupKeeps == IInv /\ ParseWarmup => IInv'
<1> SUFFICES ASSUME IInv, ParseWarmup PROVE IInv'
  OBVIOUS
<1>1. UNCHANGED <<source, hasMeta, phase, todo, tally, next, writer, rows, report,
                  write_err, output>>
  BY DEF ParseWarmup, inputVars
<1>2. IsSequence(warmup') /\ Len(warmup') <= Len(source)
  BY InvShape, Appended DEF ParseWarmup
<1>3. Shapes'
  BY <1>1, <1>2, InvShape DEF Shapes
<1>4. (Inputs /\ Phases /\ RowsPaired /\ Order /\ NoneLost /\ KeysOnce /\ KeysSeen
        /\ OpenBundle /\ BundlesTell /\ Counted)'
  BY <1>1, InvShape DEF Inputs, Phases, Idle, RowsPaired, Order, Entry, NoneLost, Told,
     KeysOnce, KeysSeen, OpenBundle, BundlesTell, Counted
<1> QED
  BY <1>3, <1>4 DEF IInv

(* Where only the phase changes it matters which follows which.            *)
LEMMA PhaseKeeps ==
  ASSUME IInv,
         UNCHANGED <<source, hasMeta, warmup, todo, tally, next, writer, rows, report,
                     write_err, output>>,
         output # "new",
         phase' \notin {"store", "stream"} => todo = <<>>,
         write_err => phase' \in {"stream", "failed"},
         phase' \in {"finish", "done"} => Idle /\ next > Len(source)
  PROVE  IInv'
<1>1. Phases'
  BY InvShape DEF Phases, Idle
<1>2. (Inputs /\ Shapes /\ RowsPaired /\ Order /\ NoneLost /\ KeysOnce /\ KeysSeen
        /\ OpenBundle /\ BundlesTell /\ Counted)'
  BY InvShape DEF Inputs, Shapes, Idle, RowsPaired, Order, Entry, NoneLost, Told,
     KeysOnce, KeysSeen, OpenBundle, BundlesTell, Counted
<1> QED
  BY <1>1, <1>2 DEF IInv

LEMMA TrainKeeps == IInv /\ Train => IInv'
<1> SUFFICES ASSUME IInv, Train PROVE IInv'
  OBVIOUS
<1>1. UNCHANGED <<source, hasMeta, warmup, todo, tally, next, writer, rows, report,
                  write_err, output>>
  BY DEF Train, inputVars
<1>2. /\ output # "new" /\ ~write_err /\ phase' = "store"
  BY InvShape DEF Train, Phases
<1> QED
  BY <1>1, <1>2, PhaseKeeps

LEMMA EndPhaseKeeps == IInv /\ EndPhase => IInv'
<1> SUFFICES ASSUME IInv, EndPhase PROVE IInv'
  OBVIOUS
<1>1. UNCHANGED <<source, hasMeta, warmup, todo, tally, next, writer, rows, report,
                  write_err, output>>
  BY DEF EndPhase, inputVars
<1>2. output # "new" /\ Idle /\ todo = <<>>
  BY InvShape DEF EndPhase, Phases
<1>3. CASE phase = "store"
  BY <1>1, <1>2, <1>3, PhaseKeeps, InvShape DEF EndPhase, Phases
<1>4. CASE phase = "stream"
  <2>1. next > Len(source)
    BY <1>4 DEF EndPhase, LastRun
  <2>2. phase' = IF write_err THEN "failed" ELSE "finish"
    BY <1>4 DEF EndPhase
  <2> QED
    BY <1>1, <1>2, <2>1, <2>2, PhaseKeeps
<1> QED
  BY <1>3, <1>4 DEF EndPhase

LEMMA FinishFailsKeeps == IInv /\ FinishFails => IInv'
<1> SUFFICES ASSUME IInv, FinishFails PROVE IInv'
  OBVIOUS
<1>1. UNCHANGED <<source, hasMeta, warmup, todo, tally, next, writer, rows, report,
                  write_err, output>>
  BY DEF FinishFails, inputVars
<1>2. output # "new" /\ todo = <<>> /\ phase' = "failed"
  BY InvShape DEF FinishFails, Phases
<1> QED
  BY <1>1, <1>2, PhaseKeeps

(* At the end nothing is left to seal, and the rows are all there.         *)
LEMMA NothingLeft ==
  ASSUME IInv, phase = "finish"
  PROVE  Seal(writer) = writer /\ RowsMatch(writer, hasMeta, Len(rows))
<1>1. Idle /\ ~write_err
  BY InvShape DEF Phases
<1>2. writer.start = Len(writer.docs)
  BY <1>1, InvShape DEF OpenBundle
<1>3. Seal(writer) = writer
  BY <1>2 DEF Seal
<1>4. ASSUME hasMeta
      PROVE  Len(rows) = Len(writer.docs)
  <2>1. rows = [i \in 1..Len(writer.docs) |-> writer.docs[i].id]
    BY <1>4, InvShape DEF RowsPaired
  <2> QED
    BY <2>1, InvShape
<1> QED
  BY <1>3, <1>4 DEF RowsMatch

LEMMA FinishArchiveKeeps == IInv /\ FinishArchive => IInv'
<1> SUFFICES ASSUME IInv, FinishArchive PROVE IInv'
  OBVIOUS
<1>1. UNCHANGED <<source, hasMeta, warmup, todo, tally, next, rows, report, write_err>>
  BY DEF FinishArchive, inputVars
<1>2. phase = "finish" /\ phase' = "done" /\ writer' = writer
  BY NothingLeft DEF FinishArchive
<1>3. Phases'
  BY <1>1, <1>2, InvShape DEF Phases, Idle
<1>4. (Inputs /\ Shapes /\ RowsPaired /\ Order /\ NoneLost /\ KeysOnce /\ KeysSeen
        /\ OpenBundle /\ BundlesTell /\ Counted)'
  BY <1>1, <1>2, InvShape, SMTT(30) DEF Inputs, Shapes, Idle, RowsPaired, Order, Entry, NoneLost, Told,
     KeysOnce, KeysSeen, OpenBundle, BundlesTell, Counted
<1> QED
  BY <1>3, <1>4 DEF IInv

(* A run is taken: its documents come after all that was taken before, and *)
(* with them everything up to here is stored or still to come.             *)
LEMMA TakeRunKeeps == IInv /\ TakeRun => IInv'
<1> SUFFICES ASSUME IInv, TakeRun PROVE IInv'
  OBVIOUS
<1> DEFINE run == source[next]
<1>1. UNCHANGED <<source, hasMeta, phase, warmup, writer, rows, report, write_err, output>>
  BY DEF TakeRun, inputVars
<1>2. phase \in {"store", "stream"} /\ Idle /\ next <= Len(source)
      /\ next' = next + 1 /\ tally' = Dropped(run)
      /\ todo' = IF write_err THEN <<>> ELSE Kept(run)
  BY InvShape DEF TakeRun, LastRun
<1>3. next \in DOMAIN source
  BY <1>2, InvShape
<1>4. IsSequence(run) /\ (\A i \in DOMAIN run : run[i].id = <<next, i>>)
      /\ Len(run) \in Nat /\ DOMAIN run = 1..Len(run)
  BY <1>3, InvShape, SequenceFacts DEF Inputs
<1>5. Keeps(Kept(run), run, next, Len(run))
  <2> HIDE DEF run
  <2> QED
    BY <1>4, KeptDocuments
<1>6. IsSequence(Kept(run)) /\ Len(Kept(run)) \in Nat /\ DOMAIN Kept(run) = 1..Len(Kept(run))
      /\ Len(Kept(run)) <= Len(run)
  BY <1>5, SequenceFacts DEF Keeps
<1>7. tally' \in Nat
  BY <1>2, <1>4, <1>6 DEF Dropped
<1>8. ~Idle' /\ tally' # NoRun
  BY <1>7 DEF Idle, NoRun
<1>9. IsSequence(<<>>) /\ DOMAIN <<>> = {} /\ Len(<<>>) = 0
  BY DEF IsSequence
<1>10. IsSequence(todo') /\ Len(todo') \in Nat /\ DOMAIN todo' = 1..Len(todo')
  BY <1>2, <1>6, <1>9
<1>11. Shapes'
  BY <1>1, <1>2, <1>7, <1>10, InvShape DEF Shapes, NoRun
<1>12. Phases'
  BY <1>1, <1>2, <1>8, InvShape DEF Phases, Idle
<1>13. \A k \in DOMAIN todo' :
        /\ Run(todo'[k]) = next /\ Place(todo'[k]) \in DOMAIN run
        /\ todo'[k] = run[Place(todo'[k])] /\ todo'[k].ok
  <2> HIDE DEF run
  <2> QED
    BY <1>2, <1>4, <1>5, <1>6, <1>9 DEF Keeps
<1>14. \A i, j \in DOMAIN todo' : i < j => Place(todo'[i]) < Place(todo'[j])
  <2> HIDE DEF run
  <2> QED
    BY <1>2, <1>5, <1>6, <1>9 DEF Keeps
<1>15. Order'
  <2>1. \A k \in DOMAIN writer.docs : Entry(writer.docs[k])' /\ Run(writer.docs[k]) < next'
    <3>1. \A k \in DOMAIN writer.docs : Entry(writer.docs[k]) /\ Run(writer.docs[k]) < next
      BY InvShape DEF Order
    <3>2. \A k \in DOMAIN writer.docs : Run(writer.docs[k]) \in DOMAIN source
      BY <3>1 DEF Entry
    <3> QED
      BY <1>1, <1>2, <3>1, <3>2, InvShape DEF Entry
  <2>2. \A k \in DOMAIN todo' : Entry(todo[k])' /\ Run(todo'[k]) = next' - 1
    <3>1. next' - 1 = next
      BY <1>2, InvShape
    <3> QED
      BY <1>1, <1>3, <1>13, <3>1 DEF Entry
  <2>3. Ordered(writer.docs)' /\ Ordered(todo)'
    BY <1>1, <1>13, <1>14, InvShape DEF Order, Ordered, Before
  <2>4. \A i \in DOMAIN writer.docs, j \in DOMAIN todo' : Before(writer.docs[i], todo'[j])
    BY <1>13, InvShape DEF Order, Before
  <2> QED
    BY <1>1, <2>1, <2>2, <2>3, <2>4 DEF Order
<1>16. NoneLost'
  <2> SUFFICES ASSUME ~write_err, NEW r \in DOMAIN source, NEW i \in DOMAIN source[r],
                      r < next', source[r][i].ok
               PROVE  Told(source[r][i])'
    BY <1>1 DEF NoneLost
  <2>1. CASE r < next
    <3>1. Told(source[r][i]) /\ todo = <<>>
      BY <1>2, <2>1, InvShape DEF NoneLost, Phases
    <3> QED
      BY <1>1, <3>1, <1>9 DEF Told
  <2>2. CASE r = next
    <3>1. todo' = Kept(run) /\ i \in 1..Len(run) /\ run[i].ok
      BY <1>2, <1>4, <2>2
    <3>2. \E j \in 1..Len(Kept(run)) : Kept(run)[j] = run[i]
      <4> HIDE DEF run
      <4> QED
        BY <1>5, <3>1 DEF Keeps
    <3> QED
      BY <1>1, <1>6, <2>2, <3>1, <3>2 DEF Told
  <2> QED
    BY <1>2, <2>1, <2>2, InvShape
<1>17. OpenBundle'
  <2> SUFFICES ASSUME ~write_err
               PROVE  \A k \in DOMAIN writer.docs :
                        Run(writer.docs[k]) = next' - 1 <=> k > writer.start
    BY <1>1, <1>8, InvShape DEF OpenBundle
  <2>1. writer.start = Len(writer.docs) /\ next' - 1 = next
    BY <1>2, InvShape DEF OpenBundle
  <2>2. \A k \in DOMAIN writer.docs : Run(writer.docs[k]) < next /\ Run(writer.docs[k]) \in 1..Len(source)
    BY InvShape DEF Order, Entry
  <2> QED
    BY <2>1, <2>2, InvShape
<1>18. (Inputs /\ RowsPaired /\ KeysOnce /\ KeysSeen /\ BundlesTell)'
  BY <1>1, InvShape DEF Inputs, RowsPaired, KeysOnce, KeysSeen, BundlesTell
<1>19. Counted'
  <2>1. report.failed = DroppedOf(source, next - 1)
    BY <1>2, InvShape DEF Counted
  <2>2. DroppedOf(source, next) = DroppedOf(source, next - 1) + Dropped(run)
    BY <1>2, InvShape, DroppedAddsUp
  <2>3. next' - 1 = next /\ next' <= Len(source) + 1
    BY <1>2, InvShape, SMTT(30)
  <2> QED
    BY <1>1, <1>2, <1>8, <2>1, <2>2, <2>3, InvShape DEF Counted
<1> QED
  BY <1>11, <1>12, <1>15, <1>16, <1>17, <1>18, <1>19 DEF IInv

(* Without an error SealRun seals what is open, and after one it seals     *)
(* nothing; the documents stay.                                            *)
LEMMA SealRunKeeps == IInv /\ SealRun => IInv'
<1> SUFFICES ASSUME IInv, SealRun PROVE IInv'
  OBVIOUS
<1>1. UNCHANGED <<source, hasMeta, phase, warmup, todo, next, rows, write_err, output>>
  BY DEF SealRun, inputVars
<1>2. /\ phase \in {"store", "stream"} /\ ~Idle /\ todo = <<>>
      /\ tally' = NoRun /\ Idle'
      /\ writer' = IF write_err THEN writer ELSE Seal(writer)
  BY DEF SealRun, Idle
<1>3. report = [exported |-> report.exported, failed |-> report.failed]
  BY InvShape DEF Shapes
<1>4. report' = [report EXCEPT !.failed = report.failed + tally]
  BY DEF SealRun
<1>5. report' = [exported |-> report.exported, failed |-> report'.failed]
  BY <1>3, <1>4
<1>6. WriterShape(writer') /\ writer'.docs = writer.docs /\ writer'.seen = writer.seen
  <2>1. CASE writer' = writer
    BY <2>1, InvShape
  <2>2. CASE writer' = Seal(writer) /\ Len(writer.docs) # writer.start
    BY <2>2, InvShape, Sealed
  <2>3. CASE writer' = Seal(writer) /\ Len(writer.docs) = writer.start
    BY <2>3, InvShape DEF Seal
  <2> QED
    BY <1>2, <2>1, <2>2, <2>3
<1>7. Counted'
  <2>1. report'.exported = report.exported /\ report'.failed = report.failed + tally
    BY <1>3, <1>4
  <2>2. report.failed + tally = DroppedOf(source, next - 1) /\ tally \in Nat
    BY <1>2, InvShape DEF Counted, Idle
  <2>3. report'.failed + 0 = report.failed + tally /\ report'.failed \in Nat
    BY <2>1, <2>2, InvShape
  <2> QED
    BY <1>1, <1>2, <1>6, <2>1, <2>2, <2>3, InvShape DEF Counted
<1>8. Shapes'
  BY <1>1, <1>2, <1>5, <1>6, InvShape DEF Shapes
<1>9. Phases'
  BY <1>1, <1>2, InvShape DEF Phases
<1>10. (Inputs /\ RowsPaired /\ KeysOnce /\ KeysSeen /\ Order /\ NoneLost)'
  BY <1>1, <1>6, InvShape DEF Inputs, RowsPaired, KeysOnce, KeysSeen, Order, Entry, NoneLost, Told
<1>11. OpenBundle' /\ BundlesTell'
  <2>1. CASE write_err
    BY <1>1, <1>2, <2>1, InvShape DEF OpenBundle, BundlesTell
  <2>2. CASE ~write_err /\ Len(writer.docs) = writer.start
    <3>1. writer' = writer
      BY <1>2, <2>2 DEF Seal
    <3> QED
      BY <1>1, <1>2, <2>2, <3>1, InvShape DEF OpenBundle, BundlesTell
  <2>3. CASE ~write_err /\ Len(writer.docs) # writer.start
    <3>1. /\ writer'.docs = writer.docs /\ writer'.frames = <<>>
          /\ writer'.start = Len(writer.docs)
          /\ writer'.bundles = Append(writer.bundles, [n |-> Len(writer.docs) - writer.start,
                                                      frames |-> writer.frames])
      BY <1>2, <2>3, InvShape, Sealed
    <3>2. writer.frames = SubSeq(writer.docs, writer.start + 1, Len(writer.docs))
      BY <2>3, InvShape DEF OpenBundle
    <3>3. \A k \in DOMAIN writer.docs : Run(writer.docs[k]) = next - 1 <=> k > writer.start
      BY <1>2, <2>3, InvShape DEF OpenBundle
    <3>4. writer.start < Len(writer.docs)
      BY <2>3, InvShape
    <3>5. Parted(writer')
      BY <3>1, <3>2, <3>3, <3>4, SealParts, InvShape DEF BundlesTell
    <3>6. SubSeq(writer.docs, Len(writer.docs) + 1, Len(writer.docs)) = <<>>
      BY InvShape
    <3> QED
      BY <1>1, <1>2, <3>1, <3>5, <3>6 DEF OpenBundle, BundlesTell
  <2> QED
    BY <2>1, <2>2, <2>3
<1> QED
  BY <1>7, <1>8, <1>9, <1>10, <1>11 DEF IInv

(* A step that fails takes nothing from what is stored.                    *)
LEMMA FailureKeeps ==
  ASSUME IInv, Fail, phase \in {"store", "stream"},
         WriterShape(writer'), writer'.docs = writer.docs, writer'.bundles = writer.bundles,
         writer'.start = writer.start, writer.seen \subseteq writer'.seen
  PROVE  IInv'
<1>1. UNCHANGED <<source, hasMeta, warmup, tally, next, rows, report, output>>
  BY DEF Fail, inputVars
<1>2. /\ phase' = IF phase = "store" THEN "failed" ELSE phase
      /\ write_err' = TRUE /\ todo' = <<>>
  BY DEF Fail
<1>3. IsSequence(<<>>) /\ DOMAIN <<>> = {} /\ Len(<<>>) = 0
  BY DEF IsSequence
<1>4. Shapes'
  BY <1>1, <1>2, <1>3, InvShape DEF Shapes
<1>5. Phases'
  BY <1>1, <1>2, InvShape DEF Phases
<1>6. (Inputs /\ RowsPaired /\ KeysOnce /\ Order /\ Counted)'
  BY <1>1, <1>2, <1>3, InvShape DEF Inputs, RowsPaired, KeysOnce, Order, Ordered, Entry, Counted,
     Idle
<1>7. (NoneLost /\ KeysSeen /\ OpenBundle)'
  BY <1>1, <1>2, InvShape DEF NoneLost, KeysSeen, OpenBundle
<1>8. BundlesTell'
  BY InvShape, SameParts DEF BundlesTell
<1> QED
  BY <1>4, <1>5, <1>6, <1>7, <1>8 DEF IInv

LEMMA CompressFailsKeeps == IInv /\ CompressFails => IInv'
<1> SUFFICES ASSUME IInv, CompressFails PROVE IInv'
  OBVIOUS
<1>1. Fail /\ phase \in {"store", "stream"} /\ writer' = writer
  BY DEF CompressFails
<1> QED
  BY <1>1, InvShape, FailureKeeps

LEMMA StoreFailsKeeps == IInv /\ StoreFails => IInv'
<1> SUFFICES ASSUME IInv, StoreFails PROVE IInv'
  OBVIOUS
<1>1. Fail /\ phase \in {"store", "stream"} /\ writer' = PushDocFails(writer, Head(todo))
  BY DEF StoreFails
<1>2. /\ WriterShape(writer') /\ writer'.docs = writer.docs /\ writer'.bundles = writer.bundles
      /\ writer'.start = writer.start /\ writer'.seen = writer.seen \union {Head(todo).key}
  BY <1>1, InvShape, PushFailed
<1> QED
  BY <1>1, <1>2, FailureKeeps

LEMMA SealRunFailsKeeps == IInv /\ SealRunFails => IInv'
<1> SUFFICES ASSUME IInv, SealRunFails PROVE IInv'
  OBVIOUS
<1>1. Fail /\ phase \in {"store", "stream"} /\ writer' = SealFails(writer)
  BY DEF SealRunFails
<1>2. /\ WriterShape(writer') /\ writer'.docs = writer.docs /\ writer'.bundles = writer.bundles
      /\ writer'.start = writer.start /\ writer'.seen = writer.seen
  BY <1>1, InvShape, SealFailed
<1> QED
  BY <1>1, <1>2, FailureKeeps

(* The next document of the run is stored, or one of its key is already.   *)
LEMMA StoreDocKeeps == IInv /\ StoreDoc => IInv'
<1> SUFFICES ASSUME IInv, StoreDoc PROVE IInv'
  OBVIOUS
<1> DEFINE d == Head(todo)
           docs == writer.docs
           n == Len(docs)
           l == Len(todo)
<1>1. UNCHANGED <<source, hasMeta, phase, warmup, tally, next, write_err, output>>
  BY DEF StoreDoc, inputVars
<1>2. ~Idle /\ ~Idle' /\ ~write_err /\ todo # <<>> /\ todo' = Tail(todo)
      /\ phase \in {"store", "stream"} /\ writer' = PushDoc(writer, d)
  BY <1>1, InvShape DEF StoreDoc, Phases, Idle
<1>3. l \in Nat \ {0} /\ d = todo[1] /\ IsSequence(todo') /\ Len(todo') = l - 1
      /\ (\A j \in 1..(l - 1) : todo'[j] = todo[j + 1])
      /\ DOMAIN todo = 1..l /\ DOMAIN todo' = 1..(l - 1)
  BY <1>2, InvShape, Rest, SequenceFacts
<1>4. n \in Nat /\ DOMAIN docs = 1..n /\ IsSequence(docs)
  BY InvShape
<1>5. Entry(d) /\ Run(d) = next - 1
  <2>1. 1 \in DOMAIN todo
    BY <1>3
  <2>2. Entry(todo[1]) /\ Run(todo[1]) = next - 1
    BY <2>1, InvShape DEF Order
  <2> QED
    BY <1>3, <2>2
<1>6. \A i \in 1..n : Before(docs[i], d) /\ Entry(docs[i]) /\ Run(docs[i]) < next
  <2>1. 1 \in DOMAIN todo
    BY <1>3
  <2>2. \A i \in DOMAIN docs : Before(docs[i], todo[1]) /\ Entry(docs[i]) /\ Run(docs[i]) < next
    BY <2>1, InvShape DEF Order
  <2> HIDE DEF n, docs, d
  <2> QED
    BY <1>3, <1>4, <2>2
<1>7. Phases'
  BY <1>1, <1>2, InvShape DEF Phases
(* The documents still to come, after this one.                            *)
<1>8. ASSUME NEW j \in DOMAIN todo'
      PROVE  /\ j + 1 \in DOMAIN todo /\ todo'[j] = todo[j + 1]
             /\ Entry(todo'[j]) /\ Run(todo'[j]) = next - 1 /\ Before(d, todo'[j])
             /\ \A i \in 1..n : Before(docs[i], todo'[j])
  <2>1. j \in 1..(l - 1) /\ j + 1 \in 1..l /\ 1 \in 1..l /\ 1 < j + 1
    BY <1>3
  <2>2. todo'[j] = todo[j + 1]
    BY <1>3, <2>1
  <2>3. Entry(todo[j + 1]) /\ Run(todo[j + 1]) = next - 1
    BY <1>3, <2>1, InvShape DEF Order
  <2>4. Before(todo[1], todo[j + 1])
    BY <1>3, <2>1, InvShape DEF Order, Ordered
  <2>5. \A i \in 1..n : Before(docs[i], todo[j + 1])
    BY <1>3, <1>4, <2>1, InvShape DEF Order
  <2> HIDE DEF l, n, docs, d
  <2> QED
    BY <1>3, <2>1, <2>2, <2>3, <2>4, <2>5
<1>9. Ordered(todo')
  <2> SUFFICES ASSUME NEW i \in DOMAIN todo', NEW j \in DOMAIN todo', i < j
               PROVE  Before(todo'[i], todo'[j])
    BY DEF Ordered
  <2>1. i + 1 \in DOMAIN todo /\ j + 1 \in DOMAIN todo /\ i + 1 < j + 1
    BY <1>3, <1>8
  <2>2. Before(todo[i + 1], todo[j + 1])
    BY <2>1, InvShape DEF Order, Ordered
  <2> QED
    BY <1>8, <2>2
<1>10. CASE IsDuplicate(writer, d.key)
  <2>1. /\ WriterShape(writer') /\ writer'.docs = docs /\ writer'.frames = writer.frames
        /\ writer'.seen = writer.seen /\ writer'.bundles = writer.bundles
        /\ writer'.start = writer.start
    BY <1>2, <1>10, InvShape, Collapsed
  <2>2. report' = report /\ rows' = rows
    BY <1>10 DEF StoreDoc
  <2>3. (Inputs /\ RowsPaired /\ KeysOnce /\ KeysSeen /\ Counted)'
    BY <1>1, <2>1, <2>2, InvShape DEF Inputs, RowsPaired, KeysOnce, KeysSeen, Counted, Idle
  <2>7. Shapes'
    BY <1>1, <1>3, <2>1, <2>2, InvShape DEF Shapes
  <2>8. OpenBundle'
    BY <1>1, <1>2, <2>1, InvShape DEF OpenBundle
  <2>4. BundlesTell'
    BY <2>1, InvShape, SameParts DEF BundlesTell
  <2>5. Order'
    <3>1. \A x : Entry(x)' <=> Entry(x)
      BY <1>1 DEF Entry
    <3>2. Ordered(writer'.docs)
      BY <2>1, InvShape DEF Order
    <3>3. \A j \in DOMAIN todo' : Entry(todo[j])' /\ Run(todo'[j]) = next' - 1
      BY <1>1, <1>8, <3>1
    <3>4. \A i \in DOMAIN writer'.docs : Entry(writer.docs[i])' /\ Run(writer'.docs[i]) < next'
      BY <1>1, <1>4, <1>6, <2>1, <3>1
    <3>5. \A i \in DOMAIN writer'.docs, j \in DOMAIN todo' : Before(writer'.docs[i], todo'[j])
      BY <1>4, <1>8, <2>1
    <3> QED
      BY <1>9, <3>2, <3>3, <3>4, <3>5 DEF Order
  <2>6. NoneLost'
    <3> SUFFICES ASSUME NEW r \in DOMAIN source, NEW i \in DOMAIN source[r],
                        r < next, source[r][i].ok
                 PROVE  Told(source[r][i])'
      BY <1>1, <1>2 DEF NoneLost
    <3> DEFINE e == source[r][i]
    <3>1. Told(e)
      BY <1>2, InvShape DEF NoneLost
    <3>2. CASE \E k \in DOMAIN docs : docs[k].key = e.key /\ (docs[k] = e \/ Before(docs[k], e))
      BY <1>1, <2>1, <3>2 DEF Told
    <3>3. CASE \E j \in DOMAIN todo : todo[j] = e
      <4>1. PICK j \in DOMAIN todo : todo[j] = e
        BY <3>3
      <4>2. CASE j = 1
        <5>1. PICK k \in DOMAIN docs : docs[k].key = d.key
          BY <1>2, <1>10, InvShape DEF KeysSeen, IsDuplicate
        <5>2. Before(docs[k], e) /\ docs[k].key = e.key
          BY <1>3, <1>4, <1>6, <4>1, <4>2, <5>1
        <5> QED
          BY <1>1, <2>1, <5>2 DEF Told
      <4>3. CASE j # 1
        <5>1. j - 1 \in DOMAIN todo' /\ todo'[j - 1] = e
          BY <1>3, <4>1, <4>3
        <5> QED
          BY <1>1, <5>1 DEF Told
      <4> QED
        BY <4>2, <4>3
    <3> QED
      BY <3>1, <3>2, <3>3 DEF Told
  <2> QED
    BY <1>7, <2>3, <2>4, <2>5, <2>6, <2>7, <2>8 DEF IInv
<1>11. CASE ~IsDuplicate(writer, d.key)
  <2>1. /\ WriterShape(writer') /\ writer'.docs = Append(docs, d)
        /\ writer'.frames = Append(writer.frames, d)
        /\ writer'.seen = writer.seen \union {d.key} /\ writer'.bundles = writer.bundles
        /\ writer'.start = writer.start
    BY <1>2, <1>11, InvShape, Pushed
  <2>2. /\ IsSequence(writer'.docs) /\ Len(writer'.docs) = n + 1
        /\ DOMAIN writer'.docs = 1..(n + 1)
        /\ \A i \in 1..n : writer'.docs[i] = docs[i]
        /\ writer'.docs[n + 1] = d
    <3> HIDE DEF d
    <3> QED
      BY <1>4, <2>1, Appended, SequenceFacts
  <2>3. \A i \in 1..(n + 1) : i \in 1..n \/ i = n + 1
    BY <1>4
  <2>4. report' = [exported |-> n + 1, failed |-> report.failed]
    <3>1. report = [exported |-> n, failed |-> report.failed]
      BY InvShape DEF Shapes
    <3>2. report' = [report EXCEPT !.exported = n + 1]
      BY <1>11, InvShape DEF StoreDoc
    <3> QED
      BY <3>1, <3>2
  <2>5. Shapes' /\ Counted'
    <3>1. report'.exported = Len(writer'.docs) /\ report'.failed = report.failed
      BY <2>2, <2>4
    <3>2. Shapes'
      BY <1>1, <1>3, <2>1, <2>4, InvShape DEF Shapes
    <3> QED
      BY <1>1, <3>1, <3>2, InvShape DEF Counted, Idle
  <2> DEFINE new == writer'.docs
  <2>6. RowsPaired'
    <3>1. rows' = IF hasMeta THEN Append(rows, d.id) ELSE rows
      BY <1>11 DEF StoreDoc
    <3>2. ASSUME hasMeta
          PROVE  rows' = [i \in 1..(n + 1) |-> new[i].id]
      <4>1. rows = [i \in 1..n |-> docs[i].id]
        BY <1>4, <3>2, InvShape DEF RowsPaired
      <4>2. rows' = Append(rows, d.id)
        BY <3>1, <3>2
      <4> HIDE DEF n, docs, d, new
      <4>3. Append(rows, d.id) = [i \in 1..(n + 1) |-> IF i = n + 1 THEN d.id ELSE docs[i].id]
        BY <1>4, <4>1
      <4>4. \A i \in 1..(n + 1) : (IF i = n + 1 THEN d.id ELSE docs[i].id) = new[i].id
        BY <2>2, <2>3 DEF new
      <4> QED
        BY <4>2, <4>3, <4>4
    <3> QED
      BY <1>1, <2>2, <3>1, <3>2, InvShape DEF RowsPaired
  <2>7. KeysOnce' /\ KeysSeen'
    <3>1. \A i \in 1..n : docs[i].key # d.key
      BY <1>4, <1>11, InvShape DEF KeysSeen, IsDuplicate
    <3>2. \A i, j \in 1..n : docs[i].key = docs[j].key => i = j
      BY <1>4, InvShape DEF KeysOnce
    <3>3. KeysOnce'
      <4> HIDE DEF n, docs, d
      <4> QED
        BY <2>2, <2>3, <3>1, <3>2 DEF KeysOnce
    <3>4. \A i \in 1..n : docs[i].key \in writer.seen
      BY <1>4, InvShape DEF KeysSeen
    <3>5. \A key \in writer.seen : \E i \in 1..n : docs[i].key = key
      BY <1>2, <1>4, InvShape DEF KeysSeen
    <3>6. \A i \in 1..(n + 1) : new[i].key \in writer'.seen
      <4> HIDE DEF n, docs, d
      <4> QED
        BY <2>1, <2>2, <2>3, <3>4
    <3>7. \A key \in writer'.seen : \E i \in 1..(n + 1) : new[i].key = key
      <4>1. 1..n \subseteq 1..(n + 1) /\ n + 1 \in 1..(n + 1)
        BY <1>4
      <4> HIDE DEF n, docs, d
      <4> QED
        BY <2>1, <2>2, <3>5, <4>1
    <3> QED
      BY <2>2, <3>3, <3>6, <3>7 DEF KeysSeen
  <2>8. OpenBundle'
    <3>1. writer'.start \in 0..n /\ writer.start = writer'.start
      BY <2>1, InvShape
    <3>2. writer.frames = SubSeq(docs, writer.start + 1, n)
      BY <1>2, InvShape DEF OpenBundle
    <3>3. writer'.frames = SubSeq(new, writer'.start + 1, n + 1)
      <4>1. writer.start + 1 \in 1..(n + 1)
        BY <1>4, <3>1
      <4>2. SubSeq(Append(docs, d), writer.start + 1, n + 1)
              = Append(SubSeq(docs, writer.start + 1, n), d)
        <5> HIDE DEF d
        <5> QED
          BY <1>4, <4>1, AppendedSlices
      <4> HIDE DEF n, docs, d
      <4> QED
        BY <2>1, <3>1, <3>2, <4>2 DEF new
    <3>4. \A k \in 1..n : Run(docs[k]) = next - 1 <=> k > writer.start
      BY <1>2, <1>4, InvShape DEF OpenBundle
    <3>5. ASSUME NEW k \in 1..(n + 1)
          PROVE  Run(new[k]) = next' - 1 <=> k > writer'.start
      <4>1. CASE k \in 1..n
        BY <1>1, <2>2, <3>1, <3>4, <4>1
      <4>2. CASE k = n + 1
        BY <1>1, <1>4, <1>5, <2>2, <3>1, <4>2
      <4> QED
        BY <2>3, <4>1, <4>2
    <3> HIDE DEF new
    <3> QED
      BY <1>2, <2>2, <3>3, <3>5 DEF OpenBundle, new
  <2>9. BundlesTell'
    <3>1. \A k \in 1..writer.start : Run(docs[k]) # Run(d)
      <4>1. \A k \in DOMAIN docs : Run(docs[k]) = next - 1 <=> k > writer.start
        BY <1>2, InvShape DEF OpenBundle
      <4>2. \A k \in 1..writer.start : k \in DOMAIN docs /\ ~(k > writer.start)
        BY <1>4, InvShape
      <4> QED
        BY <1>5, <4>1, <4>2
    <3> HIDE DEF d
    <3> QED
      BY <2>1, <3>1, PushKeepsParts, InvShape DEF BundlesTell
  <2>10. Order'
    <3>1. \A x : Entry(x)' <=> Entry(x)
      BY <1>1 DEF Entry
    <3>2. Ordered(new)
      <4>1. \A i, j \in 1..n : i < j => Before(docs[i], docs[j])
        BY <1>4, InvShape DEF Order, Ordered
      <4> SUFFICES ASSUME NEW i \in 1..(n + 1), NEW j \in 1..(n + 1), i < j
                   PROVE  Before(new[i], new[j])
        BY <2>2 DEF Ordered
      <4>2. i \in 1..n
        BY <1>4
      <4>3. CASE j \in 1..n
        BY <2>2, <4>1, <4>2, <4>3
      <4>4. CASE j = n + 1
        BY <1>6, <2>2, <4>2, <4>4
      <4> QED
        BY <2>3, <4>3, <4>4
    <3>3. \A j \in DOMAIN todo' : Entry(todo[j])' /\ Run(todo'[j]) = next' - 1
      BY <1>1, <1>8, <3>1
    <3>4. ASSUME NEW i \in 1..(n + 1)
          PROVE  /\ Entry(new[i]) /\ Run(new[i]) < next
                 /\ \A j \in DOMAIN todo' : Before(new[i], todo'[j])
      <4>1. CASE i \in 1..n
        BY <1>6, <1>8, <2>2, <4>1
      <4>2. CASE i = n + 1
        <5>1. next - 1 < next
          BY InvShape
        <5> QED
          BY <1>5, <1>8, <2>2, <4>2, <5>1
      <4> QED
        BY <2>3, <4>1, <4>2
    <3> QED
      BY <1>1, <1>9, <2>2, <3>1, <3>2, <3>3, <3>4 DEF Order
  <2>11. NoneLost'
    <3> SUFFICES ASSUME NEW r \in DOMAIN source, NEW i \in DOMAIN source[r],
                        r < next, source[r][i].ok
                 PROVE  Told(source[r][i])'
      BY <1>1, <1>2 DEF NoneLost
    <3> DEFINE e == source[r][i]
    <3>1. Told(e)
      BY <1>2, InvShape DEF NoneLost
    <3>2. CASE \E k \in DOMAIN docs : docs[k].key = e.key /\ (docs[k] = e \/ Before(docs[k], e))
      <4>1. PICK k \in 1..n : docs[k].key = e.key /\ (docs[k] = e \/ Before(docs[k], e))
        BY <1>4, <3>2
      <4>2. k \in DOMAIN new /\ new[k] = docs[k]
        BY <1>4, <2>2
      <4> QED
        BY <1>1, <4>1, <4>2 DEF Told
    <3>3. CASE \E j \in DOMAIN todo : todo[j] = e
      <4>1. PICK j \in DOMAIN todo : todo[j] = e
        BY <3>3
      <4>2. CASE j = 1
        <5>1. n + 1 \in DOMAIN new /\ new[n + 1] = e
          BY <1>3, <1>4, <2>2, <4>1, <4>2
        <5> QED
          BY <1>1, <5>1 DEF Told
      <4>3. CASE j # 1
        <5>1. j - 1 \in DOMAIN todo' /\ todo'[j - 1] = e
          BY <1>3, <4>1, <4>3
        <5> QED
          BY <1>1, <5>1 DEF Told
      <4> QED
        BY <4>2, <4>3
    <3> QED
      BY <3>1, <3>2, <3>3 DEF Told
  <2>12. Inputs'
    BY <1>1, InvShape DEF Inputs
  <2> QED
    BY <1>7, <2>5, <2>6, <2>7, <2>8, <2>9, <2>10, <2>11, <2>12 DEF IInv
<1> QED
  BY <1>10, <1>11

-----------------------------------------------------------------------------
(* The invariant, and what it says of the archive that is published.       *)
LEMMA InvSteps == IInv /\ [Next]_vars => IInv'
<1> SUFFICES ASSUME IInv, [Next]_vars PROVE IInv'
  OBVIOUS
<1>1. CASE UNCHANGED vars
  BY <1>1 DEF vars, IInv, Inputs, Shapes, Phases, Idle, RowsPaired, Order, Entry, NoneLost, Told,
     KeysOnce, KeysSeen, OpenBundle, BundlesTell, Counted
<1>2. CASE Next
  BY <1>2, ParseWarmupKeeps, TrainKeeps, TakeRunKeeps, StoreDocKeeps, CompressFailsKeeps,
     StoreFailsKeeps, SealRunKeeps, SealRunFailsKeeps, EndPhaseKeeps, FinishArchiveKeeps,
     FinishFailsKeeps DEF Next
<1> QED
  BY <1>1, <1>2

(* The inductive invariant: at every step of every conversion the rows are *)
(* those of the documents, the bundles part them by run, and nothing of    *)
(* the runs taken is lost before a write fails.                            *)
THEOREM SessionInvariant == Spec => []IInv
  BY InvAtFirst, InvSteps, PTL DEF Spec

(* The row stream is 1:1 with the stored documents, after every step and   *)
(* every failed write.                                                     *)
THEOREM RowsStayPaired == Spec => []RowsPaired
<1>1. IInv => RowsPaired
  BY DEF IInv
<1> QED
  BY <1>1, SessionInvariant, PTL

(* The check of the rows before the archive is renamed always passes.      *)
THEOREM RowsAreAccepted == Spec => []FinishAccepts
<1>1. IInv => FinishAccepts
  BY NothingLeft DEF FinishAccepts
<1> QED
  BY <1>1, SessionInvariant, PTL

LEMMA InvGivesFirstWins == IInv => FirstWins
<1> SUFFICES ASSUME IInv, output = "new" PROVE FirstWins
  BY DEF FirstWins
<1>1. ~write_err /\ todo = <<>> /\ next > Len(source)
  BY InvShape DEF Phases
<1>2. Ordered(writer.docs) /\ \A k \in DOMAIN writer.docs : Entry(writer.docs[k])
  BY InvShape DEF Order
<1>3. ASSUME NEW d, Entry(d)
      PROVE  /\ d = source[Run(d)][Place(d)]
             /\ \E k \in DOMAIN writer.docs :
                  /\ writer.docs[k].key = d.key
                  /\ writer.docs[k] = d \/ Before(writer.docs[k], d)
  <2>1. Run(d) < next
    BY <1>1, <1>3, InvShape DEF Entry
  <2>2. Told(d)
    BY <1>1, <1>3, <2>1, InvShape DEF Entry, NoneLost
  <2> QED
    BY <1>1, <1>3, <2>2 DEF Told, Entry
<1>4. ASSUME NEW r \in DOMAIN source, NEW i \in DOMAIN source[r], source[r][i].ok
      PROVE  Entry(source[r][i])
  BY <1>4, InvShape DEF Inputs, Entry, Run, Place
<1>5. ASSUME NEW d, NEW e, Entry(d), Entry(e), Before(d, e)
      PROVE  ~Before(e, d)
  <2>1. Run(d) \in Nat /\ Run(e) \in Nat /\ Place(d) \in Nat /\ Place(e) \in Nat
    BY <1>5, InvShape, SequenceFacts DEF Entry, Inputs
  <2> QED
    BY <1>5, <2>1 DEF Before
<1>6. ASSUME NEW k \in DOMAIN writer.docs
      PROVE  First(writer.docs[k])
  <2> DEFINE d == writer.docs[k]
  <2> SUFFICES ASSUME NEW r \in DOMAIN source, NEW i \in DOMAIN source[r],
                      source[r][i].ok, source[r][i].key = d.key, Before(source[r][i], d)
               PROVE  FALSE
    BY DEF First
  <2> DEFINE e == source[r][i]
  <2>1. Entry(e) /\ Entry(d)
    BY <1>2, <1>4
  <2>2. PICK j \in DOMAIN writer.docs :
          /\ writer.docs[j].key = e.key
          /\ writer.docs[j] = e \/ Before(writer.docs[j], e)
    BY <1>3, <2>1
  <2>3. j = k
    BY <2>2, InvShape DEF KeysOnce
  <2> HIDE DEF e, d
  <2>4. d = e \/ Before(d, e)
    BY <2>2, <2>3 DEF d
  <2>5. Before(e, d)
    BY DEF e, d
  <2> QED
    BY <1>5, <2>1, <2>4, <2>5
<1>7. ASSUME NEW r \in DOMAIN source, NEW i \in DOMAIN source[r],
             source[r][i].ok, First(source[r][i])
      PROVE  \E k \in DOMAIN writer.docs : writer.docs[k] = source[r][i]
  <2> DEFINE d == source[r][i]
  <2>1. Entry(d)
    BY <1>4, <1>7
  <2>2. PICK k \in DOMAIN writer.docs :
          /\ writer.docs[k].key = d.key
          /\ writer.docs[k] = d \/ Before(writer.docs[k], d)
    BY <1>3, <2>1
  <2>3. Entry(writer.docs[k])
    BY <1>2
  <2> DEFINE e == writer.docs[k]
  <2>4. /\ Run(e) \in DOMAIN source /\ Place(e) \in DOMAIN source[Run(e)]
        /\ e = source[Run(e)][Place(e)] /\ e.ok
    BY <2>3 DEF Entry
  <2>5. ~Before(e, d)
    BY <1>7, <2>2, <2>4 DEF First
  <2> QED
    BY <2>2, <2>5
<1> QED
  BY <1>2, <1>6, <1>7 DEF FirstWins

(* First wins, across runs and whichever of them were warm-up: the archive *)
(* that is published has the first document of every key and no other, in  *)
(* the order of the input, each in its run's bundle with its text and its  *)
(* row, and the report adds up.                                            *)
THEOREM PublishedIsWhole == Spec => []PublishedWhole
<1>1. IInv => PublishedWhole
  <2> SUFFICES ASSUME IInv, output = "new" PROVE PublishedWhole
    BY DEF PublishedWhole
  <2>1. phase = "done" /\ Idle /\ ~write_err /\ next > Len(source)
    BY InvShape DEF Phases
  <2>2. writer.start = Len(writer.docs)
    BY <2>1, InvShape DEF OpenBundle
  <2>3. next - 1 = Len(source)
    BY <2>1, InvShape DEF Counted
  <2>4. report.failed = DroppedOf(source, Len(source))
    BY <2>1, <2>3, InvShape DEF Counted
  <2> QED
    BY <2>1, <2>2, <2>4, InvShape, InvGivesFirstWins DEF PublishedWhole
<1> QED
  BY <1>1, SessionInvariant, PTL

=============================================================================
