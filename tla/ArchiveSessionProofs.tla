------------------------ MODULE ArchiveSessionProofs ------------------------
(***************************************************************************)
(* Proofs about ArchiveSession, for any keys, any size of a bundle, any    *)
(* schema and any number of calls.                                         *)
(***************************************************************************)
EXTENDS KeyFilter, ListsProofs

-----------------------------------------------------------------------------
(* The values of the model.                                                *)

Docs == [key : Keys, id : Nat, text : Nat]
Bundles == [n : Nat, frames : Seq(Docs)]
WriterRecords == [docs : Seq(Docs), bundles : Seq(Bundles), frames : Seq(Docs),
                  start : Nat, seen : SUBSET Keys, collapsed : Nat]
Writers == {w \in WriterRecords : w.start <= Len(w.docs)}
Tables == Seq(Seq(Nat))
Histories == Seq([doc : Docs, row : Seq(Nat)])

Builders == [entries : Seq(Docs), seen : SUBSET Keys, cols : Tables,
             calls : Seq(Docs), told : Histories]
Archives == [bundles : Seq(Seq(Docs)), cols : Tables, told : Histories]
Files == [docs : Seq(Docs), bundles : Seq(Bundles), cols : Tables, index : Seq(Nat),
          told : Histories, lost : BOOLEAN, short : BOOLEAN]
Appenders == [writer : Writers, cols : Tables, since_seal : Nat, told : Histories,
              lost : BOOLEAN, short : BOOLEAN, slipped : BOOLEAN]

Types ==
  /\ builder # None => builder \in Builders
  /\ memory # None => memory \in Archives
  /\ file # None => file \in Files
  /\ appender # None => appender \in Appenders
  /\ adds \in Nat

-----------------------------------------------------------------------------
(* The inductive invariant.                                                *)

Distinct(docs) == \A i, j \in 1..Len(docs) : docs[i].key = docs[j].key => i = j

(* Each document is the one that was told of at its place.                 *)
Answered(docs, told) ==
  /\ Len(docs) = Len(told)
  /\ \A i \in 1..Len(docs) : docs[i] = told[i].doc /\ docs[i].text = docs[i].id

(* Refused rows leave columns that are too long, the first the longest of  *)
(* all.  When it is not too long there were none, and the rows are those   *)
(* that were told of.                                                      *)
RowsKept(cols, told) ==
  /\ \A i \in 1..Len(told) : Len(told[i].row) = Len(cols)
  /\ \A f \in 1..Len(cols) : Len(told) <= Len(cols[f]) /\ Len(cols[f]) <= Len(cols[1])
  /\ \A f \in 1..Len(cols) :
       Len(cols[1]) = Len(told) => \A i \in 1..Len(told) : cols[f][i] = told[i].row[f]

(* Of a file and an appender: each document has its row, or else the last  *)
(* column has fewer rows than there are documents, and goes on to.         *)
RowsTold(cols, told, short) ==
  IF short THEN cols # NoTable /\ Len(cols[Len(cols)]) < Len(told)
  ELSE RowsKept(cols, told) /\ (cols # NoTable => Len(cols[1]) = Len(told))

(* The bundles are parts of the documents, one after the other; f is a     *)
(* file or a writer.                                                       *)
Parted(f, end) ==
  /\ Start(f, Len(f.bundles) + 1) = end
  /\ \A b \in 1..Len(f.bundles) : f.bundles[b].n > 0

(* Each bundle has the text of its own documents.                          *)
FramesMatch(f) ==
  \A b \in 1..Len(f.bundles) :
    /\ Len(f.bundles[b].frames) = f.bundles[b].n
    /\ \A slot \in 1..f.bundles[b].n : f.bundles[b].frames[slot] = f.docs[Start(f, b) + slot]

BundleBroken(f) == \E b \in 1..Len(f.bundles) : Len(f.bundles[b].frames) # f.bundles[b].n

WriterSound(w) ==
  /\ Distinct(w.docs)
  /\ \A i \in 1..Len(w.docs) : w.docs[i].key \in w.seen
  /\ Parted(w, w.start)

WriterWhole(w) ==
  FramesMatch(w) /\ w.frames = SubSeq(w.docs, w.start + 1, Len(w.docs))

(* Full bundles, and then the rest.                                        *)
InChunks(w) ==
  /\ w.start = BundleCap * Len(w.bundles)
  /\ Len(w.docs) - w.start < BundleCap
  /\ \A b \in 1..Len(w.bundles) :
       w.bundles[b].frames = SubSeq(w.docs, BundleCap * (b - 1) + 1, BundleCap * b)

(* The documents of a builder, written one by one.                         *)
Chunked(w, b) ==
  /\ w \in Writers /\ WriterSound(w) /\ WriterWhole(w) /\ InChunks(w)
  /\ w.docs = b.entries /\ w.seen = b.seen

BuilderGood(b) ==
  /\ Answered(b.entries, b.told)
  /\ RowsKept(b.cols, b.told)
  /\ Chunked(WriteEntries(b.entries), b)
  /\ Chunked(PackDocs(b.calls), b)

(* The builder is the first to write the path.                             *)
BuilderInv ==
  builder # None =>
    memory = None /\ file = None /\ appender = None /\ BuilderGood(builder)

(* What an archive in memory is, saved.                                    *)
MemoryGood(m) ==
  LET w == SaveBundles(m.bundles) IN
    /\ w \in Writers /\ WriterSound(w) /\ WriterWhole(w)
    /\ w.start = Len(w.docs)
    /\ Answered(w.docs, m.told)
    /\ RowsKept(m.cols, m.told)

MemoryInv == memory # None => MemoryGood(memory)

FileGood(f) ==
  /\ Distinct(f.docs)
  /\ Parted(f, Len(f.docs))
  /\ IF f.lost THEN BundleBroken(f) ELSE FramesMatch(f)
  /\ f.index = SortIndex(f.docs)
  /\ Answered(f.docs, f.told)
  /\ RowsTold(f.cols, f.told, f.short)

FileInv == file # None => FileGood(file)

(* A text that was lost shows in a bundle or in the one that is open.      *)
WriterBroken(w) == BundleBroken(w) \/ Len(w.frames) < Len(w.docs) - w.start

(* The documents of the bundle that is open are counted, and the new       *)
(* bundles are no longer than they should be.                              *)
Counted(w, since_seal, f) ==
  /\ since_seal = Len(w.docs) - w.start
  /\ since_seal < BundleCap
  /\ \A b \in (Len(f.bundles) + 1)..Len(w.bundles) : w.bundles[b].n <= BundleCap

(* Neither holds of the count after a failed seal or a row refused late.   *)
AppenderGood(a, f) ==
  LET w == a.writer IN
    /\ IsPrefix(f.docs, w.docs) /\ IsPrefix(f.bundles, w.bundles)
    /\ WriterSound(w)
    /\ Answered(w.docs, a.told)
    /\ RowsTold(a.cols, a.told, a.short)
    /\ IF a.lost THEN WriterBroken(w) ELSE WriterWhole(w)
    /\ ~a.lost /\ ~a.short => Counted(w, a.since_seal, f)

(* An append goes on from the file.                                        *)
AppenderInv == appender # None => file # None /\ AppenderGood(appender, file)

IInv == Types /\ BuilderInv /\ MemoryInv /\ FileInv /\ AppenderInv

-----------------------------------------------------------------------------
(* Where bundles start.                                                    *)

CountsUp(at, f, l) == at[1] = 0 /\ \A c \in 1..l : at[c + 1] = at[c] + f.bundles[c].n

LEMMA StartAt ==
  ASSUME NEW f, NEW l \in Nat, Len(f.bundles) = l, NEW at, CountsUp(at, f, l)
  PROVE  \A b \in 1..(l + 1) : Start(f, b) = at[b]
<1> DEFINE Right(G) == G = [c \in 1..(Len(f.bundles) + 1) |->
                              IF c = 1 THEN 0 ELSE G[c - 1] + f.bundles[c - 1].n]
           H == [c \in 1..(l + 1) |-> at[c]]
           G == CHOOSE G : Right(G)
<1>a. at[1] = 0 /\ \A c \in 1..l : at[c + 1] = at[c] + f.bundles[c].n
  BY DEF CountsUp
<1>1. Right(H)
  <2> DEFINE R == [c \in 1..(l + 1) |-> IF c = 1 THEN 0 ELSE H[c - 1] + f.bundles[c - 1].n]
  <2>1. ASSUME NEW c \in 1..(l + 1)
        PROVE  H[c] = R[c]
    <3>1. CASE c = 1
      BY <1>a, <3>1
    <3>2. CASE c # 1
      <4>1. PICK d \in 1..l : c = d + 1
        BY <3>2
      <4>2. at[d + 1] = at[d] + f.bundles[d].n /\ d \in 1..(l + 1) /\ c - 1 = d
        BY <1>a, <4>1
      <4>3. R[c] = H[d] + f.bundles[d].n
        BY <3>2, <4>2
      <4>4. H[d] = at[d] /\ H[c] = at[d + 1]
        BY <4>1, <4>2
      <4> QED
        BY <4>2, <4>3, <4>4
    <3> QED
      BY <3>1, <3>2
  <2>2. H = R
    BY <2>1
  <2> HIDE DEF H
  <2> QED
    BY <2>2
<1>2. Right(G)
  <2> HIDE DEF Right, H
  <2> QED
    BY <1>1
<1>3. \A c \in 1..(l + 1) : G[c] = IF c = 1 THEN 0 ELSE G[c - 1] + f.bundles[c - 1].n
  <2> DEFINE R == [c \in 1..(l + 1) |-> IF c = 1 THEN 0 ELSE G[c - 1] + f.bundles[c - 1].n]
  <2>1. \A c \in 1..(l + 1) : R[c] = IF c = 1 THEN 0 ELSE G[c - 1] + f.bundles[c - 1].n
    OBVIOUS
  <2>2. G = R
    BY <1>2
  <2> HIDE DEF R, G
  <2> QED
    BY <2>1, <2>2
<1>4. \A b : Start(f, b) = G[b]
  BY DEF Start
<1> HIDE DEF G
<1> DEFINE T == {c \in Nat : c \in 1..(l + 1) /\ G[c] # at[c]}
<1>5. T = {}
  <2>1. SUFFICES ASSUME T # {} PROVE FALSE
    OBVIOUS
  <2>2. PICK m \in T : \A n \in T : m <= n
    <3>1. T \in SUBSET Nat
      OBVIOUS
    <3> HIDE DEF T
    <3> QED
      BY <2>1, <3>1, Least
  <2>3. m \in 1..(l + 1) /\ G[m] # at[m]
    OBVIOUS
  <2>4. m # 1
    BY <1>a, <1>3, <2>3
  <2>5. PICK d \in 1..l : m = d + 1
    <3> HIDE DEF T
    <3>1. m - 1 \in 1..l /\ m = (m - 1) + 1
      BY <2>3, <2>4
    <3> QED
      BY <3>1
  <2>6. d \in Nat /\ d \in 1..(l + 1) /\ ~(m <= d) /\ m - 1 = d
    BY <2>5
  <2>7. G[d] = at[d]
    BY <2>2, <2>6
  <2>8. G[m] = G[d] + f.bundles[d].n
    BY <1>3, <2>3, <2>4, <2>6
  <2> QED
    BY <1>a, <2>3, <2>5, <2>7, <2>8
<1> QED
  BY <1>4, <1>5

LEMMA Starts ==
  ASSUME NEW f, f.bundles \in Seq(Bundles)
  PROVE  /\ Start(f, 1) = 0
         /\ \A b \in 1..Len(f.bundles) : Start(f, b + 1) = Start(f, b) + f.bundles[b].n
         /\ \A b \in 1..(Len(f.bundles) + 1) : Start(f, b) \in Nat
<1> DEFINE l == Len(f.bundles)
           g == [i \in 1..l |-> [v \in Nat |-> v + f.bundles[i].n]]
<1>1. l \in Nat /\ \A i \in 1..l : f.bundles[i].n \in Nat
  <2>1. l \in Nat /\ \A i \in 1..l : f.bundles[i] \in Bundles
    OBVIOUS
  <2> QED
    BY <2>1 DEF Bundles
<1>2. g \in [1..l -> [Nat -> Nat]]
  BY <1>1
<1>3. PICK h \in [0..l -> Nat] : h[0] = 0 /\ \A i \in 1..l : h[i] = g[i][h[i - 1]]
  <2>1. l \in Nat /\ 0 \in Nat
    BY <1>1
  <2> HIDE DEF g, l
  <2>2. PICK h : Iterate(h, Nat, 0, l, g)
    BY <1>2, <2>1, Iterates
  <2> QED
    BY <2>2 DEF Iterate
<1>4. ASSUME NEW i \in 1..l
      PROVE  h[i] = h[i - 1] + f.bundles[i].n
  <2>1. h[i - 1] \in Nat
    BY <1>1
  <2> QED
    BY <1>3, <2>1
<1> DEFINE at == [c \in 1..(l + 1) |-> h[c - 1]]
<1>5. at[1] = 0 /\ \A c \in 1..l : at[c + 1] = at[c] + f.bundles[c].n
  <2>1. at[1] = 0
    BY <1>1, <1>3
  <2>2. ASSUME NEW c \in 1..l
        PROVE  at[c + 1] = at[c] + f.bundles[c].n
    <3>1. c \in 1..(l + 1) /\ c + 1 \in 1..(l + 1) /\ c + 1 - 1 = c
      BY <1>1
    <3>2. at[c + 1] = h[c] /\ at[c] = h[c - 1]
      BY <3>1
    <3> QED
      BY <1>4, <3>2
  <2> QED
    BY <2>1, <2>2
<1>6. \A c \in 1..(l + 1) : at[c] \in Nat
  BY <1>1, <1>3
<1> HIDE DEF at
<1>7. \A b \in 1..(l + 1) : Start(f, b) = at[b]
  <2>1. l \in Nat /\ Len(f.bundles) = l /\ CountsUp(at, f, l)
    BY <1>1, <1>5 DEF CountsUp
  <2> HIDE DEF l
  <2> QED
    BY <2>1, StartAt
<1>8. 1 \in 1..(l + 1) /\ \A b \in 1..l : b \in 1..(l + 1) /\ b + 1 \in 1..(l + 1)
  BY <1>1
<1> QED
  BY <1>5, <1>6, <1>7, <1>8

(* What comes after a bundle does not move it.                             *)
LEMMA StartsStay ==
  ASSUME NEW f, NEW h, f.bundles \in Seq(Bundles), h.bundles \in Seq(Bundles),
         Len(f.bundles) <= Len(h.bundles),
         \A b \in 1..Len(f.bundles) : h.bundles[b] = f.bundles[b]
  PROVE  \A b \in 1..(Len(f.bundles) + 1) : Start(h, b) = Start(f, b)
<1> DEFINE l == Len(f.bundles)
           T == {c \in Nat : c \in 1..(l + 1) /\ Start(h, c) # Start(f, c)}
<1>1. SUFFICES ASSUME T # {} PROVE FALSE
  OBVIOUS
<1>2. PICK m \in T : \A n \in T : m <= n
  <2>1. T \in SUBSET Nat
    OBVIOUS
  <2> HIDE DEF T
  <2> QED
    BY <1>1, <2>1, Least
<1>3. m \in 1..(l + 1) /\ Start(h, m) # Start(f, m) /\ l \in Nat
  OBVIOUS
<1>4. m # 1
  BY <1>3, Starts
<1>5. PICK d \in 1..l : m = d + 1
  <2> HIDE DEF T
  <2>1. m - 1 \in 1..l /\ m = (m - 1) + 1
    BY <1>3, <1>4
  <2> QED
    BY <2>1
<1>6. d \in Nat /\ d \in 1..(l + 1) /\ ~(m <= d) /\ d \in 1..Len(h.bundles)
  BY <1>5
<1>7. Start(h, d) = Start(f, d)
  BY <1>2, <1>6
<1>8. Start(h, d + 1) = Start(h, d) + h.bundles[d].n
  BY <1>6, Starts
<1>9. Start(f, d + 1) = Start(f, d) + f.bundles[d].n
  BY Starts
<1> QED
  BY <1>3, <1>5, <1>7, <1>8, <1>9

-----------------------------------------------------------------------------
(* The loops that write documents: each gives what its steps lead to.      *)

LEMMA WriterFields ==
  ASSUME NEW w \in Writers
  PROVE  /\ w = [docs |-> w.docs, bundles |-> w.bundles, frames |-> w.frames,
                start |-> w.start, seen |-> w.seen, collapsed |-> w.collapsed]
         /\ w.docs \in Seq(Docs) /\ w.bundles \in Seq(Bundles) /\ w.frames \in Seq(Docs)
         /\ w.start \in Nat /\ w.seen \subseteq Keys /\ w.collapsed \in Nat
         /\ w.start <= Len(w.docs) /\ Len(w.docs) \in Nat /\ Len(w.bundles) \in Nat
         /\ Len(w.frames) \in Nat
<1>1. w \in WriterRecords /\ w.start <= Len(w.docs)
  BY DEF Writers
<1> HIDE DEF Docs, Bundles
<1> QED
  BY <1>1 DEF WriterRecords

LEMMA WriterMade ==
  ASSUME NEW docs \in Seq(Docs), NEW bundles \in Seq(Bundles), NEW frames \in Seq(Docs),
         NEW start \in Nat, NEW seen \in SUBSET Keys, NEW collapsed \in Nat,
         start <= Len(docs)
  PROVE  [docs |-> docs, bundles |-> bundles, frames |-> frames, start |-> start,
          seen |-> seen, collapsed |-> collapsed] \in Writers
BY DEF Writers, WriterRecords

LEMMA NewWriterTypes ==
  NewWriter \in Writers
BY DEF NewWriter, Writers, WriterRecords

LEMMA Duplicate ==
  ASSUME NEW w \in Writers, NEW d, d.key \in w.seen
  PROVE  PushDoc(w, d) = [docs |-> w.docs, bundles |-> w.bundles, frames |-> w.frames,
                          start |-> w.start, seen |-> w.seen, collapsed |-> w.collapsed + 1]
<1> DEFINE v == PushDoc(w, d)
<1>1. v = [w EXCEPT !.collapsed = w.collapsed + 1]
  BY DEF PushDoc, IsDuplicate
<1> HIDE DEF v
<1>2. v = [docs |-> w.docs, bundles |-> w.bundles, frames |-> w.frames,
           start |-> w.start, seen |-> w.seen, collapsed |-> w.collapsed + 1]
  BY <1>1, WriterFields
<1> QED
  BY <1>2 DEF v

LEMMA Pushed ==
  ASSUME NEW w \in Writers, NEW d, d.key \notin w.seen
  PROVE  PushDoc(w, d) = [docs |-> Append(w.docs, d), bundles |-> w.bundles,
                          frames |-> Append(w.frames, d), start |-> w.start,
                          seen |-> w.seen \cup {d.key}, collapsed |-> w.collapsed]
<1> DEFINE v == PushDoc(w, d)
<1>0. w = [docs |-> w.docs, bundles |-> w.bundles, frames |-> w.frames,
           start |-> w.start, seen |-> w.seen, collapsed |-> w.collapsed]
  BY WriterFields
<1>1. v = [w EXCEPT !.docs = Append(w.docs, d), !.frames = Append(w.frames, d),
                    !.seen = w.seen \cup {d.key}]
  BY DEF PushDoc, IsDuplicate
<1> HIDE DEF v
<1>2. v = [docs |-> Append(w.docs, d), bundles |-> w.bundles,
           frames |-> Append(w.frames, d), start |-> w.start,
           seen |-> w.seen \cup {d.key}, collapsed |-> w.collapsed]
  BY <1>0, <1>1
<1> QED
  BY <1>2, Zenon DEF v

LEMMA Sealed ==
  ASSUME NEW w \in Writers, Len(w.docs) # w.start
  PROVE  Seal(w) = [docs |-> w.docs,
                    bundles |-> Append(w.bundles, [n |-> Len(w.docs) - w.start,
                                                   frames |-> w.frames]),
                    frames |-> <<>>, start |-> Len(w.docs), seen |-> w.seen,
                    collapsed |-> w.collapsed]
<1> DEFINE v == Seal(w)
           bundles == Append(w.bundles, [n |-> Len(w.docs) - w.start, frames |-> w.frames])
<1>0. w = [docs |-> w.docs, bundles |-> w.bundles, frames |-> w.frames,
           start |-> w.start, seen |-> w.seen, collapsed |-> w.collapsed]
  BY WriterFields
<1>1. v = [w EXCEPT !.bundles = bundles, !.frames = <<>>, !.start = Len(w.docs)]
  BY DEF Seal
<1> HIDE DEF v, bundles
<1>2. v = [docs |-> w.docs, bundles |-> bundles, frames |-> <<>>,
           start |-> Len(w.docs), seen |-> w.seen, collapsed |-> w.collapsed]
  BY <1>0, <1>1
<1> QED
  BY <1>2, Zenon DEF v, bundles

LEMMA PushTypes ==
  ASSUME NEW w \in Writers, NEW d \in Docs
  PROVE  PushDoc(w, d) \in Writers
<1>1. d.key \in Keys
  BY DEF Docs
<1>2. CASE d.key \in w.seen
  <2>1. /\ w.docs \in Seq(Docs) /\ w.bundles \in Seq(Bundles) /\ w.frames \in Seq(Docs)
        /\ w.start \in Nat /\ w.seen \in SUBSET Keys /\ (w.collapsed + 1) \in Nat
        /\ w.start <= Len(w.docs)
    BY WriterFields
  <2>2. [docs |-> w.docs, bundles |-> w.bundles, frames |-> w.frames, start |-> w.start,
         seen |-> w.seen, collapsed |-> w.collapsed + 1] \in Writers
    BY ONLY <2>1, WriterMade
  <2> QED
    BY <1>2, <2>2, Duplicate
<1>3. CASE d.key \notin w.seen
  <2>1. /\ Append(w.docs, d) \in Seq(Docs) /\ w.bundles \in Seq(Bundles)
        /\ Append(w.frames, d) \in Seq(Docs)
        /\ w.start \in Nat /\ (w.seen \cup {d.key}) \in SUBSET Keys /\ w.collapsed \in Nat
        /\ w.start <= Len(Append(w.docs, d))
    BY <1>1, WriterFields
  <2>2. [docs |-> Append(w.docs, d), bundles |-> w.bundles, frames |-> Append(w.frames, d),
         start |-> w.start, seen |-> w.seen \cup {d.key}, collapsed |-> w.collapsed] \in Writers
    BY ONLY <2>1, WriterMade
  <2> QED
    BY <1>3, <2>2, Pushed
<1> QED
  BY <1>2, <1>3

LEMMA SealedDocs ==
  ASSUME NEW w \in Writers
  PROVE  Seal(w).docs = w.docs /\ Seal(w).seen = w.seen
<1>1. CASE Len(w.docs) = w.start
  BY <1>1 DEF Seal
<1>2. CASE Len(w.docs) # w.start
  <2> DEFINE v == Seal(w)
  <2>1. v = [docs |-> w.docs,
             bundles |-> Append(w.bundles, [n |-> Len(w.docs) - w.start,
                                            frames |-> w.frames]),
             frames |-> <<>>, start |-> Len(w.docs), seen |-> w.seen,
             collapsed |-> w.collapsed]
    BY <1>2, Sealed
  <2> HIDE DEF v
  <2>2. v.docs = w.docs /\ v.seen = w.seen
    BY <2>1
  <2> QED
    BY <2>2 DEF v
<1> QED
  BY <1>1, <1>2

LEMMA SealTypes ==
  ASSUME NEW w \in Writers
  PROVE  Seal(w) \in Writers
<1>1. CASE Len(w.docs) = w.start
  BY <1>1 DEF Seal
<1>2. CASE Len(w.docs) # w.start
  <2> DEFINE b == [n |-> Len(w.docs) - w.start, frames |-> w.frames]
  <2>1. Len(w.docs) - w.start \in Nat
    BY WriterFields
  <2>2. b \in Bundles
    BY <2>1, WriterFields DEF Bundles
  <2> HIDE DEF b
  <2>3. /\ w.docs \in Seq(Docs) /\ Append(w.bundles, b) \in Seq(Bundles)
        /\ <<>> \in Seq(Docs)
        /\ Len(w.docs) \in Nat /\ w.seen \in SUBSET Keys /\ w.collapsed \in Nat
        /\ Len(w.docs) <= Len(w.docs)
    BY <2>2, WriterFields
  <2>4. [docs |-> w.docs, bundles |-> Append(w.bundles, b), frames |-> <<>>,
         start |-> Len(w.docs), seen |-> w.seen, collapsed |-> w.collapsed] \in Writers
    BY ONLY <2>3, WriterMade
  <2> QED
    BY <1>2, <2>4, Sealed DEF b
<1> QED
  BY <1>1, <1>2

(* A document of a builder. *)
WriteStep(w, docs, i) ==
  LET pushed == PushDoc(w, docs[i]) IN
  IF i % BundleCap = 0 THEN Seal(pushed) ELSE pushed

WritesUp(f, docs, n) ==
  f[0] = NewWriter /\ \A i \in 1..n : f[i] = WriteStep(f[i - 1], docs, i)

LEMMA WriteAt ==
  ASSUME NEW docs, NEW n \in Nat, Len(docs) = n, NEW f, WritesUp(f, docs, n)
  PROVE  WriteEntries(docs) = f[n]
<1> DEFINE Right(G) == G = [i \in 0..Len(docs) |->
                              IF i = 0 THEN NewWriter ELSE WriteStep(G[i - 1], docs, i)]
           H == [i \in 0..n |-> f[i]]
           G == CHOOSE G : Right(G)
<1>1. f[0] = NewWriter /\ \A i \in 1..n : f[i] = WriteStep(f[i - 1], docs, i)
  BY DEF WritesUp
<1>2. Right(H)
  <2> DEFINE R == [i \in 0..n |-> IF i = 0 THEN NewWriter ELSE WriteStep(H[i - 1], docs, i)]
  <2>1. ASSUME NEW i \in 0..n
        PROVE  H[i] = R[i]
    <3>1. CASE i = 0
      BY <1>1, <3>1
    <3>2. CASE i # 0
      <4>1. i \in 1..n /\ i - 1 \in 0..n
        BY <3>2
      <4>2. H[i - 1] = f[i - 1] /\ H[i] = f[i]
        BY <4>1
      <4>3. R[i] = WriteStep(f[i - 1], docs, i)
        BY <3>2, <4>2
      <4> QED
        BY <1>1, <4>1, <4>2, <4>3
    <3> QED
      BY <3>1, <3>2
  <2>2. H = R
    BY <2>1
  <2> HIDE DEF H
  <2> QED
    BY <2>2
<1>3. Right(G)
  <2> HIDE DEF Right, H
  <2> QED
    BY <1>2
<1>4. \A i \in 0..n : G[i] = IF i = 0 THEN NewWriter ELSE WriteStep(G[i - 1], docs, i)
  <2> DEFINE R == [i \in 0..n |-> IF i = 0 THEN NewWriter ELSE WriteStep(G[i - 1], docs, i)]
  <2>1. \A i \in 0..n : R[i] = IF i = 0 THEN NewWriter ELSE WriteStep(G[i - 1], docs, i)
    OBVIOUS
  <2>2. G = R
    BY <1>3
  <2> HIDE DEF R, G
  <2> QED
    BY <2>1, <2>2
<1>5. WriteEntries(docs) = G[n]
  BY DEF WriteEntries, WriteStep
<1> HIDE DEF G
<1> DEFINE T == {i \in Nat : i <= n /\ G[i] # f[i]}
<1>6. T = {}
  <2>1. SUFFICES ASSUME T # {} PROVE FALSE
    OBVIOUS
  <2>2. PICK m \in T : \A i \in T : m <= i
    <3>1. T \in SUBSET Nat
      OBVIOUS
    <3> HIDE DEF T
    <3> QED
      BY <2>1, <3>1, Least
  <2>3. m \in Nat /\ m <= n /\ G[m] # f[m]
    OBVIOUS
  <2>4. m # 0
    BY <1>1, <1>4, <2>3
  <2>5. m \in 1..n /\ m - 1 \in Nat /\ ~(m <= m - 1) /\ m - 1 <= n
    BY <2>3, <2>4
  <2>6. G[m - 1] = f[m - 1]
    BY <2>2, <2>5
  <2>7. G[m] = WriteStep(G[m - 1], docs, m)
    BY <1>4, <2>3, <2>4
  <2> QED
    BY <1>1, <2>3, <2>5, <2>6, <2>7
<1> QED
  BY <1>5, <1>6

LEMMA WriteExists ==
  ASSUME NEW docs \in Seq(Docs)
  PROVE  \E f : /\ WritesUp(f, docs, Len(docs))
                /\ \A i \in 0..Len(docs) : f[i] \in Writers
<1> DEFINE n == Len(docs)
           g == [i \in 1..n |-> [w \in Writers |-> WriteStep(w, docs, i)]]
<1>1. n \in Nat /\ NewWriter \in Writers
  BY NewWriterTypes
<1>2. \A i \in 1..n : \A w \in Writers : WriteStep(w, docs, i) \in Writers
  BY PushTypes, SealTypes DEF WriteStep
<1>3. g \in [1..n -> [Writers -> Writers]]
  BY <1>2
<1>4. PICK f : Iterate(f, Writers, NewWriter, n, g)
  <2> HIDE DEF g, n
  <2> QED
    BY <1>1, <1>3, Iterates
<1>5. f \in [0..n -> Writers] /\ f[0] = NewWriter /\ \A i \in 1..n : f[i] = g[i][f[i - 1]]
  BY <1>4 DEF Iterate
<1>6. ASSUME NEW i \in 1..n
      PROVE  f[i] = WriteStep(f[i - 1], docs, i)
  <2>1. f[i - 1] \in Writers
    <3>1. i - 1 \in 0..n
      BY <1>1
    <3> QED
      BY <1>5, <3>1
  <2> QED
    BY <1>5, <2>1
<1>7. WritesUp(f, docs, n)
  BY <1>5, <1>6 DEF WritesUp
<1> QED
  BY <1>5, <1>7

LEMMA WriteNone ==
  WriteEntries(<<>>) = NewWriter
<1>1. <<>> \in Seq(Docs) /\ Len(<<>>) = 0
  OBVIOUS
<1>2. PICK f : WritesUp(f, <<>>, 0)
  BY <1>1, WriteExists
<1>3. WriteEntries(<<>>) = f[0]
  BY <1>1, <1>2, WriteAt
<1> QED
  BY <1>2, <1>3 DEF WritesUp

LEMMA WriteNext ==
  ASSUME NEW docs \in Seq(Docs), NEW d \in Docs
  PROVE  /\ WriteEntries(docs) \in Writers
         /\ WriteEntries(Append(docs, d)) = WriteStep(WriteEntries(docs), Append(docs, d), Len(docs) + 1)
<1> DEFINE n == Len(docs)
           more == Append(docs, d)
<1>1. /\ n \in Nat /\ more \in Seq(Docs) /\ Len(more) = n + 1
      /\ \A i \in 1..n : more[i] = docs[i]
  OBVIOUS
<1>2. PICK f : WritesUp(f, more, Len(more)) /\ \A i \in 0..Len(more) : f[i] \in Writers
  <2> HIDE DEF more
  <2> QED
    BY <1>1, WriteExists
<1> HIDE DEF more, n
<1>3. WriteEntries(more) = f[n + 1]
  BY <1>1, <1>2, WriteAt
<1>4. f[0] = NewWriter /\ \A i \in 1..(n + 1) : f[i] = WriteStep(f[i - 1], more, i)
  BY <1>1, <1>2 DEF WritesUp
<1>5. ASSUME NEW i \in 1..n
      PROVE  f[i] = WriteStep(f[i - 1], docs, i)
  <2>1. i \in 1..(n + 1) /\ more[i] = docs[i]
    BY <1>1
  <2> QED
    BY <1>4, <2>1 DEF WriteStep
<1>6. WritesUp(f, docs, n)
  BY <1>4, <1>5 DEF WritesUp
<1>7. WriteEntries(docs) = f[n]
  <2>1. n \in Nat /\ Len(docs) = n
    BY <1>1 DEF n
  <2> QED
    BY <1>6, <2>1, WriteAt
<1>8. n + 1 \in 1..(n + 1) /\ n + 1 - 1 = n /\ n \in 0..Len(more)
  BY <1>1
<1>9. f[n + 1] = WriteStep(f[n], more, n + 1)
  BY <1>4, <1>8
<1> QED
  BY <1>2, <1>3, <1>7, <1>8, <1>9 DEF more, n

(* A document of a directory. *)
PackStep(w, docs, i) ==
  LET pushed == PushDoc(w, docs[i]) IN
  IF Len(pushed.docs) - pushed.start >= BundleCap THEN Seal(pushed) ELSE pushed

PacksUp(f, docs, n) ==
  f[0] = NewWriter /\ \A i \in 1..n : f[i] = PackStep(f[i - 1], docs, i)

LEMMA PackAt ==
  ASSUME NEW docs, NEW n \in Nat, Len(docs) = n, NEW f, PacksUp(f, docs, n)
  PROVE  PackDocs(docs) = f[n]
<1> DEFINE Right(G) == G = [i \in 0..Len(docs) |->
                              IF i = 0 THEN NewWriter ELSE PackStep(G[i - 1], docs, i)]
           H == [i \in 0..n |-> f[i]]
           G == CHOOSE G : Right(G)
<1>1. f[0] = NewWriter /\ \A i \in 1..n : f[i] = PackStep(f[i - 1], docs, i)
  BY DEF PacksUp
<1>2. Right(H)
  <2> DEFINE R == [i \in 0..n |-> IF i = 0 THEN NewWriter ELSE PackStep(H[i - 1], docs, i)]
  <2>1. ASSUME NEW i \in 0..n
        PROVE  H[i] = R[i]
    <3>1. CASE i = 0
      BY <1>1, <3>1
    <3>2. CASE i # 0
      <4>1. i \in 1..n /\ i - 1 \in 0..n
        BY <3>2
      <4>2. H[i - 1] = f[i - 1] /\ H[i] = f[i]
        BY <4>1
      <4>3. R[i] = PackStep(f[i - 1], docs, i)
        BY <3>2, <4>2
      <4> QED
        BY <1>1, <4>1, <4>2, <4>3
    <3> QED
      BY <3>1, <3>2
  <2>2. H = R
    BY <2>1
  <2> HIDE DEF H
  <2> QED
    BY <2>2
<1>3. Right(G)
  <2> HIDE DEF Right, H
  <2> QED
    BY <1>2
<1>4. \A i \in 0..n : G[i] = IF i = 0 THEN NewWriter ELSE PackStep(G[i - 1], docs, i)
  <2> DEFINE R == [i \in 0..n |-> IF i = 0 THEN NewWriter ELSE PackStep(G[i - 1], docs, i)]
  <2>1. \A i \in 0..n : R[i] = IF i = 0 THEN NewWriter ELSE PackStep(G[i - 1], docs, i)
    OBVIOUS
  <2>2. G = R
    BY <1>3
  <2> HIDE DEF R, G
  <2> QED
    BY <2>1, <2>2
<1>5. PackDocs(docs) = G[n]
  BY DEF PackDocs, PackStep
<1> HIDE DEF G
<1> DEFINE T == {i \in Nat : i <= n /\ G[i] # f[i]}
<1>6. T = {}
  <2>1. SUFFICES ASSUME T # {} PROVE FALSE
    OBVIOUS
  <2>2. PICK m \in T : \A i \in T : m <= i
    <3>1. T \in SUBSET Nat
      OBVIOUS
    <3> HIDE DEF T
    <3> QED
      BY <2>1, <3>1, Least
  <2>3. m \in Nat /\ m <= n /\ G[m] # f[m]
    OBVIOUS
  <2>4. m # 0
    BY <1>1, <1>4, <2>3
  <2>5. m \in 1..n /\ m - 1 \in Nat /\ ~(m <= m - 1) /\ m - 1 <= n
    BY <2>3, <2>4
  <2>6. G[m - 1] = f[m - 1]
    BY <2>2, <2>5
  <2>7. G[m] = PackStep(G[m - 1], docs, m)
    BY <1>4, <2>3, <2>4
  <2> QED
    BY <1>1, <2>3, <2>5, <2>6, <2>7
<1> QED
  BY <1>5, <1>6

LEMMA PackExists ==
  ASSUME NEW docs \in Seq(Docs)
  PROVE  \E f : /\ PacksUp(f, docs, Len(docs))
                /\ \A i \in 0..Len(docs) : f[i] \in Writers
<1> DEFINE n == Len(docs)
           g == [i \in 1..n |-> [w \in Writers |-> PackStep(w, docs, i)]]
<1>1. n \in Nat /\ NewWriter \in Writers
  BY NewWriterTypes
<1>2. \A i \in 1..n : \A w \in Writers : PackStep(w, docs, i) \in Writers
  BY PushTypes, SealTypes DEF PackStep
<1>3. g \in [1..n -> [Writers -> Writers]]
  BY <1>2
<1>4. PICK f : Iterate(f, Writers, NewWriter, n, g)
  <2> HIDE DEF g, n
  <2> QED
    BY <1>1, <1>3, Iterates
<1>5. f \in [0..n -> Writers] /\ f[0] = NewWriter /\ \A i \in 1..n : f[i] = g[i][f[i - 1]]
  BY <1>4 DEF Iterate
<1>6. ASSUME NEW i \in 1..n
      PROVE  f[i] = PackStep(f[i - 1], docs, i)
  <2>1. f[i - 1] \in Writers
    <3>1. i - 1 \in 0..n
      BY <1>1
    <3> QED
      BY <1>5, <3>1
  <2> QED
    BY <1>5, <2>1
<1>7. PacksUp(f, docs, n)
  BY <1>5, <1>6 DEF PacksUp
<1> QED
  BY <1>5, <1>7

LEMMA PackNone ==
  PackDocs(<<>>) = NewWriter
<1>1. <<>> \in Seq(Docs) /\ Len(<<>>) = 0
  OBVIOUS
<1>2. PICK f : PacksUp(f, <<>>, 0)
  BY <1>1, PackExists
<1>3. PackDocs(<<>>) = f[0]
  BY <1>1, <1>2, PackAt
<1> QED
  BY <1>2, <1>3 DEF PacksUp

LEMMA PackNext ==
  ASSUME NEW docs \in Seq(Docs), NEW d \in Docs
  PROVE  /\ PackDocs(docs) \in Writers
         /\ PackDocs(Append(docs, d)) = PackStep(PackDocs(docs), Append(docs, d), Len(docs) + 1)
<1> DEFINE n == Len(docs)
           more == Append(docs, d)
<1>1. /\ n \in Nat /\ more \in Seq(Docs) /\ Len(more) = n + 1
      /\ \A i \in 1..n : more[i] = docs[i]
  OBVIOUS
<1>2. PICK f : PacksUp(f, more, Len(more)) /\ \A i \in 0..Len(more) : f[i] \in Writers
  <2> HIDE DEF more
  <2> QED
    BY <1>1, PackExists
<1> HIDE DEF more, n
<1>3. PackDocs(more) = f[n + 1]
  BY <1>1, <1>2, PackAt
<1>4. f[0] = NewWriter /\ \A i \in 1..(n + 1) : f[i] = PackStep(f[i - 1], more, i)
  BY <1>1, <1>2 DEF PacksUp
<1>5. ASSUME NEW i \in 1..n
      PROVE  f[i] = PackStep(f[i - 1], docs, i)
  <2>1. i \in 1..(n + 1) /\ more[i] = docs[i]
    BY <1>1
  <2> QED
    BY <1>4, <2>1 DEF PackStep
<1>6. PacksUp(f, docs, n)
  BY <1>4, <1>5 DEF PacksUp
<1>7. PackDocs(docs) = f[n]
  <2>1. n \in Nat /\ Len(docs) = n
    BY <1>1 DEF n
  <2> QED
    BY <1>6, <2>1, PackAt
<1>8. n + 1 \in 1..(n + 1) /\ n + 1 - 1 = n /\ n \in 0..Len(more)
  BY <1>1
<1>9. f[n + 1] = PackStep(f[n], more, n + 1)
  BY <1>4, <1>8
<1> QED
  BY <1>2, <1>3, <1>7, <1>8, <1>9 DEF more, n

(* A document of a bundle. *)
PushStep(w, docs, i) ==
  PushDoc(w, docs[i])

PushesUp(f, v, docs, n) ==
  f[0] = v /\ \A i \in 1..n : f[i] = PushStep(f[i - 1], docs, i)

LEMMA PushAt ==
  ASSUME NEW v, NEW docs, NEW n \in Nat, Len(docs) = n, NEW f, PushesUp(f, v, docs, n)
  PROVE  PushAll(v, docs) = f[n]
<1> DEFINE Right(G) == G = [i \in 0..Len(docs) |->
                              IF i = 0 THEN v ELSE PushStep(G[i - 1], docs, i)]
           H == [i \in 0..n |-> f[i]]
           G == CHOOSE G : Right(G)
<1>1. f[0] = v /\ \A i \in 1..n : f[i] = PushStep(f[i - 1], docs, i)
  BY DEF PushesUp
<1>2. Right(H)
  <2> DEFINE R == [i \in 0..n |-> IF i = 0 THEN v ELSE PushStep(H[i - 1], docs, i)]
  <2>1. ASSUME NEW i \in 0..n
        PROVE  H[i] = R[i]
    <3>1. CASE i = 0
      BY <1>1, <3>1
    <3>2. CASE i # 0
      <4>1. i \in 1..n /\ i - 1 \in 0..n
        BY <3>2
      <4>2. H[i - 1] = f[i - 1] /\ H[i] = f[i]
        BY <4>1
      <4>3. R[i] = PushStep(f[i - 1], docs, i)
        BY <3>2, <4>2
      <4> QED
        BY <1>1, <4>1, <4>2, <4>3
    <3> QED
      BY <3>1, <3>2
  <2>2. H = R
    BY <2>1
  <2> HIDE DEF H
  <2> QED
    BY <2>2
<1>3. Right(G)
  <2> HIDE DEF Right, H
  <2> QED
    BY <1>2
<1>4. \A i \in 0..n : G[i] = IF i = 0 THEN v ELSE PushStep(G[i - 1], docs, i)
  <2> DEFINE R == [i \in 0..n |-> IF i = 0 THEN v ELSE PushStep(G[i - 1], docs, i)]
  <2>1. \A i \in 0..n : R[i] = IF i = 0 THEN v ELSE PushStep(G[i - 1], docs, i)
    OBVIOUS
  <2>2. G = R
    BY <1>3
  <2> HIDE DEF R, G
  <2> QED
    BY <2>1, <2>2
<1>5. PushAll(v, docs) = G[n]
  BY DEF PushAll, PushStep
<1> HIDE DEF G
<1> DEFINE T == {i \in Nat : i <= n /\ G[i] # f[i]}
<1>6. T = {}
  <2>1. SUFFICES ASSUME T # {} PROVE FALSE
    OBVIOUS
  <2>2. PICK m \in T : \A i \in T : m <= i
    <3>1. T \in SUBSET Nat
      OBVIOUS
    <3> HIDE DEF T
    <3> QED
      BY <2>1, <3>1, Least
  <2>3. m \in Nat /\ m <= n /\ G[m] # f[m]
    OBVIOUS
  <2>4. m # 0
    BY <1>1, <1>4, <2>3
  <2>5. m \in 1..n /\ m - 1 \in Nat /\ ~(m <= m - 1) /\ m - 1 <= n
    BY <2>3, <2>4
  <2>6. G[m - 1] = f[m - 1]
    BY <2>2, <2>5
  <2>7. G[m] = PushStep(G[m - 1], docs, m)
    BY <1>4, <2>3, <2>4
  <2> QED
    BY <1>1, <2>3, <2>5, <2>6, <2>7
<1> QED
  BY <1>5, <1>6

LEMMA PushExists ==
  ASSUME NEW v \in Writers, NEW docs \in Seq(Docs)
  PROVE  \E f : /\ PushesUp(f, v, docs, Len(docs))
                /\ \A i \in 0..Len(docs) : f[i] \in Writers
<1> DEFINE n == Len(docs)
           g == [i \in 1..n |-> [w \in Writers |-> PushStep(w, docs, i)]]
<1>1. n \in Nat /\ v \in Writers
  OBVIOUS
<1>2. \A i \in 1..n : \A w \in Writers : PushStep(w, docs, i) \in Writers
  BY PushTypes, SealTypes DEF PushStep
<1>3. g \in [1..n -> [Writers -> Writers]]
  BY <1>2
<1>4. PICK f : Iterate(f, Writers, v, n, g)
  <2> HIDE DEF g, n
  <2> QED
    BY <1>1, <1>3, Iterates
<1>5. f \in [0..n -> Writers] /\ f[0] = v /\ \A i \in 1..n : f[i] = g[i][f[i - 1]]
  BY <1>4 DEF Iterate
<1>6. ASSUME NEW i \in 1..n
      PROVE  f[i] = PushStep(f[i - 1], docs, i)
  <2>1. f[i - 1] \in Writers
    <3>1. i - 1 \in 0..n
      BY <1>1
    <3> QED
      BY <1>5, <3>1
  <2> QED
    BY <1>5, <2>1
<1>7. PushesUp(f, v, docs, n)
  BY <1>5, <1>6 DEF PushesUp
<1> QED
  BY <1>5, <1>7

LEMMA PushAllTypes ==
  ASSUME NEW w \in Writers, NEW docs \in Seq(Docs)
  PROVE  PushAll(w, docs) \in Writers
<1>1. PICK f : PushesUp(f, w, docs, Len(docs)) /\ \A i \in 0..Len(docs) : f[i] \in Writers
  BY PushExists
<1>2. Len(docs) \in Nat /\ Len(docs) \in 0..Len(docs)
  OBVIOUS
<1>3. PushAll(w, docs) = f[Len(docs)]
  BY <1>1, <1>2, PushAt
<1> QED
  BY <1>1, <1>2, <1>3

(* A bundle of an archive in memory. *)
SaveStep(w, bundles, i) ==
  Seal(PushAll(w, bundles[i]))

SavesUp(f, bundles, n) ==
  f[0] = NewWriter /\ \A i \in 1..n : f[i] = SaveStep(f[i - 1], bundles, i)

LEMMA SaveAt ==
  ASSUME NEW bundles, NEW n \in Nat, Len(bundles) = n, NEW f, SavesUp(f, bundles, n)
  PROVE  SaveBundles(bundles) = f[n]
<1> DEFINE Right(G) == G = [i \in 0..Len(bundles) |->
                              IF i = 0 THEN NewWriter ELSE SaveStep(G[i - 1], bundles, i)]
           H == [i \in 0..n |-> f[i]]
           G == CHOOSE G : Right(G)
<1>1. f[0] = NewWriter /\ \A i \in 1..n : f[i] = SaveStep(f[i - 1], bundles, i)
  BY DEF SavesUp
<1>2. Right(H)
  <2> DEFINE R == [i \in 0..n |-> IF i = 0 THEN NewWriter ELSE SaveStep(H[i - 1], bundles, i)]
  <2>1. ASSUME NEW i \in 0..n
        PROVE  H[i] = R[i]
    <3>1. CASE i = 0
      BY <1>1, <3>1
    <3>2. CASE i # 0
      <4>1. i \in 1..n /\ i - 1 \in 0..n
        BY <3>2
      <4>2. H[i - 1] = f[i - 1] /\ H[i] = f[i]
        BY <4>1
      <4>3. R[i] = SaveStep(f[i - 1], bundles, i)
        BY <3>2, <4>2
      <4> QED
        BY <1>1, <4>1, <4>2, <4>3
    <3> QED
      BY <3>1, <3>2
  <2>2. H = R
    BY <2>1
  <2> HIDE DEF H
  <2> QED
    BY <2>2
<1>3. Right(G)
  <2> HIDE DEF Right, H
  <2> QED
    BY <1>2
<1>4. \A i \in 0..n : G[i] = IF i = 0 THEN NewWriter ELSE SaveStep(G[i - 1], bundles, i)
  <2> DEFINE R == [i \in 0..n |-> IF i = 0 THEN NewWriter ELSE SaveStep(G[i - 1], bundles, i)]
  <2>1. \A i \in 0..n : R[i] = IF i = 0 THEN NewWriter ELSE SaveStep(G[i - 1], bundles, i)
    OBVIOUS
  <2>2. G = R
    BY <1>3
  <2> HIDE DEF R, G
  <2> QED
    BY <2>1, <2>2
<1>5. SaveBundles(bundles) = G[n]
  BY DEF SaveBundles, SaveStep
<1> HIDE DEF G
<1> DEFINE T == {i \in Nat : i <= n /\ G[i] # f[i]}
<1>6. T = {}
  <2>1. SUFFICES ASSUME T # {} PROVE FALSE
    OBVIOUS
  <2>2. PICK m \in T : \A i \in T : m <= i
    <3>1. T \in SUBSET Nat
      OBVIOUS
    <3> HIDE DEF T
    <3> QED
      BY <2>1, <3>1, Least
  <2>3. m \in Nat /\ m <= n /\ G[m] # f[m]
    OBVIOUS
  <2>4. m # 0
    BY <1>1, <1>4, <2>3
  <2>5. m \in 1..n /\ m - 1 \in Nat /\ ~(m <= m - 1) /\ m - 1 <= n
    BY <2>3, <2>4
  <2>6. G[m - 1] = f[m - 1]
    BY <2>2, <2>5
  <2>7. G[m] = SaveStep(G[m - 1], bundles, m)
    BY <1>4, <2>3, <2>4
  <2> QED
    BY <1>1, <2>3, <2>5, <2>6, <2>7
<1> QED
  BY <1>5, <1>6

LEMMA SaveExists ==
  ASSUME NEW bundles \in Seq(Seq(Docs))
  PROVE  \E f : /\ SavesUp(f, bundles, Len(bundles))
                /\ \A i \in 0..Len(bundles) : f[i] \in Writers
<1> DEFINE n == Len(bundles)
           g == [i \in 1..n |-> [w \in Writers |-> SaveStep(w, bundles, i)]]
<1>1. n \in Nat /\ NewWriter \in Writers
  BY NewWriterTypes
<1>2. \A i \in 1..n : \A w \in Writers : SaveStep(w, bundles, i) \in Writers
  BY PushAllTypes, SealTypes DEF SaveStep
<1>3. g \in [1..n -> [Writers -> Writers]]
  BY <1>2
<1>4. PICK f : Iterate(f, Writers, NewWriter, n, g)
  <2> HIDE DEF g, n
  <2> QED
    BY <1>1, <1>3, Iterates
<1>5. f \in [0..n -> Writers] /\ f[0] = NewWriter /\ \A i \in 1..n : f[i] = g[i][f[i - 1]]
  BY <1>4 DEF Iterate
<1>6. ASSUME NEW i \in 1..n
      PROVE  f[i] = SaveStep(f[i - 1], bundles, i)
  <2>1. f[i - 1] \in Writers
    <3>1. i - 1 \in 0..n
      BY <1>1
    <3> QED
      BY <1>5, <3>1
  <2> QED
    BY <1>5, <2>1
<1>7. SavesUp(f, bundles, n)
  BY <1>5, <1>6 DEF SavesUp
<1> QED
  BY <1>5, <1>7

-----------------------------------------------------------------------------
(* Parts of sequences.                                                     *)

LEMMA Slices ==
  ASSUME NEW S, NEW s \in Seq(S), NEW e \in S, NEW m \in 1..(Len(s) + 1)
  PROVE  SubSeq(Append(s, e), m, Len(s) + 1) = Append(SubSeq(s, m, Len(s)), e)
OBVIOUS

LEMMA EarlierSlices ==
  ASSUME NEW S, NEW s \in Seq(S), NEW e \in S, NEW m \in 1..(Len(s) + 1), NEW n \in 0..Len(s)
  PROVE  SubSeq(Append(s, e), m, n) = SubSeq(s, m, n)
OBVIOUS

LEMMA SliceFacts ==
  ASSUME NEW S, NEW s \in Seq(S), NEW m \in 0..Len(s), NEW n \in m..Len(s)
  PROVE  /\ SubSeq(s, m + 1, n) \in Seq(S)
         /\ Len(SubSeq(s, m + 1, n)) = n - m
         /\ \A i \in 1..(n - m) : SubSeq(s, m + 1, n)[i] = s[m + i]
OBVIOUS

-----------------------------------------------------------------------------
(* A writer stays sound, and whole, whatever is pushed and sealed.         *)

LEMMA StartsGrow ==
  ASSUME NEW f, f.bundles \in Seq(Bundles), NEW b \in 1..(Len(f.bundles) + 1)
  PROVE  \A c \in 1..(Len(f.bundles) + 1) : b <= c => Start(f, b) <= Start(f, c)
<1> DEFINE l == Len(f.bundles)
           T == {c \in Nat : c \in 1..(l + 1) /\ b <= c /\ ~(Start(f, b) <= Start(f, c))}
<1>1. l \in Nat /\ b \in 1..(l + 1)
  OBVIOUS
<1>2. T = {}
  <2>1. SUFFICES ASSUME T # {} PROVE FALSE
    OBVIOUS
  <2>2. PICK m \in T : \A c \in T : m <= c
    <3>1. T \in SUBSET Nat
      OBVIOUS
    <3> HIDE DEF T
    <3> QED
      BY <2>1, <3>1, Least
  <2>3. m \in 1..(l + 1) /\ b <= m /\ ~(Start(f, b) <= Start(f, m))
    OBVIOUS
  <2>4. \A c \in 1..(l + 1) : Start(f, c) \in Nat
    BY Starts
  <2>5. m # b
    BY <1>1, <2>3, <2>4
  <2>6. PICK d \in 1..l : m = d + 1
    <3>1. m - 1 \in 1..l /\ m = (m - 1) + 1
      <4> HIDE DEF T
      <4> QED
        BY <1>1, <2>3, <2>5
    <3> QED
      BY <3>1
  <2>7. d \in Nat /\ d \in 1..(l + 1) /\ b <= d /\ ~(m <= d)
    BY <1>1, <2>3, <2>5, <2>6
  <2>8. Start(f, b) <= Start(f, d)
    BY <2>2, <2>7
  <2>9. Start(f, d + 1) = Start(f, d) + f.bundles[d].n
    BY Starts
  <2>10. f.bundles[d].n \in Nat
    <3>1. f.bundles[d] \in Bundles
      OBVIOUS
    <3> QED
      BY <3>1 DEF Bundles
  <2> HIDE DEF T, l
  <2>11. Start(f, b) \in Nat /\ Start(f, d) \in Nat
    BY <1>1, <2>4, <2>7
  <2> QED
    BY <2>3, <2>6, <2>8, <2>9, <2>10, <2>11
<1> QED
  BY <1>2

LEMMA Within ==
  ASSUME NEW f, f.bundles \in Seq(Bundles), NEW end, Parted(f, end)
  PROVE  /\ end \in Nat
         /\ \A b \in 1..Len(f.bundles) :
              /\ Start(f, b) \in Nat /\ Start(f, b + 1) <= end
              /\ f.bundles[b].n \in Nat \ {0}
              /\ \A slot \in 1..f.bundles[b].n :
                   Start(f, b) + slot \in 1..end /\ Start(f, b) + slot <= Start(f, b + 1)
<1> DEFINE l == Len(f.bundles)
<1>1. l \in Nat /\ Start(f, l + 1) = end /\ \A b \in 1..l : f.bundles[b].n > 0
  BY DEF Parted
<1>2. \A b \in 1..(l + 1) : Start(f, b) \in Nat
  BY Starts
<1>3. end \in Nat
  BY <1>1, <1>2
<1>4. ASSUME NEW b \in 1..l
      PROVE  /\ Start(f, b) \in Nat /\ Start(f, b + 1) <= end
             /\ f.bundles[b].n \in Nat \ {0}
             /\ \A slot \in 1..f.bundles[b].n :
                  Start(f, b) + slot \in 1..end /\ Start(f, b) + slot <= Start(f, b + 1)
  <2>1. b \in 1..(l + 1) /\ b + 1 \in 1..(l + 1) /\ l + 1 \in 1..(l + 1)
    BY <1>1
  <2>2. Start(f, b) \in Nat /\ Start(f, b + 1) \in Nat
    BY <1>2, <2>1
  <2>3. Start(f, b + 1) = Start(f, b) + f.bundles[b].n
    BY Starts
  <2>4. Start(f, b + 1) <= end
    BY <1>1, <2>1, StartsGrow
  <2>5. f.bundles[b].n \in Nat \ {0}
    <3>1. f.bundles[b] \in Bundles
      OBVIOUS
    <3>2. f.bundles[b].n \in Nat
      BY <3>1 DEF Bundles
    <3> QED
      BY <1>1, <3>2
  <2> HIDE DEF l
  <2> QED
    BY <1>3, <2>2, <2>3, <2>4, <2>5, SMTT(30)
<1> QED
  BY <1>3, <1>4

(* The bundles of v are those of w; v may have more documents.             *)
LEMMA SameBundlesSound ==
  ASSUME NEW w, NEW v, w.bundles \in Seq(Bundles), v.bundles = w.bundles,
         NEW end, Parted(w, end)
  PROVE  /\ Parted(v, end)
         /\ \A b \in 1..(Len(w.bundles) + 1) : Start(v, b) = Start(w, b)
<1>1. \A b \in 1..(Len(w.bundles) + 1) : Start(v, b) = Start(w, b)
  BY StartsStay
<1>2. Len(w.bundles) + 1 \in 1..(Len(w.bundles) + 1)
  OBVIOUS
<1> QED
  BY <1>1, <1>2 DEF Parted

LEMMA SameFrames ==
  ASSUME NEW w, NEW v, w.bundles \in Seq(Bundles), v.bundles = w.bundles,
         NEW end, Parted(w, end), \A i \in 1..end : v.docs[i] = w.docs[i],
         FramesMatch(w)
  PROVE  FramesMatch(v)
<1>1. \A b \in 1..(Len(w.bundles) + 1) : Start(v, b) = Start(w, b)
  BY SameBundlesSound
<1>2. ASSUME NEW b \in 1..Len(w.bundles)
      PROVE  /\ Len(v.bundles[b].frames) = v.bundles[b].n
             /\ \A slot \in 1..v.bundles[b].n :
                  v.bundles[b].frames[slot] = v.docs[Start(v, b) + slot]
  <2>1. v.bundles[b] = w.bundles[b] /\ Start(v, b) = Start(w, b)
    BY <1>1
  <2>2. \A slot \in 1..w.bundles[b].n : Start(w, b) + slot \in 1..end
    BY Within
  <2>3. /\ Len(w.bundles[b].frames) = w.bundles[b].n
        /\ \A slot \in 1..w.bundles[b].n :
             w.bundles[b].frames[slot] = w.docs[Start(w, b) + slot]
    BY DEF FramesMatch
  <2> QED
    BY <2>1, <2>2, <2>3
<1> QED
  BY <1>2 DEF FramesMatch

LEMMA PushKeeps ==
  ASSUME NEW w \in Writers, NEW d \in Docs, d.key \notin w.seen, WriterSound(w)
  PROVE  /\ WriterSound(PushDoc(w, d))
         /\ WriterWhole(w) => WriterWhole(PushDoc(w, d))
<1> DEFINE v == PushDoc(w, d)
           n == Len(w.docs)
<1>1. /\ v.docs = Append(w.docs, d) /\ v.bundles = w.bundles
      /\ v.frames = Append(w.frames, d) /\ v.start = w.start
      /\ v.seen = w.seen \cup {d.key}
  BY Pushed
<1> HIDE DEF v
<1>2. /\ w.docs \in Seq(Docs) /\ w.bundles \in Seq(Bundles) /\ w.frames \in Seq(Docs)
      /\ w.start \in Nat /\ w.start <= n /\ n \in Nat
  BY WriterFields
<1>3. /\ Distinct(w.docs) /\ (\A i \in 1..n : w.docs[i].key \in w.seen)
      /\ Parted(w, w.start)
  BY DEF WriterSound
<1>4. /\ Len(v.docs) = n + 1 /\ v.docs[n + 1] = d
      /\ \A i \in 1..n : v.docs[i] = w.docs[i]
  BY <1>1, <1>2
<1>5. \A i \in 1..(n + 1) : i \in 1..n \/ i = n + 1
  BY <1>2
<1>6. Distinct(v.docs)
  <2>1. ASSUME NEW i \in 1..(n + 1), NEW j \in 1..(n + 1), v.docs[i].key = v.docs[j].key
        PROVE  i = j
    BY <1>3, <1>4, <1>5, <2>1 DEF Distinct
  <2> QED
    BY <1>4, <2>1 DEF Distinct
<1>7. \A i \in 1..(n + 1) : v.docs[i].key \in v.seen
  BY <1>1, <1>3, <1>4, <1>5
<1>8. Parted(v, v.start)
  BY <1>1, <1>2, <1>3, SameBundlesSound
<1>9. WriterSound(v)
  BY <1>4, <1>6, <1>7, <1>8 DEF WriterSound
<1>10. ASSUME WriterWhole(w)
       PROVE  WriterWhole(v)
  <2>1. \A i \in 1..w.start : v.docs[i] = w.docs[i]
    BY <1>2, <1>4
  <2>2. FramesMatch(v)
    BY <1>1, <1>2, <1>3, <1>10, <2>1, SameFrames DEF WriterWhole
  <2>3. SubSeq(Append(w.docs, d), w.start + 1, n + 1) = Append(SubSeq(w.docs, w.start + 1, n), d)
    <3>1. w.start + 1 \in 1..(n + 1)
      BY <1>2
    <3> QED
      BY <1>2, <3>1, Slices
  <2>4. w.frames = SubSeq(w.docs, w.start + 1, n)
    BY <1>10 DEF WriterWhole
  <2> QED
    BY <1>1, <1>4, <2>2, <2>3, <2>4 DEF WriterWhole
<1> QED
  BY <1>9, <1>10 DEF v

LEMMA SealKeeps ==
  ASSUME NEW w \in Writers, WriterSound(w)
  PROVE  /\ WriterSound(Seal(w))
         /\ WriterWhole(w) => WriterWhole(Seal(w))
         /\ Seal(w).start = Len(Seal(w).docs) /\ Seal(w).docs = w.docs
<1>1. CASE Len(w.docs) = w.start
  BY <1>1 DEF Seal
<1>2. CASE Len(w.docs) # w.start
  <2> DEFINE v == Seal(w)
             n == Len(w.docs)
             l == Len(w.bundles)
             bundle == [n |-> n - w.start, frames |-> w.frames]
  <2>1. /\ v.docs = w.docs /\ v.bundles = Append(w.bundles, bundle) /\ v.frames = <<>>
        /\ v.start = n /\ v.seen = w.seen
    BY <1>2, Sealed
  <2>2. /\ w.docs \in Seq(Docs) /\ w.bundles \in Seq(Bundles) /\ w.frames \in Seq(Docs)
        /\ w.start \in Nat /\ w.start <= n /\ n \in Nat /\ l \in Nat
    BY WriterFields
  <2>3. bundle \in Bundles /\ bundle.n = n - w.start /\ bundle.frames = w.frames
    BY <1>2, <2>2 DEF Bundles
  <2> HIDE DEF v, bundle, n, l
  <2>4. /\ v.bundles \in Seq(Bundles) /\ Len(v.bundles) = l + 1 /\ v.bundles[l + 1] = bundle
        /\ \A b \in 1..l : v.bundles[b] = w.bundles[b]
    BY <2>1, <2>2, <2>3 DEF l
  <2>5. Parted(w, w.start) /\ Distinct(w.docs) /\ \A i \in 1..n : w.docs[i].key \in w.seen
    BY DEF WriterSound, n
  <2>6. \A b \in 1..(l + 1) : Start(v, b) = Start(w, b)
    <3>1. /\ Len(w.bundles) = l /\ l <= l + 1
          /\ \A b \in 1..Len(w.bundles) : v.bundles[b] = w.bundles[b]
      BY <2>2, <2>4 DEF l
    <3> QED
      BY <2>2, <2>4, <3>1, StartsStay
  <2>7. Start(w, l + 1) = w.start /\ \A b \in 1..l : w.bundles[b].n > 0
    BY <2>5 DEF Parted, l
  <2>8. l + 1 \in 1..(l + 1)
    BY <2>2
  <2>9. Start(v, (l + 1) + 1) = Start(v, l + 1) + v.bundles[l + 1].n
    BY <2>4, <2>8, Starts
  <2>10. Start(v, l + 1) = w.start
    BY <2>6, <2>7, <2>8
  <2>11. Start(v, (l + 1) + 1) = n
    BY <2>2, <2>3, <2>4, <2>9, <2>10
  <2>12. Parted(v, n)
    <3>1. ASSUME NEW b \in 1..(l + 1)
          PROVE  v.bundles[b].n > 0
      <4>1. CASE b \in 1..l
        BY <2>4, <2>7, <4>1
      <4>2. CASE b = l + 1
        BY <1>2, <2>2, <2>3, <2>4, <4>2 DEF n
      <4> QED
        BY <2>2, <4>1, <4>2
    <3> QED
      BY <2>4, <2>11, <3>1 DEF Parted
  <2>13. WriterSound(v)
    BY <2>1, <2>5, <2>12 DEF WriterSound, n
  <2>14. ASSUME WriterWhole(w)
         PROVE  WriterWhole(v)
    <3>1. FramesMatch(w) /\ w.frames = SubSeq(w.docs, w.start + 1, n)
      BY <2>14 DEF WriterWhole, n
    <3>2. w.start \in 0..n /\ n \in w.start..n
      BY <2>2
    <3>3. Len(w.frames) = n - w.start /\ \A i \in 1..(n - w.start) : w.frames[i] = w.docs[w.start + i]
      <4>1. /\ Len(SubSeq(w.docs, w.start + 1, n)) = n - w.start
            /\ \A i \in 1..(n - w.start) : SubSeq(w.docs, w.start + 1, n)[i] = w.docs[w.start + i]
        <5> DEFINE docs == w.docs
                   m == w.start
                   slice == SubSeq(docs, m + 1, n)
        <5>1. docs \in Seq(Docs) /\ m \in 0..Len(docs) /\ n \in m..Len(docs)
          BY <2>2, <3>2 DEF n
        <5> HIDE DEF docs, m, n
        <5>2. Len(slice) = n - m
          BY ONLY <5>1, SliceFacts
        <5>3. \A i \in 1..(n - m) : slice[i] = docs[m + i]
          BY ONLY <5>1, SliceFacts
        <5> QED
          BY <5>2, <5>3 DEF docs, m
      <4> QED
        BY <3>1, <4>1
    <3>4. ASSUME NEW b \in 1..(l + 1)
          PROVE  /\ Len(v.bundles[b].frames) = v.bundles[b].n
                 /\ \A slot \in 1..v.bundles[b].n :
                      v.bundles[b].frames[slot] = v.docs[Start(v, b) + slot]
      <4>1. CASE b \in 1..l
        <5>1. v.bundles[b] = w.bundles[b] /\ Start(v, b) = Start(w, b)
          BY <2>4, <2>6, <4>1
        <5>2. /\ Len(w.bundles[b].frames) = w.bundles[b].n
              /\ \A slot \in 1..w.bundles[b].n :
                   w.bundles[b].frames[slot] = w.docs[Start(w, b) + slot]
          BY <3>1, <4>1 DEF FramesMatch, l
        <5> QED
          BY <2>1, <5>1, <5>2
      <4>2. CASE b = l + 1
        <5>1. v.bundles[b].n = n - w.start /\ v.bundles[b].frames = w.frames
          BY <2>3, <2>4, <4>2
        <5>2. Start(v, b) = w.start
          BY <2>10, <4>2
        <5> QED
          BY <2>1, <3>3, <5>1, <5>2
      <4> QED
        BY <2>2, <4>1, <4>2
    <3>5. FramesMatch(v)
      BY <2>4, <3>4 DEF FramesMatch
    <3>6. SubSeq(w.docs, n + 1, n) = <<>>
      BY <2>2
    <3> QED
      BY <2>1, <3>5, <3>6 DEF WriterWhole, n
  <2> QED
    BY <2>1, <2>13, <2>14 DEF v, n
<1> QED
  BY <1>1, <1>2

(* A duplicate, or a document that is not written, changes no more than    *)
(* what has been seen.                                                     *)
LEMMA SameDocs ==
  ASSUME NEW w \in Writers, NEW v \in Writers, v.docs = w.docs, v.bundles = w.bundles,
         v.start = w.start, w.seen \subseteq v.seen
  PROVE  /\ WriterSound(w) => WriterSound(v)
         /\ WriterSound(w) /\ WriterWhole(w) /\ v.frames = w.frames => WriterWhole(v)
<1>1. w.bundles \in Seq(Bundles)
  BY WriterFields
<1>2. ASSUME WriterSound(w)
      PROVE  WriterSound(v)
  <2>1. /\ Distinct(w.docs) /\ (\A i \in 1..Len(w.docs) : w.docs[i].key \in w.seen)
        /\ Parted(w, w.start)
    BY <1>2 DEF WriterSound
  <2>2. Parted(v, w.start)
    BY <1>1, <2>1, SameBundlesSound
  <2> QED
    BY <2>1, <2>2 DEF WriterSound
<1>3. ASSUME WriterSound(w), WriterWhole(w), v.frames = w.frames
      PROVE  WriterWhole(v)
  <2>1. Parted(w, w.start) /\ FramesMatch(w)
    BY <1>3 DEF WriterSound, WriterWhole
  <2>2. FramesMatch(v)
    BY <1>1, <2>1, SameFrames
  <2> QED
    BY <1>3, <2>2 DEF WriterWhole
<1> QED
  BY <1>2, <1>3

-----------------------------------------------------------------------------
(* Documents written one by one make full bundles.                         *)

LEMMA FullAt ==
  ASSUME NEW c \in Nat \ {0}, NEW l \in Nat, NEW r \in 1..c
  PROVE  ((c * l + r) % c = 0) <=> r = c
OBVIOUS

LEMMA RoundedUp ==
  ASSUME NEW c \in Nat \ {0}, NEW l \in Nat, NEW r \in 0..(c - 1)
  PROVE  ((c * l + r) + c - 1) \div c = IF r = 0 THEN l ELSE l + 1
<1>1. CASE r = 0
  <2>1. (c * l + (c - 1)) \div c = l
    OBVIOUS
  <2>2. (c * l + r) + c - 1 = c * l + (c - 1)
    BY <1>1
  <2> QED
    BY <1>1, <2>1, <2>2
<1>2. CASE r # 0
  <2> DEFINE k == l + 1
             q == r - 1
  <2>1. k \in Nat /\ q \in 0..(c - 1)
    BY <1>2
  <2>2. (c * l + r) + c - 1 = c * k + q
    OBVIOUS
  <2> HIDE DEF k, q
  <2>3. (c * k + q) \div c = k
    BY <2>1
  <2> QED
    BY <1>2, <2>2, <2>3 DEF k
<1> QED
  BY <1>1, <1>2

LEMMA Multiples ==
  ASSUME NEW c \in Nat \ {0}, NEW l \in Nat, NEW b \in 1..l
  PROVE  /\ c * (b - 1) \in Nat /\ c * b \in Nat /\ c * l \in Nat
         /\ c * b = c * (b - 1) + c /\ c * (b - 1) <= c * b /\ c * b <= c * l
<1>1. c * b = c * (b - 1) + c /\ c * (b - 1) \in Nat /\ c * b \in Nat /\ c * l \in Nat
  OBVIOUS
<1>2. c * l = c * b + c * (l - b) /\ c * (l - b) \in Nat
  OBVIOUS
<1> QED
  BY <1>1, <1>2

LEMMA ChunkFills ==
  ASSUME NEW w \in Writers, NEW d \in Docs, d.key \notin w.seen, WriterSound(w),
         WriterWhole(w), InChunks(w), NEW v, v = PushDoc(w, d)
  PROVE  /\ v.docs = Append(w.docs, d) /\ v.seen = w.seen \cup {d.key}
         /\ v.start = w.start /\ Len(v.docs) = Len(w.docs) + 1
         /\ Len(v.docs) - v.start \in 1..BundleCap
         /\ Len(v.docs) - v.start # BundleCap => InChunks(v)
         /\ Len(v.docs) - v.start = BundleCap => InChunks(Seal(v))
<1> DEFINE n == Len(w.docs)
           l == Len(w.bundles)
           c == BundleCap
           chunk(s, b) == SubSeq(s, c * (b - 1) + 1, c * b)
<1>1. /\ v.docs = Append(w.docs, d) /\ v.bundles = w.bundles
      /\ v.frames = Append(w.frames, d) /\ v.start = w.start
      /\ v.seen = w.seen \cup {d.key}
  BY Pushed
<1>2. /\ w.docs \in Seq(Docs) /\ w.bundles \in Seq(Bundles) /\ w.frames \in Seq(Docs)
      /\ w.start \in Nat /\ w.start <= n /\ n \in Nat /\ l \in Nat
  BY WriterFields
<1>3. c \in Nat \ {0}
  BY CapAssumption
<1>4. /\ w.start = c * l /\ n - w.start < c
      /\ \A b \in 1..l : w.bundles[b].frames = chunk(w.docs, b)
  BY DEF InChunks
<1>5. v \in Writers /\ WriterSound(v) /\ WriterWhole(v)
  BY PushTypes, PushKeeps
<1>6. Len(v.docs) = n + 1 /\ n + 1 - w.start \in 1..c /\ Len(v.docs) - v.start \in 1..c
  <2>1. n - w.start < c
    BY <1>4
  <2>2. Len(v.docs) = n + 1
    BY <1>1, <1>2
  <2> HIDE DEF c, n
  <2> QED
    BY <1>1, <1>2, <1>3, <2>1, <2>2
<1>7. \A b \in 1..l : v.bundles[b].frames = chunk(v.docs, b)
  <2>1. ASSUME NEW b \in 1..l
        PROVE  chunk(v.docs, b) = chunk(w.docs, b)
    <3> DEFINE from == c * (b - 1)
               to == c * b
    <3>1. from \in Nat /\ to \in Nat /\ from <= to /\ to <= w.start
      <4> HIDE DEF c, l
      <4>1. /\ c * (b - 1) \in Nat /\ c * b \in Nat
            /\ c * (b - 1) <= c * b /\ c * b <= c * l
        BY <1>2, <1>3, Multiples
      <4> QED
        BY ONLY <1>4, <4>1
    <3> HIDE DEF from, to
    <3>2. from + 1 \in 1..(n + 1) /\ to \in 0..n
      BY <1>2, <3>1
    <3>3. SubSeq(Append(w.docs, d), from + 1, to) = SubSeq(w.docs, from + 1, to)
      BY <1>2, <3>2, EarlierSlices
    <3> QED
      BY <1>1, <3>3 DEF from, to
  <2> HIDE DEF chunk
  <2> QED
    BY <1>1, <1>4, <2>1
<1>8. ASSUME Len(v.docs) - v.start # c
      PROVE  InChunks(v)
  <2>1. Len(v.docs) - v.start < c
    BY <1>1, <1>2, <1>3, <1>6, <1>8
  <2>2. Len(v.bundles) = l
    BY <1>1
  <2> QED
    BY <1>1, <1>4, <1>7, <2>1, <2>2 DEF InChunks
<1>9. ASSUME Len(v.docs) - v.start = c
      PROVE  InChunks(Seal(v))
  <2> DEFINE u == Seal(v)
             m == Len(v.docs)
             bundle == [n |-> m - v.start, frames |-> v.frames]
  <2>1. Len(v.docs) # v.start
    BY <1>3, <1>9
  <2>2. /\ u.docs = v.docs /\ u.bundles = Append(v.bundles, bundle)
        /\ u.start = m
    BY <1>5, <2>1, Sealed
  <2>3. m = n + 1 /\ m = c * l + c /\ m \in Nat
    BY <1>1, <1>2, <1>3, <1>4, <1>6, <1>9
  <2>4. c * (l + 1) = c * l + c
    <3> HIDE DEF c
    <3> QED
      BY <1>2, <1>3
  <2>5. bundle \in Bundles
    BY <1>3, <1>5, <1>9, WriterFields DEF Bundles
  <2>6. v.frames = SubSeq(v.docs, w.start + 1, m)
    BY <1>1, <1>5 DEF WriterWhole
  <2> HIDE DEF u, bundle, m
  <2>7. /\ Len(u.bundles) = l + 1 /\ u.bundles[l + 1] = bundle
        /\ \A b \in 1..l : u.bundles[b] = v.bundles[b]
    BY <1>1, <1>2, <2>2, <2>5 DEF l
  <2>8. bundle.frames = chunk(v.docs, l + 1)
    <3>1. (l + 1) - 1 = l
      BY <1>2
    <3>2. bundle.frames = v.frames
      BY DEF bundle
    <3> HIDE DEF l, c
    <3>3. chunk(v.docs, l + 1) = SubSeq(v.docs, c * l + 1, c * (l + 1))
      BY <3>1
    <3> QED
      BY <1>4, <2>3, <2>4, <2>6, <3>2, <3>3
  <2>9. ASSUME NEW b \in 1..(l + 1)
        PROVE  u.bundles[b].frames = chunk(u.docs, b)
    <3> HIDE DEF chunk, l
    <3>1. CASE b \in 1..l
      BY <1>7, <2>2, <2>7, <3>1
    <3>2. CASE b = l + 1
      BY <2>2, <2>7, <2>8, <3>2
    <3> QED
      BY <1>2, <3>1, <3>2
  <2>10. u.start = c * Len(u.bundles)
    <3> HIDE DEF c
    <3> QED
      BY <2>2, <2>3, <2>4, <2>7
  <2>11. Len(u.docs) - u.start < c
    BY <1>3, <2>2, <2>3 DEF m
  <2>12. InChunks(u)
    BY <2>7, <2>9, <2>10, <2>11 DEF InChunks
  <2> QED
    BY <2>12 DEF u
<1> HIDE DEF chunk
<1> QED
  BY <1>1, <1>6, <1>8, <1>9

LEMMA EntriesStart ==
  ASSUME NEW b, b.entries = <<>>, b.calls = <<>>, b.seen = {}
  PROVE  Chunked(WriteEntries(b.entries), b) /\ Chunked(PackDocs(b.calls), b)
<1> DEFINE w == NewWriter
<1>1. WriteEntries(b.entries) = w /\ PackDocs(b.calls) = w
  BY WriteNone, PackNone
<1>2. w \in Writers
  BY NewWriterTypes
<1>3. /\ w.docs = <<>> /\ w.bundles = <<>> /\ w.frames = <<>> /\ w.start = 0 /\ w.seen = {}
  BY DEF NewWriter
<1> HIDE DEF w
<1>4. w.bundles \in Seq(Bundles) /\ Len(w.bundles) = 0 /\ Len(w.docs) = 0
  BY <1>3
<1>5. 1..0 = {}
  OBVIOUS
<1>6. Start(w, 1) = 0
  BY <1>4, Starts
<1>7. Parted(w, w.start)
  BY <1>3, <1>4, <1>5, <1>6 DEF Parted
<1>8. WriterSound(w)
  BY <1>4, <1>5, <1>7 DEF WriterSound, Distinct
<1>9. SubSeq(w.docs, w.start + 1, Len(w.docs)) = <<>>
  BY <1>3
<1>10. WriterWhole(w)
  BY <1>3, <1>4, <1>5, <1>9 DEF WriterWhole, FramesMatch
<1>11. BundleCap \in Nat \ {0}
  BY CapAssumption
<1>12. BundleCap * 0 = 0 /\ 0 - 0 < BundleCap
  BY <1>11
<1>13. InChunks(w)
  BY <1>3, <1>4, <1>5, <1>12 DEF InChunks
<1> QED
  BY <1>1, <1>2, <1>3, <1>8, <1>10, <1>13 DEF Chunked

LEMMA EntryAdded ==
  ASSUME NEW w, NEW b, Chunked(w, b), NEW d \in Docs, d.key \notin b.seen,
         NEW v, v = PushDoc(w, d),
         NEW u, u = IF Len(v.docs) - v.start = BundleCap THEN Seal(v) ELSE v,
         NEW c, c.entries = Append(b.entries, d), c.seen = b.seen \cup {d.key}
  PROVE  Chunked(u, c)
<1>1. /\ w \in Writers /\ WriterSound(w) /\ WriterWhole(w) /\ InChunks(w)
      /\ w.docs = b.entries /\ w.seen = b.seen
  BY DEF Chunked
<1>2. v \in Writers /\ WriterSound(v) /\ WriterWhole(v)
  BY <1>1, PushTypes, PushKeeps
<1>3. /\ v.docs = c.entries /\ v.seen = c.seen
      /\ Len(v.docs) - v.start # BundleCap => InChunks(v)
      /\ Len(v.docs) - v.start = BundleCap => InChunks(Seal(v))
      /\ Len(v.docs) - v.start \in 1..BundleCap
  BY <1>1, ChunkFills
<1>4. CASE Len(v.docs) - v.start # BundleCap
  BY <1>2, <1>3, <1>4 DEF Chunked
<1>5. CASE Len(v.docs) - v.start = BundleCap
  <2>1. u = Seal(v)
    BY <1>5
  <2>2. u \in Writers /\ WriterSound(u) /\ WriterWhole(u) /\ InChunks(u)
    BY <1>2, <1>3, <1>5, <2>1, SealTypes, SealKeeps
  <2>3. u.docs = v.docs /\ u.seen = v.seen
    BY <1>2, <2>1, SealedDocs
  <2> QED
    BY <1>3, <2>2, <2>3 DEF Chunked
<1> QED
  BY <1>4, <1>5

LEMMA EntriesNext ==
  ASSUME NEW b \in Builders, Chunked(WriteEntries(b.entries), b), NEW d \in Docs,
         d.key \notin b.seen,
         NEW c, c.entries = Append(b.entries, d), c.seen = b.seen \cup {d.key}
  PROVE  Chunked(WriteEntries(c.entries), c)
<1> DEFINE w == WriteEntries(b.entries)
           v == PushDoc(w, d)
           i == Len(b.entries) + 1
<1>1. b.entries \in Seq(Docs)
  BY DEF Builders
<1>2. WriteEntries(c.entries) = WriteStep(w, c.entries, i)
  BY <1>1, WriteNext
<1>3. c.entries[i] = d
  BY <1>1
<1>4. /\ w \in Writers /\ WriterSound(w) /\ WriterWhole(w) /\ InChunks(w)
      /\ w.docs = b.entries /\ w.seen = b.seen
  BY DEF Chunked
<1>5. Len(v.docs) = i /\ v.start = w.start /\ Len(v.docs) - v.start \in 1..BundleCap
  <2> HIDE DEF w
  <2> QED
    BY <1>4, ChunkFills
<1>6. w.start = BundleCap * Len(w.bundles) /\ Len(w.bundles) \in Nat
  <2> HIDE DEF w
  <2> QED
    BY <1>4, WriterFields DEF InChunks
<1>7. (i % BundleCap = 0) <=> Len(v.docs) - v.start = BundleCap
  <2> DEFINE r == Len(v.docs) - v.start
             l == Len(w.bundles)
  <2>1. BundleCap \in Nat \ {0} /\ r \in 1..BundleCap /\ l \in Nat
    BY <1>5, <1>6, CapAssumption
  <2>2. i \in Nat /\ w.start \in Nat
    BY <1>1, <1>4, WriterFields
  <2>3. i = BundleCap * l + r
    <3>1. w.start = BundleCap * l /\ r = i - w.start
      BY <1>5, <1>6
    <3> HIDE DEF r, l, w, i
    <3> QED
      BY <2>1, <2>2, <3>1
  <2> HIDE DEF r, l, w, i
  <2>4. (i % BundleCap = 0) <=> r = BundleCap
    BY <2>1, <2>3, FullAt
  <2> QED
    BY <2>4 DEF r
<1>8. WriteEntries(c.entries) =
        IF Len(v.docs) - v.start = BundleCap THEN Seal(v) ELSE v
  <2>1. WriteStep(w, c.entries, i) = IF i % BundleCap = 0 THEN Seal(v) ELSE v
    BY <1>3 DEF WriteStep
  <2> HIDE DEF v, i, w
  <2> QED
    BY <1>2, <1>7, <2>1
<1> HIDE DEF w
<1> QED
  BY <1>8, EntryAdded DEF w

LEMMA CallsNext ==
  ASSUME NEW b \in Builders, Chunked(PackDocs(b.calls), b), NEW d \in Docs,
         NEW c, c.calls = Append(b.calls, d),
         IF d.key \in b.seen THEN c.entries = b.entries /\ c.seen = b.seen
         ELSE c.entries = Append(b.entries, d) /\ c.seen = b.seen \cup {d.key}
  PROVE  Chunked(PackDocs(c.calls), c)
<1> DEFINE w == PackDocs(b.calls)
           v == PushDoc(w, d)
           i == Len(b.calls) + 1
<1>1. b.calls \in Seq(Docs)
  BY DEF Builders
<1>2. PackDocs(c.calls) = PackStep(w, c.calls, i)
  BY <1>1, PackNext
<1>3. c.calls[i] = d
  BY <1>1
<1>4. PackDocs(c.calls) = IF Len(v.docs) - v.start >= BundleCap THEN Seal(v) ELSE v
  BY <1>2, <1>3 DEF PackStep
<1>5. /\ w \in Writers /\ WriterSound(w) /\ WriterWhole(w) /\ InChunks(w)
      /\ w.docs = b.entries /\ w.seen = b.seen
  BY DEF Chunked
<1>6. BundleCap \in Nat \ {0}
  BY CapAssumption
<1>7. CASE d.key \in b.seen
  <2>1. /\ v.docs = w.docs /\ v.bundles = w.bundles /\ v.frames = w.frames
        /\ v.start = w.start /\ v.seen = w.seen /\ v \in Writers
    <3> HIDE DEF w
    <3> QED
      BY <1>5, <1>7, PushTypes, Duplicate
  <2> HIDE DEF v, w
  <2>2. ~(Len(v.docs) - v.start >= BundleCap)
    <3>1. Len(w.docs) - w.start < BundleCap /\ Len(w.docs) \in Nat /\ w.start \in Nat
      BY <1>5, WriterFields DEF InChunks
    <3> QED
      BY <1>6, <2>1, <3>1
  <2>3. InChunks(v)
    BY <1>5, <2>1 DEF InChunks
  <2>4. WriterSound(v) /\ WriterWhole(v)
    BY <1>5, <2>1, SameDocs
  <2>5. Chunked(v, c)
    BY <1>5, <1>7, <2>1, <2>3, <2>4 DEF Chunked
  <2> QED
    BY <1>4, <2>2, <2>5
<1>8. CASE d.key \notin b.seen
  <2>1. Len(v.docs) - v.start \in 1..BundleCap
    <3> HIDE DEF w
    <3> QED
      BY <1>5, <1>8, ChunkFills
  <2>2. PackDocs(c.calls) = IF Len(v.docs) - v.start = BundleCap THEN Seal(v) ELSE v
    <3> HIDE DEF v
    <3> QED
      BY <1>4, <1>6, <2>1
  <2> HIDE DEF w
  <2> QED
    BY <1>8, <2>2, EntryAdded DEF w
<1> QED
  BY <1>7, <1>8

-----------------------------------------------------------------------------
(* Rows.                                                                   *)

LEMMA TableFields ==
  ASSUME NEW cols \in Tables
  PROVE  /\ Len(cols) \in Nat /\ DOMAIN cols = 1..Len(cols)
         /\ \A f \in 1..Len(cols) : cols[f] \in Seq(Nat) /\ Len(cols[f]) \in Nat
BY DEF Tables

LEMMA RowPushed ==
  ASSUME NEW cols \in Tables, NEW row \in Seq(Nat), Len(row) = Len(cols)
  PROVE  /\ PushRow(cols, row) \in Tables
         /\ Len(PushRow(cols, row)) = Len(cols)
         /\ \A f \in 1..Len(cols) :
              PushRow(cols, row)[f] = IF \A g \in 1..f : Taken(cols, row, g)
                                      THEN Append(cols[f], row[f]) ELSE cols[f]
<1> DEFINE l == Len(cols)
           grown(f) == IF \A g \in 1..f : Taken(cols, row, g)
                       THEN Append(cols[f], row[f]) ELSE cols[f]
           v == [f \in 1..l |-> grown(f)]
<1>1. l \in Nat /\ DOMAIN cols = 1..l /\ \A f \in 1..l : cols[f] \in Seq(Nat)
  BY TableFields
<1>2. PushRow(cols, row) = v
  BY <1>1 DEF PushRow
<1>3. \A f \in 1..l : grown(f) \in Seq(Nat)
  BY <1>1
<1>4. v \in Seq(Seq(Nat)) /\ Len(v) = l /\ \A f \in 1..l : v[f] = grown(f)
  <2> HIDE DEF grown
  <2> QED
    BY <1>1, <1>3, IsASeq
<1> QED
  BY <1>2, <1>4 DEF Tables

LEMMA RowKept ==
  ASSUME NEW cols \in Tables, NEW told \in Histories, RowsKept(cols, told),
         NEW row \in Seq(Nat), TakesRow(cols, row), NEW doc \in Docs,
         NEW more, more = Append(told, [doc |-> doc, row |-> row])
  PROVE  /\ more \in Histories
         /\ PushRow(cols, row) \in Tables /\ RowsKept(PushRow(cols, row), more)
         /\ Len(PushRow(cols, row)) = Len(cols)
         /\ \A f \in 1..Len(cols) : Len(PushRow(cols, row)[f]) = Len(cols[f]) + 1
<1> DEFINE l == Len(cols)
           n == Len(told)
           v == PushRow(cols, row)
           entry == [doc |-> doc, row |-> row]
<1>1. l \in Nat /\ n \in Nat /\ \A f \in 1..l : cols[f] \in Seq(Nat) /\ Len(cols[f]) \in Nat
  BY TableFields DEF Histories
<1>2. entry \in [doc : Docs, row : Seq(Nat)] /\ entry.row = row
  OBVIOUS
<1> HIDE DEF entry
<1>3. /\ more \in Histories /\ Len(more) = n + 1 /\ more[n + 1].row = row
      /\ \A i \in 1..n : more[i] = told[i]
  BY <1>1, <1>2 DEF Histories, entry
<1>4. /\ v \in Tables /\ Len(v) = l
      /\ \A f \in 1..l : v[f] = Append(cols[f], row[f])
  <2>1. \A f \in 1..l : \A g \in 1..f : g \in 1..l
    BY <1>1
  <2>2. Len(row) = l /\ \A g \in 1..l : Taken(cols, row, g)
    BY DEF TakesRow
  <2> HIDE DEF v
  <2> QED
    BY <2>1, <2>2, RowPushed DEF v
<1>5. \A f \in 1..l : /\ Len(v[f]) = Len(cols[f]) + 1 /\ v[f][Len(cols[f]) + 1] = row[f]
                      /\ \A i \in 1..Len(cols[f]) : v[f][i] = cols[f][i]
  <2>1. \A f \in 1..l : row[f] \in Nat
    BY DEF TakesRow
  <2> HIDE DEF v
  <2>2. ASSUME NEW f \in 1..l
        PROVE  /\ Len(v[f]) = Len(cols[f]) + 1 /\ v[f][Len(cols[f]) + 1] = row[f]
               /\ \A i \in 1..Len(cols[f]) : v[f][i] = cols[f][i]
    <3>1. cols[f] \in Seq(Nat) /\ row[f] \in Nat /\ v[f] = Append(cols[f], row[f])
      BY <1>1, <1>4, <2>1
    <3> QED
      BY ONLY <3>1
  <2> QED
    BY <2>2
<1>6. /\ \A i \in 1..n : Len(told[i].row) = l
      /\ \A f \in 1..l : n <= Len(cols[f]) /\ Len(cols[f]) <= Len(cols[1])
      /\ \A f \in 1..l : Len(cols[1]) = n => \A i \in 1..n : cols[f][i] = told[i].row[f]
  BY DEF RowsKept
<1> HIDE DEF v, l, n
<1>7. \A i \in 1..(n + 1) : i \in 1..n \/ i = n + 1
  BY <1>1
<1>8. \A i \in 1..(n + 1) : Len(more[i].row) = l
  <2>1. Len(row) = l
    BY DEF TakesRow, l
  <2> QED
    BY <1>3, <1>6, <1>7, <2>1
<1>9. \A f \in 1..l : 1 \in 1..l
  BY <1>1
<1>10. ASSUME NEW f \in 1..l
       PROVE  n + 1 <= Len(v[f]) /\ Len(v[f]) <= Len(v[1])
  <2>1. /\ Len(v[f]) = Len(cols[f]) + 1 /\ Len(v[1]) = Len(cols[1]) + 1
        /\ n <= Len(cols[f]) /\ Len(cols[f]) <= Len(cols[1])
        /\ Len(cols[f]) \in Nat /\ Len(cols[1]) \in Nat
    BY <1>1, <1>5, <1>6, <1>9
  <2> QED
    BY <1>1, <2>1
<1>11. ASSUME NEW f \in 1..l, Len(v[1]) = n + 1, NEW i \in 1..(n + 1)
       PROVE  v[f][i] = more[i].row[f]
  <2>1. /\ Len(v[1]) = Len(cols[1]) + 1
        /\ n <= Len(cols[f]) /\ Len(cols[f]) <= Len(cols[1])
        /\ Len(cols[f]) \in Nat /\ Len(cols[1]) \in Nat
    BY <1>1, <1>5, <1>6, <1>9
  <2>2. Len(cols[1]) = n /\ Len(cols[f]) = n
    BY <1>1, <1>11, <2>1
  <2>3. CASE i \in 1..n
    BY <1>3, <1>5, <1>6, <2>2, <2>3
  <2>4. CASE i = n + 1
    BY <1>3, <1>5, <2>2, <2>4
  <2> QED
    BY <1>7, <2>3, <2>4
<1>12. RowsKept(v, more)
  BY <1>3, <1>4, <1>8, <1>10, <1>11 DEF RowsKept
<1> QED
  BY <1>3, <1>4, <1>5, <1>12 DEF v, l

LEMMA RowRefused ==
  ASSUME NEW cols \in Tables, NEW told \in Histories, RowsKept(cols, told),
         NEW row \in Seq(Nat)
  PROVE  PushRow(cols, row) \in Tables /\ RowsKept(PushRow(cols, row), told)
<1>1. CASE Len(row) # Len(cols)
  BY <1>1 DEF PushRow
<1>2. CASE Len(row) = Len(cols)
  <2> DEFINE l == Len(cols)
             n == Len(told)
             v == PushRow(cols, row)
             good(f) == \A g \in 1..f : Taken(cols, row, g)
  <2>1. l \in Nat /\ n \in Nat /\ \A f \in 1..l : cols[f] \in Seq(Nat) /\ Len(cols[f]) \in Nat
    BY TableFields DEF Histories
  <2>2. /\ v \in Tables /\ Len(v) = l
        /\ \A f \in 1..l : v[f] = IF good(f) THEN Append(cols[f], row[f]) ELSE cols[f]
    BY <1>2, RowPushed
  <2>3. /\ \A i \in 1..n : Len(told[i].row) = l
        /\ \A f \in 1..l : n <= Len(cols[f]) /\ Len(cols[f]) <= Len(cols[1])
        /\ \A f \in 1..l : Len(cols[1]) = n => \A i \in 1..n : cols[f][i] = told[i].row[f]
    BY DEF RowsKept
  <2>4. \A f \in 1..l : 1 \in 1..l /\ (good(f) => good(1))
    BY <2>1
  <2>a. \A f \in 1..l : row[f] \in Nat
    BY <1>2
  <2> HIDE DEF v, good
  <2>5. ASSUME NEW f \in 1..l
        PROVE  Len(v[f]) = IF good(f) THEN Len(cols[f]) + 1 ELSE Len(cols[f])
    <3>1. /\ cols[f] \in Seq(Nat) /\ row[f] \in Nat
          /\ v[f] = IF good(f) THEN Append(cols[f], row[f]) ELSE cols[f]
      BY <2>1, <2>2, <2>a
    <3>2. CASE good(f)
      BY ONLY <3>1, <3>2
    <3>3. CASE ~good(f)
      BY ONLY <3>1, <3>3
    <3> QED
      BY <3>2, <3>3
  <2> HIDE DEF l, n
  <2>6. ASSUME NEW f \in 1..l
        PROVE  n <= Len(v[f]) /\ Len(v[f]) <= Len(v[1])
    <3>1. /\ Len(v[1]) = IF good(1) THEN Len(cols[1]) + 1 ELSE Len(cols[1])
          /\ Len(v[f]) = IF good(f) THEN Len(cols[f]) + 1 ELSE Len(cols[f])
          /\ n <= Len(cols[f]) /\ Len(cols[f]) <= Len(cols[1]) /\ n \in Nat
          /\ Len(cols[f]) \in Nat /\ Len(cols[1]) \in Nat /\ (good(f) => good(1))
      BY <2>1, <2>3, <2>4, <2>5
    <3> QED
      BY ONLY <3>1
  <2>7. ASSUME NEW f \in 1..l, Len(v[1]) = n, NEW i \in 1..n
        PROVE  v[f][i] = told[i].row[f]
    <3>1. /\ Len(v[1]) = IF good(1) THEN Len(cols[1]) + 1 ELSE Len(cols[1])
          /\ n <= Len(cols[1]) /\ n \in Nat /\ Len(cols[1]) \in Nat
          /\ (good(f) => good(1))
      BY <2>1, <2>3, <2>4, <2>5
    <3>2. Len(cols[1]) = n /\ ~good(f)
      BY ONLY <3>1, <2>7
    <3> QED
      BY <2>2, <2>3, <3>2
  <2> QED
    BY <2>2, <2>3, <2>6, <2>7 DEF RowsKept, l, n, v
<1> QED
  BY <1>1, <1>2

LEMMA HistoryFields ==
  ASSUME NEW told \in Histories
  PROVE  /\ Len(told) \in Nat
         /\ \A i \in 1..Len(told) : told[i].doc \in Docs /\ told[i].row \in Seq(Nat)
<1> DEFINE S == [doc : Docs, row : Seq(Nat)]
<1>1. told \in Seq(S)
  BY DEF Histories
<1>2. \A e \in S : e.doc \in Docs /\ e.row \in Seq(Nat)
  OBVIOUS
<1> HIDE DEF S
<1>3. Len(told) \in Nat /\ \A i \in 1..Len(told) : told[i] \in S
  BY <1>1
<1> QED
  BY <1>2, <1>3

LEMMA RowsRead ==
  ASSUME NEW cols \in Tables, NEW told \in Histories, RowsKept(cols, told),
         cols # NoTable => Len(cols[1]) = Len(told)
  PROVE  /\ \A i \in 1..Len(told) : RowAt(cols, i) = told[i].row
         /\ \A f \in 1..Len(cols) : Len(cols[f]) = Len(told)
<1> DEFINE l == Len(cols)
           n == Len(told)
<1>1. /\ l \in Nat /\ n \in Nat /\ DOMAIN cols = 1..l
      /\ \A f \in 1..l : cols[f] \in Seq(Nat) /\ Len(cols[f]) \in Nat
  BY TableFields DEF Histories
<1>2. \A f \in 1..l : cols # NoTable /\ 1 \in 1..l
  BY <1>1 DEF NoTable
<1>3. /\ \A i \in 1..n : Len(told[i].row) = l
      /\ \A f \in 1..l : n <= Len(cols[f]) /\ Len(cols[f]) <= Len(cols[1])
      /\ \A f \in 1..l : Len(cols[1]) = n => \A i \in 1..n : cols[f][i] = told[i].row[f]
  BY DEF RowsKept
<1>4. \A f \in 1..l : Len(cols[f]) = n /\ Len(cols[1]) = n
  BY <1>1, <1>2, <1>3
<1>5. ASSUME NEW i \in 1..n
      PROVE  RowAt(cols, i) = told[i].row
  <2>1. told[i].row \in Seq(Nat)
    BY HistoryFields
  <2> DEFINE row == told[i].row
             r == [f \in 1..l |-> IF i \in DOMAIN cols[f] THEN cols[f][i] ELSE NoValue]
  <2>2. row = [f \in 1..l |-> row[f]]
    BY <1>3, <2>1
  <2>3. \A f \in 1..l : r[f] = row[f]
    <3>1. \A f \in 1..l : DOMAIN cols[f] = 1..n
      BY <1>1, <1>4
    <3> QED
      BY <1>3, <1>4, <3>1
  <2>4. r = [f \in 1..l |-> r[f]]
    OBVIOUS
  <2>5. RowAt(cols, i) = r
    BY <1>1 DEF RowAt
  <2> HIDE DEF r, row
  <2>6. r = row
    BY <2>2, <2>3, <2>4
  <2> QED
    BY <2>5, <2>6 DEF row
<1> QED
  BY <1>4, <1>5

LEMMA RowTypes ==
  ASSUME adds \in Nat
  PROVE  \A row \in Rows : row \in Seq(Nat)
<1>1. Fields \in Nat \ {0} /\ NewId \in Nat /\ BadValue \in Nat
  BY CapAssumption DEF NewId, BadValue
<1> HIDE DEF NewId
<1>0. 2 * NewId \in Nat /\ Huge \in Nat
  BY <1>1 DEF Huge
<1> HIDE DEF Huge
<1> DEFINE Plain == [1..Fields -> Nat]
<1>2. GoodRow \in Plain
  BY <1>0 DEF GoodRow
<1>3. \A f \in 1..Fields : \A v \in Nat : [GoodRow EXCEPT ![f] = v] \in Plain
  BY <1>2
<1>4. \A row \in Plain : row \in Seq(Nat) /\ Len(row) = Fields
  BY <1>1
<1>5. Tail(GoodRow) \in Seq(Nat)
  <2>1. GoodRow \in Seq(Nat) /\ GoodRow # <<>>
    BY <1>1, <1>2, <1>4
  <2> HIDE DEF Plain
  <2> QED
    BY <2>1
<1>6. 1 \in 1..Fields /\ Fields \in 1..Fields
  BY <1>1
<1> QED
  BY <1>0, <1>1, <1>2, <1>3, <1>4, <1>5, <1>6 DEF Rows

LEMMA NullRowFits ==
  ASSUME NEW cols \in Tables
  PROVE  /\ NullRow(cols) \in Seq(Nat) /\ Len(NullRow(cols)) = Len(cols)
         /\ TakesRow(cols, NullRow(cols))
<1>1. Len(cols) \in Nat /\ DOMAIN cols = 1..Len(cols)
  BY TableFields
<1>2. /\ NullRow(cols) \in Seq(Nat) /\ Len(NullRow(cols)) = Len(cols)
      /\ \A g \in 1..Len(cols) : NullRow(cols)[g] = 0
  BY <1>1, IsASeq DEF NullRow, NoValue
<1>3. 0 # BadValue /\ ~IsHuge(0)
  BY DEF BadValue, IsHuge
<1>4. \A g \in 1..Len(cols) : Taken(cols, NullRow(cols), g)
  BY <1>2, <1>3 DEF Taken, Fits
<1> QED
  BY <1>2, <1>4 DEF TakesRow

(* A row that was checked is pushed after its document: the columns take   *)
(* it, or the last one stays behind.                                       *)
LEMMA RowTold ==
  ASSUME NEW cols \in Tables, NEW told \in Histories, NEW short \in BOOLEAN,
         RowsTold(cols, told, short), NEW row \in Seq(Nat), Len(row) = Len(cols),
         NEW doc \in Docs, NEW more, more = Append(told, [doc |-> doc, row |-> row]),
         NEW still, still = (short \/ ~TakesRow(cols, row))
  PROVE  /\ more \in Histories
         /\ PushRow(cols, row) \in Tables
         /\ RowsTold(PushRow(cols, row), more, still)
<1> DEFINE l == Len(cols)
           n == Len(told)
           v == PushRow(cols, row)
           entry == [doc |-> doc, row |-> row]
           good(f) == \A g \in 1..f : Taken(cols, row, g)
<1>1. l \in Nat /\ n \in Nat /\ \A f \in 1..l : cols[f] \in Seq(Nat) /\ Len(cols[f]) \in Nat
  BY TableFields DEF Histories
<1>2. /\ v \in Tables /\ Len(v) = l
      /\ \A f \in 1..l : v[f] = IF good(f) THEN Append(cols[f], row[f]) ELSE cols[f]
  BY RowPushed
<1>3. more \in Histories /\ Len(more) = n + 1
  <2>1. entry \in [doc : Docs, row : Seq(Nat)]
    OBVIOUS
  <2> HIDE DEF entry
  <2> QED
    BY <1>1, <2>1 DEF Histories, entry
<1>4. \A f \in 1..l : row[f] \in Nat
  OBVIOUS
<1>5. cols # NoTable => l \in 1..l /\ 1 \in 1..l
  BY <1>1 DEF NoTable, Tables
<1>6. v # NoTable => cols # NoTable
  BY <1>1, <1>2 DEF NoTable, Tables
<1>7. CASE short
  <2>1. cols # NoTable /\ Len(cols[l]) < n /\ still
    BY <1>7 DEF RowsTold
  <2>2. cols[l] \in Seq(Nat) /\ Len(cols[l]) \in Nat /\ row[l] \in Nat
        /\ (v[l] = Append(cols[l], row[l]) \/ v[l] = cols[l])
    BY <1>1, <1>2, <1>4, <1>5, <2>1
  <2> HIDE DEF v, l, n
  <2>3. Len(v[l]) < n + 1
    BY <1>1, <2>1, <2>2
  <2>4. v # NoTable /\ Len(v) = l
    BY <1>2, <1>5, <2>1 DEF NoTable
  <2> QED
    BY <1>2, <1>3, <2>1, <2>3, <2>4 DEF RowsTold, v
<1>8. CASE ~short /\ TakesRow(cols, row)
  <2>1. RowsKept(cols, told) /\ (cols # NoTable => Len(cols[1]) = n) /\ ~still
    BY <1>8 DEF RowsTold
  <2>2. RowsKept(v, more) /\ \A f \in 1..l : Len(v[f]) = Len(cols[f]) + 1
    BY <1>8, <2>1, RowKept
  <2> HIDE DEF v, l, n
  <2>3. v # NoTable => Len(v[1]) = Len(more)
    BY <1>3, <1>5, <1>6, <2>1, <2>2
  <2> QED
    BY <1>2, <1>3, <2>1, <2>2, <2>3 DEF RowsTold, v
<1>9. CASE ~short /\ ~TakesRow(cols, row)
  <2>1. RowsKept(cols, told) /\ (cols # NoTable => Len(cols[1]) = n) /\ still
    BY <1>9 DEF RowsTold
  <2>2. PICK g \in 1..l : ~Taken(cols, row, g)
    BY <1>9 DEF TakesRow
  <2>3. cols # NoTable /\ l \in 1..l /\ 1 \in 1..l /\ ~good(l)
    BY <1>1, <2>2 DEF NoTable
  <2>4. v[l] = cols[l] /\ Len(cols[l]) <= Len(cols[1]) /\ Len(cols[1]) = n
    BY <1>2, <2>1, <2>3 DEF RowsKept
  <2> HIDE DEF v, l, n
  <2>5. Len(v[l]) < Len(more)
    BY <1>1, <1>3, <2>3, <2>4
  <2>6. v # NoTable /\ Len(v) = l
    BY <1>2, <2>3 DEF NoTable
  <2> QED
    BY <1>2, <1>3, <2>1, <2>5, <2>6 DEF RowsTold, v
<1> QED
  BY <1>7, <1>8, <1>9

(* The rows of a builder or an archive that finishes.                      *)
LEMMA RowsFinish ==
  ASSUME NEW w \in Writers, NEW cols, NEW told, RowsKept(cols, told),
         Finishes(w, cols), Answered(w.docs, told)
  PROVE  RowsTold(cols, told, FALSE)
<1>1. Seal(w).docs = w.docs /\ Len(w.docs) = Len(told)
  BY SealedDocs DEF Answered
<1> QED
  BY <1>1 DEF RowsTold, Finishes, RowsMatch, RowCount

-----------------------------------------------------------------------------
(* Saving what was sealed: the same documents in the same bundles.         *)

(* The writer has the first m of the documents.                            *)
Written(w, docs, m) ==
  /\ w \in Writers /\ WriterSound(w) /\ WriterWhole(w)
  /\ Len(w.docs) = m
  /\ \A i \in 1..m : w.docs[i] = docs[i]
  /\ \A k \in w.seen : \E i \in 1..m : docs[i].key = k

LEMMA WrittenNext ==
  ASSUME NEW docs \in Seq(Docs), Distinct(docs), NEW w, NEW m \in Nat, Written(w, docs, m),
         NEW i, i = m + 1, i <= Len(docs), NEW v, v = PushDoc(w, docs[i])
  PROVE  Written(v, docs, i) /\ v.bundles = w.bundles /\ v.start = w.start
<1> DEFINE d == docs[i]
<1>1. i \in 1..Len(docs) /\ i \in Nat
  OBVIOUS
<1>2. d \in Docs
  BY <1>1
<1>3. /\ w \in Writers /\ WriterSound(w) /\ WriterWhole(w)
      /\ Len(w.docs) = m
      /\ \A j \in 1..m : w.docs[j] = docs[j]
      /\ \A k \in w.seen : \E j \in 1..m : docs[j].key = k
  BY DEF Written
<1>4. d.key \notin w.seen
  <2>1. \A j \in 1..m : j \in 1..Len(docs) /\ j # i
    OBVIOUS
  <2> QED
    BY <1>1, <1>3, <2>1 DEF Distinct
<1> HIDE DEF d
<1>5. /\ v.docs = Append(w.docs, d) /\ v.bundles = w.bundles /\ v.start = w.start
      /\ v.seen = w.seen \cup {d.key}
  <2>1. v = [docs |-> Append(w.docs, d), bundles |-> w.bundles,
             frames |-> Append(w.frames, d), start |-> w.start,
             seen |-> w.seen \cup {d.key}, collapsed |-> w.collapsed]
    BY <1>3, <1>4, Pushed DEF d
  <2> QED
    BY <2>1
<1>6. v \in Writers /\ WriterSound(v) /\ WriterWhole(v)
  BY <1>2, <1>3, <1>4, PushTypes, PushKeeps DEF d
<1>7. w.docs \in Seq(Docs)
  BY <1>3, WriterFields
<1>8. /\ Len(v.docs) = i /\ v.docs[i] = d
      /\ \A j \in 1..m : v.docs[j] = w.docs[j]
  BY <1>2, <1>3, <1>5, <1>7
<1>9. \A j \in 1..i : j \in 1..m \/ j = i
  OBVIOUS
<1>10. \A j \in 1..i : v.docs[j] = docs[j]
  BY <1>3, <1>8, <1>9 DEF d
<1>11. \A k \in v.seen : \E j \in 1..i : docs[j].key = k
  <2>1. \A j \in 1..m : j \in 1..i
    OBVIOUS
  <2>2. i \in 1..i
    BY <1>1
  <2> QED
    BY <1>3, <1>5, <2>1, <2>2 DEF d
<1> QED
  BY <1>5, <1>6, <1>8, <1>10, <1>11 DEF Written

LEMMA WrittenAll ==
  ASSUME NEW docs \in Seq(Docs), Distinct(docs), NEW w, NEW m \in Nat, Written(w, docs, m),
         NEW chunk \in Seq(Docs), m + Len(chunk) <= Len(docs),
         \A i \in 1..Len(chunk) : chunk[i] = docs[m + i],
         NEW v, v = PushAll(w, chunk)
  PROVE  /\ Written(v, docs, m + Len(chunk))
         /\ v.bundles = w.bundles /\ v.start = w.start
<1> DEFINE n == Len(chunk)
<1>1. n \in Nat /\ w \in Writers
  BY DEF Written
<1>2. PICK f : PushesUp(f, w, chunk, n)
  BY <1>1, PushExists
<1>3. v = f[n]
  <2> HIDE DEF n
  <2> QED
    BY <1>1, <1>2, PushAt DEF n
<1>4. f[0] = w /\ \A i \in 1..n : f[i] = PushDoc(f[i - 1], chunk[i])
  BY <1>2 DEF PushesUp, PushStep
<1> DEFINE Ok(i) == Written(f[i], docs, m + i) /\ f[i].bundles = w.bundles /\ f[i].start = w.start
           T == {i \in Nat : Ok(i)}
<1>5. Ok(0)
  <2>1. m + 0 = m
    OBVIOUS
  <2> QED
    BY <1>4, <2>1
<1>6. ASSUME NEW i \in 0..n, Ok(i), i < n
      PROVE  Ok(i + 1)
  <2> DEFINE j == m + i + 1
             e == i + 1
  <2>1. /\ e \in 1..n /\ e - 1 = i /\ j = (m + i) + 1 /\ m + e = j /\ m + i \in Nat
        /\ j <= Len(docs)
    BY <1>1, <1>6
  <2>2. f[e] = PushDoc(f[i], docs[j])
    <3> HIDE DEF n, j, e
    <3>1. f[e] = PushDoc(f[e - 1], chunk[e]) /\ chunk[e] = docs[m + e]
      BY <1>4, <2>1 DEF n
    <3> QED
      BY <2>1, <3>1
  <2>3. Written(f[i], docs, m + i)
    BY <1>6
  <2> HIDE DEF j, e, n
  <2>4. Written(f[e], docs, j) /\ f[e].bundles = f[i].bundles /\ f[e].start = f[i].start
    BY <2>1, <2>2, <2>3, WrittenNext
  <2> QED
    BY <1>6, <2>1, <2>4 DEF e
<1>7. n \in T
  <2> HIDE DEF Ok
  <2>1. 0 \in T /\ \A i \in 0..n : i \in T /\ i < n => (i + 1) \in T
    BY <1>5, <1>6
  <2>2. n \in 0..n
    BY <1>1
  <2> HIDE DEF T, n
  <2> QED
    BY <1>1, <2>1, <2>2, Upward
<1> QED
  BY <1>3, <1>7

(* The bundles of f, as an archive in memory has them.                     *)
Tiles(bs, f) ==
  /\ bs \in Seq(Seq(Docs)) /\ Len(bs) = Len(f.bundles)
  /\ \A b \in 1..Len(bs) : bs[b] = f.bundles[b].frames

(* What f is when all its documents are in bundles.                        *)
Settled(f) ==
  /\ f.docs \in Seq(Docs) /\ f.bundles \in Seq(Bundles)
  /\ Distinct(f.docs) /\ Parted(f, Len(f.docs)) /\ FramesMatch(f)

(* The first b bundles are written.                                        *)
Saved(w, f, b) ==
  /\ Written(w, f.docs, Start(f, b + 1)) /\ w.start = Len(w.docs)
  /\ Len(w.bundles) = b
  /\ \A c \in 1..b : w.bundles[c] = f.bundles[c]

LEMMA BundleFields ==
  ASSUME NEW b \in Bundles
  PROVE  b = [n |-> b.n, frames |-> b.frames] /\ b.n \in Nat /\ b.frames \in Seq(Docs)
BY DEF Bundles

LEMMA SavedFirst ==
  ASSUME NEW f, Settled(f)
  PROVE  Saved(NewWriter, f, 0)
<1> DEFINE w == NewWriter
<1>1. w \in Writers /\ w.docs = <<>> /\ w.bundles = <<>> /\ w.frames = <<>>
      /\ w.start = 0 /\ w.seen = {}
  BY NewWriterTypes DEF NewWriter
<1> HIDE DEF w
<1>2. w.bundles \in Seq(Bundles) /\ Len(w.bundles) = 0 /\ Len(w.docs) = 0
  BY <1>1
<1>3. 1..0 = {}
  OBVIOUS
<1>4. Start(w, 1) = 0 /\ Start(f, 1) = 0
  BY <1>2, Starts DEF Settled
<1>5. Parted(w, w.start)
  BY <1>1, <1>2, <1>3, <1>4 DEF Parted
<1>6. WriterSound(w)
  BY <1>2, <1>3, <1>5 DEF WriterSound, Distinct
<1>7. SubSeq(w.docs, w.start + 1, Len(w.docs)) = <<>>
  BY <1>1
<1>8. WriterWhole(w)
  BY <1>1, <1>2, <1>3, <1>7 DEF WriterWhole, FramesMatch
<1>9. Written(w, f.docs, 0)
  BY <1>1, <1>2, <1>3, <1>6, <1>8 DEF Written
<1>10. Start(f, 0 + 1) = 0
  BY <1>4
<1> QED
  BY <1>1, <1>2, <1>3, <1>9, <1>10 DEF Saved, w

LEMMA SavedNext ==
  ASSUME NEW f, Settled(f), NEW bs, Tiles(bs, f), NEW b \in 0..Len(bs), b < Len(bs),
         NEW w, Saved(w, f, b), NEW c, c = b + 1, NEW v, v = SaveStep(w, bs, c)
  PROVE  Saved(v, f, c)
<1> DEFINE m == Start(f, c)
           chunk == bs[c]
           u == PushAll(w, chunk)
           k == Len(chunk)
<1>1. /\ f.docs \in Seq(Docs) /\ f.bundles \in Seq(Bundles)
      /\ Distinct(f.docs) /\ Parted(f, Len(f.docs)) /\ FramesMatch(f)
  BY DEF Settled
<1>2. b \in Nat /\ c \in Nat /\ c \in 1..Len(f.bundles) /\ c \in 1..Len(bs)
  BY <1>1 DEF Tiles
<1>3. /\ chunk \in Seq(Docs) /\ chunk = f.bundles[c].frames
  BY <1>2 DEF Tiles
<1>4. /\ k = f.bundles[c].n
      /\ \A slot \in 1..f.bundles[c].n : f.bundles[c].frames[slot] = f.docs[Start(f, c) + slot]
  BY <1>1, <1>2, <1>3 DEF FramesMatch
<1>5. /\ m \in Nat /\ k \in Nat \ {0} /\ Start(f, c + 1) <= Len(f.docs)
  BY <1>1, <1>2, <1>4, Within
<1>6. Start(f, c + 1) = m + k
  <2>1. \A e \in 1..Len(f.bundles) : Start(f, e + 1) = Start(f, e) + f.bundles[e].n
    BY <1>1, Starts
  <2> QED
    BY ONLY <1>2, <1>4, <2>1
<1>7. /\ Written(w, f.docs, m) /\ w.start = Len(w.docs) /\ Len(w.bundles) = b
      /\ \A e \in 1..b : w.bundles[e] = f.bundles[e]
  BY DEF Saved
<1>8. Written(u, f.docs, m + k) /\ u.bundles = w.bundles /\ u.start = w.start
  <2>1. /\ m + k <= Len(f.docs)
        /\ \A i \in 1..k : chunk[i] = f.docs[m + i]
    BY <1>3, <1>4, <1>5, <1>6
  <2> HIDE DEF m, chunk, u
  <2> QED
    <3>1. /\ f.docs \in Seq(Docs) /\ Distinct(f.docs) /\ m \in Nat /\ Written(w, f.docs, m)
          /\ chunk \in Seq(Docs) /\ m + Len(chunk) <= Len(f.docs)
          /\ \A i \in 1..Len(chunk) : chunk[i] = f.docs[m + i]
      BY <1>1, <1>3, <1>5, <1>7, <2>1
    <3>2. u = PushAll(w, chunk)
      BY DEF u
    <3> HIDE DEF k
    <3>3. Written(u, f.docs, m + Len(chunk)) /\ u.bundles = w.bundles /\ u.start = w.start
      BY ONLY <3>1, <3>2, WrittenAll
    <3> QED
      BY <3>3 DEF k
<1>9. v = Seal(u)
  BY DEF SaveStep
<1> HIDE DEF m, u, k, chunk
<1>10. /\ u \in Writers /\ WriterSound(u) /\ WriterWhole(u) /\ Len(u.docs) = m + k
       /\ \A i \in 1..(m + k) : u.docs[i] = f.docs[i]
       /\ \A key \in u.seen : \E i \in 1..(m + k) : f.docs[i].key = key
  BY <1>8 DEF Written
<1>11. Len(w.docs) = m /\ u.start = m
  BY <1>7, <1>8 DEF Written
<1>12. /\ v \in Writers /\ WriterSound(v) /\ WriterWhole(v) /\ v.start = Len(v.docs)
       /\ v.docs = u.docs /\ v.seen = u.seen
  BY <1>9, <1>10, SealTypes, SealKeeps, SealedDocs
<1>13. u.frames = chunk
  <2>1. u.frames = SubSeq(u.docs, m + 1, m + k) /\ u.docs \in Seq(Docs)
    BY <1>10, <1>11, WriterFields DEF WriterWhole
  <2>2. m \in 0..Len(u.docs) /\ m + k \in m..Len(u.docs)
    BY <1>5, <1>10
  <2>3. /\ u.frames \in Seq(Docs) /\ Len(u.frames) = (m + k) - m
        /\ \A i \in 1..((m + k) - m) : u.frames[i] = u.docs[m + i]
    BY ONLY <2>1, <2>2, SliceFacts
  <2>4. Len(u.frames) = k /\ \A i \in 1..k : u.frames[i] = u.docs[m + i]
    BY <1>5, <2>3, SMTT(30)
  <2>5. \A i \in 1..k : u.frames[i] = chunk[i]
    <3>1. ASSUME NEW i \in 1..k
          PROVE  u.frames[i] = chunk[i]
      <4>1. m + i \in 1..(m + k)
        BY <1>5
      <4> QED
        BY <1>3, <1>4, <1>10, <2>4, <4>1 DEF m
    <3> QED
      BY <3>1
  <2> QED
    BY <1>3, <2>3, <2>4, <2>5, SeqEqual DEF k
<1>14. /\ v.bundles = Append(w.bundles, [n |-> k, frames |-> chunk])
  <2>1. Len(u.docs) # u.start /\ Len(u.docs) - u.start = k
    BY <1>5, <1>10, <1>11
  <2> HIDE DEF k, m
  <2>2. v = [docs |-> u.docs,
             bundles |-> Append(u.bundles, [n |-> k, frames |-> u.frames]),
             frames |-> <<>>, start |-> Len(u.docs), seen |-> u.seen,
             collapsed |-> u.collapsed]
    BY <1>9, <1>10, <2>1, Sealed
  <2> QED
    BY <1>8, <1>13, <2>2
<1>15. f.bundles[c] = [n |-> k, frames |-> chunk]
  <2>1. f.bundles[c] \in Bundles
    BY <1>1, <1>2
  <2>2. f.bundles[c] = [n |-> f.bundles[c].n, frames |-> f.bundles[c].frames]
    BY <2>1, BundleFields
  <2> QED
    BY <1>3, <1>4, <2>2
<1>16. /\ Len(v.bundles) = c
       /\ \A e \in 1..c : v.bundles[e] = f.bundles[e]
  <2>1. w \in Writers
    BY <1>7 DEF Written
  <2>2. w.bundles \in Seq(Bundles) /\ f.bundles[c] \in Bundles
    BY <1>1, <1>2, <2>1, WriterFields
  <2>3. v.bundles = Append(w.bundles, f.bundles[c])
    BY <1>14, <1>15
  <2>4. Len(v.bundles) = c /\ v.bundles[c] = f.bundles[c]
        /\ \A e \in 1..b : v.bundles[e] = w.bundles[e]
    <3>1. Len(w.bundles) = b /\ b \in Nat /\ c = b + 1
      BY <1>2, <1>7
    <3> QED
      BY ONLY <2>2, <2>3, <3>1
  <2>5. \A e \in 1..c : e \in 1..b \/ e = c
    BY <1>2
  <2> QED
    BY <1>7, <2>4, <2>5
<1>17. Written(v, f.docs, m + k)
  BY <1>10, <1>12 DEF Written
<1> QED
  BY <1>6, <1>12, <1>16, <1>17 DEF Saved

LEMMA SaveTiles ==
  ASSUME NEW f, Settled(f), NEW bs, Tiles(bs, f), NEW w, w = SaveBundles(bs)
  PROVE  /\ w \in Writers /\ WriterSound(w) /\ WriterWhole(w)
         /\ w.docs = f.docs /\ w.bundles = f.bundles /\ w.start = Len(w.docs)
<1> DEFINE n == Len(bs)
<1>1. bs \in Seq(Seq(Docs)) /\ n \in Nat /\ n = Len(f.bundles)
  BY DEF Tiles
<1>2. PICK s : SavesUp(s, bs, n)
  BY <1>1, SaveExists
<1>3. w = s[n]
  <2> HIDE DEF n
  <2> QED
    BY <1>1, <1>2, SaveAt DEF n
<1>4. s[0] = NewWriter /\ \A i \in 1..n : s[i] = SaveStep(s[i - 1], bs, i)
  BY <1>2 DEF SavesUp
<1> DEFINE Ok(b) == Saved(s[b], f, b)
           T == {b \in Nat : Ok(b)}
<1>5. Ok(0)
  BY <1>4, SavedFirst
<1>6. ASSUME NEW b \in 0..n, Ok(b), b < n
      PROVE  Ok(b + 1)
  <2> DEFINE c == b + 1
  <2>1. c \in 1..n /\ c - 1 = b
    BY <1>1, <1>6
  <2>2. s[c] = SaveStep(s[b], bs, c)
    <3> HIDE DEF c
    <3> QED
      BY <1>4, <2>1
  <2> QED
    BY <1>6, <2>2, SavedNext
<1>7. n \in T
  <2> HIDE DEF Ok
  <2>1. 0 \in T /\ \A i \in 0..n : i \in T /\ i < n => (i + 1) \in T
    BY <1>5, <1>6
  <2>2. n \in 0..n
    BY <1>1
  <2> HIDE DEF T, n
  <2> QED
    BY <1>1, <2>1, <2>2, Upward
<1>8. Saved(w, f, n)
  BY <1>3, <1>7
<1>9. /\ f.docs \in Seq(Docs) /\ f.bundles \in Seq(Bundles)
      /\ Start(f, n + 1) = Len(f.docs)
  BY <1>1 DEF Settled, Parted
<1>10. /\ Written(w, f.docs, Len(f.docs)) /\ w.start = Len(w.docs)
       /\ Len(w.bundles) = n /\ \A c \in 1..n : w.bundles[c] = f.bundles[c]
  BY <1>8, <1>9 DEF Saved
<1>11. /\ w \in Writers /\ WriterSound(w) /\ WriterWhole(w) /\ Len(w.docs) = Len(f.docs)
       /\ \A i \in 1..Len(f.docs) : w.docs[i] = f.docs[i]
  BY <1>10 DEF Written
<1>12. w.docs \in Seq(Docs) /\ w.bundles \in Seq(Bundles)
  BY <1>11, WriterFields
<1>13. w.docs = f.docs
  BY <1>9, <1>11, <1>12, SeqEqual
<1>14. w.bundles = f.bundles
  BY <1>1, <1>9, <1>10, <1>12, SeqEqual
<1> QED
  BY <1>10, <1>11, <1>13, <1>14

-----------------------------------------------------------------------------
(* from_vec makes the bundles that were sealed one by one.                 *)

LEMMA SealSettles ==
  ASSUME NEW w \in Writers, WriterSound(w), WriterWhole(w)
  PROVE  Settled(Seal(w))
<1>1. /\ Seal(w) \in Writers /\ WriterSound(Seal(w)) /\ WriterWhole(Seal(w))
      /\ Seal(w).start = Len(Seal(w).docs)
  BY SealTypes, SealKeeps
<1>2. Seal(w).docs \in Seq(Docs) /\ Seal(w).bundles \in Seq(Bundles)
  BY <1>1, WriterFields
<1> QED
  BY <1>1, <1>2 DEF Settled, WriterSound, WriterWhole

LEMMA ChunkEnds ==
  ASSUME NEW c \in Nat \ {0}, NEW l \in Nat, NEW r \in 0..(c - 1), NEW n, n = c * l + r,
         NEW b \in 1..l
  PROVE  /\ (b - 1) * c + 1 = c * (b - 1) + 1
         /\ (IF b * c < n THEN b * c ELSE n) = c * b
<1>1. c * b <= c * l /\ c * b \in Nat /\ c * l \in Nat /\ c * (b - 1) \in Nat
  BY Multiples
<1>2. b * c = c * b /\ (b - 1) * c = c * (b - 1)
  OBVIOUS
<1> DEFINE x == c * b
           y == c * l
<1>3. n = y + r /\ x <= y /\ x \in Nat /\ y \in Nat /\ r \in Nat
  BY <1>1
<1> HIDE DEF x, y
<1>4. (IF x < n THEN x ELSE n) = x
  BY <1>3
<1> QED
  BY <1>2, <1>4 DEF x

LEMMA LastChunk ==
  ASSUME NEW c \in Nat \ {0}, NEW l \in Nat, NEW r \in 1..(c - 1), NEW n, n = c * l + r,
         NEW b, b = l + 1
  PROVE  /\ (b - 1) * c + 1 = c * l + 1
         /\ (IF b * c < n THEN b * c ELSE n) = n
<1>1. b - 1 = l /\ l * c = c * l /\ b * c = c * l + c /\ c * l \in Nat
  OBVIOUS
<1> DEFINE y == c * l
<1>2. y \in Nat /\ n = y + r /\ b * c = y + c
  BY <1>1
<1> HIDE DEF y
<1>3. ~(y + c < n)
  BY <1>2
<1> QED
  BY <1>1, <1>2, <1>3

LEMMA ChunksAreTiles ==
  ASSUME NEW w, NEW b, Chunked(w, b)
  PROVE  /\ Settled(Seal(w)) /\ Seal(w).docs = b.entries
         /\ Tiles(FromVec(b.entries), Seal(w))
<1> DEFINE s == b.entries
           c == BundleCap
           l == Len(w.bundles)
           r == Len(s) - w.start
           n == Len(s)
           u == Seal(w)
           count == (n + c - 1) \div c
           to(i) == IF i * c < n THEN i * c ELSE n
           chunk(i) == SubSeq(s, (i - 1) * c + 1, to(i))
           bs == FromVec(s)
<1>1. /\ w \in Writers /\ WriterSound(w) /\ WriterWhole(w) /\ InChunks(w) /\ w.docs = s
  BY DEF Chunked
<1>2. Settled(u) /\ u.docs = s
  BY <1>1, SealSettles, SealedDocs
<1>3. bs = [i \in 1..count |-> chunk(i)]
  BY DEF FromVec
<1>4. /\ s \in Seq(Docs) /\ n \in Nat /\ w.start \in Nat /\ w.start <= n /\ l \in Nat
      /\ w.bundles \in Seq(Bundles) /\ w.frames \in Seq(Docs)
  BY <1>1, WriterFields
<1>5. /\ w.start = c * l /\ n - w.start < c
      /\ \A i \in 1..l : w.bundles[i].frames = SubSeq(s, c * (i - 1) + 1, c * i)
      /\ w.frames = SubSeq(s, w.start + 1, n)
  BY <1>1 DEF InChunks, WriterWhole
<1>6. c \in Nat \ {0}
  BY CapAssumption
<1> HIDE DEF c, l, s, u, bs
<1>7. r \in 0..(c - 1) /\ n = c * l + r
  <2> DEFINE y == c * l
  <2>1. w.start = y /\ y \in Nat
    BY <1>4, <1>5
  <2> HIDE DEF y
  <2>2. /\ r = n - y /\ y <= n /\ n \in Nat /\ n - y < c
    BY <1>4, <1>5, <2>1
  <2> HIDE DEF r, n
  <2>3. r \in 0..(c - 1) /\ n = y + r
    BY ONLY <1>6, <2>1, <2>2
  <2> QED
    BY <2>3 DEF y
<1> HIDE DEF r, n
<1>8. count = IF r = 0 THEN l ELSE l + 1
  <2>1. ((c * l + r) + c - 1) \div c = IF r = 0 THEN l ELSE l + 1
    BY <1>4, <1>6, <1>7, RoundedUp
  <2> QED
    BY <1>7, <2>1
<1>9. ASSUME NEW i \in 1..l
      PROVE  chunk(i) = w.bundles[i].frames
  <2>1. (i - 1) * c + 1 = c * (i - 1) + 1 /\ to(i) = c * i
    BY <1>4, <1>6, <1>7, ChunkEnds
  <2> HIDE DEF to
  <2> QED
    BY <1>5, <2>1
<1>10. /\ Len(u.bundles) = count
       /\ \A i \in 1..count : chunk(i) = u.bundles[i].frames
  <2> HIDE DEF chunk, to, count
  <2>1. CASE r = 0
    <3>1. u = w
      BY <1>1, <1>4, <2>1 DEF Seal, u, r, n
    <3> QED
      BY <1>8, <1>9, <2>1, <3>1 DEF l
  <2>2. CASE r # 0
    <3>1. Len(w.docs) # w.start /\ Len(w.docs) - w.start = r
      BY <1>1, <1>4, <2>2 DEF r, n
    <3>2. u = [docs |-> w.docs,
               bundles |-> Append(w.bundles, [n |-> r, frames |-> w.frames]),
               frames |-> <<>>, start |-> Len(w.docs), seen |-> w.seen,
               collapsed |-> w.collapsed]
      BY <1>1, <3>1, Sealed DEF u
    <3>3. [n |-> r, frames |-> w.frames] \in Bundles
      BY <1>4, <1>7 DEF Bundles
    <3> DEFINE last == [n |-> r, frames |-> w.frames]
    <3>4. u.bundles = Append(w.bundles, last) /\ last.frames = w.frames /\ last \in Bundles
      BY <3>2, <3>3
    <3> HIDE DEF last
    <3>5. /\ Len(u.bundles) = l + 1 /\ u.bundles[l + 1] = last
          /\ \A i \in 1..l : u.bundles[i] = w.bundles[i]
      BY <1>4, <3>4 DEF l
    <3>6. chunk(l + 1) = w.frames
      <4> DEFINE i == l + 1
      <4>1. r \in 1..(c - 1)
        BY <1>6, <1>7, <2>2
      <4>2. (i - 1) * c + 1 = c * l + 1 /\ to(i) = n
        BY <1>4, <1>6, <1>7, <4>1, LastChunk DEF to
      <4>3. chunk(i) = SubSeq(s, c * l + 1, n)
        <5> HIDE DEF i
        <5> QED
          BY <4>2 DEF chunk
      <4> QED
        BY <1>5, <4>3
    <3>7. count = l + 1
      BY <1>8, <2>2
    <3>8. \A i \in 1..(l + 1) : i \in 1..l \/ i = l + 1
      BY <1>4
    <3> QED
      BY <1>9, <3>4, <3>5, <3>6, <3>7, <3>8
  <2> QED
    BY <2>1, <2>2
<1>11. Tiles(bs, u)
  <2> HIDE DEF chunk, to, count
  <2>1. count \in Nat
    BY <1>4, <1>8
  <2>2. \A i \in 1..count : chunk(i) \in Seq(Docs)
    <3>1. u.bundles \in Seq(Bundles)
      BY <1>2 DEF Settled
    <3>2. \A i \in 1..count : u.bundles[i] \in Bundles
      BY <1>10, <3>1
    <3> QED
      BY <1>10, <3>2, BundleFields
  <2>3. bs \in Seq(Seq(Docs)) /\ Len(bs) = count /\ \A i \in 1..count : bs[i] = chunk(i)
    BY <1>3, <2>1, <2>2, IsASeq
  <2> QED
    BY <1>10, <2>3 DEF Tiles
<1> QED
  BY <1>2, <1>11 DEF s, u, bs

LEMMA ReadIsTiles ==
  ASSUME NEW f \in Files, Settled(f)
  PROVE  Tiles(ReadFrom(f).bundles, f)
<1> DEFINE l == Len(f.bundles)
           text(b, slot) == [f.docs[Start(f, b) + slot] EXCEPT
                               !.text = f.bundles[b].frames[slot].text]
           block(b) == [slot \in 1..f.bundles[b].n |-> text(b, slot)]
           bs == ReadFrom(f).bundles
<1>1. /\ f.docs \in Seq(Docs) /\ f.bundles \in Seq(Bundles)
      /\ Parted(f, Len(f.docs)) /\ FramesMatch(f)
  BY DEF Settled
<1>2. l \in Nat /\ DOMAIN f.bundles = 1..l
  BY <1>1
<1>3. bs = [b \in 1..l |-> block(b)]
  BY <1>2 DEF ReadFrom
<1>4. ASSUME NEW b \in 1..l
      PROVE  block(b) = f.bundles[b].frames
  <2> DEFINE n == f.bundles[b].n
             frames == f.bundles[b].frames
  <2>1. f.bundles[b] \in Bundles
    BY <1>1
  <2>2. n \in Nat /\ frames \in Seq(Docs)
    BY <2>1, BundleFields
  <2>3. Len(frames) = n /\ \A slot \in 1..n : frames[slot] = f.docs[Start(f, b) + slot]
    BY <1>1 DEF FramesMatch
  <2>4. ASSUME NEW slot \in 1..n
        PROVE  text(b, slot) = frames[slot]
    <3> DEFINE d == frames[slot]
    <3>1. d \in Docs /\ f.docs[Start(f, b) + slot] = d
      BY <2>2, <2>3
    <3>2. text(b, slot) = [d EXCEPT !.text = d.text]
      BY <3>1
    <3> HIDE DEF d
    <3>3. [d EXCEPT !.text = d.text] = d
      BY <3>1 DEF Docs
    <3> QED
      BY <3>2, <3>3 DEF d
  <2>5. frames = [slot \in 1..n |-> frames[slot]]
    BY <2>2, <2>3
  <2>6. block(b) = [slot \in 1..n |-> text(b, slot)]
    OBVIOUS
  <2> HIDE DEF text, block, frames
  <2>7. block(b) = frames
    BY <2>4, <2>5, <2>6
  <2> QED
    BY <2>7 DEF frames
<1>5. ASSUME NEW b \in 1..l
      PROVE  f.bundles[b].frames \in Seq(Docs)
  BY <1>1, BundleFields
<1> HIDE DEF block, bs, l
<1>6. bs \in Seq(Seq(Docs)) /\ Len(bs) = l /\ \A b \in 1..l : bs[b] = block(b)
  BY <1>2, <1>3, <1>4, <1>5, IsASeq
<1> QED
  BY <1>4, <1>6 DEF Tiles, bs, l

-----------------------------------------------------------------------------
(* The key index.                                                          *)

(* The order is one of all names, be they a document's key or not.         *)
Names == Nat \X Nat

LEMMA NameOrder ==
  /\ Keys \subseteq Names
  /\ \A k \in Names : ~Before(k, k)
  /\ \A k, l \in Names : k # l => Before(k, l) \/ Before(l, k)
  /\ \A k, l, m \in Names : Before(k, l) /\ Before(l, m) => Before(k, m)
<1>1. \A k \in Names : k = <<k[1], k[2]>> /\ k[1] \in Nat /\ k[2] \in Nat
  BY DEF Names
<1>2. \A k \in Names : ~Before(k, k)
  BY <1>1 DEF Before
<1>3. ASSUME NEW k \in Names, NEW l \in Names, k # l
      PROVE  Before(k, l) \/ Before(l, k)
  <2>1. k[1] # l[1] \/ k[2] # l[2]
    BY <1>1, <1>3
  <2>2. k[1] \in Nat /\ k[2] \in Nat /\ l[1] \in Nat /\ l[2] \in Nat
    BY <1>1
  <2> QED
    BY <2>1, <2>2 DEF Before
<1>4. ASSUME NEW k \in Names, NEW l \in Names, NEW m \in Names, Before(k, l), Before(l, m)
      PROVE  Before(k, m)
  <2>1. /\ k[1] \in Nat /\ k[2] \in Nat /\ l[1] \in Nat /\ l[2] \in Nat
        /\ m[1] \in Nat /\ m[2] \in Nat
    BY <1>1
  <2> QED
    BY <1>4, <2>1 DEF Before
<1> QED
  BY <1>2, <1>3, <1>4, KeysAssumption DEF Names

LEMMA KeyOrder ==
  /\ \A k \in Keys : ~Before(k, k)
  /\ \A k, l \in Keys : k # l => Before(k, l) \/ Before(l, k)
  /\ \A k, l, m \in Keys : Before(k, l) /\ Before(l, m) => Before(k, m)
  BY NameOrder

(* How many keys are before the i-th document's.                           *)
Rank(docs, i) == Cardinality(Earlier(docs, i))

LEMMA RankOrders ==
  ASSUME NEW docs \in Seq(Docs)
  PROVE  /\ \A i \in 1..Len(docs) : Rank(docs, i) \in 0..(Len(docs) - 1)
         /\ \A i, j \in 1..Len(docs) :
              Before(docs[i].key, docs[j].key) => Rank(docs, i) < Rank(docs, j)
<1> DEFINE n == Len(docs)
           D == 1..n
<1>1. n \in Nat /\ DOMAIN docs = D /\ \A i \in D : docs[i].key \in Keys
  <2>1. n \in Nat /\ DOMAIN docs = D /\ \A i \in D : docs[i] \in Docs
    OBVIOUS
  <2>2. \A d \in Docs : d.key \in Keys
    BY DEF Docs
  <2> QED
    BY <2>1, <2>2
<1>2. IsFiniteSet(D) /\ Cardinality(D) = n
  <2>1. 1 \in Int /\ n \in Int /\ (IF 1 > n THEN 0 ELSE n - 1 + 1) = n
    BY <1>1
  <2> HIDE DEF n
  <2> QED
    BY <2>1, FS_Interval
<1> DEFINE E(i) == {j \in D : Before(docs[j].key, docs[i].key)}
<1>3. \A i : Earlier(docs, i) = E(i)
  BY <1>1 DEF Earlier
<1> HIDE DEF D, n
<1>4. \A i \in D : IsFiniteSet(E(i)) /\ Cardinality(E(i)) \in Nat
  <2>1. ASSUME NEW i \in D
        PROVE  IsFiniteSet(E(i)) /\ Cardinality(E(i)) \in Nat
    <3>1. E(i) \in SUBSET D
      OBVIOUS
    <3> HIDE DEF E
    <3> QED
      BY <1>2, <3>1, FS_Subset, FS_CardinalityType
  <2> QED
    BY <2>1
<1>5. ASSUME NEW i \in D
      PROVE  Cardinality(E(i)) < n
  <2>1. E(i) \in SUBSET D /\ E(i) # D
    <3>1. i \notin E(i)
      BY <1>1, KeyOrder
    <3> QED
      BY <3>1
  <2> HIDE DEF E
  <2>2. Cardinality(E(i)) <= Cardinality(D) /\ Cardinality(D) # Cardinality(E(i))
    BY <1>2, <2>1, FS_Subset
  <2> QED
    BY <1>1, <1>2, <1>4, <2>2
<1>6. ASSUME NEW i \in D, NEW j \in D, Before(docs[i].key, docs[j].key)
      PROVE  Cardinality(E(i)) < Cardinality(E(j))
  <2>1. E(i) \in SUBSET E(j)
    BY <1>1, <1>6, KeyOrder
  <2>2. i \in E(j) /\ i \notin E(i)
    BY <1>1, <1>6, KeyOrder
  <2>3. E(i) # E(j)
    BY <2>2
  <2> HIDE DEF E
  <2>4. Cardinality(E(i)) <= Cardinality(E(j)) /\ Cardinality(E(j)) # Cardinality(E(i))
    BY <1>4, <2>1, <2>3, FS_Subset
  <2> QED
    BY <1>4, <2>4
<1>7. \A i : Rank(docs, i) = Cardinality(E(i))
  BY <1>3 DEF Rank
<1> HIDE DEF E
<1>8. \A i \in D : Rank(docs, i) \in 0..(n - 1)
  BY <1>1, <1>4, <1>5, <1>7
<1>9. \A i, j \in D : Before(docs[i].key, docs[j].key) => Rank(docs, i) < Rank(docs, j)
  BY <1>6, <1>7
<1> QED
  BY <1>8, <1>9 DEF D, n

LEMMA RankDistinct ==
  ASSUME NEW docs \in Seq(Docs), Distinct(docs),
         NEW i \in 1..Len(docs), NEW j \in 1..Len(docs), Rank(docs, i) = Rank(docs, j)
  PROVE  i = j
<1>1. docs[i].key \in Keys /\ docs[j].key \in Keys
  <2>1. docs[i] \in Docs /\ docs[j] \in Docs
    OBVIOUS
  <2> QED
    BY <2>1 DEF Docs
<1>2. SUFFICES ASSUME i # j PROVE FALSE
  OBVIOUS
<1>3. docs[i].key # docs[j].key
  BY <1>2 DEF Distinct
<1>4. Rank(docs, i) < Rank(docs, j) \/ Rank(docs, j) < Rank(docs, i)
  BY <1>1, <1>3, KeyOrder, RankOrders
<1>5. Rank(docs, i) \in Nat /\ Rank(docs, j) \in Nat
  BY RankOrders
<1> QED
  BY <1>4, <1>5

LEMMA RankOnto ==
  ASSUME NEW docs \in Seq(Docs), Distinct(docs), NEW r \in 1..Len(docs)
  PROVE  \E i \in 1..Len(docs) : Rank(docs, i) = r - 1
<1> DEFINE n == Len(docs)
           D == 1..n
           T == 0..(n - 1)
           f == [i \in D |-> Rank(docs, i)]
<1>1. n \in Nat /\ r - 1 \in T
  OBVIOUS
<1>2. f \in [D -> T] /\ \A i, j \in D : f[i] = f[j] => i = j
  BY RankOrders, RankDistinct
<1>3. IsFiniteSet(D) /\ Cardinality(D) = n
  <2>1. 1 \in Int /\ n \in Int /\ (IF 1 > n THEN 0 ELSE n - 1 + 1) = n
    BY <1>1
  <2> HIDE DEF n
  <2> QED
    BY <2>1, FS_Interval
<1>4. IsFiniteSet(T) /\ Cardinality(T) = n
  <2> DEFINE m == n - 1
  <2>1. 0 \in Int /\ m \in Int /\ (IF 0 > m THEN 0 ELSE m - 0 + 1) = n
    BY <1>1
  <2> HIDE DEF n, m
  <2>2. IsFiniteSet(0..m) /\ Cardinality(0..m) = n
    BY <2>1, FS_Interval
  <2> QED
    BY <2>2 DEF m
<1>5. f \in Injection(D, T)
  <2> HIDE DEF f, D, T
  <2> QED
    BY <1>2 DEF Injection, IsInjective
<1> HIDE DEF f, T, D, n
<1>6. f \in Surjection(D, T)
  BY <1>3, <1>4, <1>5, FS_Injection
<1>7. \E i \in D : f[i] = r - 1
  BY <1>1, <1>6 DEF Surjection
<1> QED
  BY <1>7 DEF f, D, n

(* The index lists all documents, and in the order of their keys.          *)
Sorts(index, docs) ==
  /\ index \in Seq(Nat) /\ Len(index) = Len(docs)
  /\ \A r \in 1..Len(docs) : index[r] \in 1..Len(docs)
  /\ \A i \in 1..Len(docs) : \E r \in 1..Len(docs) : index[r] = i
  /\ \A r, q \in 1..Len(docs) :
       r < q => Before(docs[index[r]].key, docs[index[q]].key)

LEMMA IndexSorts ==
  ASSUME NEW docs \in Seq(Docs), Distinct(docs), NEW index, index = SortIndex(docs)
  PROVE  Sorts(index, docs)
<1> DEFINE n == Len(docs)
           D == 1..n
           at(r) == CHOOSE i \in D : Rank(docs, i) = r - 1
<1>1. n \in Nat /\ DOMAIN docs = D
  OBVIOUS
<1>2. index = [r \in D |-> at(r)]
  BY <1>1 DEF SortIndex, Rank
<1>3. \A r \in D : at(r) \in D /\ Rank(docs, at(r)) = r - 1
  <2>1. \A r \in D : \E i \in D : Rank(docs, i) = r - 1
    BY RankOnto
  <2> QED
    BY <2>1
<1> HIDE DEF at
<1>4. \A r \in D : index[r] \in D /\ Rank(docs, index[r]) = r - 1
  BY <1>2, <1>3
<1>5. index \in Seq(Nat) /\ Len(index) = n
  <2>1. \A r \in D : at(r) \in Nat
    BY <1>1, <1>3
  <2> QED
    BY <1>1, <1>2, <2>1, IsASeq
<1>6. ASSUME NEW i \in D
      PROVE  \E r \in D : index[r] = i
  <2> DEFINE r == Rank(docs, i) + 1
  <2>1. Rank(docs, i) \in 0..(n - 1)
    BY RankOrders
  <2>2. r \in D /\ r - 1 = Rank(docs, i)
    BY <1>1, <2>1
  <2> HIDE DEF r
  <2>3. index[r] \in D /\ Rank(docs, index[r]) = Rank(docs, i)
    BY <1>4, <2>2
  <2>4. index[r] = i
    BY <2>3, RankDistinct
  <2> QED
    BY <2>2, <2>4
<1>7. ASSUME NEW r \in D, NEW q \in D, r < q
      PROVE  Before(docs[index[r]].key, docs[index[q]].key)
  <2> DEFINE i == index[r]
             j == index[q]
  <2>1. i \in D /\ j \in D /\ Rank(docs, i) < Rank(docs, j)
    BY <1>1, <1>4, <1>7
  <2>2. Rank(docs, i) \in Nat /\ Rank(docs, j) \in Nat
    BY <2>1, RankOrders
  <2> HIDE DEF i, j
  <2>3. docs[i].key \in Keys /\ docs[j].key \in Keys
    <3>1. docs[i] \in Docs /\ docs[j] \in Docs
      BY <2>1
    <3> QED
      BY <3>1 DEF Docs
  <2>4. ~Before(docs[j].key, docs[i].key)
    BY <2>1, <2>2, RankOrders
  <2>5. docs[i].key # docs[j].key
    <3>1. i # j
      BY <2>1, <2>2
    <3> QED
      BY <2>1, <3>1 DEF Distinct
  <2> QED
    BY <2>3, <2>4, <2>5, KeyOrder DEF i, j
<1> QED
  BY <1>4, <1>5, <1>6, <1>7 DEF Sorts

-----------------------------------------------------------------------------
(* The footer.                                                             *)

LEMMA PrefixMeans ==
  ASSUME NEW S, NEW s \in Seq(S), NEW t \in Seq(S)
  PROVE  IsPrefix(s, t) <=> /\ Len(s) <= Len(t)
                            /\ \A i \in 1..Len(s) : s[i] = t[i]
<1>1. Len(s) \in Nat /\ Len(t) \in Nat
  OBVIOUS
<1>2. ASSUME IsPrefix(s, t)
      PROVE  Len(s) <= Len(t) /\ \A i \in 1..Len(s) : s[i] = t[i]
  <2>1. Len(s) <= Len(t) /\ SubSeq(s, 1, Len(s)) = SubSeq(t, 1, Len(s))
    BY <1>2 DEF IsPrefix
  <2>2. \A i \in 1..Len(s) : SubSeq(s, 1, Len(s))[i] = s[i] /\ SubSeq(t, 1, Len(s))[i] = t[i]
    BY <1>1, <2>1
  <2> QED
    BY <2>1, <2>2
<1>3. ASSUME Len(s) <= Len(t), \A i \in 1..Len(s) : s[i] = t[i]
      PROVE  IsPrefix(s, t)
  <2>1. SubSeq(s, 1, Len(s)) = SubSeq(t, 1, Len(s))
    BY <1>1, <1>3
  <2> QED
    BY <1>3, <2>1 DEF IsPrefix
<1> QED
  BY <1>2, <1>3

LEMMA SealBreaks ==
  ASSUME NEW w \in Writers, WriterBroken(w)
  PROVE  BundleBroken(Seal(w))
<1>1. w.start \in Nat /\ Len(w.docs) \in Nat /\ Len(w.frames) \in Nat /\ w.bundles \in Seq(Bundles)
      /\ w.start <= Len(w.docs) /\ w.frames \in Seq(Docs)
  BY WriterFields
<1>2. CASE Len(w.docs) = w.start
  <2>1. ~(Len(w.frames) < Len(w.docs) - w.start)
    BY <1>1, <1>2
  <2> QED
    BY <1>2, <2>1 DEF Seal, WriterBroken
<1>3. CASE Len(w.docs) # w.start
  <2> DEFINE u == Seal(w)
             k == Len(w.docs) - w.start
             l == Len(w.bundles)
             last == [n |-> k, frames |-> w.frames]
  <2>1. u.bundles = Append(w.bundles, last)
    <3>1. u = [docs |-> w.docs, bundles |-> Append(w.bundles, last),
               frames |-> <<>>, start |-> Len(w.docs), seen |-> w.seen,
               collapsed |-> w.collapsed]
      BY <1>3, Sealed
    <3> HIDE DEF u, last
    <3> QED
      BY <3>1
  <2>2. k \in Nat
    BY <1>1
  <2>3. last \in Bundles /\ last.n = k /\ last.frames = w.frames
    BY <1>1, <2>2 DEF Bundles
  <2> HIDE DEF u, last
  <2>4. /\ Len(u.bundles) = l + 1 /\ u.bundles[l + 1] = last
        /\ \A b \in 1..l : u.bundles[b] = w.bundles[b]
    BY <1>1, <2>1, <2>3
  <2>5. l + 1 \in 1..Len(u.bundles) /\ \A b \in 1..l : b \in 1..Len(u.bundles)
    BY <1>1, <2>4
  <2>6. CASE BundleBroken(w)
    BY <2>4, <2>5, <2>6 DEF BundleBroken, u
  <2>7. CASE Len(w.frames) < k
    <3>1. Len(w.frames) # k
      BY <1>1, <2>2, <2>7
    <3> HIDE DEF k, l
    <3> QED
      BY <2>3, <2>4, <2>5, <3>1 DEF BundleBroken, u
  <2> QED
    BY <2>6, <2>7 DEF WriterBroken
<1> QED
  BY <1>2, <1>3

LEMMA FooterGood ==
  ASSUME NEW w \in Writers, WriterSound(w), NEW cols \in Tables, NEW told \in Histories,
         NEW lost \in BOOLEAN, NEW short \in BOOLEAN, Answered(w.docs, told),
         RowsTold(cols, told, short), IF lost THEN WriterBroken(w) ELSE WriterWhole(w),
         NEW f, f = Footer(w, cols, told, lost, short)
  PROVE  f \in Files /\ FileGood(f)
<1> DEFINE u == Seal(w)
<1>1. /\ u \in Writers /\ WriterSound(u) /\ (WriterWhole(w) => WriterWhole(u))
      /\ u.start = Len(u.docs) /\ u.docs = w.docs
  BY SealTypes, SealKeeps
<1>2. u.docs \in Seq(Docs) /\ u.bundles \in Seq(Bundles)
  BY <1>1, WriterFields
<1>3. Distinct(u.docs) /\ Parted(u, Len(u.docs))
  BY <1>1 DEF WriterSound
<1>4. IF lost THEN BundleBroken(u) ELSE FramesMatch(u)
  BY <1>1, SealBreaks DEF WriterWhole
<1>6. f = [docs |-> u.docs, bundles |-> u.bundles, cols |-> cols,
           index |-> SortIndex(u.docs), told |-> told, lost |-> lost, short |-> short]
  BY DEF Footer
<1> HIDE DEF u
<1>7. /\ f.docs = u.docs /\ f.bundles = u.bundles /\ f.cols = cols
      /\ f.index = SortIndex(u.docs) /\ f.told = told /\ f.lost = lost /\ f.short = short
  BY <1>6
<1>8. SortIndex(u.docs) \in Seq(Nat)
  BY <1>2, <1>3, IndexSorts DEF Sorts
<1>9. f \in Files
  BY <1>2, <1>6, <1>8 DEF Files
<1>10. Parted(f, Len(f.docs))
  BY <1>2, <1>3, <1>7, SameBundlesSound
<1>11. IF f.lost THEN BundleBroken(f) ELSE FramesMatch(f)
  <2>1. CASE lost
    BY <1>4, <1>7, <2>1 DEF BundleBroken
  <2>2. CASE ~lost
    <3>1. FramesMatch(u)
      BY <1>4, <2>2
    <3>2. FramesMatch(f)
      BY <1>2, <1>3, <1>7, <3>1, SameFrames
    <3> QED
      BY <1>7, <2>2, <3>2
  <2> QED
    BY <2>1, <2>2
<1> QED
  BY <1>1, <1>3, <1>7, <1>9, <1>10, <1>11 DEF FileGood

(* A file as Build, Read and Save need it.                                 *)
LEMMA FileSettled ==
  ASSUME NEW f \in Files, FileGood(f), ~f.lost
  PROVE  Settled(f)
BY DEF FileGood, Settled, Files

-----------------------------------------------------------------------------
(* Adding to a builder.                                                    *)

LEMMA AnsweredNext ==
  ASSUME NEW docs \in Seq(Docs), NEW told \in Histories, Answered(docs, told),
         NEW doc \in Docs, doc.text = doc.id, NEW row \in Seq(Nat)
  PROVE  Answered(Append(docs, doc), Append(told, [doc |-> doc, row |-> row]))
<1> DEFINE S == [doc : Docs, row : Seq(Nat)]
           e == [doc |-> doc, row |-> row]
           n == Len(docs)
           d == Append(docs, doc)
           t == Append(told, e)
<1>1. e \in S /\ e.doc = doc /\ told \in Seq(S)
  BY DEF Histories
<1> HIDE DEF e, S
<1>2. n \in Nat /\ n = Len(told) /\ \A i \in 1..n : docs[i] = told[i].doc /\ docs[i].text = docs[i].id
  BY DEF Answered
<1>3. /\ Len(d) = n + 1 /\ d[n + 1] = doc /\ \A i \in 1..n : d[i] = docs[i]
  BY <1>2
<1>4. /\ Len(t) = n + 1 /\ t[n + 1] = e /\ \A i \in 1..n : t[i] = told[i]
  BY <1>1, <1>2
<1>5. \A i \in 1..(n + 1) : i \in 1..n \/ i = n + 1
  BY <1>2
<1> HIDE DEF d, t, n
<1>6. Answered(d, t)
  BY <1>1, <1>2, <1>3, <1>4, <1>5 DEF Answered
<1> QED
  BY <1>6 DEF d, t, e

LEMMA BuilderFields ==
  ASSUME NEW b \in Builders
  PROVE  /\ b = [entries |-> b.entries, seen |-> b.seen, cols |-> b.cols,
                 calls |-> b.calls, told |-> b.told]
         /\ b.entries \in Seq(Docs) /\ b.seen \in SUBSET Keys /\ b.cols \in Tables
         /\ b.calls \in Seq(Docs) /\ b.told \in Histories
BY DEF Builders

(* A document is offered; its row is looked at when its key is new.        *)
LEMMA BuilderAdds ==
  ASSUME NEW b \in Builders, BuilderGood(b), NEW doc \in Docs, doc.text = doc.id,
         NEW row \in Seq(Nat),
         doc.key \notin b.seen => TakesRow(b.cols, row),
         NEW o, o = [b EXCEPT !.calls = Append(b.calls, doc)],
         NEW c, c = IF doc.key \in b.seen THEN o ELSE Accept(o, doc, row)
  PROVE  c \in Builders /\ BuilderGood(c)
<1>0. b = [entries |-> b.entries, seen |-> b.seen, cols |-> b.cols,
           calls |-> b.calls, told |-> b.told]
  BY BuilderFields
<1>1. /\ b.entries \in Seq(Docs) /\ b.seen \in SUBSET Keys /\ b.cols \in Tables
      /\ b.calls \in Seq(Docs) /\ b.told \in Histories /\ doc.key \in Keys
  BY BuilderFields DEF Docs
<1>2. /\ Answered(b.entries, b.told) /\ RowsKept(b.cols, b.told)
      /\ Chunked(WriteEntries(b.entries), b) /\ Chunked(PackDocs(b.calls), b)
  BY DEF BuilderGood
<1>3. o = [entries |-> b.entries, seen |-> b.seen, cols |-> b.cols,
           calls |-> Append(b.calls, doc), told |-> b.told]
  BY <1>0
<1>4. Append(b.calls, doc) \in Seq(Docs)
  BY <1>1
<1>5. CASE doc.key \in b.seen
  <2>1. c = o
    BY <1>5
  <2>2. /\ c.entries = b.entries /\ c.seen = b.seen /\ c.cols = b.cols /\ c.told = b.told
        /\ c.calls = Append(b.calls, doc) /\ c \in Builders
    BY <1>1, <1>3, <1>4, <2>1 DEF Builders
  <2>3. Chunked(WriteEntries(c.entries), c)
    BY <1>2, <2>2 DEF Chunked
  <2>4. IF doc.key \in b.seen THEN c.entries = b.entries /\ c.seen = b.seen
        ELSE c.entries = Append(b.entries, doc) /\ c.seen = b.seen \cup {doc.key}
    BY <1>5, <2>2
  <2>5. Chunked(PackDocs(c.calls), c)
    BY <1>2, <2>2, <2>4, CallsNext
  <2> QED
    BY <1>2, <2>2, <2>3, <2>5 DEF BuilderGood
<1>6. CASE doc.key \notin b.seen
  <2> DEFINE entry == [doc |-> doc, row |-> row]
             more == Append(b.told, entry)
             cols == PushRow(b.cols, row)
  <2>1. c = [o EXCEPT !.entries = Append(o.entries, doc), !.seen = o.seen \cup {doc.key},
                      !.cols = PushRow(o.cols, row), !.told = Append(o.told, entry)]
    BY <1>6 DEF Accept, Told
  <2>2. /\ o.entries = b.entries /\ o.seen = b.seen /\ o.cols = b.cols /\ o.told = b.told
    BY <1>3
  <2> HIDE DEF entry
  <2>3. c = [entries |-> Append(b.entries, doc), seen |-> b.seen \cup {doc.key},
             cols |-> cols, calls |-> Append(b.calls, doc), told |-> more]
    <3>1. /\ o = [entries |-> b.entries, seen |-> b.seen, cols |-> b.cols, calls |-> o.calls,
                  told |-> b.told]
          /\ o.calls = Append(b.calls, doc)
      BY <1>3
    <3>2. c = [entries |-> Append(b.entries, doc), seen |-> b.seen \cup {doc.key},
               cols |-> cols, calls |-> o.calls, told |-> more]
      BY ONLY <2>1, <2>2, <3>1
    <3> QED
      BY ONLY <3>1, <3>2
  <2>4. /\ more \in Histories /\ cols \in Tables /\ RowsKept(cols, more)
    BY <1>1, <1>2, <1>6, RowKept DEF entry
  <2> HIDE DEF cols
  <2>5. Answered(Append(b.entries, doc), more)
    BY <1>1, <1>2, AnsweredNext DEF entry
  <2> HIDE DEF more
  <2>6. Append(b.entries, doc) \in Seq(Docs)
    BY <1>1
  <2>7. /\ c.entries = Append(b.entries, doc) /\ c.seen = b.seen \cup {doc.key}
        /\ c.cols = cols /\ c.told = more
        /\ c.calls = Append(b.calls, doc)
    BY ONLY <2>3
  <2>8. c \in Builders
    <3>1. b.seen \cup {doc.key} \in SUBSET Keys
      BY <1>1
    <3> QED
      BY ONLY <1>4, <2>3, <2>4, <2>6, <3>1 DEF Builders
  <2>9. Chunked(WriteEntries(c.entries), c)
    <3>1. /\ b \in Builders /\ Chunked(WriteEntries(b.entries), b) /\ doc \in Docs
          /\ doc.key \notin b.seen /\ c.entries = Append(b.entries, doc)
          /\ c.seen = b.seen \cup {doc.key}
      BY <1>2, <1>6, <2>7
    <3> QED
      BY ONLY <3>1, EntriesNext
  <2>10. IF doc.key \in b.seen THEN c.entries = b.entries /\ c.seen = b.seen
         ELSE c.entries = Append(b.entries, doc) /\ c.seen = b.seen \cup {doc.key}
    BY <1>6, <2>7
  <2>11. Chunked(PackDocs(c.calls), c)
    BY <1>2, <2>7, <2>10, CallsNext
  <2> QED
    BY <2>4, <2>5, <2>7, <2>8, <2>9, <2>11 DEF BuilderGood
<1> QED
  BY <1>5, <1>6

LEMMA NewDocTypes ==
  ASSUME adds \in Nat, NEW key \in Keys
  PROVE  NewDoc(key) \in Docs /\ NewDoc(key).key = key /\ NewDoc(key).text = NewDoc(key).id
<1>1. NewId \in Nat
  BY DEF NewId
<1> QED
  BY <1>1 DEF NewDoc, Docs

(* A builder that is there is the only thing there is.                     *)
LEMMA OnlyBuilder ==
  ASSUME IInv, builder # None
  PROVE  /\ memory = None /\ file = None /\ appender = None
         /\ builder \in Builders /\ BuilderGood(builder) /\ adds \in Nat
BY DEF IInv, BuilderInv, Types

LEMMA BuilderChanges ==
  ASSUME IInv, builder # None, builder' \in Builders, BuilderGood(builder'), adds' \in Nat,
         UNCHANGED <<memory, file, appender>>
  PROVE  IInv'
<1>1. memory' = None /\ file' = None /\ appender' = None
  BY OnlyBuilder
<1> QED
  BY <1>1 DEF IInv, Types, BuilderInv, MemoryInv, FileInv, AppenderInv

LEMMA SetMetaSchemaKeeps ==
  ASSUME IInv, SetMetaSchema
  PROVE  IInv'
<1> DEFINE b == builder
           c == builder'
           cols == NewTable(Fields)
<1>1. b \in Builders /\ BuilderGood(b) /\ b # None /\ b.entries = <<>> /\ adds \in Nat
  BY OnlyBuilder DEF SetMetaSchema
<1>2. c = [b EXCEPT !.cols = cols]
  BY DEF SetMetaSchema
<1>3. b = [entries |-> b.entries, seen |-> b.seen, cols |-> b.cols,
           calls |-> b.calls, told |-> b.told]
  BY <1>1, BuilderFields
<1>4. cols \in Tables /\ \A f \in 1..Len(cols) : cols[f] = <<>>
  <2>1. Fields \in Nat /\ <<>> \in Seq(Nat)
    BY CapAssumption
  <2>2. cols = [f \in 1..Fields |-> <<>>]
    BY DEF NewTable
  <2> QED
    BY <2>1, <2>2, IsASeq DEF Tables
<1> HIDE DEF b, c, cols
<1>5. c = [entries |-> b.entries, seen |-> b.seen, cols |-> cols,
           calls |-> b.calls, told |-> b.told]
  BY <1>2, <1>3
<1>6. /\ c.entries = b.entries /\ c.seen = b.seen /\ c.cols = cols
      /\ c.calls = b.calls /\ c.told = b.told /\ c \in Builders
  BY <1>1, <1>4, <1>5, BuilderFields DEF Builders
<1>7. Answered(b.entries, b.told) /\ Len(b.told) = 0
  BY <1>1 DEF BuilderGood, Answered
<1>8. RowsKept(cols, b.told)
  <2>1. \A f \in 1..Len(cols) : Len(cols[f]) = 0 /\ Len(cols[1]) = 0
    <3>1. \A f \in 1..Len(cols) : 1 \in 1..Len(cols)
      BY <1>4, TableFields
    <3> QED
      BY <1>4, <3>1
  <2>2. 1..0 = {}
    OBVIOUS
  <2> QED
    BY <1>7, <2>1, <2>2 DEF RowsKept
<1>9. Chunked(WriteEntries(c.entries), c) /\ Chunked(PackDocs(c.calls), c)
  BY <1>1, <1>6 DEF BuilderGood, Chunked
<1>10. BuilderGood(c)
  BY <1>6, <1>7, <1>8, <1>9 DEF BuilderGood
<1> QED
  BY <1>1, <1>6, <1>10, BuilderChanges DEF SetMetaSchema, b, c

LEMMA AddHtmlKeeps ==
  ASSUME IInv, NEW key \in Keys, AddHtml(key)
  PROVE  IInv'
<1> DEFINE b == builder
           c == builder'
           doc == NewDoc(key)
           row == NullRow(b.cols)
           o == Offered(key)
<1>1. b \in Builders /\ BuilderGood(b) /\ b # None /\ adds \in Nat
  BY OnlyBuilder DEF AddHtml
<1>2. o = [b EXCEPT !.calls = Append(b.calls, doc)]
  BY DEF Offered
<1>3. c = IF doc.key \in b.seen THEN o ELSE Accept(o, doc, row)
  BY <1>1, NewDocTypes DEF AddHtml
<1>4. doc \in Docs /\ doc.text = doc.id
  BY <1>1, NewDocTypes
<1>5. row \in Seq(Nat) /\ TakesRow(b.cols, row)
  BY <1>1, BuilderFields, NullRowFits
<1> HIDE DEF b, c, doc, row, o
<1>6. c \in Builders /\ BuilderGood(c)
  BY <1>1, <1>2, <1>3, <1>4, <1>5, BuilderAdds
<1> QED
  BY <1>1, <1>6, BuilderChanges DEF AddHtml, b, c

LEMMA AddHtmlWithMetaKeeps ==
  ASSUME IInv, NEW key \in Keys, NEW row \in Rows, AddHtmlWithMeta(key, row)
  PROVE  IInv'
<1> DEFINE b == builder
           c == builder'
           doc == NewDoc(key)
           o == Offered(key)
<1>1. b \in Builders /\ BuilderGood(b) /\ b # None /\ adds \in Nat
  BY OnlyBuilder DEF AddHtmlWithMeta
<1>2. o = [b EXCEPT !.calls = Append(b.calls, doc)]
  BY DEF Offered
<1>3. c = IF doc.key \in b.seen THEN o ELSE Accept(o, doc, row)
  BY <1>1, NewDocTypes DEF AddHtmlWithMeta
<1>4. doc \in Docs /\ doc.text = doc.id /\ row \in Seq(Nat)
  BY <1>1, NewDocTypes, RowTypes
<1>5. doc.key \notin b.seen => TakesRow(b.cols, row)
  BY <1>1, NewDocTypes DEF AddHtmlWithMeta
<1> HIDE DEF b, c, doc, o
<1>6. c \in Builders /\ BuilderGood(c)
  BY <1>1, <1>2, <1>3, <1>4, <1>5, BuilderAdds
<1> QED
  BY <1>1, <1>6, BuilderChanges DEF AddHtmlWithMeta, b, c

LEMMA RefuseRowKeeps ==
  ASSUME IInv, NEW key \in Keys, NEW row \in Rows, RefuseRow(key, row)
  PROVE  IInv'
<1> DEFINE b == builder
           c == builder'
           cols == PushRow(b.cols, row)
<1>1. b \in Builders /\ BuilderGood(b) /\ b # None /\ adds \in Nat
  BY OnlyBuilder DEF RefuseRow
<1>2. c = [b EXCEPT !.cols = cols]
  BY DEF RefuseRow
<1>3. b = [entries |-> b.entries, seen |-> b.seen, cols |-> b.cols,
           calls |-> b.calls, told |-> b.told]
  BY <1>1, BuilderFields
<1>4. row \in Seq(Nat) /\ b.cols \in Tables /\ b.told \in Histories
  BY <1>1, RowTypes, BuilderFields
<1>5. cols \in Tables /\ RowsKept(cols, b.told)
  BY <1>1, <1>4, RowRefused DEF BuilderGood
<1> HIDE DEF b, c, cols
<1>6. c = [entries |-> b.entries, seen |-> b.seen, cols |-> cols,
           calls |-> b.calls, told |-> b.told]
  BY <1>2, <1>3
<1>7. /\ c.entries = b.entries /\ c.seen = b.seen /\ c.cols = cols
      /\ c.calls = b.calls /\ c.told = b.told /\ c \in Builders
  BY <1>1, <1>5, <1>6, BuilderFields DEF Builders
<1>8. BuilderGood(c)
  BY <1>1, <1>5, <1>7 DEF BuilderGood, Chunked
<1> QED
  BY <1>1, <1>7, <1>8, BuilderChanges DEF RefuseRow, b, c

-----------------------------------------------------------------------------
(* Archives and files.                                                     *)

LEMMA BuildKeeps ==
  ASSUME IInv, Build
  PROVE  IInv'
<1> DEFINE b == builder
           m == memory'
           w == WriteEntries(b.entries)
           u == Seal(w)
           bs == FromVec(b.entries)
           v == SaveBundles(bs)
<1>1. b \in Builders /\ BuilderGood(b) /\ b # None /\ adds \in Nat
      /\ file = None /\ appender = None
  BY OnlyBuilder DEF Build
<1>2. m = [bundles |-> bs, cols |-> b.cols, told |-> b.told]
      /\ builder' = None /\ UNCHANGED <<file, appender, adds>>
  BY DEF Build
<1>3. b.cols \in Tables /\ b.told \in Histories
  BY <1>1, BuilderFields
<1>4. /\ Chunked(w, b) /\ Answered(b.entries, b.told) /\ RowsKept(b.cols, b.told)
  BY <1>1 DEF BuilderGood
<1> HIDE DEF b, m, w, bs
<1>5. Settled(u) /\ u.docs = b.entries /\ Tiles(bs, u)
  BY <1>4, ChunksAreTiles DEF bs
<1> HIDE DEF u
<1>6. /\ v \in Writers /\ WriterSound(v) /\ WriterWhole(v)
      /\ v.docs = u.docs /\ v.start = Len(v.docs)
  BY <1>5, SaveTiles
<1>7. bs \in Seq(Seq(Docs))
  BY <1>5 DEF Tiles
<1>8. m.bundles = bs /\ m.cols = b.cols /\ m.told = b.told /\ m \in Archives
  BY <1>2, <1>3, <1>7 DEF Archives
<1>9. MemoryGood(m)
  <2> HIDE DEF v
  <2>1. SaveBundles(m.bundles) = v
    BY <1>8 DEF v
  <2> QED
    BY <1>4, <1>5, <1>6, <1>8, <2>1 DEF MemoryGood
<1>10. m \in Archives /\ MemoryGood(m) /\ file' = None /\ appender' = None /\ adds' \in Nat
  BY <1>1, <1>2, <1>8, <1>9
<1> QED
  BY <1>2, <1>10 DEF IInv, Types, BuilderInv, MemoryInv, FileInv, AppenderInv, m

(* A new file, or none; no appender is open.                               *)
LEMMA FileChanges ==
  ASSUME IInv, builder' = None, memory' = None,
         (file' \in Files /\ FileGood(file')) \/ UNCHANGED file,
         appender' = None, UNCHANGED adds
  PROVE  IInv'
BY DEF IInv, Types, BuilderInv, MemoryInv, FileInv, AppenderInv

LEMMA WriteToKeeps ==
  ASSUME IInv, WriteTo
  PROVE  IInv'
<1> DEFINE b == builder
           w == WriteEntries(b.entries)
           f == file'
<1>1. b \in Builders /\ BuilderGood(b) /\ b # None /\ memory = None /\ appender = None
  BY OnlyBuilder DEF WriteTo
<1>2. /\ \/ Finishes(w, b.cols) /\ f = Footer(w, b.cols, b.told, FALSE, FALSE)
         \/ UNCHANGED file
      /\ builder' = None /\ UNCHANGED <<memory, appender, adds>>
  BY DEF WriteTo
<1>3. b.cols \in Tables /\ b.told \in Histories
  BY <1>1, BuilderFields
<1>4. /\ w \in Writers /\ WriterSound(w) /\ WriterWhole(w) /\ w.docs = b.entries
      /\ Answered(b.entries, b.told) /\ RowsKept(b.cols, b.told)
  BY <1>1 DEF BuilderGood, Chunked
<1> HIDE DEF b, w, f
<1>5. ASSUME Finishes(w, b.cols), f = Footer(w, b.cols, b.told, FALSE, FALSE)
      PROVE  f \in Files /\ FileGood(f)
  <2>1. RowsTold(b.cols, b.told, FALSE)
    BY <1>4, <1>5, RowsFinish
  <2> QED
    BY <1>3, <1>4, <1>5, <2>1, FooterGood
<1>6. (file' \in Files /\ FileGood(file')) \/ UNCHANGED file
  BY <1>2, <1>5 DEF f
<1>7. builder' = None /\ memory' = None /\ appender' = None /\ UNCHANGED adds
  BY <1>1, <1>2
<1> QED
  BY <1>6, <1>7, FileChanges

LEMMA ArchiveFields ==
  ASSUME NEW m \in Archives
  PROVE  m.bundles \in Seq(Seq(Docs)) /\ m.cols \in Tables /\ m.told \in Histories
BY DEF Archives

LEMMA SaveKeeps ==
  ASSUME IInv, Save
  PROVE  IInv'
<1> DEFINE m == memory
           w == SaveBundles(m.bundles)
           f == file'
<1> HIDE DEF w
<1>a. memory # None /\ appender = None
  BY DEF Save
<1>b. memory \in Archives /\ MemoryGood(memory)
  BY <1>a DEF IInv, Types, MemoryInv
<1>1. /\ m \in Archives /\ MemoryGood(m) /\ memory # None /\ builder = None
      /\ appender = None
  BY <1>a, <1>b DEF IInv, BuilderInv
<1> USE DEF w
<1>2. /\ \/ Finishes(w, m.cols) /\ f = Footer(w, m.cols, m.told, FALSE, FALSE)
         \/ UNCHANGED file
      /\ memory' = None /\ UNCHANGED <<builder, appender, adds>>
  BY DEF Save
<1>3. m.cols \in Tables /\ m.told \in Histories
  BY <1>1, ArchiveFields
<1>4. /\ w \in Writers /\ WriterSound(w) /\ WriterWhole(w)
      /\ Answered(w.docs, m.told) /\ RowsKept(m.cols, m.told)
  BY <1>1 DEF MemoryGood
<1> HIDE DEF m, w, f
<1>5. ASSUME Finishes(w, m.cols), f = Footer(w, m.cols, m.told, FALSE, FALSE)
      PROVE  f \in Files /\ FileGood(f)
  <2>1. RowsTold(m.cols, m.told, FALSE)
    BY <1>4, <1>5, RowsFinish
  <2> QED
    BY <1>3, <1>4, <1>5, <2>1, FooterGood
<1>6. (file' \in Files /\ FileGood(file')) \/ UNCHANGED file
  BY <1>2, <1>5 DEF f
<1>7. builder' = None /\ memory' = None /\ appender' = None /\ UNCHANGED adds
  BY <1>1, <1>2
<1> QED
  BY <1>6, <1>7, FileChanges

LEMMA FileFields ==
  ASSUME NEW f \in Files
  PROVE  /\ f = [docs |-> f.docs, bundles |-> f.bundles, cols |-> f.cols,
                 index |-> f.index, told |-> f.told, lost |-> f.lost, short |-> f.short]
         /\ f.docs \in Seq(Docs) /\ f.bundles \in Seq(Bundles) /\ f.cols \in Tables
         /\ f.index \in Seq(Nat) /\ f.told \in Histories /\ f.lost \in BOOLEAN
         /\ f.short \in BOOLEAN
BY DEF Files

(* A file that opens has lost no text and no row.                          *)
LEMMA ReadsWhole ==
  ASSUME NEW f \in Files, FileGood(f), Reads(f)
  PROVE  ~f.lost /\ ~f.short /\ Settled(f)
<1>1. f.bundles \in Seq(Bundles)
  BY FileFields
<1>2. ~BundleBroken(f)
  BY <1>1 DEF Reads, BundleBroken
<1>3. ~f.lost
  BY <1>2 DEF FileGood
<1>4. ~f.short
  <2>1. /\ f.cols \in Tables /\ ValidArchived(f.cols, Len(f.docs)) /\ Len(f.docs) \in Nat
        /\ Len(f.docs) = Len(f.told) /\ RowsTold(f.cols, f.told, f.short)
    BY FileFields DEF FileGood, Answered, Reads
  <2>2. Len(f.cols) \in Nat /\ DOMAIN f.cols = 1..Len(f.cols)
    BY <2>1, TableFields
  <2>3. ASSUME f.short
        PROVE  FALSE
    <3>1. f.cols # NoTable /\ Len(f.cols[Len(f.cols)]) < Len(f.docs)
      BY <2>1, <2>3 DEF RowsTold
    <3>2. Len(f.cols) \in DOMAIN f.cols
      BY <2>1, <2>2, <3>1 DEF NoTable, Tables
    <3> QED
      BY <2>1, <3>1, <3>2 DEF ValidArchived
  <2> QED
    BY <2>3
<1> QED
  BY <1>3, <1>4, FileSettled

LEMMA ReadKeeps ==
  ASSUME IInv, Read
  PROVE  IInv'
<1> DEFINE f == file
           m == memory'
           bs == ReadFrom(f).bundles
           v == SaveBundles(bs)
<1>1. /\ f \in Files /\ FileGood(f) /\ f # None /\ Reads(f) /\ builder = None
  BY DEF Read, IInv, Types, FileInv, BuilderInv
<1>2. m = ReadFrom(f) /\ UNCHANGED <<builder, file, appender, adds>>
  BY DEF Read
<1>3. Settled(f) /\ f.cols \in Tables /\ f.told \in Histories
  BY <1>1, ReadsWhole, FileFields
<1>4. Answered(f.docs, f.told) /\ RowsKept(f.cols, f.told)
  BY <1>1, ReadsWhole DEF FileGood, RowsTold
<1>a. m = [bundles |-> bs, cols |-> f.cols, told |-> f.told]
  BY <1>2 DEF ReadFrom
<1> HIDE DEF f, m
<1>5. Tiles(bs, f)
  BY <1>1, <1>3, ReadIsTiles
<1> HIDE DEF bs
<1>6. /\ v \in Writers /\ WriterSound(v) /\ WriterWhole(v)
      /\ v.docs = f.docs /\ v.start = Len(v.docs)
  BY <1>3, <1>5, SaveTiles
<1>7. bs \in Seq(Seq(Docs))
  BY <1>5 DEF Tiles
<1>8. m.bundles = bs /\ m.cols = f.cols /\ m.told = f.told /\ m \in Archives
  BY <1>3, <1>7, <1>a DEF Archives
<1>9. MemoryGood(m)
  <2> HIDE DEF v
  <2>1. SaveBundles(m.bundles) = v
    BY <1>8 DEF v
  <2> QED
    BY <1>4, <1>6, <1>8, <2>1 DEF MemoryGood
<1>10. m \in Archives /\ MemoryGood(m) /\ builder' = None
  BY <1>1, <1>2, <1>8, <1>9
<1> QED
  BY <1>2, <1>10 DEF IInv, Types, BuilderInv, MemoryInv, FileInv, AppenderInv, m

-----------------------------------------------------------------------------
(* Appending.                                                              *)

LEMMA AppenderFields ==
  ASSUME NEW a \in Appenders
  PROVE  /\ a = [writer |-> a.writer, cols |-> a.cols, since_seal |-> a.since_seal,
                 told |-> a.told, lost |-> a.lost, short |-> a.short,
                 slipped |-> a.slipped]
         /\ a.writer \in Writers /\ a.cols \in Tables /\ a.since_seal \in Nat
         /\ a.told \in Histories /\ a.lost \in BOOLEAN /\ a.short \in BOOLEAN
         /\ a.slipped \in BOOLEAN
BY DEF Appenders

LEMMA OpenAppenderThere ==
  ASSUME IInv, appender # None
  PROVE  /\ appender \in Appenders /\ AppenderGood(appender, file)
         /\ file # None /\ file \in Files /\ FileGood(file)
         /\ builder = None /\ adds \in Nat
BY DEF IInv, Types, AppenderInv, FileInv, BuilderInv

LEMMA AppenderChanges ==
  ASSUME IInv, file # None, builder = None, appender' \in Appenders,
         AppenderGood(appender', file),
         adds' \in Nat, UNCHANGED <<builder, memory, file>>
  PROVE  IInv'
BY DEF IInv, Types, BuilderInv, MemoryInv, FileInv, AppenderInv

LEMMA OpenAppenderKeeps ==
  ASSUME IInv, OpenAppender
  PROVE  IInv'
<1> DEFINE f == file
           a == appender'
           w == Resume(f)
<1>1. f # None
  BY DEF OpenAppender
<1>2. f \in Files /\ FileGood(f)
  BY <1>1 DEF IInv, Types, FileInv
<1>3. a = [writer |-> w, cols |-> f.cols, since_seal |-> 0, told |-> f.told, lost |-> f.lost,
           short |-> f.short, slipped |-> FALSE]
      /\ UNCHANGED <<builder, memory, file, adds>>
  BY DEF OpenAppender
<1>4. /\ f.docs \in Seq(Docs) /\ f.bundles \in Seq(Bundles) /\ f.cols \in Tables
      /\ f.told \in Histories /\ f.lost \in BOOLEAN /\ f.short \in BOOLEAN
  BY <1>2, FileFields
<1> DEFINE seen == {f.docs[i].key : i \in DOMAIN f.docs}
           n == Len(f.docs)
<1>5. w = [docs |-> f.docs, bundles |-> f.bundles, frames |-> <<>>, start |-> n,
           seen |-> seen, collapsed |-> 0]
  BY DEF Resume
<1>6. n \in Nat /\ DOMAIN f.docs = 1..n /\ seen \in SUBSET Keys
  <2>1. \A i \in 1..n : f.docs[i] \in Docs
    BY <1>4
  <2>2. \A d \in Docs : d.key \in Keys
    BY DEF Docs
  <2> QED
    BY <1>4, <2>1, <2>2
<1>7. \A i \in 1..n : f.docs[i].key \in seen
  BY <1>6
<1> HIDE DEF f, a, w, seen, n
<1>8. w \in Writers
  <2>1. <<>> \in Seq(Docs) /\ 0 \in Nat /\ n <= Len(f.docs)
    BY <1>6 DEF n
  <2> QED
    BY ONLY <1>4, <1>5, <1>6, <2>1, WriterMade
<1>9. /\ w.docs = f.docs /\ w.bundles = f.bundles /\ w.frames = <<>> /\ w.start = n
      /\ w.seen = seen
  BY <1>5
<1>10. /\ Distinct(f.docs) /\ Parted(f, n)
       /\ IF f.lost THEN BundleBroken(f) ELSE FramesMatch(f)
       /\ Answered(f.docs, f.told) /\ RowsTold(f.cols, f.told, f.short)
  BY <1>2 DEF FileGood, n
<1>11. WriterSound(w)
  <2>1. Parted(w, n)
    BY <1>4, <1>9, <1>10, SameBundlesSound
  <2> QED
    BY <1>7, <1>9, <1>10, <2>1 DEF WriterSound, n
<1>12. /\ a.writer = w /\ a.cols = f.cols /\ a.since_seal = 0 /\ a.told = f.told
       /\ a.lost = f.lost /\ a.short = f.short /\ a \in Appenders
  BY <1>3, <1>4, <1>8 DEF Appenders
<1>13. IsPrefix(f.docs, w.docs) /\ IsPrefix(f.bundles, w.bundles)
  BY <1>4, <1>9, PrefixMeans
<1>14. IF a.lost THEN WriterBroken(w) ELSE WriterWhole(w)
  <2>1. CASE f.lost
    <3>1. BundleBroken(w)
      BY <1>9, <1>10, <2>1 DEF BundleBroken
    <3> QED
      BY <1>12, <2>1, <3>1 DEF WriterBroken
  <2>2. CASE ~f.lost
    <3>1. FramesMatch(w)
      BY <1>4, <1>9, <1>10, <2>2, SameFrames
    <3>2. SubSeq(w.docs, w.start + 1, Len(w.docs)) = <<>>
      BY <1>4, <1>6, <1>9 DEF n
    <3>3. WriterWhole(w)
      BY <1>9, <3>1, <3>2 DEF WriterWhole
    <3> QED
      BY <1>12, <2>2, <3>3
  <2> QED
    BY <2>1, <2>2
<1>a. Counted(w, a.since_seal, f)
  <2>1. a.since_seal = Len(w.docs) - w.start /\ a.since_seal < BundleCap
    BY <1>6, <1>9, <1>12, CapAssumption DEF n
  <2>2. \A b \in (Len(f.bundles) + 1)..Len(w.bundles) : FALSE
    BY <1>4, <1>9
  <2> QED
    BY <2>1, <2>2 DEF Counted
<1>15. AppenderGood(a, f)
  BY <1>9, <1>10, <1>11, <1>12, <1>13, <1>14, <1>a DEF AppenderGood
<1>16. builder = None /\ adds \in Nat /\ adds' \in Nat
  BY <1>1, <1>3 DEF IInv, Types, BuilderInv, f
<1> QED
  BY <1>1, <1>3, <1>12, <1>15, <1>16, AppenderChanges DEF a, f

LEMMA AppenderParts ==
  ASSUME NEW a \in Appenders, NEW f, AppenderGood(a, f), NEW w, w = a.writer
  PROVE  /\ w \in Writers /\ IsPrefix(f.docs, w.docs) /\ IsPrefix(f.bundles, w.bundles)
         /\ WriterSound(w) /\ Answered(w.docs, a.told) /\ RowsTold(a.cols, a.told, a.short)
         /\ a.lost => WriterBroken(w)
         /\ ~a.lost => WriterWhole(w)
         /\ ~a.lost /\ ~a.short => Counted(w, a.since_seal, f)
BY AppenderFields DEF AppenderGood

(* The parts of an appender that is good.                                  *)
Holds(f, w, cols, since_seal, told, lost, short) ==
  /\ IsPrefix(f.docs, w.docs) /\ IsPrefix(f.bundles, w.bundles)
  /\ WriterSound(w) /\ Answered(w.docs, told) /\ RowsTold(cols, told, short)
  /\ lost => WriterBroken(w)
  /\ ~lost => WriterWhole(w)
  /\ ~lost /\ ~short => Counted(w, since_seal, f)

LEMMA AppenderMade ==
  ASSUME NEW f, NEW w \in Writers, NEW cols \in Tables, NEW since_seal \in Nat,
         NEW told \in Histories, NEW lost \in BOOLEAN, NEW short \in BOOLEAN,
         NEW slipped \in BOOLEAN, Holds(f, w, cols, since_seal, told, lost, short),
         NEW a, a = [writer |-> w, cols |-> cols, since_seal |-> since_seal, told |-> told,
                     lost |-> lost, short |-> short, slipped |-> slipped]
  PROVE  a \in Appenders /\ AppenderGood(a, f)
<1>1. a \in Appenders /\ a.writer = w /\ a.cols = cols /\ a.since_seal = since_seal
      /\ a.told = told /\ a.lost = lost /\ a.short = short
  BY DEF Appenders
<1> QED
  BY <1>1 DEF AppenderGood, Holds

(* Whether a write has slipped is nothing to what the appender holds.      *)
LEMMA AppenderSlips ==
  ASSUME NEW a \in Appenders, NEW f, AppenderGood(a, f), NEW b \in Slips(a)
  PROVE  b \in Appenders /\ AppenderGood(b, f)
<1>1. CASE b = a
  BY <1>1
<1>2. CASE b = [a EXCEPT !.slipped = TRUE]
  <2> DEFINE yes == TRUE
  <2>1. /\ a = [writer |-> a.writer, cols |-> a.cols, since_seal |-> a.since_seal,
                told |-> a.told, lost |-> a.lost, short |-> a.short, slipped |-> a.slipped]
        /\ a.writer \in Writers /\ a.cols \in Tables /\ a.since_seal \in Nat
        /\ a.told \in Histories /\ a.lost \in BOOLEAN /\ a.short \in BOOLEAN
    BY AppenderFields
  <2>2. b = [writer |-> a.writer, cols |-> a.cols, since_seal |-> a.since_seal,
             told |-> a.told, lost |-> a.lost, short |-> a.short, slipped |-> yes]
    BY ONLY <1>2, <2>1 DEF yes
  <2>3. Holds(f, a.writer, a.cols, a.since_seal, a.told, a.lost, a.short)
    BY AppenderParts DEF Holds
  <2>4. yes \in BOOLEAN
    OBVIOUS
  <2> HIDE DEF yes
  <2> QED
    BY ONLY <2>1, <2>2, <2>3, <2>4, AppenderMade
<1> QED
  BY <1>1, <1>2 DEF Slips

LEMMA PrefixGrows ==
  ASSUME NEW S, NEW s \in Seq(S), NEW t \in Seq(S), IsPrefix(s, t), NEW e \in S
  PROVE  IsPrefix(s, Append(t, e))
<1>1. Len(s) <= Len(t) /\ \A i \in 1..Len(s) : s[i] = t[i]
  BY PrefixMeans
<1>2. Append(t, e) \in Seq(S) /\ Len(Append(t, e)) = Len(t) + 1
      /\ \A i \in 1..Len(t) : Append(t, e)[i] = t[i]
  OBVIOUS
<1>3. Len(s) <= Len(Append(t, e)) /\ \A i \in 1..Len(s) : s[i] = Append(t, e)[i]
  BY <1>1, <1>2
<1> DEFINE u == Append(t, e)
<1> HIDE DEF u
<1>4. IsPrefix(s, u)
  BY <1>2, <1>3, PrefixMeans DEF u
<1> QED
  BY <1>4 DEF u

LEMMA PushStaysBroken ==
  ASSUME NEW w \in Writers, NEW d \in Docs, d.key \notin w.seen, WriterBroken(w),
         NEW v, v = PushDoc(w, d)
  PROVE  WriterBroken(v)
<1>1. /\ w.docs \in Seq(Docs) /\ w.frames \in Seq(Docs) /\ w.start \in Nat
      /\ Len(w.docs) \in Nat /\ Len(w.frames) \in Nat
  BY WriterFields
<1>2. v = [docs |-> Append(w.docs, d), bundles |-> w.bundles,
           frames |-> Append(w.frames, d), start |-> w.start,
           seen |-> w.seen \cup {d.key}, collapsed |-> w.collapsed]
  BY Pushed
<1>3. /\ v.docs = Append(w.docs, d) /\ v.bundles = w.bundles
      /\ v.frames = Append(w.frames, d) /\ v.start = w.start
  BY ONLY <1>2
<1>4. Len(v.docs) = Len(w.docs) + 1 /\ Len(v.frames) = Len(w.frames) + 1
  BY <1>1, <1>3
<1>5. Len(w.frames) < Len(w.docs) - w.start => Len(v.frames) < Len(v.docs) - v.start
  BY <1>1, <1>3, <1>4
<1>6. BundleBroken(w) => BundleBroken(v)
  BY <1>3 DEF BundleBroken
<1> QED
  BY <1>5, <1>6 DEF WriterBroken

(* The bundle the writer seals is the only new one.                        *)
LEMMA SealAdds ==
  ASSUME NEW v \in Writers, Len(v.docs) # v.start, NEW u, u = Seal(v)
  PROVE  /\ Len(u.bundles) = Len(v.bundles) + 1
         /\ u.bundles[Len(v.bundles) + 1].n = Len(v.docs) - v.start
         /\ \A b \in 1..Len(v.bundles) : u.bundles[b] = v.bundles[b]
         /\ \A s : s \in Seq(Bundles) /\ IsPrefix(s, v.bundles) => IsPrefix(s, u.bundles)
<1> DEFINE k == Len(v.docs) - v.start
           last == [n |-> k, frames |-> v.frames]
<1>1. u = [docs |-> v.docs, bundles |-> Append(v.bundles, last), frames |-> <<>>,
           start |-> Len(v.docs), seen |-> v.seen, collapsed |-> v.collapsed]
  BY Sealed
<1>2. v.bundles \in Seq(Bundles) /\ v.frames \in Seq(Docs) /\ k \in Nat
  BY WriterFields
<1>3. last \in Bundles /\ last.n = k
  BY <1>2 DEF Bundles
<1> HIDE DEF last, k
<1>4. u.bundles = Append(v.bundles, last)
  BY ONLY <1>1
<1>5. /\ Len(u.bundles) = Len(v.bundles) + 1
      /\ u.bundles[Len(v.bundles) + 1] = last
      /\ \A b \in 1..Len(v.bundles) : u.bundles[b] = v.bundles[b]
  BY <1>2, <1>3, <1>4
<1>6. \A s : s \in Seq(Bundles) /\ IsPrefix(s, v.bundles) => IsPrefix(s, u.bundles)
  BY <1>2, <1>3, <1>4, PrefixGrows
<1> QED
  BY <1>3, <1>5, <1>6 DEF k

(* A document whose key is new is pushed, and then its row.                *)
LEMMA AppendPushes ==
  ASSUME NEW a \in Appenders, NEW f \in Files, AppenderGood(a, f),
         NEW doc \in Docs, doc.text = doc.id, doc.key \notin a.writer.seen,
         NEW row \in Seq(Nat), Len(row) = Len(a.cols),
         NEW short, short = (a.short \/ ~TakesRow(a.cols, row)),
         NEW v, v = PushDoc(a.writer, doc),
         NEW told, told = Append(a.told, [doc |-> doc, row |-> row])
  PROVE  /\ v \in Writers /\ PushRow(a.cols, row) \in Tables /\ told \in Histories
         /\ IsPrefix(f.docs, v.docs) /\ IsPrefix(f.bundles, v.bundles)
         /\ WriterSound(v) /\ Answered(v.docs, told)
         /\ RowsTold(PushRow(a.cols, row), told, short)
         /\ v.bundles = a.writer.bundles
         /\ Len(v.docs) - v.start \in Nat \ {0}
         /\ a.lost => WriterBroken(v)
         /\ ~a.lost => WriterWhole(v)
         /\ ~a.lost /\ ~a.short =>
              /\ Len(v.docs) - v.start = a.since_seal + 1
              /\ a.since_seal < BundleCap
              /\ \A b \in (Len(f.bundles) + 1)..Len(v.bundles) : v.bundles[b].n <= BundleCap
<1> DEFINE w == a.writer
<1>1. /\ w \in Writers /\ a.cols \in Tables /\ a.since_seal \in Nat /\ a.told \in Histories
      /\ a.short \in BOOLEAN
  BY AppenderFields
<1>2. /\ IsPrefix(f.docs, w.docs) /\ IsPrefix(f.bundles, w.bundles)
      /\ WriterSound(w) /\ Answered(w.docs, a.told) /\ RowsTold(a.cols, a.told, a.short)
      /\ a.lost => WriterBroken(w)
      /\ ~a.lost => WriterWhole(w)
      /\ ~a.lost /\ ~a.short => Counted(w, a.since_seal, f)
  BY AppenderParts
<1> HIDE DEF w
<1>3. v = PushDoc(w, doc) /\ doc.key \notin w.seen
  BY DEF w
<1>4. /\ v \in Writers /\ WriterSound(v) /\ (WriterWhole(w) => WriterWhole(v))
  BY <1>1, <1>2, <1>3, PushTypes, PushKeeps
<1>5. /\ v.docs = Append(w.docs, doc) /\ v.bundles = w.bundles /\ v.start = w.start
  <2>1. v = [docs |-> Append(w.docs, doc), bundles |-> w.bundles,
             frames |-> Append(w.frames, doc), start |-> w.start,
             seen |-> w.seen \cup {doc.key}, collapsed |-> w.collapsed]
    BY <1>1, <1>3, Pushed
  <2> QED
    BY ONLY <2>1
<1>6. /\ w.docs \in Seq(Docs) /\ w.start \in Nat /\ Len(w.docs) \in Nat /\ w.start <= Len(w.docs)
  BY <1>1, WriterFields
<1>7. Len(v.docs) = Len(w.docs) + 1
  BY <1>5, <1>6
<1>8. Len(v.docs) - v.start \in Nat \ {0}
      /\ Len(v.docs) - v.start = (Len(w.docs) - w.start) + 1
  BY <1>5, <1>6, <1>7
<1>9. /\ told \in Histories /\ PushRow(a.cols, row) \in Tables
      /\ RowsTold(PushRow(a.cols, row), told, short)
  BY <1>1, <1>2, RowTold
<1>10. Answered(v.docs, told)
  BY <1>1, <1>2, <1>5, <1>6, AnsweredNext
<1>11. IsPrefix(f.docs, v.docs)
  BY <1>2, <1>5, <1>6, FileFields, PrefixGrows
<1>12. a.lost => WriterBroken(v)
  BY <1>1, <1>2, <1>3, PushStaysBroken
<1>13. ~a.lost => WriterWhole(v)
  BY <1>2, <1>4
<1>14. ~a.lost /\ ~a.short =>
         /\ Len(v.docs) - v.start = a.since_seal + 1
         /\ a.since_seal < BundleCap
         /\ \A b \in (Len(f.bundles) + 1)..Len(v.bundles) : v.bundles[b].n <= BundleCap
  BY <1>2, <1>5, <1>8 DEF Counted
<1> QED
  BY <1>2, <1>4, <1>5, <1>8, <1>9, <1>10, <1>11, <1>12, <1>13, <1>14 DEF w

LEMMA StoreKeeps ==
  ASSUME IInv, appender # None, NEW key \in Keys, NEW row \in Seq(Nat), Store(key, row),
         ValidRow(appender.cols, row),
         adds' \in Nat, UNCHANGED <<builder, memory, file>>
  PROVE  IInv'
<1> DEFINE a == appender
           b == appender'
           f == file
           w == a.writer
           doc == NewDoc(key)
           v == PushDoc(w, doc)
           cols == PushRow(a.cols, row)
           told == Append(a.told, [doc |-> doc, row |-> row])
           k == a.since_seal + 1
           pushed == [a EXCEPT !.writer = v, !.cols = cols, !.told = told]
           stored == [pushed EXCEPT !.since_seal = k]
           short == a.short \/ ~TakesRow(a.cols, row)
<1>1. /\ a \in Appenders /\ AppenderGood(a, f) /\ f \in Files /\ f # None
      /\ builder = None /\ adds \in Nat
  BY OpenAppenderThere
<1>2. doc \in Docs /\ doc.text = doc.id /\ doc.key = key
  BY <1>1, NewDocTypes
<1>3. \/ doc.key \in w.seen /\ b = [a EXCEPT !.writer = v]
      \/ /\ doc.key \notin w.seen
         /\ IF ~TakesRow(a.cols, row) THEN b = [pushed EXCEPT !.short = TRUE]
            ELSE IF stored.since_seal # BundleCap THEN b = stored
            ELSE \/ b = [stored EXCEPT !.writer = Seal(stored.writer), !.since_seal = 0]
                 \/ b \in Slips([stored EXCEPT !.writer = SealFails(stored.writer),
                                              !.lost = TRUE])
  <2>1. pushed.since_seal = a.since_seal
    <3>1. /\ a = [writer |-> w, cols |-> a.cols, since_seal |-> a.since_seal, told |-> a.told,
                  lost |-> a.lost, short |-> a.short, slipped |-> a.slipped]
      BY <1>1, AppenderFields
    <3> HIDE DEF a, v, cols, told, w
    <3> QED
      BY <3>1
  <2>2. pushed.short = a.short
    <3>1. /\ a = [writer |-> w, cols |-> a.cols, since_seal |-> a.since_seal, told |-> a.told,
                  lost |-> a.lost, short |-> a.short, slipped |-> a.slipped]
      BY <1>1, AppenderFields
    <3> HIDE DEF a, v, cols, told, w
    <3> QED
      BY <3>1
  <2> QED
    BY <1>2, <2>1, <2>2 DEF Store, IsDuplicate, Told
<1>4. /\ a = [writer |-> w, cols |-> a.cols, since_seal |-> a.since_seal,
              told |-> a.told, lost |-> a.lost, short |-> a.short, slipped |-> a.slipped]
      /\ w \in Writers /\ a.cols \in Tables /\ a.since_seal \in Nat
      /\ a.told \in Histories /\ a.lost \in BOOLEAN /\ k \in Nat
      /\ a.short \in BOOLEAN /\ a.slipped \in BOOLEAN
  BY <1>1, AppenderFields
<1>5. /\ IsPrefix(f.docs, w.docs) /\ IsPrefix(f.bundles, w.bundles)
      /\ WriterSound(w) /\ Answered(w.docs, a.told) /\ RowsTold(a.cols, a.told, a.short)
      /\ a.lost => WriterBroken(w)
      /\ ~a.lost => WriterWhole(w)
      /\ ~a.lost /\ ~a.short => Counted(w, a.since_seal, f)
  BY <1>1, AppenderParts
<1>6. SUFFICES b \in Appenders /\ AppenderGood(b, f)
  BY <1>1, AppenderChanges
<1>7. Len(row) = Len(a.cols)
  BY DEF ValidRow
<1> HIDE DEF b, f, doc
<1>8. CASE doc.key \in w.seen
  <2> HIDE DEF w, a
  <2>1. v = [docs |-> w.docs, bundles |-> w.bundles, frames |-> w.frames,
             start |-> w.start, seen |-> w.seen, collapsed |-> w.collapsed + 1]
    BY <1>4, <1>8, Duplicate
  <2>2. v \in Writers
    BY <1>2, <1>4, PushTypes
  <2>3. /\ v.docs = w.docs /\ v.bundles = w.bundles /\ v.frames = w.frames
        /\ v.start = w.start /\ v.seen = w.seen
    BY ONLY <2>1
  <2>4. b = [a EXCEPT !.writer = v]
    BY <1>3, <1>8
  <2> HIDE DEF v
  <2>5. b = [writer |-> v, cols |-> a.cols, since_seal |-> a.since_seal,
             told |-> a.told, lost |-> a.lost, short |-> a.short, slipped |-> a.slipped]
    BY ONLY <1>4, <2>4
  <2>6. WriterSound(v) /\ (WriterWhole(w) => WriterWhole(v))
    BY <1>4, <1>5, <2>2, <2>3, SameDocs
  <2>7. a.lost => WriterBroken(v)
    BY <1>5, <2>3 DEF WriterBroken, BundleBroken
  <2>8. /\ ~a.lost => WriterWhole(v)
        /\ ~a.lost /\ ~a.short => Counted(v, a.since_seal, f)
    BY <1>5, <2>3, <2>6 DEF Counted
  <2>9. IsPrefix(f.docs, v.docs) /\ IsPrefix(f.bundles, v.bundles) /\ Answered(v.docs, a.told)
    BY <1>5, <2>3
  <2>10. Holds(f, v, a.cols, a.since_seal, a.told, a.lost, a.short)
    BY <1>5, <2>6, <2>7, <2>8, <2>9 DEF Holds
  <2> QED
    BY ONLY <1>4, <2>2, <2>5, <2>10, AppenderMade
<1>9. CASE doc.key \notin w.seen
  <2>1. /\ v \in Writers /\ cols \in Tables /\ told \in Histories
        /\ IsPrefix(f.docs, v.docs) /\ IsPrefix(f.bundles, v.bundles)
        /\ WriterSound(v) /\ Answered(v.docs, told) /\ RowsTold(cols, told, short)
        /\ Len(v.docs) - v.start \in Nat \ {0}
        /\ a.lost => WriterBroken(v)
        /\ ~a.lost => WriterWhole(v)
        /\ ~a.lost /\ ~a.short =>
             /\ Len(v.docs) - v.start = k
             /\ a.since_seal < BundleCap
             /\ \A c \in (Len(f.bundles) + 1)..Len(v.bundles) : v.bundles[c].n <= BundleCap
    <3> HIDE DEF a
    <3> QED
      BY <1>1, <1>2, <1>7, <1>9, AppendPushes
  <2>b. short \in BOOLEAN /\ (TakesRow(a.cols, row) => short = a.short)
        /\ (~TakesRow(a.cols, row) => short = TRUE)
    BY <1>4
  <2>c. short = FALSE => a.short = FALSE
    BY <1>4
  <2> HIDE DEF a, v, w, cols, told, k, short
  <2>a. /\ pushed = [a EXCEPT !.writer = v, !.cols = cols, !.told = told]
        /\ stored = [pushed EXCEPT !.since_seal = k]
    OBVIOUS
  <2> HIDE DEF stored, pushed
  <2>d. pushed = [writer |-> v, cols |-> cols, since_seal |-> a.since_seal, told |-> told,
                  lost |-> a.lost, short |-> a.short, slipped |-> a.slipped]
    BY ONLY <1>4, <2>a
  <2>2. stored = [writer |-> v, cols |-> cols, since_seal |-> k, told |-> told,
                  lost |-> a.lost, short |-> a.short, slipped |-> a.slipped]
    BY ONLY <2>a, <2>d
  <2>3. /\ stored.writer = v /\ stored.cols = cols /\ stored.since_seal = k
        /\ stored.told = told /\ stored.lost = a.lost
    BY ONLY <2>2
  <2>4. \/ ~TakesRow(a.cols, row) /\ b = [pushed EXCEPT !.short = TRUE]
        \/ TakesRow(a.cols, row) /\ k # BundleCap /\ b = stored
        \/ /\ TakesRow(a.cols, row) /\ k = BundleCap
           /\ b = [stored EXCEPT !.writer = Seal(v), !.since_seal = 0]
        \/ /\ TakesRow(a.cols, row)
           /\ b \in Slips([stored EXCEPT !.writer = SealFails(v), !.lost = TRUE])
    BY <1>3, <1>9, <2>3
  <2>5. BundleCap \in Nat \ {0}
    BY CapAssumption
  <2>6. f.bundles \in Seq(Bundles) /\ f.docs \in Seq(Docs)
    BY <1>1, FileFields
  <2>e. CASE ~TakesRow(a.cols, row) /\ b = [pushed EXCEPT !.short = TRUE]
    <3> DEFINE yes == TRUE
    <3>1. b = [writer |-> v, cols |-> cols, since_seal |-> a.since_seal, told |-> told,
               lost |-> a.lost, short |-> yes, slipped |-> a.slipped]
      BY ONLY <2>d, <2>e DEF yes
    <3>2. RowsTold(cols, told, yes) /\ (~a.lost /\ ~yes => Counted(v, a.since_seal, f))
      BY <2>1, <2>b, <2>e
    <3>5. v \in Writers /\ cols \in Tables /\ told \in Histories /\ yes \in BOOLEAN
      BY <2>1
    <3> HIDE DEF yes
    <3>4. Holds(f, v, cols, a.since_seal, told, a.lost, yes)
      BY <2>1, <3>2 DEF Holds
    <3> QED
      BY ONLY <1>4, <3>1, <3>4, <3>5, AppenderMade
  <2>7. CASE TakesRow(a.cols, row) /\ k # BundleCap /\ b = stored
    <3>1. b = [writer |-> v, cols |-> cols, since_seal |-> k, told |-> told,
               lost |-> a.lost, short |-> a.short, slipped |-> a.slipped]
      BY ONLY <2>2, <2>7
    <3>2. ~a.lost /\ ~a.short => Counted(v, k, f)
      <4>1. a.since_seal < BundleCap => k < BundleCap
        BY <1>4, <2>5, <2>7 DEF k
      <4> QED
        BY <2>1, <4>1 DEF Counted
    <3>3. RowsTold(cols, told, a.short)
      BY <2>1, <2>b, <2>7
    <3>4. Holds(f, v, cols, k, told, a.lost, a.short)
      BY <2>1, <3>2, <3>3 DEF Holds
    <3>5. v \in Writers /\ cols \in Tables /\ told \in Histories
      BY <2>1
    <3> QED
      BY ONLY <1>4, <3>1, <3>4, <3>5, AppenderMade
  <2>8. CASE TakesRow(a.cols, row) /\ k = BundleCap /\ b = [stored EXCEPT !.writer = Seal(v), !.since_seal = 0]
    <3> DEFINE u == Seal(v)
               none == 0
    <3>1. b = [writer |-> u, cols |-> cols, since_seal |-> none, told |-> told,
               lost |-> a.lost, short |-> a.short, slipped |-> a.slipped]
      BY <2>2, <2>8
    <3>a. RowsTold(cols, told, a.short)
      BY <2>1, <2>b, <2>8
    <3>2. /\ u \in Writers /\ WriterSound(u) /\ (WriterWhole(v) => WriterWhole(u))
          /\ u.start = Len(u.docs) /\ u.docs = v.docs
      BY <2>1, SealTypes, SealKeeps
    <3>3. v.bundles \in Seq(Bundles) /\ Len(v.docs) # v.start /\ Len(u.docs) \in Nat
          /\ v.start \in Nat /\ Len(v.docs) \in Nat
      BY <2>1, <3>2, WriterFields
    <3>4. a.lost => WriterBroken(u)
      BY <2>1, SealBreaks DEF WriterBroken
    <3>5. /\ Len(u.bundles) = Len(v.bundles) + 1
          /\ u.bundles[Len(v.bundles) + 1].n = Len(v.docs) - v.start
          /\ \A c \in 1..Len(v.bundles) : u.bundles[c] = v.bundles[c]
          /\ \A s : s \in Seq(Bundles) /\ IsPrefix(s, v.bundles) => IsPrefix(s, u.bundles)
      BY <2>1, <3>3, SealAdds
    <3> HIDE DEF u
    <3>6. IsPrefix(f.docs, u.docs) /\ IsPrefix(f.bundles, u.bundles) /\ Answered(u.docs, told)
      BY <2>1, <2>6, <3>2, <3>5
    <3>7. ASSUME ~a.lost, ~a.short, NEW c \in (Len(f.bundles) + 1)..Len(u.bundles)
          PROVE  u.bundles[c].n <= BundleCap
      <4>1. Len(f.bundles) \in Nat /\ Len(v.bundles) \in Nat
        BY <2>6, <3>3
      <4>2. CASE c = Len(v.bundles) + 1
        BY <2>1, <2>5, <2>8, <3>5, <3>7, <4>2
      <4>3. CASE c # Len(v.bundles) + 1
        <5>1. c \in (Len(f.bundles) + 1)..Len(v.bundles) /\ c \in 1..Len(v.bundles)
          BY <3>5, <4>1, <4>3
        <5> QED
          BY <2>1, <3>5, <3>7, <5>1
      <4> QED
        BY <4>2, <4>3
    <3>8. /\ ~a.lost => WriterWhole(u)
          /\ ~a.lost /\ ~a.short => Counted(u, 0, f)
      BY <2>1, <2>5, <3>2, <3>3, <3>7 DEF Counted
    <3>9. u \in Writers /\ cols \in Tables /\ told \in Histories /\ none \in Nat
      BY <2>1, <3>2
    <3>10. Holds(f, u, cols, none, told, a.lost, a.short)
      BY <3>2, <3>a, <3>4, <3>6, <3>8 DEF Holds
    <3> HIDE DEF none
    <3> QED
      BY ONLY <1>4, <3>1, <3>9, <3>10, AppenderMade
  <2>9. CASE /\ TakesRow(a.cols, row)
             /\ b \in Slips([stored EXCEPT !.writer = SealFails(v), !.lost = TRUE])
    <3> DEFINE u == SealFails(v)
               c == [stored EXCEPT !.writer = u, !.lost = TRUE]
               yes == TRUE
    <3>1. c = [writer |-> u, cols |-> cols, since_seal |-> k, told |-> told, lost |-> yes,
               short |-> a.short, slipped |-> a.slipped]
      <4>1. c = [stored EXCEPT !.writer = u, !.lost = TRUE]
        OBVIOUS
      <4> HIDE DEF c, u
      <4> QED
        BY ONLY <2>2, <4>1 DEF yes
    <3>a. RowsTold(cols, told, a.short)
      BY <2>1, <2>b, <2>9
    <3> HIDE DEF c
    <3>2. /\ v = [docs |-> v.docs, bundles |-> v.bundles, frames |-> v.frames,
                  start |-> v.start, seen |-> v.seen, collapsed |-> v.collapsed]
          /\ v.docs \in Seq(Docs) /\ v.bundles \in Seq(Bundles) /\ v.start \in Nat
          /\ v.seen \in SUBSET Keys /\ v.collapsed \in Nat /\ v.start <= Len(v.docs)
      BY <2>1, WriterFields
    <3>3. u = [v EXCEPT !.frames = <<>>]
      BY DEF SealFails
    <3> HIDE DEF u
    <3>4. u = [docs |-> v.docs, bundles |-> v.bundles, frames |-> <<>>,
               start |-> v.start, seen |-> v.seen, collapsed |-> v.collapsed]
      BY ONLY <3>2, <3>3
    <3>5. u.docs = v.docs /\ u.bundles = v.bundles /\ u.frames = <<>>
          /\ u.start = v.start /\ u.seen = v.seen
      BY ONLY <3>4
    <3>6. u \in Writers
      <4>1. <<>> \in Seq(Docs)
        OBVIOUS
      <4> QED
        BY ONLY <3>2, <3>4, <4>1, WriterMade
    <3>7. WriterSound(u)
      BY <2>1, <3>5, <3>6, SameDocs
    <3>8. WriterBroken(u)
      BY <2>1, <3>2, <3>5 DEF WriterBroken
    <3>9. IsPrefix(f.docs, u.docs) /\ IsPrefix(f.bundles, u.bundles) /\ Answered(u.docs, told)
      BY <2>1, <3>5
    <3>10. Holds(f, u, cols, k, told, yes, a.short)
      BY <2>1, <3>a, <3>7, <3>8, <3>9 DEF Holds
    <3>12. u \in Writers /\ cols \in Tables /\ told \in Histories /\ yes \in BOOLEAN
      BY <2>1, <3>6
    <3> HIDE DEF yes
    <3>11. c \in Appenders /\ AppenderGood(c, f)
      BY ONLY <1>4, <3>1, <3>10, <3>12, AppenderMade
    <3>13. b \in Slips(c)
      BY <2>9 DEF c, u
    <3> QED
      BY ONLY <3>11, <3>13, AppenderSlips
  <2> QED
    BY <2>4, <2>e, <2>7, <2>8, <2>9
<1> QED
  BY <1>8, <1>9

LEMMA AppendHtmlKeeps ==
  ASSUME IInv, NEW key \in Keys, AppendHtml(key)
  PROVE  IInv'
<1> DEFINE row == NullRow(appender.cols)
<1>1. appender # None /\ Store(key, row) /\ adds' = adds + 1 /\ UNCHANGED <<builder, memory, file>>
  BY DEF AppendHtml
<1>2. appender \in Appenders /\ adds' \in Nat
  BY <1>1, OpenAppenderThere
<1>3. row \in Seq(Nat) /\ ValidRow(appender.cols, row)
  BY <1>2, AppenderFields, NullRowFits DEF TakesRow, Taken, ValidRow
<1> HIDE DEF row
<1> QED
  BY <1>1, <1>2, <1>3, StoreKeeps

LEMMA AppendWithMetaKeeps ==
  ASSUME IInv, NEW key \in Keys, NEW row \in Rows, AppendWithMeta(key, row)
  PROVE  IInv'
<1>1. appender # None /\ Store(key, row) /\ adds' = adds + 1 /\ UNCHANGED <<builder, memory, file>>
  BY DEF AppendWithMeta
<1>2. adds \in Nat /\ adds' \in Nat
  BY <1>1, OpenAppenderThere
<1>3. row \in Seq(Nat)
  BY <1>2, RowTypes
<1>4. ValidRow(appender.cols, row)
  BY DEF AppendWithMeta
<1> QED
  BY <1>1, <1>2, <1>3, <1>4, StoreKeeps

LEMMA AppendFailsKeeps ==
  ASSUME IInv, NEW key \in Keys, AppendFails(key)
  PROVE  IInv'
<1> DEFINE a == appender
           f == file
           w == a.writer
           doc == NewDoc(key)
           v == PushDocFails(w, doc)
           b == [a EXCEPT !.writer = v]
<1>1. /\ a \in Appenders /\ AppenderGood(a, f) /\ f \in Files /\ f # None
      /\ builder = None /\ adds \in Nat
  BY OpenAppenderThere DEF AppendFails
<1>2. appender' \in Slips(b) /\ adds' \in Nat /\ UNCHANGED <<builder, memory, file>>
  BY <1>1 DEF AppendFails
<1>3. doc.key \in Keys
  BY <1>1, NewDocTypes
<1>4. /\ a = [writer |-> w, cols |-> a.cols, since_seal |-> a.since_seal,
              told |-> a.told, lost |-> a.lost, short |-> a.short, slipped |-> a.slipped]
      /\ w \in Writers /\ a.cols \in Tables /\ a.since_seal \in Nat
      /\ a.told \in Histories /\ a.lost \in BOOLEAN /\ a.short \in BOOLEAN
      /\ a.slipped \in BOOLEAN
  BY <1>1, AppenderFields
<1>5. /\ IsPrefix(f.docs, w.docs) /\ IsPrefix(f.bundles, w.bundles)
      /\ WriterSound(w) /\ Answered(w.docs, a.told) /\ RowsTold(a.cols, a.told, a.short)
      /\ a.lost => WriterBroken(w)
      /\ ~a.lost => WriterWhole(w)
      /\ ~a.lost /\ ~a.short => Counted(w, a.since_seal, f)
  BY <1>1, AppenderParts
<1>6. SUFFICES b \in Appenders /\ AppenderGood(b, f)
  BY <1>1, <1>2, AppenderChanges, AppenderSlips
<1>a. b = [a EXCEPT !.writer = v]
  OBVIOUS
<1>7. v = [w EXCEPT !.seen = w.seen \cup {doc.key}]
  BY DEF PushDocFails
<1> HIDE DEF a, b, f, w, doc, v
<1>8. /\ w = [docs |-> w.docs, bundles |-> w.bundles, frames |-> w.frames,
              start |-> w.start, seen |-> w.seen, collapsed |-> w.collapsed]
      /\ w.docs \in Seq(Docs) /\ w.bundles \in Seq(Bundles) /\ w.frames \in Seq(Docs)
      /\ w.start \in Nat /\ w.seen \in SUBSET Keys /\ w.collapsed \in Nat
      /\ w.start <= Len(w.docs)
  BY <1>4, WriterFields
<1> DEFINE seen == w.seen \cup {doc.key}
<1>9. seen \in SUBSET Keys /\ w.seen \subseteq seen /\ v = [w EXCEPT !.seen = seen]
  BY <1>3, <1>7, <1>8
<1> HIDE DEF seen
<1>10. v = [docs |-> w.docs, bundles |-> w.bundles, frames |-> w.frames,
            start |-> w.start, seen |-> seen, collapsed |-> w.collapsed]
  BY ONLY <1>8, <1>9
<1>11. v \in Writers
  <2>1. /\ w.docs \in Seq(Docs) /\ w.bundles \in Seq(Bundles) /\ w.frames \in Seq(Docs)
        /\ w.start \in Nat /\ seen \in SUBSET Keys /\ w.collapsed \in Nat
        /\ w.start <= Len(w.docs)
    BY <1>8, <1>9
  <2>2. [docs |-> w.docs, bundles |-> w.bundles, frames |-> w.frames,
         start |-> w.start, seen |-> seen, collapsed |-> w.collapsed] \in Writers
    BY ONLY <2>1, WriterMade
  <2> QED
    BY ONLY <1>10, <2>2
<1>12. v.docs = w.docs /\ v.bundles = w.bundles /\ v.frames = w.frames
       /\ v.start = w.start /\ v.seen = seen
  BY ONLY <1>10
<1>13. WriterSound(v) /\ (WriterWhole(w) => WriterWhole(v))
  BY <1>4, <1>5, <1>9, <1>11, <1>12, SameDocs
<1>14. a.lost => WriterBroken(v)
  BY <1>5, <1>12 DEF WriterBroken, BundleBroken
<1>15. /\ ~a.lost => WriterWhole(v)
       /\ ~a.lost /\ ~a.short => Counted(v, a.since_seal, f)
  BY <1>5, <1>12, <1>13 DEF Counted
<1>16. IsPrefix(f.docs, v.docs) /\ IsPrefix(f.bundles, v.bundles) /\ Answered(v.docs, a.told)
  BY <1>5, <1>12
<1>17. b = [writer |-> v, cols |-> a.cols, since_seal |-> a.since_seal,
            told |-> a.told, lost |-> a.lost, short |-> a.short, slipped |-> a.slipped]
  BY ONLY <1>a, <1>4
<1>18. Holds(f, v, a.cols, a.since_seal, a.told, a.lost, a.short)
  BY <1>5, <1>13, <1>14, <1>15, <1>16 DEF Holds
<1> QED
  BY ONLY <1>4, <1>11, <1>17, <1>18, AppenderMade

LEMMA CommitKeeps ==
  ASSUME IInv, Commit
  PROVE  IInv'
<1> DEFINE a == appender
           w == a.writer
           f == Footer(w, a.cols, a.told, a.lost, a.short)
<1>1. /\ a \in Appenders /\ AppenderGood(a, file) /\ builder = None /\ adds \in Nat
  BY OpenAppenderThere DEF Commit
<1>2. /\ file' = None \/ file' = f
      /\ appender' = None /\ UNCHANGED <<builder, memory, adds>>
  BY DEF Commit
<1>3. /\ w \in Writers /\ a.cols \in Tables /\ a.told \in Histories /\ a.lost \in BOOLEAN
      /\ a.short \in BOOLEAN
  BY <1>1, AppenderFields
<1>4. /\ WriterSound(w) /\ Answered(w.docs, a.told) /\ RowsTold(a.cols, a.told, a.short)
      /\ IF a.lost THEN WriterBroken(w) ELSE WriterWhole(w)
  BY <1>1, AppenderParts
<1> HIDE DEF a, w
<1>5. f \in Files /\ FileGood(f)
  BY <1>3, <1>4, FooterGood
<1> HIDE DEF f
<1>6. builder' = None /\ adds' \in Nat
  BY <1>1, <1>2
<1> QED
  BY <1>2, <1>5, <1>6 DEF IInv, Types, BuilderInv, MemoryInv, FileInv, AppenderInv

LEMMA AbandonKeeps ==
  ASSUME IInv, Abandon
  PROVE  IInv'
BY DEF IInv, Types, BuilderInv, MemoryInv, FileInv, AppenderInv, Abandon

-----------------------------------------------------------------------------
(* The invariant.                                                          *)

LEMMA IInvAtFirst ==
  ASSUME Init
  PROVE  IInv
<1> DEFINE b == builder
<1>1. b = NewBuilder /\ memory = None /\ file = None /\ appender = None /\ adds = 0
  BY DEF Init
<1> HIDE DEF b
<1>2. /\ b.entries = <<>> /\ b.seen = {} /\ b.cols = NoTable /\ b.calls = <<>> /\ b.told = <<>>
  BY <1>1 DEF NewBuilder
<1>3. b \in Builders
  BY <1>1 DEF NewBuilder, Builders, NoTable, Tables, Histories
<1>4. Chunked(WriteEntries(b.entries), b) /\ Chunked(PackDocs(b.calls), b)
  BY <1>2, EntriesStart
<1>5. Answered(b.entries, b.told) /\ RowsKept(b.cols, b.told)
  <2>1. Len(<<>>) = 0 /\ 1..0 = {}
    OBVIOUS
  <2> QED
    BY <1>2, <2>1 DEF Answered, RowsKept, NoTable
<1>6. BuilderGood(b)
  BY <1>4, <1>5 DEF BuilderGood
<1> QED
  BY <1>1, <1>3, <1>6 DEF IInv, Types, BuilderInv, MemoryInv, FileInv, AppenderInv, b

LEMMA IInvSteps ==
  ASSUME IInv, [Next]_vars
  PROVE  IInv'
<1>1. CASE UNCHANGED vars
  BY <1>1 DEF vars, IInv, Types, BuilderInv, MemoryInv, FileInv, AppenderInv
<1>2. CASE Next
  BY <1>2, SetMetaSchemaKeeps, BuildKeeps, WriteToKeeps, SaveKeeps, ReadKeeps,
     OpenAppenderKeeps, CommitKeeps, AbandonKeeps, AddHtmlKeeps, AppendHtmlKeeps,
     AppendFailsKeeps, AddHtmlWithMetaKeeps, RefuseRowKeeps, AppendWithMetaKeeps DEF Next
<1> QED
  BY <1>1, <1>2

(* After any calls the writers hold what was told of, in whole bundles and *)
(* with whole columns, unless the seal of one failed or a row was refused  *)
(* late: then a bundle or the last column shows it.                        *)
THEOREM SessionInvariant == Spec => []IInv
<1>1. Init => IInv
  BY IInvAtFirst
<1>2. IInv /\ [Next]_vars => IInv'
  BY IInvSteps
<1> QED
  BY <1>1, <1>2, PTL DEF Spec

-----------------------------------------------------------------------------
(* What the runs check.                                                    *)

LEMMA GoodRows ==
  ASSUME NEW f \in Files, FileGood(f), ~f.short
  PROVE  /\ Len(f.docs) = Len(f.told)
         /\ \A i \in 1..Len(f.docs) : RowAt(f.cols, i) = f.told[i].row
         /\ ValidArchived(f.cols, Len(f.docs))
<1>1. f.cols \in Tables /\ f.told \in Histories
  BY FileFields
<1>2. Len(f.docs) = Len(f.told) /\ RowsKept(f.cols, f.told)
      /\ (f.cols # NoTable => Len(f.cols[1]) = Len(f.told))
  BY DEF FileGood, Answered, RowsTold
<1>3. /\ \A i \in 1..Len(f.told) : RowAt(f.cols, i) = f.told[i].row
      /\ \A g \in 1..Len(f.cols) : Len(f.cols[g]) = Len(f.told)
  BY <1>1, <1>2, RowsRead
<1>4. DOMAIN f.cols = 1..Len(f.cols)
  BY <1>1, TableFields
<1> QED
  BY <1>2, <1>3, <1>4 DEF ValidArchived

LEMMA InvGivesFileSound ==
  ASSUME IInv
  PROVE  FileSound
<1> DEFINE f == file
           read == ReadFrom(f).bundles
<1>0. ASSUME file # None
      PROVE  file \in Files /\ FileGood(file)
  BY <1>0 DEF IInv, Types, FileInv
<1>a. ASSUME NEW g \in Files, FileGood(g), ~g.lost, ~g.short
      PROVE  Reads(g)
  <2>1. g.bundles \in Seq(Bundles) /\ Parted(g, Len(g.docs)) /\ FramesMatch(g)
    BY <1>a, FileFields DEF FileGood
  <2>2. ValidArchived(g.cols, Len(g.docs))
    BY <1>a, GoodRows
  <2>3. DOMAIN g.bundles = 1..Len(g.bundles)
    BY <2>1
  <2> QED
    BY <2>1, <2>2, <2>3 DEF Reads, Parted, FramesMatch
<1>1. SUFFICES ASSUME file # None, Reads(f)
               PROVE  /\ Len(f.told) = Len(f.docs)
                      /\ \A b \in DOMAIN read : \A slot \in DOMAIN read[b] :
                           Tells(read[b][slot], f.cols, Start(f, b) + slot, f.told)
  BY <1>0, <1>a DEF FileSound
<1>2. f \in Files /\ FileGood(f) /\ ~f.lost /\ ~f.short
  BY <1>0, <1>1, ReadsWhole
<1>5. Reads(f)
  BY <1>1
<1> HIDE DEF f
<1>3. Settled(f) /\ f.bundles \in Seq(Bundles) /\ Parted(f, Len(f.docs)) /\ FramesMatch(f)
  BY <1>2, FileSettled DEF Settled
<1>4. /\ Len(f.docs) = Len(f.told)
      /\ \A i \in 1..Len(f.docs) : RowAt(f.cols, i) = f.told[i].row
      /\ ValidArchived(f.cols, Len(f.docs))
  BY <1>2, GoodRows
<1>6. Tiles(read, f)
  BY <1>2, <1>3, ReadIsTiles
<1> HIDE DEF read
<1>7. ASSUME NEW b \in DOMAIN read, NEW slot \in DOMAIN read[b]
      PROVE  Tells(read[b][slot], f.cols, Start(f, b) + slot, f.told)
  <2>1. b \in 1..Len(f.bundles) /\ read[b] = f.bundles[b].frames /\ read[b] \in Seq(Docs)
    BY <1>6, <1>7 DEF Tiles
  <2>2. Len(read[b]) = f.bundles[b].n /\ slot \in 1..f.bundles[b].n
    BY <1>3, <2>1, <1>7 DEF FramesMatch
  <2> DEFINE i == Start(f, b) + slot
             d == read[b][slot]
  <2>3. d = f.docs[i]
    BY <1>3, <2>1, <2>2 DEF FramesMatch
  <2>4. i \in 1..Len(f.docs)
    BY <1>3, <2>1, <2>2, Within
  <2> HIDE DEF d, i
  <2>5. d = f.told[i].doc /\ d.text = d.id
    BY <1>2, <2>3, <2>4 DEF FileGood, Answered
  <2> QED
    BY <1>4, <2>4, <2>5 DEF Tells, d, i
<1> QED
  BY <1>4, <1>5, <1>7

(* What is read back from a file is what its callers were told is in it.   *)
THEOREM FilesTellTheTruth == Spec => []FileSound
<1>1. IInv => FileSound
  BY InvGivesFileSound
<1> QED
  BY <1>1, SessionInvariant, PTL

LEMMA TilesAreBlocks ==
  ASSUME NEW u, Settled(u), NEW bs, Tiles(bs, u)
  PROVE  [b \in DOMAIN u.bundles |-> u.bundles[b].frames] = bs
<1>1. u.bundles \in Seq(Bundles) /\ bs \in Seq(Seq(Docs)) /\ Len(bs) = Len(u.bundles)
      /\ \A b \in 1..Len(bs) : bs[b] = u.bundles[b].frames
  BY DEF Settled, Tiles
<1>2. DOMAIN u.bundles = 1..Len(bs) /\ bs = [b \in 1..Len(bs) |-> bs[b]]
  BY <1>1
<1> QED
  BY <1>1, <1>2

(* The builder, its file and a streaming pack have the same bundles.       *)
THEOREM BundlesAgree == Spec => []SameBundles
<1>1. ASSUME IInv, builder # None
      PROVE  LET blocks(w) == [b \in DOMAIN w.bundles |-> w.bundles[b].frames]
             IN  /\ blocks(Seal(WriteEntries(builder.entries))) = FromVec(builder.entries)
                 /\ blocks(Seal(PackDocs(builder.calls))) = FromVec(builder.entries)
  <2>1. /\ Chunked(WriteEntries(builder.entries), builder)
        /\ Chunked(PackDocs(builder.calls), builder)
    BY <1>1, OnlyBuilder DEF BuilderGood
  <2> QED
    BY <2>1, ChunksAreTiles, TilesAreBlocks
<1>2. IInv => SameBundles
  BY <1>1 DEF SameBundles
<1> QED
  BY <1>2, SessionInvariant, PTL

(* Reading a file and saving it again gives the same file.                 *)
THEOREM SavingAgainKeeps == Spec => []ResaveKeeps
<1>1. ASSUME IInv, file # None, Reads(file)
      PROVE  LET m == ReadFrom(file)
                 w == SaveBundles(m.bundles)
             IN  Finishes(w, m.cols) /\ Footer(w, m.cols, m.told, FALSE, FALSE) = file
  <2> DEFINE f == file
             bs == ReadFrom(f).bundles
             w == SaveBundles(bs)
  <2>1. f \in Files /\ FileGood(f) /\ ~f.lost /\ ~f.short
    BY <1>1, ReadsWhole DEF IInv, Types, FileInv
  <2> HIDE DEF f
  <2>2. Settled(f) /\ Tiles(bs, f)
    BY <2>1, FileSettled, ReadIsTiles
  <2>3. ReadFrom(f).cols = f.cols /\ ReadFrom(f).told = f.told
    BY DEF ReadFrom
  <2>4. w.docs = f.docs /\ w.bundles = f.bundles /\ w.start = Len(w.docs)
    <3> HIDE DEF bs
    <3> QED
      BY <2>2, SaveTiles
  <2> HIDE DEF w
  <2>5. Seal(w) = w
    BY <2>4 DEF Seal
  <2>6. f.index = SortIndex(f.docs) /\ (f.cols # NoTable => Len(f.cols[1]) = Len(f.docs))
    BY <2>1 DEF FileGood, RowsTold, Answered
  <2>7. Finishes(w, f.cols)
    BY <2>4, <2>5, <2>6 DEF Finishes, RowsMatch, RowCount
  <2>8. Footer(w, f.cols, f.told, FALSE, FALSE) =
          [docs |-> f.docs, bundles |-> f.bundles, cols |-> f.cols, index |-> f.index,
           told |-> f.told, lost |-> FALSE, short |-> FALSE]
    BY <2>4, <2>5, <2>6 DEF Footer
  <2>9. Footer(w, f.cols, f.told, FALSE, FALSE) = f
    BY <2>1, <2>8, FileFields
  <2> QED
    BY <2>3, <2>7, <2>9 DEF w, f
<1>2. IInv => ResaveKeeps
  BY <1>1 DEF ResaveKeeps
<1> QED
  BY <1>2, SessionInvariant, PTL

Extends(f, g) ==
  /\ IsPrefix(f.docs, g.docs)
  /\ IsPrefix(f.bundles, g.bundles)
  /\ \A b \in DOMAIN g.bundles \ DOMAIN f.bundles :
       g.bundles[b].n <= BundleCap \/ g.lost \/ g.short

LEMMA CommitGoesOn ==
  ASSUME IInv, Commit, file' # None
  PROVE  Extends(file, file')
<1> DEFINE a == appender
           w == a.writer
           u == Seal(w)
           f == file
           g == file'
<1>1. /\ a \in Appenders /\ AppenderGood(a, f) /\ f \in Files
  BY OpenAppenderThere DEF Commit
<1>2. g = Footer(w, a.cols, a.told, a.lost, a.short)
  BY DEF Commit
<1>3. /\ w \in Writers /\ IsPrefix(f.docs, w.docs) /\ IsPrefix(f.bundles, w.bundles)
      /\ ~a.lost /\ ~a.short =>
           /\ a.since_seal = Len(w.docs) - w.start
           /\ a.since_seal < BundleCap
           /\ \A b \in (Len(f.bundles) + 1)..Len(w.bundles) : w.bundles[b].n <= BundleCap
  BY <1>1, AppenderParts DEF Counted
<1> HIDE DEF a, f, g, w
<1>4. g.docs = u.docs /\ g.bundles = u.bundles /\ g.lost = a.lost /\ g.short = a.short
  BY <1>2 DEF Footer
<1>5. /\ w.bundles \in Seq(Bundles) /\ f.bundles \in Seq(Bundles) /\ w.start \in Nat
      /\ Len(w.docs) \in Nat /\ Len(f.bundles) \in Nat /\ Len(w.bundles) \in Nat
  BY <1>1, <1>3, WriterFields, FileFields
<1>6. u.docs = w.docs
  BY <1>3, SealedDocs
<1>7. CASE Len(w.docs) = w.start
  <2>1. u.bundles = w.bundles
    BY <1>7 DEF Seal
  <2>2. \A b \in DOMAIN g.bundles \ DOMAIN f.bundles : b \in (Len(f.bundles) + 1)..Len(w.bundles)
    BY <1>4, <1>5, <2>1
  <2>3. \A b \in DOMAIN g.bundles \ DOMAIN f.bundles :
          g.bundles[b].n <= BundleCap \/ g.lost \/ g.short
    <3> HIDE DEF u
    <3>1. ASSUME NEW b \in DOMAIN g.bundles \ DOMAIN f.bundles, ~a.lost, ~a.short
          PROVE  g.bundles[b].n <= BundleCap
      BY <1>3, <1>4, <2>1, <2>2, <3>1
    <3> QED
      BY <1>4, <3>1
  <2>4. IsPrefix(f.docs, g.docs) /\ IsPrefix(f.bundles, g.bundles)
    BY <1>3, <1>4, <1>6, <2>1
  <2> QED
    BY <2>3, <2>4 DEF Extends, f, g
<1>8. CASE Len(w.docs) # w.start
  <2>1. /\ Len(u.bundles) = Len(w.bundles) + 1
        /\ u.bundles[Len(w.bundles) + 1].n = Len(w.docs) - w.start
        /\ \A b \in 1..Len(w.bundles) : u.bundles[b] = w.bundles[b]
        /\ IsPrefix(f.bundles, u.bundles)
    BY <1>3, <1>5, <1>8, SealAdds
  <2>2. u.bundles \in Seq(Bundles)
    BY <1>3, SealTypes, WriterFields
  <2>3. \A b \in DOMAIN g.bundles \ DOMAIN f.bundles :
          b \in (Len(f.bundles) + 1)..Len(w.bundles) \/ b = Len(w.bundles) + 1
    BY <1>4, <1>5, <2>1, <2>2
  <2> HIDE DEF u
  <2>4. ASSUME ~a.lost, ~a.short, NEW b \in DOMAIN g.bundles \ DOMAIN f.bundles
        PROVE  g.bundles[b].n <= BundleCap
    <3>1. CASE b = Len(w.bundles) + 1
      <4>1. Len(w.docs) - w.start < BundleCap /\ Len(w.docs) - w.start \in Int
        BY <1>3, <1>5, <2>4
      <4>2. g.bundles[b].n = Len(w.docs) - w.start
        BY <1>4, <2>1, <3>1
      <4> QED
        BY <4>1, <4>2, CapAssumption
    <3>2. CASE b \in (Len(f.bundles) + 1)..Len(w.bundles)
      <4>1. b \in 1..Len(w.bundles)
        BY <1>5, <3>2
      <4> QED
        BY <1>3, <1>4, <2>1, <2>4, <3>2, <4>1
    <3> QED
      BY <2>3, <3>1, <3>2
  <2>5. \A b \in DOMAIN g.bundles \ DOMAIN f.bundles :
          g.bundles[b].n <= BundleCap \/ g.lost \/ g.short
    BY <1>4, <2>4
  <2>6. IsPrefix(f.docs, g.docs) /\ IsPrefix(f.bundles, g.bundles)
    BY <1>3, <1>4, <1>6, <2>1
  <2> QED
    BY <2>5, <2>6 DEF Extends, f, g
<1> QED
  BY <1>7, <1>8 DEF f, g

(* Old bundles are untouched; a new one holds no more than its limit.      *)
THEOREM CommitsExtend == Spec => CommitExtends
<1>1. ASSUME IInv, [Next]_vars, appender # None, file' # file, file' # None
      PROVE  Extends(file, file')
  <2>1. builder = None
    BY <1>1, OpenAppenderThere
  <2>2. Commit
    <3>1. Next
      BY <1>1 DEF vars
    <3> QED
      BY <1>1, <2>1, <3>1 DEF Next, SetMetaSchema, Build, WriteTo, Save, Read, OpenAppender,
           Abandon, AddHtml, AppendHtml, AppendFails, AddHtmlWithMeta, RefuseRow, AppendWithMeta
  <2> QED
    BY <1>1, <2>2, CommitGoesOn
<1>2. IInv /\ [Next]_vars =>
        [appender # None /\ file' # file /\ file' # None =>
           /\ IsPrefix(file.docs, file'.docs)
           /\ IsPrefix(file.bundles, file'.bundles)
           /\ \A b \in DOMAIN file'.bundles \ DOMAIN file.bundles :
                file'.bundles[b].n <= BundleCap \/ file'.lost \/ file'.short]_vars
  BY <1>1 DEF Extends
<1> QED
  BY <1>2, SessionInvariant, PTL DEF Spec, CommitExtends

-----------------------------------------------------------------------------
(* Binary search.                                                          *)

(* What one step of the search makes of the answers for parts.             *)
SearchStep(docs, index, key, F, lo, hi, mid) ==
  LET k == docs[index[mid]].key IN
  IF lo > hi THEN 0
  ELSE IF k = key THEN index[mid]
  ELSE IF Before(k, key) THEN F[<<mid + 1, hi>>] ELSE F[<<lo, mid - 1>>]

Sorted(docs, index) ==
  /\ docs \in Seq(Docs) /\ index \in Seq(Nat)
  /\ \A r \in 1..Len(index) : index[r] \in 1..Len(docs)
  /\ \A r, q \in 1..Len(index) :
       r < q => Before(docs[index[r]].key, docs[index[q]].key)

(* v is the answer for the part from lo to hi.                             *)
Answers(docs, index, key, lo, hi, v) ==
  \/ v = 0 /\ \A r \in lo..hi : docs[index[r]].key # key
  \/ \E r \in lo..hi : docs[index[r]].key = key /\ v = index[r]

LEMMA SearchHalves ==
  ASSUME NEW docs, NEW index, Sorted(docs, index), NEW key \in Names, NEW F,
         NEW lo \in 1..(Len(index) + 1), NEW hi \in 0..Len(index), NEW mid,
         mid = (lo + hi) \div 2,
         lo <= hi => /\ Answers(docs, index, key, mid + 1, hi, F[<<mid + 1, hi>>])
                     /\ Answers(docs, index, key, lo, mid - 1, F[<<lo, mid - 1>>])
  PROVE  Answers(docs, index, key, lo, hi, SearchStep(docs, index, key, F, lo, hi, mid))
<1> DEFINE n == Len(index)
           at(r) == docs[index[r]].key
           v == SearchStep(docs, index, key, F, lo, hi, mid)
<1>1. n \in Nat
  BY DEF Sorted
<1>2. /\ \A r \in 1..n : at(r) \in Names
      /\ \A r, q \in 1..n : r < q => Before(at(r), at(q))
  <2>1. \A r \in 1..n : docs[index[r]] \in Docs
    BY DEF Sorted
  <2>2. \A d \in Docs : d.key \in Names
    BY NameOrder DEF Docs
  <2> QED
    BY <2>1, <2>2 DEF Sorted
<1>3. CASE lo > hi
  <2>1. v = 0 /\ \A r \in lo..hi : FALSE
    BY <1>1, <1>3 DEF SearchStep
  <2> QED
    BY <2>1 DEF Answers
<1>4. CASE ~(lo > hi)
  <2>1. /\ mid \in lo..hi /\ mid \in 1..n /\ lo <= hi /\ mid \in Nat /\ lo \in Nat /\ hi \in Nat
        /\ \A r \in lo..hi : r \in 1..n /\ r \in Nat
    BY <1>1, <1>4
  <2>2. v = IF at(mid) = key THEN index[mid]
            ELSE IF Before(at(mid), key) THEN F[<<mid + 1, hi>>] ELSE F[<<lo, mid - 1>>]
    BY <1>4 DEF SearchStep
  <2>3. /\ Answers(docs, index, key, mid + 1, hi, F[<<mid + 1, hi>>])
        /\ Answers(docs, index, key, lo, mid - 1, F[<<lo, mid - 1>>])
    BY <2>1
  <2> HIDE DEF v, at
  <2>4. CASE at(mid) = key
    BY <2>1, <2>2, <2>4 DEF Answers, v, at
  <2>5. CASE at(mid) # key /\ Before(at(mid), key)
    <3>1. \A r \in lo..mid : at(r) # key
      <4>1. ASSUME NEW r \in lo..mid, at(r) = key
            PROVE  FALSE
        <5>1. r \in 1..n /\ (r < mid \/ r = mid)
          BY <2>1
        <5>2. r < mid => Before(key, at(mid))
          BY <1>2, <2>1, <4>1, <5>1
        <5>3. ~(Before(key, at(mid)) /\ Before(at(mid), key)) /\ at(mid) \in Names
          BY <1>2, <2>1, NameOrder
        <5> QED
          BY <2>5, <4>1, <5>1, <5>2, <5>3
      <4> QED
        BY <4>1
    <3>2. Answers(docs, index, key, mid + 1, hi, v)
      BY <2>2, <2>3, <2>5
    <3>3. \A r \in lo..hi : r \in lo..mid \/ r \in (mid + 1)..hi
      BY <2>1
    <3>4. \A r \in (mid + 1)..hi : r \in lo..hi
      BY <2>1
    <3> QED
      BY <3>1, <3>2, <3>3, <3>4 DEF Answers, v, at
  <2>6. CASE at(mid) # key /\ ~Before(at(mid), key)
    <3>1. \A r \in mid..hi : at(r) # key
      <4>1. ASSUME NEW r \in mid..hi, at(r) = key
            PROVE  FALSE
        <5>1. r \in 1..n /\ (mid < r \/ r = mid)
          BY <2>1
        <5>2. mid < r => Before(at(mid), key)
          BY <1>2, <2>1, <4>1, <5>1
        <5> QED
          BY <2>6, <4>1, <5>1, <5>2
      <4> QED
        BY <4>1
    <3>2. Answers(docs, index, key, lo, mid - 1, v)
      BY <2>2, <2>3, <2>6
    <3>3. \A r \in lo..hi : r \in lo..(mid - 1) \/ r \in mid..hi
      BY <2>1
    <3>4. \A r \in lo..(mid - 1) : r \in lo..hi
      BY <2>1
    <3> QED
      BY <3>1, <3>2, <3>3, <3>4 DEF Answers, v, at
  <2> QED
    BY <2>4, <2>5, <2>6
<1> QED
  BY <1>3, <1>4

LEMMA AnswerUnique ==
  ASSUME NEW docs, NEW index, Sorted(docs, index), NEW key \in Names,
         NEW lo \in 1..(Len(index) + 1), NEW hi \in 0..Len(index),
         NEW v, Answers(docs, index, key, lo, hi, v),
         NEW u, Answers(docs, index, key, lo, hi, u)
  PROVE  v = u
<1> DEFINE n == Len(index)
           at(r) == docs[index[r]].key
<1>1. n \in Nat /\ \A r \in lo..hi : r \in 1..n
  BY DEF Sorted
<1>2. /\ \A r \in 1..n : at(r) \in Names
      /\ \A r, q \in 1..n : r < q => Before(at(r), at(q))
  <2>1. \A r \in 1..n : docs[index[r]] \in Docs
    BY DEF Sorted
  <2>2. \A d \in Docs : d.key \in Names
    BY NameOrder DEF Docs
  <2> QED
    BY <2>1, <2>2 DEF Sorted
<1>3. ASSUME NEW r \in lo..hi, NEW q \in lo..hi, at(r) = key, at(q) = key
      PROVE  r = q
  <2>1. r \in 1..n /\ q \in 1..n
    BY <1>1
  <2>2. r < q \/ q < r \/ r = q
    BY <1>1, <2>1
  <2>3. ~Before(key, key)
    BY NameOrder
  <2> QED
    BY <1>2, <1>3, <2>1, <2>2, <2>3
<1> QED
  BY <1>3 DEF Answers

LEMMA SearchAnswers ==
  ASSUME NEW docs, NEW index, Sorted(docs, index), NEW key \in Names
  PROVE  Answers(docs, index, key, 1, Len(index), Search(docs, index, key))
<1> DEFINE n == Len(index)
           A == 1..(n + 1)
           B == 0..n
           Step(F, lo, hi) ==
             SearchStep(docs, index, key, F, lo, hi, (lo + hi) \div 2)
           Right(F) == F = [p \in A \X B |-> Step(F, p[1], p[2])]
           ok(lo, hi, v) == Answers(docs, index, key, lo, hi, v)
           H == [p \in A \X B |-> CHOOSE v : ok(p[1], p[2], v)]
           G == CHOOSE F : Right(F)
<1>1. n \in Nat
  BY DEF Sorted
<1>2. Search(docs, index, key) = G[<<1, n>>]
  BY DEF Search, SearchStep, Before
<1>3. \A lo \in A, hi \in B : ok(lo, hi, H[<<lo, hi>>])
  <2>1. \A lo \in A, hi \in B : \E v : ok(lo, hi, v)
    BY DEF Answers
  <2> HIDE DEF ok
  <2> QED
    BY <2>1
<1>4. ASSUME NEW lo \in A, NEW hi \in B, lo <= hi
      PROVE  LET mid == (lo + hi) \div 2 IN mid + 1 \in A /\ mid - 1 \in B
  BY <1>1, <1>4
<1> HIDE DEF ok, Step, H
<1>5. ASSUME NEW lo \in A, NEW hi \in B
      PROVE  H[<<lo, hi>>] = Step(H, lo, hi)
  <2> DEFINE mid == (lo + hi) \div 2
  <2>1. lo <= hi => ok(mid + 1, hi, H[<<mid + 1, hi>>]) /\ ok(lo, mid - 1, H[<<lo, mid - 1>>])
    BY <1>3, <1>4
  <2>2. ok(lo, hi, Step(H, lo, hi))
    <3> HIDE DEF mid
    <3>1. mid = (lo + hi) \div 2
      BY DEF mid
    <3> QED
      BY <2>1, <3>1, SearchHalves DEF ok, Step
  <2>3. ok(lo, hi, H[<<lo, hi>>])
    BY <1>3
  <2> QED
    BY <2>2, <2>3, AnswerUnique DEF ok
<1>6. Right(H)
  <2>1. H = [p \in A \X B |-> H[p]]
    BY DEF H
  <2>2. ASSUME NEW p \in A \X B
        PROVE  H[p] = Step(H, p[1], p[2])
    <3>1. p = <<p[1], p[2]>> /\ p[1] \in A /\ p[2] \in B
      OBVIOUS
    <3> QED
      BY <1>5, <3>1
  <2> QED
    BY <2>1, <2>2
<1>7. Right(G)
  <2> HIDE DEF Right
  <2> QED
    BY <1>6
<1>8. \A lo \in A, hi \in B : G[<<lo, hi>>] = Step(G, lo, hi)
  <2> HIDE DEF G
  <2> QED
    BY <1>7
<1> HIDE DEF G
<1> DEFINE Bad(w) == \E lo \in A, hi \in B : w = hi + (n + 1) - lo /\ ~ok(lo, hi, G[<<lo, hi>>])
           T == {w \in Nat : Bad(w)}
<1>9. T = {}
  <2>1. SUFFICES ASSUME T # {} PROVE FALSE
    OBVIOUS
  <2>2. PICK m \in T : \A w \in T : m <= w
    <3>1. T \in SUBSET Nat
      OBVIOUS
    <3> HIDE DEF T
    <3> QED
      BY <2>1, <3>1, Least
  <2>3. PICK lo \in A, hi \in B : m = hi + (n + 1) - lo /\ ~ok(lo, hi, G[<<lo, hi>>])
    OBVIOUS
  <2>4. ASSUME NEW l \in A, NEW h \in B, h - l < hi - lo
        PROVE  ok(l, h, G[<<l, h>>])
    <3> DEFINE w == h + (n + 1) - l
    <3>1. w \in Nat /\ ~(m <= w)
      BY <1>1, <2>3, <2>4
    <3> HIDE DEF T
    <3>2. w \notin T
      BY <2>2, <3>1
    <3> QED
      BY <3>1, <3>2 DEF T
  <2> DEFINE mid == (lo + hi) \div 2
  <2>5. lo <= hi => /\ mid + 1 \in A /\ mid - 1 \in B
                    /\ hi - (mid + 1) < hi - lo /\ (mid - 1) - lo < hi - lo
    BY <1>1
  <2>6. lo <= hi => ok(mid + 1, hi, G[<<mid + 1, hi>>]) /\ ok(lo, mid - 1, G[<<lo, mid - 1>>])
    BY <2>4, <2>5
  <2>7. ok(lo, hi, Step(G, lo, hi))
    <3> HIDE DEF mid
    <3>1. mid = (lo + hi) \div 2
      BY DEF mid
    <3> QED
      BY <2>6, <3>1, SearchHalves DEF ok, Step
  <2> QED
    BY <1>8, <2>3, <2>7
<1>10. 1 \in A /\ n \in B /\ n + (n + 1) - 1 \in Nat
  BY <1>1
<1>11. ok(1, n, G[<<1, n>>])
  BY <1>9, <1>10
<1> QED
  BY <1>2, <1>11 DEF ok

(* A lookup through the index of docs is right for docs.                   *)
LEMMA IndexAnswers ==
  ASSUME NEW docs \in Seq(Docs), Distinct(docs), NEW index, index = SortIndex(docs),
         NEW key \in Names, NEW i, i = Search(docs, index, key)
  PROVE  IF i = 0 THEN \A j \in DOMAIN docs : docs[j].key # key
                  ELSE i \in DOMAIN docs /\ docs[i].key = key
<1>1. /\ index \in Seq(Nat) /\ Len(index) = Len(docs)
      /\ \A r \in 1..Len(docs) : index[r] \in 1..Len(docs)
      /\ \A j \in 1..Len(docs) : \E r \in 1..Len(docs) : index[r] = j
      /\ \A r, q \in 1..Len(docs) :
           r < q => Before(docs[index[r]].key, docs[index[q]].key)
  <2>1. Sorts(index, docs)
    BY IndexSorts
  <2> QED
    BY <2>1 DEF Sorts
<1>2. Sorted(docs, index)
  BY <1>1 DEF Sorted
<1>3. Answers(docs, index, key, 1, Len(docs), i)
  BY <1>1, <1>2, SearchAnswers
<1>4. DOMAIN docs = 1..Len(docs) /\ 0 \notin 1..Len(docs)
  OBVIOUS
<1>5. CASE i = 0 /\ \A r \in 1..Len(docs) : docs[index[r]].key # key
  BY <1>1, <1>4, <1>5
<1>6. CASE \E r \in 1..Len(docs) : docs[index[r]].key = key /\ i = index[r]
  BY <1>1, <1>4, <1>6
<1> QED
  BY <1>3, <1>5, <1>6 DEF Answers

LEMMA InvGivesKeysFound ==
  ASSUME IInv
  PROVE  KeysFound
<1> DEFINE docs == file.docs
           index == file.index
<1>1. SUFFICES ASSUME file # None, NEW key \in Keys,
                      NEW i, i = Search(docs, index, key)
               PROVE  IF i = 0 THEN \A j \in DOMAIN docs : docs[j].key # key
                               ELSE docs[i].key = key
  BY DEF KeysFound
<1>2. file \in Files /\ FileGood(file)
  BY <1>1 DEF IInv, Types, FileInv
<1>3. docs \in Seq(Docs) /\ Distinct(docs) /\ index = SortIndex(docs)
  BY <1>2, FileFields DEF FileGood
<1> HIDE DEF docs, index
<1> QED
  BY <1>1, <1>3, NameOrder, IndexAnswers

(* The index lists the documents by key and every lookup by key is right.  *)
THEOREM LookupsAreRight == Spec => []KeysFound
<1>1. IInv => KeysFound
  BY InvGivesKeysFound
<1> QED
  BY <1>1, SessionInvariant, PTL

-----------------------------------------------------------------------------
(* Filters.                                                                *)

LEMMA KeyAlone ==
  ASSUME NEW f, ~NeedsBody(f), NEW key, NEW text
  PROVE  KeepKey(f, key) <=> Keep(f, key, text)
BY DEF NeedsBody, KeepKey, Keep, Matches, IsEmpty

(* What a file has is what was told of, whole: a file that lost no text.   *)
Whole(a) ==
  /\ Settled(a) /\ a.index = SortIndex(a.docs) /\ Len(a.told) = Len(a.docs)
  /\ \A i \in 1..Len(a.docs) : a.docs[i] = a.told[i].doc /\ a.docs[i].text = a.docs[i].id

LEMMA BundleFound ==
  ASSUME NEW a, Settled(a), NEW b \in 1..Len(a.bundles), NEW slot \in 1..a.bundles[b].n
  PROVE  BundleOf(a, Start(a, b) + slot) = b
<1> DEFINE l == Len(a.bundles)
           i == Start(a, b) + slot
           Is(c) == Start(a, c) < i /\ \A e \in 1..l : e > c => Start(a, e) >= i
<1>1. l \in Nat /\ DOMAIN a.bundles = 1..l /\ a.bundles \in Seq(Bundles)
  BY DEF Settled
<1>2. /\ Start(a, b + 1) = Start(a, b) + a.bundles[b].n
      /\ \A c \in 1..l : c \in 1..(l + 1) /\ c + 1 \in 1..(l + 1) /\ Start(a, c) \in Nat
      /\ Start(a, b + 1) \in Nat
  <2>1. \A c \in 1..l : c \in 1..(l + 1) /\ c + 1 \in 1..(l + 1)
    BY <1>1
  <2> QED
    BY <1>1, <2>1, Starts
<1>3. a.bundles[b].n \in Nat /\ slot \in Nat /\ 1 <= slot /\ slot <= a.bundles[b].n
  <2>1. a.bundles[b] \in Bundles
    BY <1>1
  <2>2. a.bundles[b].n \in Nat
    BY <2>1 DEF Bundles
  <2> QED
    BY <2>2
<1>4. ASSUME NEW c \in 1..l, NEW e \in 1..l, e < c
      PROVE  Start(a, e + 1) <= Start(a, c)
  <2>1. e + 1 \in 1..(l + 1) /\ c \in 1..(l + 1) /\ e + 1 <= c
    BY <1>1, <1>4
  <2> QED
    BY <1>1, <2>1, StartsGrow
<1>5. ASSUME NEW e \in 1..l, e > b
      PROVE  Start(a, e) >= i
  <2>1. b < e
    BY <1>1, <1>5
  <2>2. Start(a, b + 1) <= Start(a, e) /\ Start(a, e) \in Nat
    BY <1>2, <1>4, <2>1
  <2> DEFINE s == Start(a, b)
             t == Start(a, b + 1)
             u == Start(a, e)
             n == a.bundles[b].n
  <2>3. s \in Nat /\ n \in Nat /\ slot <= n /\ t = s + n /\ t <= u /\ u \in Nat /\ i = s + slot
    BY <1>2, <1>3, <2>2
  <2> HIDE DEF s, t, u, n
  <2>4. u >= i
    BY ONLY <2>3, <1>3
  <2> QED
    BY <2>4 DEF u
<1>6. Is(b)
  <2>1. Start(a, b) < i
    BY <1>2, <1>3
  <2> QED
    BY <1>5, <2>1
<1>7. ASSUME NEW c \in 1..l, Is(c)
      PROVE  c = b
  <2>1. CASE c < b
    <3>1. Start(a, b) >= i
      BY <1>1, <1>7, <2>1
    <3> QED
      BY <1>2, <1>3, <3>1
  <2>2. CASE b < c
    <3>1. Start(a, b + 1) <= Start(a, c) /\ Start(a, c) < i
      BY <1>4, <1>7, <2>2
    <3> DEFINE s == Start(a, b)
               t == Start(a, b + 1)
               u == Start(a, c)
               n == a.bundles[b].n
    <3>2. s \in Nat /\ n \in Nat /\ slot <= n /\ t = s + n /\ t <= u /\ u \in Nat /\ u < i
          /\ i = s + slot
      BY <1>2, <1>3, <3>1
    <3> HIDE DEF s, t, u, n
    <3> QED
      BY ONLY <3>2, <1>3
  <2> QED
    BY <1>1, <2>1, <2>2
<1>8. BundleOf(a, i) = CHOOSE c \in 1..l : Is(c)
  BY <1>1 DEF BundleOf
<1> HIDE DEF Is
<1> QED
  BY <1>6, <1>7, <1>8

LEMMA SomeBundle ==
  ASSUME NEW a, Settled(a), NEW i \in 1..Len(a.docs)
  PROVE  \E b \in 1..Len(a.bundles) : \E slot \in 1..a.bundles[b].n : i = Start(a, b) + slot
<1> DEFINE l == Len(a.bundles)
           T == {c \in Nat : c \in 1..(l + 1) /\ i <= Start(a, c)}
<1>1. l \in Nat /\ a.bundles \in Seq(Bundles) /\ Start(a, l + 1) = Len(a.docs)
      /\ Len(a.docs) \in Nat
  BY DEF Settled, Parted
<1>2. l + 1 \in T
  BY <1>1
<1>3. PICK m \in T : \A c \in T : m <= c
  <2>1. T \in SUBSET Nat
    OBVIOUS
  <2> HIDE DEF T
  <2> QED
    BY <1>2, <2>1, Least
<1>4. m \in 1..(l + 1) /\ i <= Start(a, m)
  OBVIOUS
<1>5. m # 1
  <2>1. Start(a, 1) = 0
    BY <1>1, Starts
  <2>2. i \in Nat /\ i # 0
    BY <1>1
  <2> HIDE DEF T
  <2> QED
    BY <1>4, <2>1, <2>2
<1> DEFINE d == m - 1
<1>6. d \in 1..l /\ m = d + 1 /\ d \in 1..(l + 1) /\ d \in Nat /\ ~(m <= d)
  BY <1>1, <1>4, <1>5
<1>7. d \notin T
  <2> HIDE DEF T
  <2> QED
    BY <1>3, <1>6
<1>8. ~(i <= Start(a, d))
  BY <1>6, <1>7
<1> HIDE DEF d, T
<1>9. /\ Start(a, d) \in Nat /\ Start(a, d + 1) = Start(a, d) + a.bundles[d].n
  BY <1>1, <1>6, Starts
<1>10. a.bundles[d].n \in Nat
  <2>1. a.bundles[d] \in Bundles
    BY <1>1, <1>6
  <2> QED
    BY <2>1 DEF Bundles
<1> DEFINE slot == i - Start(a, d)
<1>11. slot \in 1..a.bundles[d].n /\ i = Start(a, d) + slot
  BY <1>1, <1>4, <1>6, <1>8, <1>9, <1>10, SMTT(30)
<1> HIDE DEF slot
<1> QED
  BY <1>6, <1>11

(* A document of a bundle, its text, and what was told of it.              *)
LEMMA ToldAt ==
  ASSUME NEW a, Whole(a), NEW b \in 1..Len(a.bundles), NEW slot \in 1..a.bundles[b].n,
         NEW i, i = Start(a, b) + slot
  PROVE  /\ i \in 1..Len(a.docs) /\ a.docs[i] = a.told[i].doc
         /\ i - Start(a, b) = slot
         /\ a.bundles[b].frames[i - Start(a, b)].text = a.told[i].doc.id
<1>1. /\ a.bundles \in Seq(Bundles) /\ Parted(a, Len(a.docs)) /\ FramesMatch(a)
  BY DEF Whole, Settled
<1>2. Start(a, b) \in Nat /\ i \in 1..Len(a.docs)
  BY <1>1, Within
<1>3. i - Start(a, b) = slot
  BY <1>2
<1>4. a.bundles[b].frames[slot] = a.docs[i]
  BY <1>1 DEF FramesMatch
<1>5. a.docs[i] = a.told[i].doc /\ a.docs[i].text = a.docs[i].id
  BY <1>2 DEF Whole
<1> QED
  BY <1>2, <1>3, <1>4, <1>5

(* The positions up to n that a filter keeps.                              *)
KeptTo(told, f, n) == {i \in 1..n : Keep(f, told[i].doc.key, told[i].doc.id)}

LEMMA KeptNumbers ==
  ASSUME NEW told, NEW f, NEW n \in Nat
  PROVE  KeptTo(told, f, n) \in SUBSET Nat /\ IsFiniteSet(KeptTo(told, f, n))
<1>1. KeptTo(told, f, n) \in SUBSET (1..n) /\ KeptTo(told, f, n) \in SUBSET Nat
  BY DEF KeptTo
<1>2. IsFiniteSet(1..n)
  <2>1. 1 \in Int /\ n \in Int
    OBVIOUS
  <2> QED
    BY <2>1, FS_Interval
<1> QED
  BY <1>1, <1>2, FS_Subset

LEMMA PassesTold ==
  ASSUME NEW a, Whole(a), NEW f, NEW i \in 1..Len(a.docs)
  PROVE  /\ Passes(a, f, i) <=> Keep(f, a.told[i].doc.key, a.told[i].doc.id)
         /\ Quickly(a, f, i) <=> Keep(f, a.told[i].doc.key, a.told[i].doc.id)
<1>1. PICK b \in 1..Len(a.bundles) : \E slot \in 1..a.bundles[b].n : i = Start(a, b) + slot
  BY SomeBundle DEF Whole
<1>2. PICK slot \in 1..a.bundles[b].n : i = Start(a, b) + slot
  BY <1>1
<1>3. BundleOf(a, i) = b
  BY <1>2, BundleFound DEF Whole
<1>4. a.docs[i] = a.told[i].doc /\ a.bundles[b].frames[i - Start(a, b)].text = a.told[i].doc.id
  BY <1>2, ToldAt
<1>5. Passes(a, f, i) <=> Keep(f, a.told[i].doc.key, a.told[i].doc.id)
  BY <1>3, <1>4 DEF Passes
<1>6. ~NeedsBody(f) => (KeepKey(f, a.docs[i].key) <=> Keep(f, a.docs[i].key, a.told[i].doc.id))
  BY KeyAlone
<1> QED
  BY <1>4, <1>5, <1>6 DEF Quickly

(* Bundle by bundle.                                                       *)
LEMMA KeptOfBundle ==
  ASSUME NEW a, Whole(a), NEW f, NEW b \in 1..Len(a.bundles), NEW part,
         part = {i \in BundleRange(a, b) : Keep(f, a.told[i].doc.key, a.told[i].doc.id)}
  PROVE  KeptIn(a, f, b) = InOrder(part)
<1> DEFINE Test(i) == IF NeedsBody(f)
                      THEN Keep(f, a.docs[i].key, a.bundles[b].frames[i - Start(a, b)].text)
                      ELSE KeepKey(f, a.docs[i].key)
           n == a.bundles[b].n
<1>1. Start(a, b) \in Nat /\ n \in Nat
  <2>1. a.bundles \in Seq(Bundles) /\ Parted(a, Len(a.docs))
    BY DEF Whole, Settled
  <2> QED
    BY <2>1, Within
<1>2. ASSUME NEW i \in BundleRange(a, b)
      PROVE  Test(i) <=> Keep(f, a.told[i].doc.key, a.told[i].doc.id)
  <2> DEFINE slot == i - Start(a, b)
  <2>1. slot \in 1..n /\ i = Start(a, b) + slot
    BY <1>1 DEF BundleRange
  <2> HIDE DEF slot
  <2>2. a.docs[i] = a.told[i].doc /\ a.bundles[b].frames[i - Start(a, b)].text = a.told[i].doc.id
    BY <2>1, ToldAt
  <2>3. ~NeedsBody(f) => (KeepKey(f, a.docs[i].key) <=> Keep(f, a.docs[i].key, a.told[i].doc.id))
    BY KeyAlone
  <2> QED
    BY <2>2, <2>3
<1>3. KeptIn(a, f, b) = InOrder({i \in BundleRange(a, b) : Test(i)})
  BY DEF KeptIn
<1> HIDE DEF Test
<1>4. {i \in BundleRange(a, b) : Test(i)} = part
  BY <1>2
<1> QED
  BY <1>3, <1>4

LEMMA MatchingTold ==
  ASSUME NEW a, Whole(a), NEW f
  PROVE  EntriesMatching(a, f) = InOrder(KeptTo(a.told, f, Len(a.docs)))
<1> DEFINE l == Len(a.bundles)
           lists == [b \in 1..l |-> KeptIn(a, f, b)]
           K(n) == KeptTo(a.told, f, n)
           part(b) == {i \in BundleRange(a, b) : Keep(f, a.told[i].doc.key, a.told[i].doc.id)}
<1>1. /\ a.bundles \in Seq(Bundles) /\ Parted(a, Len(a.docs)) /\ l \in Nat
      /\ DOMAIN a.bundles = 1..l
  BY DEF Whole, Settled
<1>2. /\ Start(a, 1) = 0 /\ Start(a, l + 1) = Len(a.docs)
      /\ \A b \in 1..l : Start(a, b + 1) = Start(a, b) + a.bundles[b].n
      /\ \A b \in 1..(l + 1) : Start(a, b) \in Nat
  BY <1>1, Starts DEF Parted
<1>3. ASSUME NEW b \in 1..l
      PROVE  /\ part(b) \in SUBSET Nat /\ IsFiniteSet(part(b))
             /\ K(Start(a, b + 1)) = K(Start(a, b)) \cup part(b)
             /\ \A i \in K(Start(a, b)), j \in part(b) : i < j
             /\ KeptIn(a, f, b) = InOrder(part(b))
  <2> DEFINE s == Start(a, b)
             t == Start(a, b + 1)
  <2>1. b \in 1..(l + 1) /\ b + 1 \in 1..(l + 1)
    BY <1>1
  <2>2. s \in Nat /\ t \in Nat /\ t = s + a.bundles[b].n
    BY <1>2, <2>1
  <2>3. a.bundles[b].n \in Nat
    BY <1>1, Within
  <2>4. BundleRange(a, b) = (s + 1)..t
    BY <2>2 DEF BundleRange
  <2> HIDE DEF s, t
  <2>5. /\ \A i \in (s + 1)..t : i \in Nat /\ i \in 1..t /\ s < i
        /\ \A i \in 1..s : i \in 1..t /\ i <= s
        /\ \A i \in 1..t : i \in 1..s \/ i \in (s + 1)..t
    BY <2>2, <2>3
  <2>6. K(t) = K(s) \cup part(b)
    BY <2>4, <2>5 DEF KeptTo
  <2>7. \A i \in K(s), j \in part(b) : i < j
    <3>1. ASSUME NEW i \in 1..s, NEW j \in (s + 1)..t
          PROVE  i < j
      BY <2>2, <3>1
    <3> QED
      BY <2>4, <3>1 DEF KeptTo
  <2>8. part(b) \in SUBSET K(t)
    BY <2>6
  <2>9. part(b) \in SUBSET Nat /\ IsFiniteSet(part(b))
    <3> HIDE DEF part
    <3> QED
      BY <2>2, <2>8, KeptNumbers, FS_Subset
  <2>10. KeptIn(a, f, b) = InOrder(part(b))
    BY KeptOfBundle
  <2> QED
    BY <2>6, <2>7, <2>9, <2>10 DEF s, t
<1> HIDE DEF part
<1>4. lists \in Seq(Seq(Nat)) /\ Len(lists) = l
  <2>1. \A b \in 1..l : KeptIn(a, f, b) \in Seq(Nat)
    <3>1. ASSUME NEW b \in 1..l
          PROVE  KeptIn(a, f, b) \in Seq(Nat)
      <4>1. InOrder(part(b)) \in Seq(part(b)) /\ part(b) \in SUBSET Nat
        BY <1>3, InOrderRises
      <4>2. InOrder(part(b)) \in Seq(Nat)
        BY <4>1
      <4> QED
        BY <1>3, <4>2
    <3> QED
      BY <3>1
  <2> HIDE DEF l
  <2> QED
    BY <1>1, <2>1, IsASeq
<1>5. \A b \in 1..l : lists[b] = InOrder(part(b))
  BY <1>3
<1>6. EntriesMatching(a, f) = Joined(lists)
  BY <1>1 DEF EntriesMatching
<1> HIDE DEF lists
<1>7. PICK g : Joins(g, lists, Len(lists), Nat) /\ Joined(lists) = g[Len(lists)]
  BY <1>4, JoinedIs
<1>8. g[0] = <<>> /\ \A b \in 1..l : g[b] = g[b - 1] \o lists[b]
  BY <1>4, <1>7 DEF Joins, Grows
<1> DEFINE T == {b \in 0..l : g[b] = InOrder(K(Start(a, b + 1)))}
<1>9. 0 \in T
  <2>1. K(0) = {}
    BY DEF KeptTo
  <2>2. InOrder({}) = <<>>
    <3>1. IsFiniteSet({}) /\ Cardinality({}) = 0
      BY FS_EmptySet
    <3>2. {} \in SUBSET Nat
      OBVIOUS
    <3>3. InOrder({}) \in Seq({}) /\ Len(InOrder({})) = 0
      BY <3>1, <3>2, InOrderRises
    <3> QED
      BY <3>3
  <2>3. 0 \in 0..l /\ 0 + 1 = 1
    BY <1>1
  <2> HIDE DEF K
  <2> QED
    BY <1>2, <1>8, <2>1, <2>2, <2>3
<1>10. ASSUME NEW b \in 0..l, b \in T, b < l
       PROVE  b + 1 \in T
  <2> DEFINE c == b + 1
  <2>1. c \in 1..l /\ c - 1 = b /\ c \in 0..l /\ c \in 1..(l + 1)
    BY <1>1, <1>10
  <2>2. g[b] = InOrder(K(Start(a, c)))
    BY <1>10
  <2> HIDE DEF c, T
  <2>3. g[c] = g[b] \o InOrder(part(c))
    BY <1>5, <1>8, <2>1
  <2> DEFINE A == K(Start(a, c))
             B == part(c)
  <2>4. /\ A \in SUBSET Nat /\ IsFiniteSet(A) /\ B \in SUBSET Nat /\ IsFiniteSet(B)
        /\ \A i \in A, j \in B : i < j
        /\ K(Start(a, c + 1)) = A \cup B
    BY <1>2, <1>3, <2>1, KeptNumbers
  <2> HIDE DEF A, B
  <2>5. InOrder(A \cup B) = InOrder(A) \o InOrder(B)
    BY <2>4, InOrderJoins
  <2>6. g[c] = InOrder(K(Start(a, c + 1)))
    BY <2>2, <2>3, <2>4, <2>5 DEF A, B
  <2> QED
    BY <2>1, <2>6 DEF T, c
<1>11. l \in T
  <2> HIDE DEF T, l
  <2>1. \A b \in 0..l : b \in T
    BY <1>1, <1>9, <1>10, Upward
  <2> QED
    BY <1>1, <2>1
<1> QED
  BY <1>2, <1>4, <1>6, <1>7, <1>11

(* By all bundles, in any order, and sorted.                               *)
LEMMA SweptTold ==
  ASSUME NEW a, Whole(a), NEW f
  PROVE  Sweep(a, f) = InOrder(KeptTo(a.told, f, Len(a.docs)))
<1> DEFINE D == UNION {BundleRange(a, b) : b \in DOMAIN a.bundles}
           S == {i \in D : Passes(a, f, i)}
<1>1. /\ a.bundles \in Seq(Bundles) /\ Parted(a, Len(a.docs)) /\ Settled(a)
      /\ DOMAIN a.bundles = 1..Len(a.bundles)
  BY DEF Whole, Settled
<1>2. ASSUME NEW b \in 1..Len(a.bundles), NEW i \in BundleRange(a, b)
      PROVE  i \in 1..Len(a.docs)
  <2>1. Start(a, b) \in Nat /\ a.bundles[b].n \in Nat
    BY <1>1, Within
  <2> DEFINE slot == i - Start(a, b)
  <2>2. slot \in 1..a.bundles[b].n /\ i = Start(a, b) + slot
    BY <2>1 DEF BundleRange
  <2> HIDE DEF slot
  <2> QED
    BY <2>2, ToldAt
<1>3. ASSUME NEW i \in 1..Len(a.docs)
      PROVE  \E b \in 1..Len(a.bundles) : i \in BundleRange(a, b)
  <2>1. PICK b \in 1..Len(a.bundles) : \E slot \in 1..a.bundles[b].n : i = Start(a, b) + slot
    BY <1>1, SomeBundle
  <2>2. PICK slot \in 1..a.bundles[b].n : i = Start(a, b) + slot
    BY <2>1
  <2>3. Start(a, b) \in Nat /\ a.bundles[b].n \in Nat
    BY <1>1, Within
  <2>4. i \in BundleRange(a, b)
    BY <2>2, <2>3 DEF BundleRange
  <2> QED
    BY <2>4
<1>4. D = 1..Len(a.docs)
  BY <1>1, <1>2, <1>3
<1> HIDE DEF D
<1>5. S = KeptTo(a.told, f, Len(a.docs))
  BY <1>4, PassesTold DEF KeptTo
<1> QED
  BY <1>5 DEF Sweep, D

(* By the words of the filter, looked up one by one.                       *)
LEMMA CandidatesTold ==
  ASSUME NEW a, Whole(a), NEW f \in Filters, f.include.words # {}
  PROVE  /\ Candidates(a, f) \subseteq 1..Len(a.docs)
         /\ KeptTo(a.told, f, Len(a.docs)) \subseteq Candidates(a, f)
<1>1. /\ a.docs \in Seq(Docs) /\ Distinct(a.docs) /\ a.index = SortIndex(a.docs)
      /\ DOMAIN a.docs = 1..Len(a.docs)
  BY DEF Whole, Settled
<1>2. \A word \in f.include.words : word \in Names
  BY FiltersAssumption DEF Names
<1>3. ASSUME NEW word \in f.include.words
      PROVE  LET i == Search(a.docs, a.index, word) IN
             IF i = 0 THEN \A j \in 1..Len(a.docs) : a.docs[j].key # word
                      ELSE i \in 1..Len(a.docs) /\ a.docs[i].key = word
  <2> DEFINE i == Search(a.docs, a.index, word)
  <2>1. IF i = 0 THEN \A j \in DOMAIN a.docs : a.docs[j].key # word
                 ELSE i \in DOMAIN a.docs /\ a.docs[i].key = word
    BY <1>1, <1>2, IndexAnswers
  <2> QED
    BY <1>1, <2>1
<1>4. Candidates(a, f) \subseteq 1..Len(a.docs)
  BY <1>3 DEF Candidates
<1>5. ASSUME NEW i \in KeptTo(a.told, f, Len(a.docs))
      PROVE  i \in Candidates(a, f)
  <2>1. i \in 1..Len(a.docs) /\ Keep(f, a.told[i].doc.key, a.told[i].doc.id)
    BY DEF KeptTo
  <2>2. a.docs[i] = a.told[i].doc
    BY <2>1 DEF Whole
  <2> DEFINE word == a.docs[i].key
             j == Search(a.docs, a.index, word)
  <2>3. word \in f.include.words
    BY <2>1, <2>2 DEF Keep, IsEmpty, Matches
  <2>4. j \in 1..Len(a.docs) /\ a.docs[j].key = word /\ j # 0
    BY <1>3, <2>1, <2>3
  <2>5. j = i
    <3> HIDE DEF j
    <3> QED
      BY <1>1, <2>1, <2>4 DEF Distinct
  <2> QED
    BY <2>3, <2>4, <2>5 DEF Candidates
<1> QED
  BY <1>4, <1>5

LEMMA LookedUpTold ==
  ASSUME NEW a, Whole(a), NEW f \in Filters, f.include.words # {}
  PROVE  /\ {i \in Candidates(a, f) : Quickly(a, f, i)} = KeptTo(a.told, f, Len(a.docs))
         /\ {i \in Candidates(a, f) : Passes(a, f, i)} = KeptTo(a.told, f, Len(a.docs))
<1> DEFINE C == Candidates(a, f)
           K == KeptTo(a.told, f, Len(a.docs))
<1>1. C \subseteq 1..Len(a.docs) /\ K \subseteq C
  BY CandidatesTold
<1>2. ASSUME NEW i \in C
      PROVE  (Quickly(a, f, i) <=> i \in K) /\ (Passes(a, f, i) <=> i \in K)
  <2>1. i \in 1..Len(a.docs)
    BY <1>1
  <2> QED
    BY <2>1, PassesTold DEF KeptTo
<1> HIDE DEF C, K
<1>3. {i \in C : Quickly(a, f, i)} = K /\ {i \in C : Passes(a, f, i)} = K
  BY <1>1, <1>2
<1> QED
  BY <1>3 DEF C, K

(* A stretch and the one behind it are one stretch.                         *)
LEMMA CutJoins ==
  ASSUME NEW D, NEW all \in Seq(D), NEW s \in Nat, NEW n \in Nat, s + n <= Len(all),
         NEW more \in Seq(D), Len(more) = n, \A k \in 1..n : more[k] = all[s + k]
  PROVE  SubSeq(all, 1, s) \o more = SubSeq(all, 1, s + n)
<1> DEFINE x == SubSeq(all, 1, s)
           y == SubSeq(all, 1, s + n)
           z == x \o more
<1>1. x \in Seq(D) /\ Len(x) = s /\ \A k \in 1..s : x[k] = all[k]
  OBVIOUS
<1>2. y \in Seq(D) /\ Len(y) = s + n /\ \A k \in 1..(s + n) : y[k] = all[k]
  <2>1. s + n \in 1..Len(all) \/ s + n = 0
    OBVIOUS
  <2>2. \A k \in 1..(s + n) : all[k] \in D
    OBVIOUS
  <2> DEFINE t == s + n
  <2>3. t \in Nat /\ t <= Len(all)
    OBVIOUS
  <2> HIDE DEF t
  <2>4. SubSeq(all, 1, t) \in Seq(D) /\ Len(SubSeq(all, 1, t)) = t
        /\ \A k \in 1..t : SubSeq(all, 1, t)[k] = all[k]
    BY ONLY <2>3, all \in Seq(D)
  <2> QED
    BY <2>4 DEF t
<1> HIDE DEF x, y
<1>3. z \in Seq(D) /\ Len(z) = s + n
  <2>1. x \in Seq(D) /\ more \in Seq(D) /\ Len(x) = s /\ Len(more) = n
    BY <1>1
  <2>2. x \o more \in Seq(D)
    BY <2>1, ConcatProperties
  <2>3. Len(x \o more) = Len(x) + Len(more)
    BY ONLY <2>1, ConcatProperties
  <2> QED
    BY <2>1, <2>2, <2>3
<1>4. ASSUME NEW k \in 1..(s + n)
      PROVE  z[k] = y[k]
  <2>0. k \in Nat /\ k >= 1 /\ y[k] = all[k]
    BY <1>2
  <2>1. CASE k <= s
    <3>1. z[k] = x[k]
      BY <1>1, <2>0, <2>1
    <3> QED
      BY <1>1, <2>0, <2>1, <3>1
  <2>2. CASE k > s
    <3> DEFINE j == k - s
    <3>1. j \in 1..n /\ s + j = k
      BY <2>0, <2>2
    <3>2. z[k] = more[j]
      <4>1. Len(x) = s /\ Len(more) = n /\ x \in Seq(D) /\ k \in 1..(Len(x) + Len(more))
        BY <1>1
      <4>2. (x \o more)[k] = IF k <= Len(x) THEN x[k] ELSE more[k - Len(x)]
        BY <4>1, ConcatProperties
      <4> HIDE DEF j
      <4> QED
        BY <2>0, <2>2, <4>1, <4>2 DEF j, z
    <3>3. more[j] = all[s + j]
      BY <3>1
    <3> QED
      BY <2>0, <3>1, <3>2, <3>3
  <2>3. k <= s \/ k > s
    BY ONLY <2>0, s \in Nat
  <2> HIDE DEF z
  <2> QED
    BY <2>1, <2>2, <2>3
<1> HIDE DEF z
<1>5. z = y
  BY <1>2, <1>3, <1>4
<1> QED
  BY <1>5 DEF x, y, z

(* What is read from a file has the file's documents one after the other.  *)
LEMMA BlocksJoin ==
  ASSUME NEW a, Settled(a), NEW bs, Tiles(bs, a)
  PROVE  Joined(bs) = a.docs
<1> DEFINE l == Len(bs)
<1>1. /\ a.docs \in Seq(Docs) /\ a.bundles \in Seq(Bundles) /\ Parted(a, Len(a.docs))
      /\ FramesMatch(a) /\ bs \in Seq(Seq(Docs)) /\ Len(a.bundles) = l /\ l \in Nat
      /\ \A b \in 1..l : bs[b] = a.bundles[b].frames /\ bs[b] \in Seq(Docs)
  BY DEF Settled, Tiles
<1>2. /\ Start(a, 1) = 0 /\ Start(a, l + 1) = Len(a.docs)
      /\ \A b \in 1..l : Start(a, b + 1) = Start(a, b) + a.bundles[b].n
      /\ \A b \in 1..(l + 1) : Start(a, b) \in Nat
  BY <1>1, Starts DEF Parted
<1>3. PICK g : Joins(g, bs, Len(bs), Docs) /\ Joined(bs) = g[Len(bs)]
  BY <1>1, JoinedIs
<1>4. g[0] = <<>> /\ \A b \in 1..l : g[b] = g[b - 1] \o bs[b]
  BY <1>3 DEF Joins, Grows
<1> DEFINE T == {b \in 0..l : g[b] = SubSeq(a.docs, 1, Start(a, b + 1))}
<1>5. 0 \in T
  <2>1. 0 \in 0..l /\ 0 + 1 = 1 /\ SubSeq(a.docs, 1, 0) = <<>>
    BY <1>1
  <2> HIDE DEF l
  <2> QED
    BY <1>2, <1>4, <2>1
<1>6. ASSUME NEW b \in 0..l, b \in T, b < l
      PROVE  b + 1 \in T
  <2> DEFINE c == b + 1
             s == Start(a, c)
             t == Start(a, c + 1)
             n == a.bundles[c].n
  <2>1. c \in 1..l /\ c - 1 = b /\ c \in 0..l /\ c \in 1..(l + 1) /\ c + 1 \in 1..(l + 1)
    BY <1>1, <1>6
  <2>2. g[b] = SubSeq(a.docs, 1, s)
    BY <1>6
  <2> HIDE DEF c, T
  <2>3. g[c] = g[b] \o bs[c]
    BY <1>4, <2>1
  <2>4. s \in Nat /\ t \in Nat /\ t = s + n /\ n \in Nat /\ t <= Len(a.docs)
    BY <1>1, <1>2, <2>1, Within
  <2>5. bs[c] \in Seq(Docs) /\ Len(bs[c]) = n /\ \A slot \in 1..n : bs[c][slot] = a.docs[s + slot]
    BY <1>1, <2>1 DEF FramesMatch
  <2> HIDE DEF s, t, n, l
  <2>6. SubSeq(a.docs, 1, s) \o bs[c] = SubSeq(a.docs, 1, t)
    <3> DEFINE all == a.docs
               more == bs[c]
    <3>1. all \in Seq(Docs) /\ more \in Seq(Docs) /\ s + n <= Len(all) /\ Len(more) = n
      BY <1>1, <2>4, <2>5
    <3>2. \A k \in 1..n : more[k] = all[s + k]
      BY <2>5
    <3> HIDE DEF all, more
    <3>3. SubSeq(all, 1, s) \o more = SubSeq(all, 1, s + n)
      BY <2>4, <3>1, <3>2, CutJoins, ZenonT(60)
    <3> QED
      BY <2>4, <3>3 DEF all, more
  <2>7. g[c] = SubSeq(a.docs, 1, Start(a, c + 1))
    BY <2>2, <2>3, <2>6 DEF s, t
  <2> QED
    BY <2>1, <2>7 DEF T, c
<1>7. l \in T
  <2> HIDE DEF T, l
  <2>1. \A b \in 0..l : b \in T
    BY <1>1, <1>5, <1>6, Upward
  <2> QED
    BY <1>1, <2>1
<1>8. SubSeq(a.docs, 1, Len(a.docs)) = a.docs
  BY <1>1
<1> HIDE DEF l
<1> QED
  BY <1>2, <1>3, <1>7, <1>8 DEF l

LEMMA InMemoryTold ==
  ASSUME NEW a, Whole(a), NEW f, NEW bs, Tiles(bs, a), NEW kept,
         kept = InOrder(KeptTo(a.told, f, Len(a.docs)))
  PROVE  EntriesInMemory(bs, f) = [k \in DOMAIN kept |-> a.told[kept[k]].doc]
<1> DEFINE Test(e) == IF NeedsBody(f) THEN Keep(f, e.key, e.text) ELSE KeepKey(f, e.key)
           K == KeptTo(a.told, f, Len(a.docs))
           S == {i \in DOMAIN a.docs : Test(a.docs[i])}
<1>1. Joined(bs) = a.docs /\ DOMAIN a.docs = 1..Len(a.docs) /\ Len(a.docs) \in Nat
  BY BlocksJoin DEF Whole, Settled
<1>2. ASSUME NEW i \in 1..Len(a.docs)
      PROVE  /\ Test(a.docs[i]) <=> Keep(f, a.told[i].doc.key, a.told[i].doc.id)
             /\ a.docs[i] = a.told[i].doc
  <2>1. a.docs[i] = a.told[i].doc /\ a.docs[i].text = a.docs[i].id
    BY DEF Whole
  <2>2. ~NeedsBody(f) => (KeepKey(f, a.docs[i].key) <=> Keep(f, a.docs[i].key, a.told[i].doc.id))
    BY KeyAlone
  <2> QED
    BY <2>1, <2>2
<1>3. EntriesInMemory(bs, f) = [k \in DOMAIN InOrder(S) |-> a.docs[InOrder(S)[k]]]
  BY <1>1 DEF EntriesInMemory
<1> HIDE DEF Test
<1>4. S = K
  BY <1>1, <1>2 DEF KeptTo
<1> HIDE DEF S
<1>5. \A k \in DOMAIN kept : kept[k] \in 1..Len(a.docs)
  <2>1. K \in SUBSET Nat /\ IsFiniteSet(K) /\ K \subseteq 1..Len(a.docs)
    BY <1>1, KeptNumbers DEF KeptTo
  <2> HIDE DEF K
  <2>2. kept \in Seq(K)
    BY <2>1, InOrderRises DEF K
  <2>3. \A k \in DOMAIN kept : kept[k] \in K
    BY <2>2
  <2> QED
    BY <2>1, <2>3
<1>6. \A k \in DOMAIN kept : a.docs[kept[k]] = a.told[kept[k]].doc
  BY <1>2, <1>5
<1> QED
  BY <1>3, <1>4, <1>6

LEMMA InvGivesFiltersAgree ==
  ASSUME IInv
  PROVE  FiltersAgree
<1> DEFINE a == file
<1>1. SUFFICES ASSUME file # None, Reads(file), NEW f \in Filters
               PROVE  /\ EntriesMatching(file, f) = ToldKept(f)
                      /\ EntriesInMemory(ReadFrom(file).bundles, f) =
                            [k \in DOMAIN ToldKept(f) |-> file.told[ToldKept(f)[k]].doc]
                      /\ Probed(file, f) = ToldKept(f)
                      /\ \A n \in 1..(Len(ToldKept(f)) + 1) :
                            ListIndexes(file, f, n) =
                              SubSeq(ToldKept(f), 1, IF n > Len(ToldKept(f)) THEN n - 1 ELSE n)
  BY DEF FiltersAgree
<1>2. a \in Files /\ FileGood(a) /\ ~a.lost
  BY <1>1, ReadsWhole DEF IInv, Types, FileInv
<1> HIDE DEF a
<1>3. Settled(a) /\ a.told \in Histories
  BY <1>2, FileSettled, FileFields
<1>4. Whole(a)
  BY <1>2, <1>3 DEF Whole, FileGood, Answered
<1> DEFINE kept == ToldKept(f)
           K == KeptTo(a.told, f, Len(a.docs))
<1>5. kept = InOrder(K)
  <2>1. DOMAIN a.told = 1..Len(a.docs)
    <3>1. DOMAIN a.told = 1..Len(a.told)
      BY <1>3 DEF Histories
    <3> QED
      BY <1>4, <3>1 DEF Whole
  <2> QED
    BY <2>1 DEF ToldKept, KeptTo, a
<1> HIDE DEF kept
<1>6. EntriesMatching(a, f) = kept /\ Sweep(a, f) = kept
  BY <1>4, <1>5, MatchingTold, SweptTold
<1>7. EntriesInMemory(ReadFrom(a).bundles, f) = [k \in DOMAIN kept |-> a.told[kept[k]].doc]
  <2> DEFINE bs == ReadFrom(a).bundles
  <2>1. Tiles(bs, a)
    BY <1>2, <1>3, ReadIsTiles
  <2> HIDE DEF bs
  <2> QED
    BY <1>4, <1>5, <2>1, InMemoryTold DEF bs
<1>8. f.include.words # {} =>
        /\ InOrder({i \in Candidates(a, f) : Quickly(a, f, i)}) = kept
        /\ InOrder({i \in Candidates(a, f) : Passes(a, f, i)}) = kept
  BY <1>4, <1>5, LookedUpTold
<1>9. Probed(a, f) = kept
  BY <1>6, <1>8 DEF Probed
<1>10. ASSUME NEW n \in 1..(Len(kept) + 1)
       PROVE  ListIndexes(a, f, n) = SubSeq(kept, 1, IF n > Len(kept) THEN n - 1 ELSE n)
  <2>1. ListIndexes(a, f, n) = SubSeq(kept, 1, IF n < Len(kept) THEN n ELSE Len(kept))
    BY <1>6, <1>8 DEF ListIndexes
  <2>2. Len(kept) \in Nat
    <3>1. K \in SUBSET Nat /\ IsFiniteSet(K)
      <4>1. Len(a.docs) \in Nat
        BY <1>3 DEF Settled
      <4> QED
        BY <4>1, KeptNumbers
    <3> HIDE DEF K
    <3>2. kept \in Seq(K)
      BY <1>5, <3>1, InOrderRises
    <3> QED
      BY <3>2
  <2>3. (IF n < Len(kept) THEN n ELSE Len(kept)) = IF n > Len(kept) THEN n - 1 ELSE n
    BY <2>2
  <2> QED
    BY <2>1, <2>3
<1> QED
  BY <1>6, <1>7, <1>9, <1>10 DEF a, kept

(* A key finds its document and no other, and a filter finds those it      *)
(* keeps by every route there is: through the index, bundle by bundle, by  *)
(* stolen bundles or in memory.                                            *)
THEOREM FiltersFind == Spec => []KeysAndFiltersFind
<1>1. IInv => KeysAndFiltersFind
  BY InvGivesKeysFound, InvGivesFiltersAgree DEF KeysAndFiltersFind
<1> QED
  BY <1>1, SessionInvariant, PTL

=============================================================================
