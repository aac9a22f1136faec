-------------------------- MODULE ArchiveFileProofs -------------------------
(***************************************************************************)
(* Proofs about ArchiveFile, for any set of keys and readers and any       *)
(* number of appends.                                                      *)
(***************************************************************************)
EXTENDS ArchiveFileProps, SequenceTheorems, TLAPS

USE DEF HeaderMayPersist

-----------------------------------------------------------------------------
(* Cells.                                                                  *)

(* What a cell's tag says about its fields.                                *)
LEMMA CellFields ==
  ASSUME NEW c \in Cell
  PROVE  /\ c.t = "trailer" => c.tab \in Nat
         /\ c.t = "table" => c.docs \in Seq(DocEntry) /\ c.bundles \in Seq(BundleDesc)
  BY DEF Cell

(* The cells the appender writes.                                          *)
LEMMA DocCell == ASSUME NEW k \in Keys PROVE Doc(k) \in Cell /\ Doc(k).t = "doc"
  BY DEF Doc, Cell

LEMMA BlockCell ==
  ASSUME NEW ks \in Seq(Keys) PROVE Block(ks) \in Cell /\ Block(ks).t = "block"
  BY DEF Block, Cell

LEMMA TableCell ==
  ASSUME NEW ds \in Seq(DocEntry), NEW bs \in Seq(BundleDesc)
  PROVE  /\ Table(ds, bs) \in Cell
         /\ Table(ds, bs).t = "table"
         /\ Table(ds, bs).docs = ds
         /\ Table(ds, bs).bundles = bs
  BY DEF Table, Cell

LEMMA TrailerCell ==
  ASSUME NEW n \in Nat
  PROVE  Trailer(n) \in Cell /\ Trailer(n).t = "trailer" /\ Trailer(n).tab = n
  BY DEF Trailer, Cell

LEMMA TornCell == Torn \in Cell /\ Torn.t = "torn"
  BY DEF Torn, Cell

LEMMA CellAt ==
  ASSUME image \in Seq(Cell)
  PROVE  /\ Len(image) \in Nat
         /\ DOMAIN image = 1..Len(image)
         /\ \A o \in 1..Len(image) : image[o] \in Cell
  BY LenProperties, ElementOfSeq

(* A trailer that decodes points at an earlier cell.                       *)
LEMMA DecodesAt ==
  ASSUME image \in Seq(Cell), NEW o, Decodes(o)
  PROVE  /\ o \in 1..Len(image)
         /\ image[o].t = "trailer"
         /\ image[o].tab \in 1..Len(image)
         /\ image[o].tab < o
         /\ image[o].tab \in Nat
  BY CellAt, CellFields DEF Decodes, IsTrailer

-----------------------------------------------------------------------------
(* Bundles over a doc table.                                               *)

LEMMA BundleSpans ==
  ASSUME NEW bs \in Seq(BundleDesc), NEW n \in Nat, Tiles(bs, n)
  PROVE  /\ Len(bs) \in Nat /\ DOMAIN bs = 1..Len(bs)
         /\ \A b \in DOMAIN bs :
              /\ bs[b].start \in Nat /\ bs[b].start >= 1
              /\ bs[b].n \in Nat /\ bs[b].n >= 1
              /\ bs[b].start - 1 + bs[b].n <= n
         /\ Covered(bs) \in 0..n
<1>1. Len(bs) \in Nat /\ DOMAIN bs = 1..Len(bs)
  BY LenProperties
<1>2. \A b \in DOMAIN bs : bs[b] \in BundleDesc
  BY <1>1, ElementOfSeq
<1>3. ASSUME NEW b \in DOMAIN bs
      PROVE  /\ bs[b].start \in Nat /\ bs[b].start >= 1
             /\ bs[b].n \in Nat /\ bs[b].n >= 1
             /\ bs[b].start - 1 + bs[b].n <= n
  <2>1. bs[b].start \in Nat /\ bs[b].n \in Nat
    BY <1>2 DEF BundleDesc
  <2>2. bs[b].n >= 1 /\ bs[b].start - 1 + bs[b].n <= n
    BY <2>1 DEF Tiles
  <2>3. CASE b = 1
    BY <2>1, <2>2, <2>3 DEF Tiles
  <2>4. CASE b > 1
    <3>1. b - 1 \in DOMAIN bs
      BY <1>1, <2>4
    <3>2. bs[b - 1].start \in Nat /\ bs[b - 1].n \in Nat /\ bs[b - 1].n > 0
      BY <1>2, <3>1 DEF BundleDesc, Tiles
    <3>3. bs[b].start = bs[b - 1].start + bs[b - 1].n
      BY <1>1, <2>4 DEF Tiles
    <3> QED
      BY <2>1, <2>2, <3>2, <3>3
  <2> QED
    BY <1>1, <2>3, <2>4
<1>4. Covered(bs) \in 0..n
  <2>1. CASE bs = <<>>
    BY <2>1 DEF Covered
  <2>2. CASE bs # <<>>
    <3>1. Len(bs) \in DOMAIN bs
      BY <1>1, <2>2, EmptySeq
    <3> QED
      BY <1>3, <2>2, <3>1 DEF Covered
  <2> QED
    BY <2>1, <2>2
<1> QED
  BY <1>1, <1>3, <1>4

LEMMA MoreDocs ==
  ASSUME NEW bs \in Seq(BundleDesc), NEW ds \in Seq(DocEntry), NEW m,
         BundlesPlaced(bs, ds, m),
         NEW ds1 \in Seq(DocEntry), Len(ds) <= Len(ds1),
         \A i \in 1..Len(ds) : ds1[i] = ds[i]
  PROVE  BundlesPlaced(bs, ds1, m)
<1>1. Len(ds) \in Nat /\ Len(ds1) \in Nat /\ Tiles(bs, Len(ds))
  BY LenProperties DEF BundlesPlaced
<1>2. \A b \in DOMAIN bs :
        /\ bs[b].start \in Nat /\ bs[b].start >= 1 /\ bs[b].n \in Nat
        /\ bs[b].start - 1 + bs[b].n <= Len(ds)
  BY <1>1, BundleSpans
<1>3. Tiles(bs, Len(ds1))
  BY <1>1, <1>2 DEF Tiles
<1>4. ASSUME NEW b \in DOMAIN bs
      PROVE  [i \in 1..bs[b].n |-> ds1[bs[b].start - 1 + i].key]
               = [i \in 1..bs[b].n |-> ds[bs[b].start - 1 + i].key]
  <2>1. \A i \in 1..bs[b].n : bs[b].start - 1 + i \in 1..Len(ds)
    BY <1>1, <1>2
  <2>2. \A i \in 1..bs[b].n : ds1[bs[b].start - 1 + i] = ds[bs[b].start - 1 + i]
    BY <2>1
  <2> QED
    BY <2>2
<1>5. BlocksPlaced(bs, ds1, m)
  BY <1>4 DEF BundlesPlaced, BlocksPlaced
<1> QED
  BY <1>3, <1>5 DEF BundlesPlaced

-----------------------------------------------------------------------------
(* What lies before a trailer decides what is read through it.             *)

LEMMA PlacedFrame ==
  ASSUME NEW ds, NEW bs, NEW m, NEW n \in Nat, m \in 0..n,
         \A i \in 1..m : image'[i] = image[i]
  PROVE  /\ DocsPlaced(ds, m) => DocsPlaced(ds, n)'
         /\ BundlesPlaced(bs, ds, m) => BundlesPlaced(bs, ds, n)'
<1>1. 1..m \subseteq 1..n
  OBVIOUS
<1>2. ASSUME DocsPlaced(ds, m) PROVE DocsPlaced(ds, n)'
  BY <1>1, <1>2 DEF DocsPlaced
<1>3. ASSUME BundlesPlaced(bs, ds, m) PROVE BundlesPlaced(bs, ds, n)'
  BY <1>1, <1>3 DEF BundlesPlaced, BlocksPlaced
<1> QED
  BY <1>2, <1>3

LEMMA Frame ==
  ASSUME image \in Seq(Cell), image' \in Seq(Cell),
         NEW o \in 1..Len(image), o <= Len(image'),
         \A i \in 1..o : image'[i] = image[i]
  PROVE  /\ IsTrailer(o)' <=> IsTrailer(o)
         /\ Readable(o) => Readable(o)'
         /\ KeysAt(o)' = KeysAt(o)
<1>1. Len(image) \in Nat /\ Len(image') \in Nat
      /\ DOMAIN image = 1..Len(image) /\ DOMAIN image' = 1..Len(image')
  BY LenProperties
<1>2. o \in DOMAIN image /\ o \in DOMAIN image' /\ image'[o] = image[o] /\ o \in Nat
  BY <1>1
<1>3. IsTrailer(o)' <=> IsTrailer(o)
  BY <1>2 DEF IsTrailer
<1>4. Decodes(o)' <=> Decodes(o)
  BY <1>2, <1>3 DEF Decodes
<1>5. Decodes(o) => TableAt(o)' = TableAt(o)
  BY <1>2, DecodesAt DEF TableAt
<1>6. Opens(o)' <=> Opens(o)
  BY <1>4, <1>5 DEF Opens
<1>7. KeysAt(o)' = KeysAt(o)
  BY <1>4, <1>5, <1>6 DEF KeysAt, Opens
<1>8. ASSUME Readable(o) PROVE Readable(o)'
  <2>1. Opens(o) /\ Decodes(o)
    BY <1>8 DEF Readable, Opens
  <2>2. PICK ds, bs, m : ds = TableAt(o).docs /\ bs = TableAt(o).bundles
                         /\ m = image[o].tab - 1
    OBVIOUS
  <2>3. TableAt(o)'.docs = ds /\ TableAt(o)'.bundles = bs /\ image'[o].tab - 1 = m
        /\ m \in Nat /\ m < o
    BY <2>1, <2>2, <1>2, <1>5, DecodesAt
  <2>4. \A i \in 1..m : image'[i] = image[i]
    BY <2>3, <1>2
  <2>5. DocsPlaced(ds, m) /\ BundlesPlaced(bs, ds, m) /\ Covered(bs) = Len(ds)
    BY <1>8, <2>2 DEF Readable
  <2>6. m \in 0..m /\ m \in Nat
    BY <2>3
  <2>7. DocsPlaced(ds, m)'
    BY <2>4, <2>5, <2>6, PlacedFrame
  <2>8. BundlesPlaced(bs, ds, m)'
    BY <2>4, <2>5, <2>6, PlacedFrame
  <2> QED
    BY <2>1, <2>3, <2>5, <2>7, <2>8, <1>6 DEF Readable
<1> QED
  BY <1>3, <1>7, <1>8

(* The parts of the invariant that a change of the image keeps, when only  *)
(* what follows the first m cells changes.                                 *)
LEMMA TrailersFrame ==
  ASSUME image \in Seq(Cell), image' \in Seq(Cell), TrailersReadable,
         NEW m \in 0..Len(image), m <= Len(image'),
         \A i \in 1..m : image'[i] = image[i],
         \A o \in (m + 1)..Len(image') : IsTrailer(o)' => Readable(o)'
  PROVE  TrailersReadable'
<1>1. Len(image) \in Nat /\ Len(image') \in Nat
      /\ DOMAIN image = 1..Len(image) /\ DOMAIN image' = 1..Len(image')
  BY LenProperties
<1>2. ASSUME NEW o \in 1..Len(image'), IsTrailer(o)' PROVE Readable(o)'
  <2>1. CASE o <= m
    <3>1. o \in 1..Len(image) /\ \A i \in 1..o : image'[i] = image[i]
      BY <1>1, <2>1
    <3>2. IsTrailer(o) /\ (Readable(o) => Readable(o)')
      BY <1>1, <1>2, <3>1, Frame
    <3> QED
      BY <1>1, <3>1, <3>2 DEF TrailersReadable
  <2>2. CASE o > m
    BY <1>1, <1>2, <2>2
  <2> QED
    BY <1>1, <2>1, <2>2
<1> QED
  BY <1>1, <1>2 DEF TrailersReadable

LEMMA GuardedFrame ==
  ASSUME image \in Seq(Cell), image' \in Seq(Cell),
         NEW m \in 0..Len(image), m <= Len(image'),
         \A i \in 1..m : image'[i] = image[i],
         NEW p, Guarded(p, m),
         NEW n \in m..Len(image'),
         \A o \in (m + 1)..n : ~IsTrailer(o)'
  PROVE  Guarded(p, n)'
<1>1. Len(image) \in Nat /\ Len(image') \in Nat
      /\ DOMAIN image = 1..Len(image) /\ DOMAIN image' = 1..Len(image')
  BY LenProperties
<1>2. \A o \in 1..m : IsTrailer(o)' <=> IsTrailer(o)
  BY <1>1 DEF IsTrailer
<1> QED
  BY <1>1, <1>2 DEF Guarded, NoTrailerAfter

LEMMA ReadersFrame ==
  ASSUME image \in Seq(Cell), image' \in Seq(Cell), ReadersInv, rd' = rd,
         NEW m \in 0..Len(image), m <= Len(image'), m <= flen', flen' \in Nat,
         \A i \in 1..m : image'[i] = image[i],
         \A r \in Readers : rd[r].st = "open" => rd[r].off \in 1..m
  PROVE  ReadersInv'
<1>1. Len(image) \in Nat /\ Len(image') \in Nat
  BY LenProperties
<1> SUFFICES ASSUME NEW r \in Readers, rd[r].st = "open"
             PROVE  /\ rd[r].off \in 1..flen'
                    /\ IsTrailer(rd[r].off)'
                    /\ KeysAt(rd[r].off)' = rd[r].snap
  BY DEF ReadersInv
<1>2. PICK o : o = rd[r].off
  OBVIOUS
<1>3. o \in 1..m /\ IsTrailer(o) /\ KeysAt(o) = rd[r].snap
  BY <1>2 DEF ReadersInv
<1>4. o \in 1..Len(image) /\ o <= Len(image') /\ \A i \in 1..o : image'[i] = image[i]
  BY <1>1, <1>3
<1>5. IsTrailer(o)' /\ KeysAt(o)' = KeysAt(o)
  BY <1>3, <1>4, Frame
<1> QED
  BY <1>1, <1>2, <1>3, <1>5

-----------------------------------------------------------------------------
(* What the lookup of a trailer finds.                                     *)

(* Every trailer of the image can be followed.                             *)
LEMMA TrailersDecode ==
  ASSUME TrailersReadable, NEW o, IsTrailer(o)
  PROVE  Readable(o) /\ Decodes(o) /\ Opens(o)
  BY DEF TrailersReadable, IsTrailer, Readable, Opens

(* Trailer::select on an anchored file returns its last trailer.           *)
LEMMA SelectLast ==
  ASSUME image \in Seq(Cell), TrailersReadable,
         NEW n \in Nat, NEW p, Anchored(p, n), n <= Len(image)
  PROVE  Readable(Select(n, p)) /\ Guarded(Select(n, p), n)
<1>1. CASE IsTrailer(n)
  <2>1. Select(n, p) = n
    BY <1>1, TrailersDecode DEF Select
  <2>2. n \in 1..n
    BY <1>1, CellAt DEF IsTrailer
  <2>3. Guarded(n, n)
    BY <1>1, <2>2 DEF Guarded, NoTrailerAfter
  <2> QED
    BY <1>1, <2>1, <2>3, TrailersDecode
<1>2. CASE ~IsTrailer(n)
  <2>1. Guarded(p, n)
    BY <1>2 DEF Anchored
  <2>2. Select(n, p) = p
    BY <1>2, <2>1, TrailersDecode DEF Select, Decodes, Guarded
  <2> QED
    BY <2>1, <2>2, TrailersDecode DEF Guarded
<1> QED
  BY <1>1, <1>2

(* The tables a readable trailer locates.                                  *)
LEMMA ReadableTables ==
  ASSUME image \in Seq(Cell), NEW o, Readable(o)
  PROVE  /\ TableAt(o).docs \in Seq(DocEntry)
         /\ TableAt(o).bundles \in Seq(BundleDesc)
         /\ KeysAt(o) \in Seq(Keys)
         /\ o \in Nat
<1>1. Opens(o) /\ Decodes(o)
  BY DEF Readable, Opens
<1>2. o \in Nat /\ TableAt(o) \in Cell /\ TableAt(o).t = "table"
  BY <1>1, DecodesAt, CellAt DEF Opens, TableAt
<1>3. TableAt(o).docs \in Seq(DocEntry) /\ TableAt(o).bundles \in Seq(BundleDesc)
  BY <1>2, CellFields
<1>4. PICK ds : ds = TableAt(o).docs
  OBVIOUS
<1>5. ds \in Seq(DocEntry) /\ DOMAIN ds = 1..Len(ds) /\ Len(ds) \in Nat
      /\ \A i \in DOMAIN ds : ds[i] \in DocEntry
  BY <1>3, <1>4, LenProperties, ElementOfSeq
<1>6. KeysOf(ds) \in Seq(Keys)
  BY <1>5 DEF KeysOf, DocEntry
<1>7. KeysAt(o) = KeysOf(ds)
  BY <1>1, <1>4 DEF KeysAt
<1> QED
  BY <1>2, <1>3, <1>6, <1>7

-----------------------------------------------------------------------------
(* A step that leaves the image alone.                                     *)

LEMMA SameImage ==
  ASSUME image' = image, NEW o, NEW p, NEW ds, NEW bs
  PROVE  /\ IsTrailer(o)' <=> IsTrailer(o)
         /\ Readable(o)' <=> Readable(o)
         /\ KeysAt(o)' = KeysAt(o)
         /\ TableAt(o)' = TableAt(o)
         /\ Guarded(p, o)' <=> Guarded(p, o)
         /\ Anchored(p, o)' <=> Anchored(p, o)
         /\ DocsPlaced(ds, o)' <=> DocsPlaced(ds, o)
         /\ BundlesPlaced(bs, ds, o)' <=> BundlesPlaced(bs, ds, o)
  BY DEF IsTrailer, Readable, KeysAt, TableAt, Guarded, Anchored, DocsPlaced,
         BundlesPlaced, BlocksPlaced, NoTrailerAfter, Opens, Decodes

LEMMA SameTrailers ==
  ASSUME image' = image, TrailersReadable PROVE TrailersReadable'
  BY SameImage DEF TrailersReadable

LEMMA SameReaders ==
  ASSUME image' = image, TypeOK, flen' \in flen..Len(image), rd' = rd, ReadersInv
  PROVE  ReadersInv'
<1>1. flen \in Nat /\ flen' \in Nat /\ flen <= flen'
  BY CellAt DEF TypeOK
<1> SUFFICES ASSUME NEW r \in Readers, rd[r].st = "open"
             PROVE  /\ rd[r].off \in 1..flen'
                    /\ IsTrailer(rd[r].off)'
                    /\ KeysAt(rd[r].off)' = rd[r].snap
  BY DEF ReadersInv
<1>2. PICK o : o = rd[r].off
  OBVIOUS
<1>3. o \in 1..flen /\ IsTrailer(o) /\ KeysAt(o) = rd[r].snap
  BY <1>2 DEF ReadersInv
<1>4. IsTrailer(o)' /\ KeysAt(o)' = KeysAt(o)
  BY <1>3, SameImage
<1> QED
  BY <1>1, <1>2, <1>3, <1>4

-----------------------------------------------------------------------------
(* Each action preserves the invariant.                                    *)

LEMMA Initially == Init => IInv
<1> SUFFICES ASSUME Init PROVE IInv
  OBVIOUS
<1> DEFINE tab == Table(<<>>, <<>>)
<1>0. <<>> \in Seq(DocEntry) /\ <<>> \in Seq(BundleDesc)
  BY EmptySeq
<1>1. tab \in Cell /\ Trailer(1) \in Cell
  BY <1>0, TableCell, TrailerCell
<1>2. image \in Seq(Cell) /\ Len(image) = 2 /\ image[1] = tab /\ image[2] = Trailer(1)
      /\ DOMAIN image = 1..2
  BY <1>1 DEF Init
<1> HIDE DEF tab
<1>3. tab.t = "table" /\ tab.docs = <<>> /\ tab.bundles = <<>>
  BY <1>0, TableCell DEF tab
<1>4. ~IsTrailer(1) /\ IsTrailer(2) /\ image[2].tab = 1
  BY <1>2, <1>3, TrailerCell DEF IsTrailer
<1>5. Readable(2)
  <2>1. TableAt(2) = tab /\ Opens(2)
    BY <1>2, <1>3, <1>4 DEF TableAt, Opens, Decodes
  <2>2. ASSUME NEW none, none = <<>>, NEW limit
        PROVE  /\ DocsPlaced(none, limit) /\ BundlesPlaced(none, none, limit)
               /\ Covered(none) = Len(none)
    BY <2>2 DEF DocsPlaced, BundlesPlaced, BlocksPlaced, Tiles, Covered
  <2> QED
    BY ONLY <1>3, <2>1, <2>2 DEF Readable
<1>6. TrailersReadable
  BY <1>2, <1>4, <1>5 DEF TrailersReadable
<1>7. HeaderGuards /\ DiskGuards
  BY <1>2, <1>4 DEF HeaderGuards, DiskGuards, Anchored, Init
<1>8. TypeOK
  BY <1>2, SessionsAssumption DEF Init, TypeOK, AppenderState, ReaderIdle, ReaderRec, ReaderState
<1>9. AppenderInv /\ ReadersInv
  BY <1>2 DEF Init, AppenderInv, ReadersInv, ReaderIdle
<1> QED
  BY <1>6, <1>7, <1>8, <1>9 DEF IInv

LEMMA OpenAppendKeeps == IInv /\ OpenAppend => IInv'
<1> SUFFICES ASSUME IInv, OpenAppend PROVE IInv'
  OBVIOUS
<1> USE DEF IInv
<1>1. image \in Seq(Cell) /\ Len(image) \in Nat /\ flen = Len(image) /\ image' = image
  BY CellAt DEF TypeOK, AppenderInv, OpenAppend, fileVars
<1>2. PICK o : o = Select(flen, pending)
  OBVIOUS
<1>3. Readable(o) /\ Guarded(o, flen)
  <2>1. Anchored(pending, flen)
    BY <1>1 DEF HeaderGuards
  <2> QED
    BY <1>1, <1>2, <2>1, SelectLast
<1>4. /\ TableAt(o).docs \in Seq(DocEntry)
      /\ TableAt(o).bundles \in Seq(BundleDesc)
      /\ o \in Nat
  BY <1>1, <1>3, ReadableTables
<1>5. /\ base' = o /\ pos' = o + 1
      /\ docs' = TableAt(o).docs /\ bundles' = TableAt(o).bundles
      /\ seen' = {TableAt(o).docs[i].key : i \in DOMAIN TableAt(o).docs}
      /\ pc' = "selected" /\ rd' = rd
      /\ UNCHANGED <<image, flen, synced, pending, dpending, acked>>
  BY <1>2 DEF OpenAppend, fileVars
<1>6. TypeOK'
  <2>1. seen' \subseteq Keys
    <3>1. PICK ds : ds = TableAt(o).docs
      OBVIOUS
    <3>2. \A i \in DOMAIN ds : ds[i] \in DocEntry
      BY <1>4, <3>1, LenProperties, ElementOfSeq
    <3> QED
      BY <1>5, <3>1, <3>2 DEF DocEntry
  <2>2. sessions' \in 0..MaxSessions
    BY SessionsAssumption DEF OpenAppend, TypeOK
  <2> QED
    BY <1>4, <1>5, <2>1, <2>2 DEF TypeOK, AppenderState
<1>7. TrailersReadable' /\ ReadersInv'
  BY <1>1, <1>5, SameTrailers, SameReaders DEF TypeOK
<1>8. HeaderGuards' /\ DiskGuards'
  BY <1>1, <1>5, SameImage DEF HeaderGuards, DiskGuards
<1>9. AppenderInv'
  <2>1. Guarded(o, flen)' /\ TableAt(o)' = TableAt(o)
    BY <1>1, <1>3, <1>5, SameImage
  <2>2. Loaded'
    BY <1>1, <1>5, <2>1 DEF Loaded
  <2> QED
    BY <1>1, <1>5, <2>2 DEF AppenderInv
<1> QED
  BY <1>6, <1>7, <1>8, <1>9

LEMMA StageHeaderKeeps == IInv /\ StageHeader => IInv'
<1> SUFFICES ASSUME IInv, StageHeader PROVE IInv'
  OBVIOUS
<1> USE DEF IInv
<1>1. image \in Seq(Cell) /\ Len(image) \in Nat /\ flen = Len(image) /\ Loaded
  BY CellAt DEF TypeOK, AppenderInv, StageHeader
<1>2. /\ pending' = base /\ pc' = "staged" /\ rd' = rd
      /\ UNCHANGED <<image, flen, synced, dpending, writerVars, sessions, acked>>
  BY DEF StageHeader
<1>3. TypeOK'
  BY <1>2 DEF TypeOK, AppenderState, writerVars
<1>4. TrailersReadable' /\ ReadersInv'
  BY <1>1, <1>2, SameTrailers, SameReaders DEF TypeOK
<1>5. Guarded(base, Len(image))
  BY <1>1 DEF Loaded
<1>6. HeaderGuards'
  BY <1>1, <1>2, <1>5, SameImage DEF HeaderGuards, Anchored
<1>7. DiskGuards'
  <2> SUFFICES ASSUME NEW n \in synced..Len(image)
               PROVE  /\ Anchored(dpending, n)'
                      /\ base <= synced => Anchored(base, n)'
    BY <1>2 DEF DiskGuards, writerVars
  <2>1. Anchored(dpending, n)'
    BY <1>2, SameImage DEF DiskGuards
  <2>2. ASSUME base <= synced PROVE Anchored(base, n)
    BY <1>1, <1>5, <2>2 DEF Guarded, NoTrailerAfter, Anchored, TypeOK
  <2> QED
    BY <1>2, <2>1, <2>2, SameImage DEF writerVars
<1>8. AppenderInv'
  BY <1>1, <1>2, SameImage DEF AppenderInv, Loaded, writerVars, StageHeader
<1> QED
  BY <1>3, <1>4, <1>6, <1>7, <1>8

(* Forcing the file to disk puts every cut of it under the same header.    *)
LEMMA SyncGuards ==
  ASSUME IInv, image' = image, flen' = flen, pending' = pending,
         synced' = flen, dpending' = pending
  PROVE  HeaderGuards' /\ DiskGuards'
<1>1. HeaderGuards'
  BY SameImage DEF HeaderGuards, IInv
<1> QED
  BY <1>1 DEF HeaderGuards, DiskGuards

LEMMA SyncStageKeeps == IInv /\ SyncStage => IInv'
<1> SUFFICES ASSUME IInv, SyncStage PROVE IInv'
  OBVIOUS
<1>1. /\ synced' = flen /\ dpending' = pending /\ pc' = "stageSynced" /\ rd' = rd
      /\ UNCHANGED <<image, flen, pending, writerVars, sessions, acked>>
  BY DEF SyncStage, SyncData
<1>2. HeaderGuards' /\ DiskGuards'
  BY <1>1, SyncGuards
<1> USE DEF IInv
<1>3. TypeOK'
  BY <1>1, CellAt DEF TypeOK, AppenderState, writerVars
<1>4. TrailersReadable' /\ ReadersInv'
  BY <1>1, CellAt, SameTrailers, SameReaders DEF TypeOK
<1>5. AppenderInv'
  BY <1>1, SameImage DEF AppenderInv, Loaded, writerVars, SyncStage
<1> QED
  BY <1>2, <1>3, <1>4, <1>5

LEMMA SyncTailKeeps == IInv /\ SyncTail => IInv'
<1> SUFFICES ASSUME IInv, SyncTail PROVE IInv'
  OBVIOUS
<1>1. /\ synced' = flen /\ dpending' = pending /\ pc' = "tailSynced" /\ rd' = rd
      /\ flen = Len(image)
      /\ UNCHANGED <<image, flen, pending, writerVars, sessions, acked>>
  BY DEF SyncTail, SyncData
<1>2. HeaderGuards' /\ DiskGuards'
  BY <1>1, SyncGuards
<1> USE DEF IInv
<1>3. TypeOK'
  BY <1>1, CellAt DEF TypeOK, AppenderState, writerVars
<1>4. TrailersReadable' /\ ReadersInv'
  BY <1>1, CellAt, SameTrailers, SameReaders DEF TypeOK
<1>5. AppenderInv'
  BY <1>1, SameImage DEF AppenderInv, writerVars, SyncTail
<1> QED
  BY <1>2, <1>3, <1>4, <1>5

LEMMA SyncClearKeeps == IInv /\ SyncClear => IInv'
<1> SUFFICES ASSUME IInv, SyncClear PROVE IInv'
  OBVIOUS
<1>1. /\ synced' = flen /\ dpending' = pending /\ pc' = "idle" /\ rd' = rd
      /\ base' = 0 /\ pos' = 0 /\ docs' = <<>> /\ bundles' = <<>> /\ seen' = {}
      /\ acked' = KeysOf(docs)
      /\ UNCHANGED <<image, flen, pending, sessions>>
  BY DEF SyncClear, SyncData, DropWriter
<1>2. HeaderGuards' /\ DiskGuards'
  BY <1>1, SyncGuards
<1> USE DEF IInv
<1>3. acked' \in Seq(Keys)
  <2>1. docs \in Seq(DocEntry) /\ DOMAIN docs = 1..Len(docs) /\ Len(docs) \in Nat
        /\ \A i \in DOMAIN docs : docs[i] \in DocEntry
    BY LenProperties, ElementOfSeq DEF TypeOK
  <2> QED
    BY <1>1, <2>1 DEF KeysOf, DocEntry
<1>4. TypeOK'
  BY <1>1, <1>3, CellAt DEF TypeOK, AppenderState
<1>5. TrailersReadable' /\ ReadersInv'
  BY <1>1, CellAt, SameTrailers, SameReaders DEF TypeOK
<1>6. AppenderInv'
  BY <1>1 DEF AppenderInv, SyncClear
<1> QED
  BY <1>2, <1>4, <1>5, <1>6

LEMMA ClearHeaderKeeps == IInv /\ ClearHeader => IInv'
<1> SUFFICES ASSUME IInv, ClearHeader PROVE IInv'
  OBVIOUS
<1> USE DEF IInv
<1>1. /\ pending' = 0 /\ pc' = "cleared" /\ rd' = rd
      /\ UNCHANGED <<image, flen, synced, dpending, writerVars, sessions, acked>>
  BY DEF ClearHeader
<1>2. Len(image) \in Nat /\ flen = Len(image) /\ synced = flen /\ IsTrailer(Len(image))
  BY CellAt DEF AppenderInv, ClearHeader, TypeOK
<1>3. TypeOK'
  BY <1>1 DEF TypeOK, AppenderState, writerVars
<1>4. TrailersReadable' /\ ReadersInv'
  BY <1>1, <1>2, SameTrailers, SameReaders DEF TypeOK
<1>5. HeaderGuards' /\ DiskGuards'
  BY <1>1, <1>2, SameImage DEF HeaderGuards, DiskGuards, Anchored
<1>6. AppenderInv'
  BY <1>1, <1>2, SameImage DEF AppenderInv, ClearHeader
<1> QED
  BY <1>3, <1>4, <1>5, <1>6

LEMMA WritebackKeeps == IInv /\ Writeback => IInv'
<1> SUFFICES ASSUME IInv, Writeback PROVE IInv'
  OBVIOUS
<1>1. /\ rd' = rd
      /\ UNCHANGED <<image, flen, pending, pc, writerVars, sessions, acked>>
      /\ \/ synced' = flen /\ dpending' = dpending
         \/ HeaderMayPersist /\ dpending' = pending /\ synced' = synced
  BY DEF Writeback
<1> USE DEF IInv
<1>2. Len(image) \in Nat /\ flen \in Nat /\ synced \in 0..flen
  BY CellAt DEF TypeOK
<1>3. HeaderGuards' /\ DiskGuards'
  <2>1. HeaderGuards'
    BY <1>1, SameImage DEF HeaderGuards
  <2>2. PICK p, d, q : p = pending /\ d = dpending /\ q = dpending'
    OBVIOUS
  <2>3. ASSUME NEW n \in synced'..Len(image)
        PROVE  Anchored(q, n)' /\ (HeaderMayPersist' => Anchored(p, n)')
    <3>1. CASE synced' = flen /\ q = d
      <4>1. n \in synced..Len(image) /\ n \in flen..Len(image)
        BY <1>2, <3>1
      <4>2. Anchored(d, n) /\ Anchored(p, n)
        BY <2>2, <4>1 DEF HeaderGuards, DiskGuards
      <4> QED
        BY <1>1, <3>1, <4>2, SameImage
    <3>2. CASE HeaderMayPersist /\ q = p /\ synced' = synced
      <4>1. Anchored(p, n)
        BY <2>2, <3>2 DEF DiskGuards
      <4> QED
        BY <1>1, <3>2, <4>1, SameImage
    <3> QED
      BY <1>1, <2>2, <3>1, <3>2
  <2>4. DiskGuards'
    BY <1>1, <2>2, <2>3 DEF DiskGuards
  <2> QED
    BY <2>1, <2>4
<1>4. TypeOK'
  BY <1>1, <1>2 DEF TypeOK, writerVars
<1>5. TrailersReadable' /\ ReadersInv'
  BY <1>1, CellAt, SameTrailers, SameReaders DEF TypeOK
<1>6. AppenderInv'
  <2>1. Loaded => Loaded'
    BY <1>1, SameImage DEF Loaded, writerVars
  <2>2. ASSUME Writing PROVE Writing'
    <3>1. synced <= synced' /\ synced' \in Nat /\ base \in Nat
      BY <1>1, <1>2 DEF TypeOK
    <3>2. pending' = base /\ dpending' = base /\ base <= synced'
      BY <1>1, <1>2, <2>2, <3>1 DEF Writing
    <3> QED
      BY <1>1, <2>2, <3>2, SameImage DEF Writing, writerVars
  <2> QED
    BY <1>1, <2>1, <2>2, SameImage DEF AppenderInv, writerVars
<1> QED
  BY <1>3, <1>4, <1>5, <1>6

LEMMA FlushKeeps == IInv /\ Flush => IInv'
<1> SUFFICES ASSUME IInv, Flush PROVE IInv'
  OBVIOUS
<1> USE DEF IInv
<1>1. /\ flen' = flen + 1 /\ flen < Len(image) /\ rd' = rd /\ pc \in {"body", "flush"}
      /\ UNCHANGED <<image, synced, pending, dpending, pc, writerVars, sessions, acked>>
  BY DEF Flush
<1>2. Len(image) \in Nat /\ flen \in Nat /\ synced \in 0..flen
  BY CellAt DEF TypeOK
<1>3. TypeOK'
  BY <1>1, <1>2 DEF TypeOK, writerVars
<1>4. TrailersReadable' /\ ReadersInv'
  BY <1>1, <1>2, SameTrailers, SameReaders
<1>5. HeaderGuards'
  <2> SUFFICES ASSUME NEW n \in (flen + 1)..Len(image) PROVE Anchored(pending, n)'
    BY <1>1 DEF HeaderGuards
  <2>1. Anchored(pending, n)
    BY <1>2 DEF HeaderGuards
  <2> QED
    BY <1>1, <2>1, SameImage
<1>6. DiskGuards'
  BY <1>1, SameImage DEF DiskGuards
<1>7. AppenderInv'
  <2>1. Writing => Writing'
    BY <1>1, SameImage DEF Writing, writerVars
  <2> QED
    BY <1>1, <2>1, SameImage DEF AppenderInv, writerVars
<1> QED
  BY <1>3, <1>4, <1>5, <1>6, <1>7

(* Writing cells that are not trailers behind the last trailer.            *)
LEMMA BodyGrows ==
  ASSUME IInv, pc = "body", NEW c \in Cell, c.t # "trailer", image' = Append(image, c),
         UNCHANGED <<flen, synced, pending, dpending, base, rd>>
  PROVE  /\ image' \in Seq(Cell) /\ Len(image) \in Nat /\ Len(image') = Len(image) + 1
         /\ \A i \in 1..Len(image) : image'[i] = image[i]
         /\ image'[Len(image) + 1] = c
         /\ flen' \in 0..Len(image') /\ synced' \in 0..flen'
         /\ TrailersReadable' /\ HeaderGuards' /\ DiskGuards' /\ ReadersInv'
         /\ Guarded(base, Len(image))'
<1> USE DEF IInv
<1>1. image \in Seq(Cell) /\ Len(image) \in Nat /\ flen \in 0..Len(image)
      /\ synced \in 0..flen
  BY CellAt DEF TypeOK
<1>2. /\ image' \in Seq(Cell) /\ Len(image') = Len(image) + 1
      /\ \A i \in 1..Len(image) : image'[i] = image[i]
      /\ image'[Len(image) + 1] = c
  BY <1>1, AppendProperties
<1>3. PICK L, b : L = Len(image) /\ b = base
  OBVIOUS
<1>4. L \in Nat /\ \A o \in (L + 1)..(L + 1) : ~IsTrailer(o)'
  BY <1>1, <1>2, <1>3 DEF IsTrailer
<1>5. TrailersReadable'
  BY <1>1, <1>2, <1>3, <1>4, TrailersFrame
<1>6. Guarded(b, L) /\ b <= synced /\ pending = b /\ dpending = b
  BY <1>3 DEF AppenderInv, Writing
<1>7. Guarded(b, L + 1)'
  BY <1>1, <1>2, <1>3, <1>4, <1>6, GuardedFrame
<1>8. \A n \in synced..(L + 1) : Guarded(b, n)'
  BY <1>1, <1>3, <1>6, <1>7 DEF Guarded, NoTrailerAfter
<1>9. HeaderGuards' /\ DiskGuards'
  BY <1>1, <1>2, <1>3, <1>6, <1>8 DEF HeaderGuards, DiskGuards, Anchored
<1>10. ReadersInv'
  BY <1>1, <1>2, <1>3, ReadersFrame DEF ReadersInv
<1>11. Guarded(base, Len(image))'
  <2>1. base' = b /\ Len(image') = L + 1
    BY <1>2, <1>3
  <2> QED
    BY <1>7, <2>1 DEF Guarded
<1> QED
  BY <1>1, <1>2, <1>5, <1>9, <1>10, <1>11

LEMMA PushKeeps == ASSUME NEW k \in Keys PROVE IInv /\ Push(k) => IInv'
<1> SUFFICES ASSUME IInv, Push(k) PROVE IInv'
  OBVIOUS
<1> DEFINE e == [key |-> k, off |-> pos]
<1>1. /\ pc = "body" /\ k \notin seen
      /\ seen' = seen \cup {k} /\ image' = Append(image, Doc(k))
      /\ docs' = Append(docs, e) /\ pos' = pos + 1
      /\ UNCHANGED <<flen, synced, pending, dpending, pc, base, bundles, sessions, acked, rd>>
  BY DEF Push
<1>2. Doc(k) \in Cell /\ Doc(k).t # "trailer"
  BY DocCell
<1>3. PICK L : L = Len(image)
  OBVIOUS
<1>4. /\ image' \in Seq(Cell) /\ L \in Nat /\ Len(image') = L + 1
      /\ \A i \in 1..L : image'[i] = image[i]
      /\ image'[L + 1] = Doc(k)
      /\ flen' \in 0..Len(image') /\ synced' \in 0..flen'
      /\ TrailersReadable' /\ HeaderGuards' /\ DiskGuards' /\ ReadersInv'
      /\ Guarded(base, Len(image))'
  BY <1>1, <1>2, <1>3, BodyGrows
<1> USE DEF IInv
<1>5. /\ docs \in Seq(DocEntry) /\ pos = L + 1 /\ e \in DocEntry
      /\ seen = {docs[i].key : i \in DOMAIN docs}
      /\ DocsPlaced(docs, L) /\ BundlesPlaced(bundles, docs, L)
      /\ base <= synced /\ pending = base /\ dpending = base
  BY <1>1, <1>3 DEF TypeOK, AppenderInv, Writing, DocEntry
<1>6. /\ docs' \in Seq(DocEntry) /\ Len(docs') = Len(docs) + 1 /\ Len(docs) \in Nat
      /\ DOMAIN docs = 1..Len(docs) /\ DOMAIN docs' = 1..(Len(docs) + 1)
      /\ \A i \in 1..Len(docs) : docs'[i] = docs[i]
      /\ docs'[Len(docs) + 1] = e
  BY <1>1, <1>5, AppendProperties, LenProperties
<1>7. TypeOK'
  BY <1>1, <1>4, <1>5, <1>6 DEF TypeOK
<1>8. DocsPlaced(docs, Len(image))'
  <2>1. e.key = k /\ e.off = L + 1
    BY <1>5
  <2> HIDE DEF e
  <2>2. \A i \in DOMAIN docs' : docs'[i].off \in 1..(L + 1)
                                /\ image'[docs'[i].off] = Doc(docs'[i].key)
    <3>1. \A i \in 1..Len(docs) : docs[i].off \in 1..L /\ image[docs[i].off] = Doc(docs[i].key)
      BY <1>5, <1>6 DEF DocsPlaced
    <3>2. ASSUME NEW i \in 1..Len(docs)
          PROVE  /\ docs'[i].off \in 1..(L + 1)
                 /\ image'[docs'[i].off] = Doc(docs'[i].key)
      BY <1>4, <1>6, <3>1
    <3>3. docs'[Len(docs) + 1].off \in 1..(L + 1)
          /\ image'[docs'[Len(docs) + 1].off] = Doc(docs'[Len(docs) + 1].key)
      BY <1>4, <1>6, <2>1
    <3> QED
      BY <1>6, <3>2, <3>3
  <2>3. \A i \in DOMAIN docs : docs[i].key # k
    BY <1>1, <1>5
  <2>4. \A i, j \in DOMAIN docs' : docs'[i].key = docs'[j].key => i = j
    BY <1>5, <1>6, <2>1, <2>3 DEF DocsPlaced
  <2> QED
    BY <1>4, <2>2, <2>4 DEF DocsPlaced
<1>9. BundlesPlaced(bundles, docs, Len(image))'
  <2> HIDE DEF e
  <2>1. PICK bs, ds : bs = bundles /\ ds = docs
    OBVIOUS
  <2>2. PICK ds1 : ds1 = docs'
    OBVIOUS
  <2>3. BundlesPlaced(bs, ds, L) /\ bs \in Seq(BundleDesc)
    BY <1>5, <2>1 DEF TypeOK
  <2>4. /\ ds1 \in Seq(DocEntry) /\ ds \in Seq(DocEntry) /\ Len(ds) <= Len(ds1)
        /\ \A i \in 1..Len(ds) : ds1[i] = ds[i]
    BY <1>5, <1>6, <2>1, <2>2
  <2>5. BundlesPlaced(bs, ds1, L)
    BY <2>3, <2>4, MoreDocs
  <2>6. BundlesPlaced(bs, ds1, L + 1)'
    BY <1>4, <2>5, PlacedFrame
  <2>7. bundles' = bs /\ docs' = ds1 /\ Len(image') = L + 1
    BY <1>1, <1>4, <2>1, <2>2
  <2> QED
    BY <2>6, <2>7
<1>10. AppenderInv'
  <2>1. seen' = {docs'[i].key : i \in DOMAIN docs'}
    BY <1>1, <1>5, <1>6
  <2>2. Writing'
    BY <1>1, <1>3, <1>4, <1>5, <1>8, <1>9 DEF Writing
  <2> QED
    BY <1>1, <2>1, <2>2 DEF AppenderInv
<1> QED
  BY <1>4, <1>7, <1>10

(* The string block of the open documents, and its descriptor.             *)
LEMMA SealedBlock ==
  ASSUME IInv, pc = "body"
  PROVE  /\ Len(docs) \in Nat /\ Sealed \in 0..Len(docs) /\ OpenDocs \in Nat
         /\ NewBlock \in Cell /\ NewBlock.t # "trailer"
         /\ NewDesc(pos) \in BundleDesc
<1>1. docs \in Seq(DocEntry) /\ bundles \in Seq(BundleDesc) /\ pos \in Nat
      /\ Tiles(bundles, Len(docs))
  BY DEF IInv, TypeOK, AppenderInv, Writing, BundlesPlaced
<1>2. Len(docs) \in Nat /\ DOMAIN docs = 1..Len(docs)
      /\ \A i \in 1..Len(docs) : docs[i] \in DocEntry
  BY <1>1, LenProperties, ElementOfSeq
<1>3. Sealed \in 0..Len(docs) /\ OpenDocs \in Nat
  BY <1>1, <1>2, BundleSpans DEF Sealed, OpenDocs
<1>4. \A i \in 1..OpenDocs : docs[Sealed + i].key \in Keys
  BY <1>2, <1>3 DEF OpenDocs, DocEntry
<1>5. [i \in 1..OpenDocs |-> docs[Sealed + i].key] \in Seq(Keys)
  BY <1>3, <1>4
<1>6. NewBlock \in Cell /\ NewBlock.t # "trailer"
  BY <1>5, BlockCell DEF NewBlock
<1>7. NewDesc(pos) \in BundleDesc
  BY <1>1, <1>3 DEF NewDesc, BundleDesc
<1> QED
  BY <1>2, <1>3, <1>6, <1>7

(* Sealing the open documents leaves every document in a bundle.           *)
LEMMA SealPlaced ==
  ASSUME IInv, pc = "body", OpenDocs > 0,
         NEW L, L = Len(image), L + 1 <= Len(image'),
         \A i \in 1..L : image'[i] = image[i], image'[L + 1] = NewBlock,
         NEW bs, bs = Append(bundles, NewDesc(pos)), NEW ds, ds = docs
  PROVE  /\ bs \in Seq(BundleDesc)
         /\ BundlesPlaced(bs, ds, L + 1)'
         /\ Covered(bs) = Len(ds)
<1>1. /\ L \in Nat /\ pos = L + 1 /\ bundles \in Seq(BundleDesc)
      /\ Tiles(bundles, Len(ds)) /\ BlocksPlaced(bundles, ds, L)
  BY CellAt DEF IInv, TypeOK, AppenderInv, Writing, BundlesPlaced
<1>2. PICK os, d : os = bundles /\ d = NewDesc(pos)
  OBVIOUS
<1>3. Len(ds) \in Nat /\ Sealed \in 0..Len(ds) /\ OpenDocs = Len(ds) - Sealed
      /\ d \in BundleDesc
  BY <1>2, SealedBlock DEF OpenDocs
<1>4. d.start = Sealed + 1 /\ d.n = Len(ds) - Sealed /\ d.off = L + 1
  BY <1>1, <1>2, <1>3 DEF NewDesc
<1>5. /\ bs \in Seq(BundleDesc) /\ Len(os) \in Nat /\ Len(bs) = Len(os) + 1
      /\ DOMAIN os = 1..Len(os) /\ DOMAIN bs = 1..(Len(os) + 1)
      /\ \A b \in 1..Len(os) : bs[b] = os[b]
      /\ bs[Len(os) + 1] = d /\ bs # <<>>
  BY <1>1, <1>2, <1>3, AppendProperties, LenProperties
<1>6. Covered(bs) = Len(ds)
  BY <1>3, <1>4, <1>5 DEF Covered
<1>7. d.start = IF Len(os) = 0 THEN 1 ELSE os[Len(os)].start + os[Len(os)].n
  <2>1. CASE os = <<>>
    BY <1>2, <1>4, <2>1 DEF Sealed, Covered
  <2>2. CASE os # <<>>
    <3>1. Len(os) \in DOMAIN os /\ Len(os) # 0
      BY <1>1, <1>2, <1>5, <2>2, EmptySeq
    <3>2. os[Len(os)].start \in Nat /\ os[Len(os)].n \in Nat
      BY <1>1, <1>2, <1>3, <3>1, BundleSpans
    <3> QED
      BY <1>2, <1>4, <2>2, <3>1, <3>2 DEF Sealed, Covered
  <2> QED
    BY <2>1, <2>2
<1>8. Tiles(bs, Len(ds))
  <2> SUFFICES ASSUME NEW b \in 1..(Len(os) + 1)
               PROVE  /\ bs[b].start = IF b = 1 THEN 1 ELSE bs[b - 1].start + bs[b - 1].n
                      /\ bs[b].n > 0
                      /\ bs[b].start - 1 + bs[b].n <= Len(ds)
    BY <1>5 DEF Tiles
  <2>1. CASE b = Len(os) + 1
    <3>1. b = 1 <=> Len(os) = 0
      BY <1>5, <2>1
    <3>2. ASSUME b # 1 PROVE bs[b - 1] = os[Len(os)]
      <4>1. b - 1 = Len(os) /\ Len(os) \in 1..Len(os)
        BY <1>5, <2>1, <3>2
      <4> QED
        BY <1>5, <4>1
    <3>3. bs[b].start = IF b = 1 THEN 1 ELSE bs[b - 1].start + bs[b - 1].n
      BY <1>5, <1>7, <2>1, <3>1, <3>2
    <3>4. bs[b] = d
      BY <1>5, <2>1
    <3>5. d.n > 0 /\ d.start - 1 + d.n <= Len(ds)
      BY <1>3, <1>4
    <3> QED
      BY <3>3, <3>4, <3>5
  <2>2. CASE b <= Len(os)
    <3>1. b \in DOMAIN os /\ bs[b] = os[b] /\ Tiles(os, Len(ds))
      BY <1>1, <1>2, <1>5, <2>2
    <3>2. ASSUME b # 1 PROVE bs[b - 1] = os[b - 1]
      <4>1. b - 1 \in 1..Len(os)
        BY <1>5, <2>2, <3>2
      <4> QED
        BY <1>5, <4>1
    <3>3. os[b].start = IF b = 1 THEN 1 ELSE os[b - 1].start + os[b - 1].n
      BY <3>1 DEF Tiles
    <3>4. os[b].n > 0 /\ os[b].start - 1 + os[b].n <= Len(ds)
      BY <3>1 DEF Tiles
    <3> QED
      BY <3>1, <3>2, <3>3, <3>4
  <2> QED
    BY <1>5, <2>1, <2>2
<1>9. BlocksPlaced(bs, ds, L + 1)'
  <2> SUFFICES ASSUME NEW b \in 1..(Len(os) + 1)
               PROVE  /\ bs[b].off \in 1..(L + 1)
                      /\ image'[bs[b].off] =
                           Block([i \in 1..bs[b].n |-> ds[bs[b].start - 1 + i].key])
    BY <1>5 DEF BlocksPlaced
  <2>1. BlocksPlaced(os, ds, L)
    BY <1>1, <1>2
  <2>2. CASE b <= Len(os)
    <3>1. b \in DOMAIN os /\ bs[b] = os[b]
      BY <1>5, <2>2
    <3>2. os[b].off \in 1..L /\ image[os[b].off] =
            Block([i \in 1..os[b].n |-> ds[os[b].start - 1 + i].key])
      BY <2>1, <3>1 DEF BlocksPlaced
    <3>3. os[b].off \in 1..(L + 1) /\ image'[os[b].off] = image[os[b].off]
      BY <1>1, <3>2
    <3> QED
      BY <3>1, <3>2, <3>3
  <2>3. image'[d.off] = Block([i \in 1..d.n |-> ds[d.start - 1 + i].key])
    <3>1. d.n = OpenDocs /\ d.start - 1 = Sealed
      BY <1>3, <1>4
    <3> QED
      BY <1>4, <3>1 DEF NewBlock
  <2>4. d.off \in 1..(L + 1)
    BY <1>1, <1>4
  <2>5. CASE b = Len(os) + 1
    <3>1. bs[b] = d
      BY <1>5, <2>5
    <3> QED
      BY <2>3, <2>4, <3>1
  <2>6. b <= Len(os) \/ b = Len(os) + 1
    BY <1>5
  <2> QED
    BY <2>2, <2>5, <2>6
<1> QED
  BY <1>5, <1>6, <1>8, <1>9 DEF BundlesPlaced

LEMMA SealBundleKeeps == IInv /\ SealBundle => IInv'
<1> SUFFICES ASSUME IInv, SealBundle PROVE IInv'
  OBVIOUS
<1>1. /\ pc = "body" /\ OpenDocs > 0 /\ image' = Append(image, NewBlock)
      /\ bundles' = Append(bundles, NewDesc(pos)) /\ pos' = pos + 1
      /\ UNCHANGED <<flen, synced, pending, dpending, pc, base, docs, seen, sessions, acked, rd>>
  BY DEF SealBundle
<1>2. NewBlock \in Cell /\ NewBlock.t # "trailer"
  BY <1>1, SealedBlock
<1>3. PICK L, ds, bs : L = Len(image) /\ ds = docs /\ bs = Append(bundles, NewDesc(pos))
  OBVIOUS
<1>4. /\ image' \in Seq(Cell) /\ L \in Nat /\ Len(image') = L + 1
      /\ \A i \in 1..L : image'[i] = image[i]
      /\ image'[L + 1] = NewBlock
      /\ flen' \in 0..Len(image') /\ synced' \in 0..flen'
      /\ TrailersReadable' /\ HeaderGuards' /\ DiskGuards' /\ ReadersInv'
      /\ Guarded(base, Len(image))'
  BY <1>1, <1>2, <1>3, BodyGrows
<1>5. bs \in Seq(BundleDesc) /\ BundlesPlaced(bs, ds, L + 1)'
  <2>1. L + 1 <= Len(image')
    BY <1>4
  <2> QED
    BY <1>1, <1>3, <1>4, <2>1, SealPlaced
<1> USE DEF IInv
<1>6. TypeOK'
  BY <1>1, <1>3, <1>4, <1>5 DEF TypeOK
<1>7. DocsPlaced(ds, L + 1)'
  <2>1. L \in 0..(L + 1) /\ L + 1 \in Nat /\ DocsPlaced(ds, L)
    BY <1>1, <1>3, <1>4 DEF AppenderInv, Writing
  <2> QED
    BY <1>4, <2>1, PlacedFrame
<1>8. Writing'
  <2>1. docs' = ds /\ bundles' = bs /\ Len(image') = L + 1
    BY <1>1, <1>3, <1>4
  <2> QED
    BY <1>1, <1>3, <1>4, <1>5, <1>7, <2>1 DEF AppenderInv, Writing
<1>9. AppenderInv'
  BY <1>1, <1>8 DEF AppenderInv
<1> QED
  BY <1>4, <1>6, <1>9

(* Concatenation, with the lengths named.                                  *)
LEMMA Concatenation ==
  ASSUME NEW S, NEW s \in Seq(S), NEW t \in Seq(S)
  PROVE  /\ s \o t \in Seq(S)
         /\ Len(s) \in Nat /\ Len(t) \in Nat
         /\ Len(s \o t) = Len(s) + Len(t)
         /\ \A i \in 1..Len(s) : (s \o t)[i] = s[i]
         /\ \A i \in 1..Len(t) : (s \o t)[Len(s) + i] = t[i]
<1>1. Len(s) \in Nat /\ Len(t) \in Nat
  BY LenProperties
<1>2. s \o t \in Seq(S) /\ Len(s \o t) = Len(s) + Len(t)
  BY ConcatProperties
<1>3. ASSUME NEW i \in 1..Len(s) PROVE (s \o t)[i] = s[i]
  BY <1>1, ConcatProperties
<1>4. ASSUME NEW i \in 1..Len(t) PROVE (s \o t)[Len(s) + i] = t[i]
  <2>1. Len(s) + i \in 1..(Len(s) + Len(t)) /\ ~(Len(s) + i <= Len(s))
        /\ Len(s) + i - Len(s) = i
    BY <1>1
  <2> QED
    BY <2>1, ConcatProperties
<1> QED
  BY <1>1, <1>2, <1>3, <1>4

(* What finish appends: the tail's block if it has documents, the tables,  *)
(* and a trailer that locates them.                                        *)
Finished(L, ds, bs, at) ==
  /\ L \in Nat /\ at \in (L + 1)..(L + 2) /\ pos' = at + 2
  /\ bundles' = bs
  /\ image' \in Seq(Cell) /\ Len(image') = at + 1
  /\ \A i \in 1..L : image'[i] = image[i]
  /\ \A i \in (L + 1)..at : image'[i].t # "trailer"
  /\ image'[at] = Table(ds, bs)
  /\ image'[at + 1] = Trailer(at)
  /\ DocsPlaced(ds, at - 1)' /\ BundlesPlaced(bs, ds, at - 1)'
  /\ Covered(bs) = Len(ds)

LEMMA FinishImage ==
  ASSUME IInv, Finish, NEW L, L = Len(image), NEW ds, ds = docs, NEW at, at = pos' - 2
  PROVE  \E bs \in Seq(BundleDesc) : Finished(L, ds, bs, at)
<1> DEFINE tail == IF OpenDocs > 0 THEN <<NewBlock>> ELSE <<>>
           nbs  == IF OpenDocs > 0 THEN Append(bundles, NewDesc(pos)) ELSE bundles
<1>1. /\ pc = "body"
      /\ image' = image \o tail \o <<Table(docs, nbs), Trailer(pos + Len(tail))>>
      /\ bundles' = nbs
      /\ pos' = pos + Len(tail) + 2
  BY DEF Finish
<1>2. /\ image \in Seq(Cell) /\ L \in Nat /\ pos = L + 1
      /\ docs \in Seq(DocEntry) /\ bundles \in Seq(BundleDesc)
      /\ DocsPlaced(ds, L) /\ BundlesPlaced(bundles, ds, L)
  BY <1>1, CellAt DEF IInv, TypeOK, AppenderInv, Writing
<1>3. /\ Len(docs) \in Nat /\ Sealed \in 0..Len(docs) /\ OpenDocs \in Nat
      /\ NewBlock \in Cell /\ NewBlock.t # "trailer" /\ NewDesc(pos) \in BundleDesc
  BY <1>1, SealedBlock
<1>4. PICK bs : bs = nbs
  OBVIOUS
<1>5. bs \in Seq(BundleDesc)
  BY <1>2, <1>3, <1>4, AppendProperties
<1>6. /\ tail \in Seq(Cell) /\ Len(tail) = (IF OpenDocs > 0 THEN 1 ELSE 0)
      /\ OpenDocs > 0 => tail[1] = NewBlock
  BY <1>3
<1>7. at = L + 1 + Len(tail) /\ at \in (L + 1)..(L + 2) /\ pos' = at + 2
  <2>1. PICK T : T = Len(tail)
    OBVIOUS
  <2>2. T \in 0..1 /\ pos' = L + 1 + T + 2
    BY <1>1, <1>2, <1>6, <2>1
  <2> QED
    BY <1>2, <2>1, <2>2
<1> DEFINE foot == <<Table(docs, bs), Trailer(at)>>
<1>8. Table(ds, bs) \in Cell /\ Trailer(at) \in Cell
      /\ Table(ds, bs).t # "trailer"
  BY <1>2, <1>5, <1>7, TableCell, TrailerCell
<1>9. foot \in Seq(Cell) /\ Len(foot) = 2 /\ foot[1] = Table(ds, bs) /\ foot[2] = Trailer(at)
  BY <1>8
<1>10. image' = (image \o tail) \o foot
  BY <1>1, <1>2, <1>4, <1>6, <1>7
<1> HIDE DEF tail, nbs, foot
<1>11. PICK img, tl, ft, front : img = image /\ tl = tail /\ ft = foot /\ front = img \o tl
  OBVIOUS
<1>12. /\ front \in Seq(Cell) /\ Len(front) = at - 1 /\ at \in Nat
       /\ \A i \in 1..L : front[i] = image[i]
       /\ Len(tl) = 1 => front[L + 1] = tl[1]
  <2>1. img \in Seq(Cell) /\ tl \in Seq(Cell) /\ Len(img) = L
    BY <1>2, <1>6, <1>11
  <2>2. /\ front \in Seq(Cell) /\ Len(front) = L + Len(tl)
        /\ \A i \in 1..L : front[i] = img[i]
        /\ \A i \in 1..Len(tl) : front[L + i] = tl[i]
    BY <1>11, <2>1, Concatenation
  <2> QED
    BY <1>2, <1>6, <1>7, <1>11, <2>2
<1>13. /\ image' \in Seq(Cell) /\ Len(image') = at + 1
       /\ \A i \in 1..(at - 1) : image'[i] = front[i]
       /\ image'[at] = Table(ds, bs) /\ image'[at + 1] = Trailer(at)
       /\ \A i \in 1..L : image'[i] = image[i]
  <2>1. image' = front \o ft /\ ft \in Seq(Cell) /\ Len(ft) = 2
    BY <1>9, <1>10, <1>11
  <2>2. /\ front \o ft \in Seq(Cell) /\ Len(front \o ft) = at - 1 + 2
        /\ \A i \in 1..(at - 1) : (front \o ft)[i] = front[i]
        /\ \A i \in 1..2 : (front \o ft)[at - 1 + i] = ft[i]
    <3>1. /\ front \o ft \in Seq(Cell) /\ Len(front \o ft) = Len(front) + Len(ft)
          /\ \A i \in 1..Len(front) : (front \o ft)[i] = front[i]
          /\ \A i \in 1..Len(ft) : (front \o ft)[Len(front) + i] = ft[i]
      <4>1. front \in Seq(Cell) /\ ft \in Seq(Cell)
        BY <1>12, <2>1
      <4> QED
        BY <4>1, Concatenation
    <3>2. Len(front) = at - 1 /\ Len(ft) = 2
      BY <1>12, <2>1
    <3> QED
      BY <3>1, <3>2
  <2>3. at - 1 + 2 = at + 1 /\ at - 1 + 1 = at /\ 1 \in 1..2 /\ 2 \in 1..2
    BY <1>12
  <2>4. image'[at] = ft[1] /\ image'[at + 1] = ft[2]
    BY <2>1, <2>2, <2>3
  <2>5. \A i \in 1..L : i \in 1..(at - 1)
    BY <1>2, <1>7
  <2> QED
    BY <1>9, <1>11, <1>12, <2>1, <2>2, <2>3, <2>4, <2>5
<1>14. DocsPlaced(ds, at - 1)'
  <2>1. L \in 0..(at - 1) /\ at - 1 \in Nat
    BY <1>2, <1>7
  <2> QED
    BY <1>2, <1>13, <2>1, PlacedFrame
<1>15. /\ \A i \in (L + 1)..at : image'[i].t # "trailer"
       /\ BundlesPlaced(bs, ds, at - 1)'
       /\ Covered(bs) = Len(ds)
  <2>1. CASE OpenDocs > 0
    <3>1. at = L + 2 /\ bs = Append(bundles, NewDesc(pos)) /\ at - 1 = L + 1
          /\ Len(tail) = 1
      BY <1>2, <1>4, <1>6, <1>7, <2>1 DEF nbs
    <3>2. image'[L + 1] = NewBlock
      <4>1. L + 1 \in 1..(at - 1)
        BY <1>2, <3>1
      <4> QED
        BY <1>6, <1>11, <1>12, <1>13, <2>1, <3>1, <4>1
    <3>3. L + 1 <= Len(image')
      BY <1>2, <1>13, <3>1
    <3>4. BundlesPlaced(bs, ds, L + 1)' /\ Covered(bs) = Len(ds)
      BY <1>1, <1>13, <2>1, <3>1, <3>2, <3>3, SealPlaced
    <3>5. \A i \in (L + 1)..at : i = L + 1 \/ i = at
      BY <1>2, <3>1
    <3> QED
      BY <1>3, <1>8, <1>13, <3>1, <3>2, <3>4, <3>5
  <2>2. CASE ~(OpenDocs > 0)
    <3>1. at = L + 1 /\ bs = bundles /\ at - 1 = L
      BY <1>2, <1>4, <1>6, <1>7, <2>2 DEF nbs
    <3>2. BundlesPlaced(bs, ds, L) /\ L \in 0..L
      BY <1>2, <3>1
    <3>3. BundlesPlaced(bs, ds, L)'
      BY <1>2, <1>13, <3>2, PlacedFrame
    <3>4. Covered(bs) = Len(ds)
      BY <1>3, <2>2, <3>1 DEF OpenDocs, Sealed
    <3>5. \A i \in (L + 1)..at : i = at
      BY <1>2, <3>1
    <3> QED
      BY <1>8, <1>13, <3>1, <3>3, <3>4, <3>5
  <2> QED
    BY <2>1, <2>2
<1>16. Finished(L, ds, bs, at)
  BY <1>1, <1>2, <1>4, <1>7, <1>13, <1>14, <1>15 DEF Finished
<1> QED
  BY <1>5, <1>16

LEMMA FinishKeeps == IInv /\ Finish => IInv'
<1> SUFFICES ASSUME IInv, Finish PROVE IInv'
  OBVIOUS
<1>1. PICK L, ds, b, at : L = Len(image) /\ ds = docs /\ b = base /\ at = pos' - 2
  OBVIOUS
<1>2. PICK bs \in Seq(BundleDesc) : Finished(L, ds, bs, at)
  BY <1>1, FinishImage
<1> USE DEF Finished
<1>a. /\ L \in Nat /\ at \in Nat /\ L < at /\ at <= L + 2 /\ Len(image') = at + 1
      /\ L \in 0..Len(image) /\ L <= Len(image') /\ at \in L..Len(image')
  <2>1. L \in Nat /\ at \in (L + 1)..(L + 2) /\ Len(image') = at + 1
    BY <1>2
  <2> QED
    BY <1>1, <2>1
<1>3. /\ pc = "body" /\ pc' = "flush" /\ rd' = rd
      /\ UNCHANGED <<flen, synced, pending, dpending, base, docs, seen, sessions, acked>>
  BY DEF Finish
<1> USE DEF IInv
<1>4. /\ image \in Seq(Cell) /\ ds \in Seq(DocEntry) /\ DOMAIN image' = 1..(at + 1)
      /\ flen \in 0..L /\ synced \in 0..flen
      /\ Guarded(b, L) /\ b <= synced /\ pending = b /\ dpending = b
  BY <1>1, <1>2, <1>3, LenProperties DEF TypeOK, AppenderInv, Writing
<1>5. TypeOK'
  <2>1. pos' \in Nat
    BY <1>2, <1>a
  <2>2. image' \in Seq(Cell) /\ bundles' \in Seq(BundleDesc) /\ flen' \in 0..Len(image')
    BY <1>2, <1>3, <1>4, <1>a
  <2> HIDE DEF Finished
  <2> QED
    BY <1>3, <2>1, <2>2 DEF TypeOK, AppenderState
<1>6. Readable(at + 1)'
  <2>1. image'[at + 1].t = "trailer" /\ image'[at + 1].tab = at
    BY <1>2, TrailerCell
  <2>2. Decodes(at + 1)'
    BY <1>2, <1>4, <2>1 DEF Decodes, IsTrailer
  <2>3. TableAt(at + 1)' = Table(ds, bs)
    BY <1>2, <2>1 DEF TableAt
  <2>4. Table(ds, bs).t = "table" /\ Table(ds, bs).docs = ds /\ Table(ds, bs).bundles = bs
    BY <1>4, TableCell
  <2> QED
    BY <1>2, <2>1, <2>2, <2>3, <2>4 DEF Readable, Opens
<1>7. IsTrailer(at + 1)' /\ \A o \in (L + 1)..at : ~IsTrailer(o)'
  BY <1>2, <1>4, TrailerCell DEF IsTrailer
<1>8. TrailersReadable'
  <2>1. \A o \in (L + 1)..Len(image') : IsTrailer(o)' => Readable(o)'
    <3>1. \A o \in (L + 1)..Len(image') : o \in (L + 1)..at \/ o = at + 1
      BY <1>2
    <3> QED
      BY <1>6, <1>7, <3>1
  <2> QED
    BY <1>2, <1>4, <1>a, <2>1, TrailersFrame
<1>9. Guarded(b, at)'
  BY <1>2, <1>4, <1>7, <1>a, GuardedFrame
<1>10. \A n \in synced..(at + 1) : Anchored(b, n)'
  <2> SUFFICES ASSUME NEW n \in synced..(at + 1) PROVE Anchored(b, n)'
    OBVIOUS
  <2>1. CASE n = at + 1
    BY <1>2, <1>7, <2>1 DEF Anchored
  <2>2. CASE n <= at
    <3>1. Guarded(b, n)'
      BY <1>2, <1>4, <1>9, <2>2 DEF Guarded, NoTrailerAfter
    <3> QED
      BY <3>1 DEF Anchored
  <2>3. n <= at \/ n = at + 1
    BY <1>2, <1>4
  <2> QED
    BY <2>1, <2>2, <2>3
<1>11. HeaderGuards' /\ DiskGuards'
  BY <1>2, <1>3, <1>4, <1>10 DEF HeaderGuards, DiskGuards
<1>12. ReadersInv'
  <2>1. \A r \in Readers : rd[r].st = "open" => rd[r].off \in 1..flen
    BY DEF ReadersInv
  <2>2. /\ flen \in 0..Len(image) /\ flen <= Len(image') /\ flen <= flen' /\ flen' \in Nat
    BY <1>1, <1>3, <1>4, <1>a
  <2>3. \A i \in 1..flen : image'[i] = image[i]
    BY <1>2, <1>4, <1>a
  <2> QED
    BY <1>2, <1>3, <1>4, <2>1, <2>2, <2>3, ReadersFrame
<1>13. AppenderInv'
  BY <1>2, <1>3, <1>7 DEF AppenderInv
<1> QED
  BY <1>5, <1>8, <1>11, <1>12, <1>13

-----------------------------------------------------------------------------
(* Cutting the file: the truncation of an abandoned tail, and failures.    *)

LEMMA CutImage ==
  ASSUME image \in Seq(Cell), NEW n \in 0..Len(image), NEW torn \in BOOLEAN, Cut(n, torn)
  PROVE  /\ image' \in Seq(Cell) /\ n \in Nat /\ Len(image) \in Nat
         /\ Len(image') = flen' /\ flen' \in Nat /\ n <= flen' /\ flen' <= Len(image)
         /\ flen' = IF torn THEN n + 1 ELSE n
         /\ torn => n < Len(image)
         /\ \A i \in 1..n : image'[i] = image[i]
         /\ \A o \in (n + 1)..flen' : ~IsTrailer(o)'
<1>1. Len(image) \in Nat /\ n \in Nat /\ n <= Len(image)
      /\ \A i \in 1..Len(image) : image[i] \in Cell
  BY CellAt
<1>2. PICK head, tail : head = SubSeq(image, 1, n) /\ tail = IF torn THEN <<Torn>> ELSE <<>>
  OBVIOUS
<1>3. /\ head \in Seq(Cell) /\ Len(head) = n
      /\ \A i \in 1..n : head[i] = image[i]
  <2>1. \A i \in 1..n : image[i] \in Cell
    BY <1>1
  <2>2. /\ SubSeq(image, 1, n) \in Seq(Cell)
        /\ Len(SubSeq(image, 1, n)) = IF 1 <= n THEN n - 1 + 1 ELSE 0
        /\ \A i \in 1..(n - 1 + 1) : SubSeq(image, 1, n)[i] = image[1 + i - 1]
    BY <1>1, <2>1, SubSeqProperties
  <2>3. \A i \in 1..n : i \in 1..(n - 1 + 1) /\ 1 + i - 1 = i
    BY <1>1
  <2> QED
    BY <1>1, <1>2, <2>2, <2>3
<1>4. /\ tail \in Seq(Cell) /\ Len(tail) = (IF torn THEN 1 ELSE 0)
      /\ torn => tail[1] = Torn
  BY <1>2, TornCell
<1>5. /\ head \o tail \in Seq(Cell) /\ Len(head \o tail) = Len(head) + Len(tail)
      /\ \A i \in 1..Len(head) : (head \o tail)[i] = head[i]
      /\ \A i \in 1..Len(tail) : (head \o tail)[Len(head) + i] = tail[i]
  <2>1. head \in Seq(Cell) /\ tail \in Seq(Cell)
    BY <1>3, <1>4
  <2> QED
    BY <2>1, Concatenation
<1>6. image' = head \o tail /\ flen' = (IF torn THEN n + 1 ELSE n)
      /\ (torn => n < Len(image))
  BY <1>2 DEF Cut
<1>7. /\ image' \in Seq(Cell) /\ Len(image') = flen' /\ flen' \in Nat /\ n <= flen'
      /\ flen' <= Len(image)
  BY <1>1, <1>3, <1>4, <1>5, <1>6
<1>8. \A i \in 1..n : image'[i] = image[i]
  BY <1>3, <1>5, <1>6
<1>9. ASSUME NEW o \in (n + 1)..flen' PROVE ~IsTrailer(o)'
  <2>1. torn /\ o = n + 1
    BY <1>1, <1>6
  <2>2. Len(tail) = 1 /\ 1 \in 1..1
    BY <1>4, <2>1
  <2>3. image'[n + 1] = Torn
    BY <1>3, <1>4, <1>5, <1>6, <2>1, <2>2
  <2> QED
    BY <2>1, <2>3, TornCell DEF IsTrailer
<1> QED
  BY <1>1, <1>6, <1>7, <1>8, <1>9

(* Every trailer that survives is readable; a cut that was anchored still  *)
(* is, and so is the file the cut leaves.                                  *)
LEMMA CutAnchors ==
  ASSUME image \in Seq(Cell), TrailersReadable,
         NEW n \in 0..Len(image), NEW torn \in BOOLEAN, Cut(n, torn), NEW k, k = flen'
  PROVE  /\ TrailersReadable'
         /\ \A m \in 0..n : \A p : Anchored(p, m) => Anchored(p, m)'
         /\ \A p : Anchored(p, n) => Anchored(p, k)'
<1>1. /\ image' \in Seq(Cell) /\ n \in Nat /\ Len(image) \in Nat
      /\ Len(image') = flen' /\ flen' \in Nat /\ n <= flen' /\ flen' <= Len(image)
      /\ flen' = (IF torn THEN n + 1 ELSE n)
      /\ torn => n < Len(image)
      /\ \A i \in 1..n : image'[i] = image[i]
      /\ \A o \in (n + 1)..flen' : ~IsTrailer(o)'
  BY CutImage
<1>2. TrailersReadable'
  BY <1>1, TrailersFrame
<1>3. \A o \in 1..n : IsTrailer(o) => IsTrailer(o)'
  BY <1>1, LenProperties DEF IsTrailer
<1>4. ASSUME NEW m \in 0..n, NEW p, Anchored(p, m) PROVE Anchored(p, m)'
  <2>1. CASE Guarded(p, m)
    <3>1. /\ m \in 0..Len(image) /\ m <= Len(image') /\ m \in m..Len(image')
          /\ \A i \in 1..m : image'[i] = image[i]
          /\ \A o \in (m + 1)..m : ~IsTrailer(o)'
      BY <1>1
    <3>2. Guarded(p, m)'
      BY <1>1, <2>1, <3>1, GuardedFrame
    <3> QED
      BY <3>2 DEF Anchored
  <2>2. CASE m = Len(image) /\ IsTrailer(m)
    <3>1. m = n /\ ~torn /\ m = Len(image')
      BY <1>1, <2>2
    <3>2. m \in 1..n
      BY <1>1, <2>2, <3>1, CellAt DEF IsTrailer
    <3> QED
      BY <1>3, <2>2, <3>1, <3>2 DEF Anchored
  <2> QED
    BY <1>4, <2>1, <2>2 DEF Anchored
<1>5. ASSUME NEW p, Anchored(p, n) PROVE Anchored(p, k)'
  <2>1. CASE Guarded(p, n)
    <3>1. n <= Len(image') /\ k \in n..Len(image') /\ k = Len(image')
          /\ \A o \in (n + 1)..k : ~IsTrailer(o)'
      BY <1>1
    <3>2. Guarded(p, k)'
      BY <1>1, <2>1, <3>1, GuardedFrame
    <3> QED
      BY <3>2 DEF Anchored
  <2>2. CASE n = Len(image) /\ IsTrailer(n)
    <3>1. k = n /\ n \in 0..n
      BY <1>1, <2>2
    <3>2. Anchored(p, n)'
      BY <1>4, <1>5, <3>1
    <3> QED
      BY <3>1, <3>2
  <2> QED
    BY <1>5, <2>1, <2>2 DEF Anchored
<1> QED
  BY <1>2, <1>4, <1>5

LEMMA TruncateKeeps == IInv /\ Truncate => IInv'
<1> SUFFICES ASSUME IInv, Truncate PROVE IInv'
  OBVIOUS
<1>1. PICK b, ds, bs : b = base /\ ds = docs /\ bs = bundles
  OBVIOUS
<1>2. /\ pc = "stageSynced" /\ Cut(b, FALSE) /\ synced' = b /\ pc' = "body" /\ rd' = rd
      /\ UNCHANGED <<pending, dpending, writerVars, sessions, acked>>
  BY <1>1 DEF Truncate
<1> USE DEF IInv
<1>3. /\ Guarded(b, Len(image)) /\ ds = TableAt(b).docs /\ bs = TableAt(b).bundles
      /\ pos = b + 1 /\ pending = b /\ dpending = b /\ image \in Seq(Cell)
  BY <1>1, <1>2 DEF AppenderInv, Loaded, TypeOK
<1>4. b \in 0..Len(image) /\ b \in 1..Len(image) /\ IsTrailer(b)
  BY <1>3, CellAt DEF Guarded
<1>5. /\ image' \in Seq(Cell) /\ b \in Nat /\ Len(image) \in Nat
      /\ Len(image') = flen' /\ flen' = b
      /\ \A i \in 1..b : image'[i] = image[i]
  BY <1>2, <1>3, <1>4, CutImage
<1>6. TrailersReadable'
  BY <1>2, <1>3, <1>4, CutAnchors
<1>7. Guarded(b, b)'
  <2>1. Guarded(b, b)
    BY <1>3, <1>4, <1>5 DEF Guarded, NoTrailerAfter
  <2>2. b <= Len(image') /\ b \in b..Len(image') /\ \A o \in (b + 1)..b : ~IsTrailer(o)'
    BY <1>5
  <2> QED
    BY <1>3, <1>4, <1>5, <2>1, <2>2, GuardedFrame
<1>8. HeaderGuards' /\ DiskGuards'
  BY <1>2, <1>3, <1>5, <1>7 DEF HeaderGuards, DiskGuards, Anchored
<1>9. TypeOK'
  BY <1>2, <1>5 DEF TypeOK, AppenderState, writerVars
<1>10. ReadersInv'
  <2>1. \A r \in Readers : rd[r].st = "open" => rd[r].off \in 1..b
    <3> SUFFICES ASSUME NEW r \in Readers, rd[r].st = "open" PROVE rd[r].off \in 1..b
      OBVIOUS
    <3>1. rd[r].off \in 1..flen /\ IsTrailer(rd[r].off) /\ flen = Len(image)
      BY <1>2 DEF ReadersInv, AppenderInv
    <3> QED
      BY <1>3, <1>5, <3>1 DEF Guarded, NoTrailerAfter
  <2>2. b <= Len(image') /\ b <= flen' /\ flen' \in Nat
    BY <1>5
  <2> QED
    BY <1>2, <1>3, <1>4, <1>5, <2>1, <2>2, ReadersFrame
<1>11. Writing'
  <2>1. Readable(b) /\ Decodes(b)
    BY <1>4, TrailersDecode
  <2>2. PICK t : t = image[b].tab - 1
    OBVIOUS
  <2>3. DocsPlaced(ds, t) /\ BundlesPlaced(bs, ds, t)
    BY <1>3, <2>1, <2>2 DEF Readable
  <2>4. t \in 0..b /\ \A i \in 1..t : image'[i] = image[i]
    BY <1>3, <1>5, <2>1, <2>2, DecodesAt
  <2>5. DocsPlaced(ds, b)' /\ BundlesPlaced(bs, ds, b)'
    <3>1. DocsPlaced(ds, b)'
      BY <1>5, <2>3, <2>4, PlacedFrame
    <3>2. BundlesPlaced(bs, ds, b)'
      BY <1>5, <2>3, <2>4, PlacedFrame
    <3> QED
      BY <3>1, <3>2
  <2>6. docs' = ds /\ bundles' = bs /\ base' = b /\ pos' = Len(image') + 1
        /\ Len(image') = b /\ pending' = b /\ dpending' = b /\ b <= synced'
    BY <1>1, <1>2, <1>3, <1>5 DEF writerVars
  <2>7. Guarded(base, Len(image))'
    BY <1>7, <2>6 DEF Guarded
  <2> QED
    BY <2>5, <2>6, <2>7 DEF Writing
<1>12. AppenderInv'
  BY <1>2, <1>11 DEF AppenderInv, writerVars
<1> QED
  BY <1>6, <1>8, <1>9, <1>10, <1>12

(* A writer that is gone has no part in the invariant.                     *)
LEMMA Dropped ==
  ASSUME DropWriter, flen' = Len(image')
  PROVE  AppenderInv'
  BY DEF DropWriter, AppenderInv

LEMMA StopKeeps == IInv /\ Stop => IInv'
<1> SUFFICES ASSUME IInv, Stop PROVE IInv'
  OBVIOUS
<1>1. PICK n \in flen..Len(image), torn \in BOOLEAN : Cut(n, torn)
  BY DEF Stop
<1>2. DropWriter /\ rd' = rd /\ UNCHANGED <<synced, pending, dpending, sessions, acked>>
  BY DEF Stop
<1>3. PICK k : k = flen'
  OBVIOUS
<1> USE DEF IInv
<1>4. /\ image \in Seq(Cell) /\ n \in 0..Len(image) /\ flen \in 0..n /\ synced \in 0..flen
      /\ Len(image) \in Nat
  BY CellAt DEF TypeOK
<1>5. /\ image' \in Seq(Cell) /\ n \in Nat
      /\ Len(image') = k /\ k \in Nat /\ n <= k
      /\ k = (IF torn THEN n + 1 ELSE n)
      /\ \A i \in 1..n : image'[i] = image[i]
  BY <1>1, <1>3, <1>4, CutImage
<1>6. /\ TrailersReadable'
      /\ \A m \in 0..n : \A p : Anchored(p, m) => Anchored(p, m)'
      /\ \A p : Anchored(p, n) => Anchored(p, k)'
  BY <1>1, <1>3, <1>4, CutAnchors
<1>7. TypeOK'
  BY <1>2, <1>3, <1>4, <1>5 DEF TypeOK, DropWriter, AppenderState
<1>8. HeaderGuards'
  <2>1. PICK p : p = pending
    OBVIOUS
  <2>2. Anchored(p, n)
    BY <2>1 DEF HeaderGuards
  <2>3. Anchored(p, k)'
    BY <1>6, <2>2
  <2>4. pending' = p /\ flen' = k /\ Len(image') = k
    BY <1>2, <1>3, <1>5, <2>1
  <2> QED
    BY <1>5, <2>3, <2>4 DEF HeaderGuards
<1>9. DiskGuards'
  <2>1. PICK p, d : p = pending /\ d = dpending
    OBVIOUS
  <2>2. ASSUME NEW m \in synced..k
        PROVE  Anchored(d, m)' /\ (p <= synced => Anchored(p, m)')
    <3>1. CASE m <= n
      <4>1. m \in synced..Len(image) /\ m \in 0..n
        BY <1>4, <1>5, <3>1
      <4>2. Anchored(d, m) /\ (p <= synced => Anchored(p, m))
        BY <2>1, <4>1 DEF DiskGuards
      <4> QED
        BY <1>6, <4>1, <4>2
    <3>2. CASE m > n
      <4>1. m = k /\ n \in synced..Len(image)
        BY <1>4, <1>5, <3>2
      <4>2. Anchored(d, n) /\ (p <= synced => Anchored(p, n))
        BY <2>1, <4>1 DEF DiskGuards
      <4> QED
        BY <1>6, <4>1, <4>2
    <3> QED
      BY <1>4, <1>5, <3>1, <3>2
  <2>3. pending' = p /\ dpending' = d /\ synced' = synced /\ Len(image') = k
    BY <1>2, <1>5, <2>1
  <2> QED
    BY <2>2, <2>3 DEF DiskGuards
<1>10. AppenderInv'
  BY <1>2, <1>3, <1>5, Dropped
<1>11. ReadersInv'
  <2>1. \A r \in Readers : rd[r].st = "open" => rd[r].off \in 1..n
    BY <1>4 DEF ReadersInv
  <2>2. n <= Len(image') /\ n <= flen' /\ flen' \in Nat
    BY <1>3, <1>5
  <2> QED
    BY <1>2, <1>4, <1>5, <2>1, <2>2, ReadersFrame
<1> QED
  BY <1>6, <1>7, <1>8, <1>9, <1>10, <1>11

LEMMA PowerLossKeeps == IInv /\ PowerLoss => IInv'
<1> SUFFICES ASSUME IInv, PowerLoss PROVE IInv'
  OBVIOUS
<1>1. PICK n \in synced..flen, torn \in BOOLEAN : Cut(n, torn) /\ synced' = flen'
  BY DEF PowerLoss
<1>2. /\ pending' = dpending \/ (HeaderMayPersist /\ pending' = pending)
      /\ dpending' = pending'
      /\ DropWriter /\ rd' = [r \in Readers |-> ReaderIdle]
      /\ UNCHANGED <<sessions, acked>>
  BY DEF PowerLoss
<1>3. PICK k, p : k = flen' /\ p = pending'
  OBVIOUS
<1> USE DEF IInv
<1>4. image \in Seq(Cell) /\ n \in 0..Len(image) /\ n \in synced..Len(image)
  BY CellAt DEF TypeOK
<1>5. /\ image' \in Seq(Cell) /\ Len(image') = k /\ k \in Nat
  BY <1>1, <1>3, <1>4, CutImage
<1>6. TrailersReadable' /\ (Anchored(p, n) => Anchored(p, k)')
  BY <1>1, <1>3, <1>4, CutAnchors
<1>7. Anchored(p, n)
  BY <1>2, <1>3, <1>4 DEF DiskGuards
<1>8. pending' = p /\ dpending' = p /\ flen' = k /\ synced' = k
  BY <1>1, <1>2, <1>3
<1>9. HeaderGuards' /\ DiskGuards'
  BY <1>5, <1>6, <1>7, <1>8 DEF HeaderGuards, DiskGuards
<1>10. TypeOK'
  <2>1. ReaderIdle \in ReaderRec
    BY DEF ReaderIdle, ReaderRec, ReaderState
  <2>2. p \in Nat
    BY <1>2, <1>3 DEF TypeOK
  <2> QED
    BY <1>2, <1>5, <1>8, <2>1, <2>2 DEF TypeOK, DropWriter, AppenderState
<1>11. AppenderInv'
  BY <1>2, <1>5, <1>8, Dropped
<1>12. ReadersInv'
  BY <1>2 DEF ReadersInv, ReaderIdle
<1> QED
  BY <1>6, <1>9, <1>10, <1>11, <1>12

-----------------------------------------------------------------------------
(* Readers.                                                                *)

LEMMA ReaderMoves ==
  ASSUME IInv, NEW r \in Readers, NEW x \in ReaderRec,
         x.st = "open" => /\ x.off \in 1..flen
                          /\ IsTrailer(x.off)
                          /\ KeysAt(x.off) = x.snap,
         rd' = [rd EXCEPT ![r] = x],
         UNCHANGED <<fileVars, pc, writerVars, sessions, acked>>
  PROVE  IInv'
<1> USE DEF IInv
<1>1. /\ UNCHANGED <<image, flen, synced, pending, dpending, pc, base, pos, docs,
                     bundles, seen, sessions, acked>>
  BY DEF fileVars, writerVars
<1>2. rd \in [Readers -> ReaderRec] /\ rd'[r] = x
      /\ \A q \in Readers : q # r => rd'[q] = rd[q]
  BY DEF TypeOK
<1>3. TypeOK'
  BY <1>1, <1>2 DEF TypeOK
<1>4. TrailersReadable' /\ HeaderGuards' /\ DiskGuards'
  BY <1>1, SameTrailers, SameImage DEF HeaderGuards, DiskGuards
<1>5. AppenderInv'
  BY <1>1, SameImage DEF AppenderInv, Loaded, Writing
<1>6. ReadersInv'
  <2> SUFFICES ASSUME NEW q \in Readers, rd'[q].st = "open"
               PROVE  /\ rd'[q].off \in 1..flen
                      /\ IsTrailer(rd[q].off)'
                      /\ KeysAt(rd[q].off)' = rd'[q].snap
    BY <1>1 DEF ReadersInv
  <2>1. PICK o : o = rd'[q].off
    OBVIOUS
  <2>2. o \in 1..flen /\ IsTrailer(o) /\ KeysAt(o) = rd'[q].snap
    BY <1>2, <2>1 DEF ReadersInv
  <2>3. IsTrailer(o)' /\ KeysAt(o)' = KeysAt(o)
    <3>1. image' = image
      BY <1>1
    <3> QED
      BY <2>2, <3>1, SameImage
  <2> QED
    BY <2>1, <2>2, <2>3 DEF IsTrailer, KeysAt, Opens, Decodes, TableAt
<1> QED
  BY <1>3, <1>4, <1>5, <1>6

LEMMA ReadTrailerKeeps ==
  ASSUME IInv, NEW r \in Readers, NEW o \in Nat, NEW invalid \in ReaderRec,
         invalid.st # "open", rd[r].st # "open",
         ReadTrailerAt(r, o, invalid),
         UNCHANGED <<fileVars, pc, writerVars, sessions, acked>>
  PROVE  IInv'
<1>1. rd[r] \in ReaderRec /\ image \in Seq(Cell) /\ flen \in 0..Len(image)
  BY DEF IInv, TypeOK
<1>2. CASE o <= flen /\ Decodes(o) /\ rd' = [rd EXCEPT ![r] = Opened(r, o)]
  <2>1. o \in 1..flen /\ IsTrailer(o)
    BY <1>2, DecodesAt, <1>1 DEF Decodes
  <2>2. Opens(o) /\ KeysAt(o) \in Seq(Keys)
    BY <1>1, <2>1, TrailersDecode, ReadableTables DEF IInv
  <2>3. Opened(r, o) = [rd[r] EXCEPT !.st = "open", !.off = o, !.snap = KeysAt(o)]
    BY <2>2 DEF Opened
  <2>4. /\ Opened(r, o) \in ReaderRec
        /\ Opened(r, o).off = o /\ Opened(r, o).snap = KeysAt(o)
    BY <1>1, <2>2, <2>3 DEF ReaderRec, ReaderState
  <2> QED
    BY <1>2, <2>1, <2>4, ReaderMoves
<1>3. CASE rd' = [rd EXCEPT ![r] = invalid]
  BY <1>3, ReaderMoves
<1>4. CASE rd' = [rd EXCEPT ![r] = [rd[r] EXCEPT !.st = "fault"]]
  <2>1. PICK x : x = [rd[r] EXCEPT !.st = "fault"]
    OBVIOUS
  <2>2. x \in ReaderRec /\ x.st = "fault"
    BY <1>1, <2>1 DEF ReaderRec, ReaderState
  <2> QED
    BY <1>4, <2>1, <2>2, ReaderMoves
<1> QED
  BY <1>2, <1>3, <1>4 DEF ReadTrailerAt

LEMMA ReaderKeeps == ASSUME NEW r \in Readers PROVE IInv /\ Reader(r) => IInv'
<1> SUFFICES ASSUME IInv, Reader(r) PROVE IInv'
  OBVIOUS
<1>1. UNCHANGED <<fileVars, pc, writerVars, sessions, acked>>
  BY DEF Reader, MapFile, ReadHeader, ReadTail, ReadFallback, CloseReader
<1>2. /\ rd[r] \in ReaderRec /\ flen \in Nat /\ pending \in Nat /\ acked \in Seq(Keys)
      /\ rd[r].len \in Nat /\ rd[r].pend \in Nat
  BY CellAt DEF IInv, TypeOK, ReaderRec
<1>3. ReaderIdle \in ReaderRec /\ ReaderIdle.st = "idle"
  BY DEF ReaderIdle, ReaderRec, ReaderState
<1>4. CASE MapFile(r)
  <2>1. PICK x : x = [ReaderIdle EXCEPT !.st = "mapped", !.len = flen, !.ack = acked]
    OBVIOUS
  <2>2. x \in ReaderRec /\ x.st = "mapped"
    BY <1>2, <1>3, <2>1 DEF ReaderRec, ReaderState
  <2> QED
    BY <1>1, <1>4, <2>1, <2>2, ReaderMoves DEF MapFile
<1>5. CASE ReadHeader(r)
  <2>1. PICK x : x = [rd[r] EXCEPT !.st = "header", !.pend = pending]
    OBVIOUS
  <2>2. x \in ReaderRec /\ x.st = "header"
    BY <1>2, <2>1 DEF ReaderRec, ReaderState
  <2>3. rd' = [rd EXCEPT ![r] = x]
    BY <1>2, <1>5, <2>1 DEF ReadHeader, ReaderRec, IInv, TypeOK
  <2> QED
    BY <1>1, <2>2, <2>3, ReaderMoves
<1>6. CASE ReadTail(r)
  <2>1. PICK x : x = [rd[r] EXCEPT !.st = "fallback"]
    OBVIOUS
  <2>2. x \in ReaderRec /\ x.st = "fallback"
    BY <1>2, <2>1 DEF ReaderRec, ReaderState
  <2>3. rd[r].st = "header" /\ ReadTrailerAt(r, rd[r].len, x)
    BY <1>6, <2>1 DEF ReadTail
  <2> QED
    BY <1>1, <1>2, <2>2, <2>3, ReadTrailerKeeps
<1>7. CASE ReadFallback(r)
  <2>1. PICK x : x = [rd[r] EXCEPT !.st = "failed"]
    OBVIOUS
  <2>2. x \in ReaderRec /\ x.st = "failed"
    BY <1>2, <2>1 DEF ReaderRec, ReaderState
  <2>3. rd[r].st = "fallback"
        /\ (ReadTrailerAt(r, rd[r].pend, x) \/ rd' = [rd EXCEPT ![r] = x])
    BY <1>7, <2>1 DEF ReadFallback
  <2>4. CASE ReadTrailerAt(r, rd[r].pend, x)
    BY <1>1, <1>2, <2>2, <2>3, <2>4, ReadTrailerKeeps
  <2>5. CASE rd' = [rd EXCEPT ![r] = x]
    BY <1>1, <2>2, <2>5, ReaderMoves
  <2> QED
    BY <2>3, <2>4, <2>5
<1>8. CASE CloseReader(r)
  BY <1>1, <1>3, <1>8, ReaderMoves DEF CloseReader
<1> QED
  BY <1>4, <1>5, <1>6, <1>7, <1>8 DEF Reader

-----------------------------------------------------------------------------
(* The theorems.                                                           *)

LEMMA StepKeeps == IInv /\ [Next]_vars => IInv'
<1> SUFFICES ASSUME IInv, [Next]_vars PROVE IInv'
  OBVIOUS
<1>1. CASE Appender
  BY <1>1, OpenAppendKeeps, StageHeaderKeeps, SyncStageKeeps, TruncateKeeps, PushKeeps,
     SealBundleKeeps, FinishKeeps, FlushKeeps, SyncTailKeeps, ClearHeaderKeeps,
     SyncClearKeeps
  DEF Appender
<1>2. CASE Failure
  BY <1>2, StopKeeps, WritebackKeeps, PowerLossKeeps DEF Failure
<1>3. CASE \E r \in Readers : Reader(r)
  BY <1>3, ReaderKeeps
<1>4. CASE UNCHANGED vars
  <2>1. UNCHANGED <<image, flen, synced, pending, dpending, pc, base, pos, docs,
                    bundles, seen, sessions, acked, rd>>
    BY <1>4 DEF vars, fileVars, writerVars
  <2> USE DEF IInv
  <2>2. TypeOK'
    BY <2>1 DEF TypeOK
  <2>3. TrailersReadable' /\ HeaderGuards' /\ DiskGuards'
    BY <2>1, SameTrailers, SameImage DEF HeaderGuards, DiskGuards
  <2>4. AppenderInv'
    BY <2>1, SameImage DEF AppenderInv, Loaded, Writing
  <2>5. ReadersInv'
    BY <2>1, SameReaders, CellAt DEF TypeOK
  <2> QED
    BY <2>2, <2>3, <2>4, <2>5
<1> QED
  BY <1>1, <1>2, <1>3, <1>4 DEF Next

(* The invariant holds for any keys, readers and number of appends.        *)
THEOREM InvariantHolds == Spec => []IInv
  BY Initially, StepKeeps, PTL DEF Spec

(* Type correctness.                                                       *)
THEOREM TypeCorrect == Spec => []TypeOK
<1>1. IInv => TypeOK
  BY DEF IInv
<1> QED
  BY <1>1, InvariantHolds, PTL

(* Wherever an append is interrupted, Trailer::select finds a complete     *)
(* footer whose documents and string blocks are where it says.             *)
THEOREM AlwaysRecoverable == Spec => []Recoverable
<1>1. IInv => Recoverable
  <2> SUFFICES ASSUME IInv PROVE Recoverable
    OBVIOUS
  <2>1. image \in Seq(Cell) /\ flen \in Nat /\ flen <= Len(image) /\ TrailersReadable
    BY CellAt DEF IInv, TypeOK
  <2>2. Anchored(pending, flen)
    BY <2>1, CellAt DEF IInv, HeaderGuards
  <2> QED
    BY <2>1, <2>2, SelectLast DEF Recoverable
<1> QED
  BY <1>1, InvariantHolds, PTL

(* The same of what a power loss leaves on the disk.                       *)
THEOREM AlwaysDurablyRecoverable == Spec => []DurablyRecoverable
<1>1. IInv => DurablyRecoverable
  <2> SUFFICES ASSUME IInv PROVE DurablyRecoverable
    OBVIOUS
  <2>1. image \in Seq(Cell) /\ synced \in Nat /\ synced <= Len(image) /\ TrailersReadable
    BY CellAt DEF IInv, TypeOK
  <2>2. /\ Anchored(dpending, synced)
        /\ HeaderMayPersist => Anchored(pending, synced)
    BY <2>1, CellAt DEF IInv, DiskGuards
  <2> QED
    BY <2>1, <2>2, SelectLast DEF DurablyRecoverable
<1> QED
  BY <1>1, InvariantHolds, PTL

(* The documents a reader opened stay where it found them, whatever        *)
(* appends, recoveries and crashes follow.                                 *)
THEOREM OpenReadersStable == Spec => []ReadersStable
<1>1. IInv => ReadersStable
  <2> SUFFICES ASSUME IInv, NEW r \in Readers, rd[r].st = "open"
               PROVE  /\ rd[r].off <= flen
                      /\ Readable(rd[r].off)
                      /\ KeysAt(rd[r].off) = rd[r].snap
    BY DEF ReadersStable
  <2>1. rd[r].off \in 1..flen /\ IsTrailer(rd[r].off) /\ KeysAt(rd[r].off) = rd[r].snap
    BY DEF IInv, ReadersInv
  <2>2. flen \in Nat
    BY CellAt DEF IInv, TypeOK
  <2> QED
    BY <2>1, <2>2, TrailersDecode DEF IInv
<1> QED
  BY <1>1, InvariantHolds, PTL

-----------------------------------------------------------------------------
(* What appends promise their callers: a commit that returned stays, a     *)
(* reader sees what was committed before it came, and the file implements  *)
(* ArchiveStore.                                                           *)

(* Key sequences.                                                          *)

LEMMA PrefixOf ==
  ASSUME NEW a \in Seq(Keys), NEW b \in Seq(Keys), NEW c \in Seq(Keys)
  PROVE  /\ Prefix(a, a)
         /\ Prefix(<<>>, a)
         /\ Prefix(a, b) /\ Prefix(b, c) => Prefix(a, c)
<1>1. /\ Len(a) \in Nat /\ Len(b) \in Nat /\ Len(c) \in Nat
      /\ DOMAIN a = 1..Len(a) /\ DOMAIN b = 1..Len(b)
  BY LenProperties
<1>2. Prefix(a, a) /\ Prefix(<<>>, a)
  BY <1>1 DEF Prefix
<1>3. ASSUME Prefix(a, b), Prefix(b, c) PROVE Prefix(a, c)
  BY <1>1, <1>3 DEF Prefix
<1> QED
  BY <1>2, <1>3

LEMMA KeysOfTable ==
  ASSUME NEW ds \in Seq(DocEntry)
  PROVE  /\ KeysOf(ds) \in Seq(Keys)
         /\ Len(ds) \in Nat /\ DOMAIN ds = 1..Len(ds)
         /\ Len(KeysOf(ds)) = Len(ds) /\ DOMAIN KeysOf(ds) = 1..Len(ds)
         /\ \A i \in 1..Len(ds) : KeysOf(ds)[i] = ds[i].key
<1>1. /\ DOMAIN ds = 1..Len(ds) /\ Len(ds) \in Nat
      /\ \A i \in 1..Len(ds) : ds[i] \in DocEntry
  BY LenProperties, ElementOfSeq
<1>2. KeysOf(ds) \in [1..Len(ds) -> Keys]
  BY <1>1 DEF KeysOf, DocEntry
<1>3. KeysOf(ds) \in Seq(Keys) /\ Len(KeysOf(ds)) = Len(ds)
  BY <1>1, <1>2
<1> QED
  BY <1>1, <1>2, <1>3 DEF KeysOf

(* A trailer of the file, and the keys of the tables it locates.           *)
LEMMA TrailerKeys ==
  ASSUME IInv, NEW o, IsTrailer(o)
  PROVE  /\ o \in 1..Len(image) /\ o \in Nat
         /\ Opens(o) /\ KeysAt(o) = KeysOf(TableAt(o).docs)
         /\ KeysAt(o) \in Seq(Keys)
<1>1. image \in Seq(Cell) /\ Readable(o) /\ Opens(o)
  BY TrailersDecode DEF IInv, TypeOK
<1>2. o \in 1..Len(image) /\ Len(image) \in Nat
  BY <1>1, CellAt DEF IsTrailer
<1> QED
  BY <1>1, <1>2, ReadableTables DEF KeysAt

-----------------------------------------------------------------------------
(* A step after which no trailer is new.                                   *)

(* The trailers are those of before, or fewer, with the same keys; what    *)
(* survives a power loss now survived it before.                           *)
NoNewTrailer ==
  /\ \A o : IsTrailer(o)' => IsTrailer(o) /\ KeysAt(o)' = KeysAt(o)
  /\ \A o : IsTrailer(o)' /\ NoTrailerAfter(o, synced)' => NoTrailerAfter(o, synced)
  /\ \A o : IsTrailer(o)' /\ o > synced' => o > synced

LEMMA TrailersKept ==
  ASSUME IInv, IInv', CommitInv, NoNewTrailer
  PROVE  /\ TrailersGrow' /\ OneUnsynced'
         /\ acked' = acked => CommitKept'
         /\ \A ks, o : Kept(ks, o) => Kept(ks, o)'
<1>1. \A o : IsTrailer(o)' => o \in DOMAIN image
  BY DEF NoNewTrailer, IsTrailer
<1>2. TrailersGrow'
  BY <1>1 DEF CommitInv, NoNewTrailer, TrailersGrow
<1>3. OneUnsynced'
  <2>0. synced' \in Nat /\ Len(image') \in Nat
    BY LenProperties DEF IInv, TypeOK
  <2>1. PICK n \in Nat, s \in Nat : n = Len(image') /\ s = synced'
    BY <2>0
  <2>2. Len(image) \in Nat /\ synced \in Nat /\ DOMAIN image = 1..Len(image)
    BY CellAt DEF IInv, TypeOK
  <2>3. ASSUME NEW o \in (s + 1)..n, IsTrailer(o)'
        PROVE  IsTrailer(o) /\ o \in (synced + 1)..Len(image)
    <3>0. o > s
      OBVIOUS
    <3>1. IsTrailer(o) /\ o > synced
      BY <2>1, <2>3, <3>0 DEF NoNewTrailer
    <3>2. o \in 1..Len(image)
      BY <2>2, <3>1 DEF IsTrailer
    <3> QED
      BY <2>2, <3>1, <3>2
  <2> QED
    BY <2>1, <2>3 DEF CommitInv, OneUnsynced
<1>4. acked' = acked => CommitKept'
  BY <1>1 DEF CommitInv, NoNewTrailer, CommitKept
<1>5. ASSUME NEW ks, NEW o, Kept(ks, o) PROVE Kept(ks, o)'
  BY <1>1, <1>5 DEF NoNewTrailer, Kept
<1> QED
  BY <1>2, <1>3, <1>4, <1>5

(* Nothing up to the synced cells changed, and no trailer came after them. *)
LEMMA PrefixKept ==
  ASSUME IInv, image' \in Seq(Cell), synced' \in Nat, synced <= synced',
         NEW m \in synced..Len(image), m <= Len(image'),
         \A i \in 1..m : image'[i] = image[i],
         \A o \in (m + 1)..Len(image') : ~IsTrailer(o)'
  PROVE  NoNewTrailer
<1>1. /\ image \in Seq(Cell) /\ Len(image) \in Nat /\ Len(image') \in Nat
      /\ DOMAIN image' = 1..Len(image') /\ DOMAIN image = 1..Len(image) /\ synced \in Nat
  BY CellAt, LenProperties DEF IInv, TypeOK
<1>2. ASSUME NEW o, IsTrailer(o)'
      PROVE  o \in 1..m /\ IsTrailer(o) /\ KeysAt(o)' = KeysAt(o)
  <2>1. o \in 1..Len(image')
    BY <1>1, <1>2 DEF IsTrailer
  <2>2. o \in 1..m
    BY <1>1, <1>2, <2>1
  <2>3. o \in 1..Len(image) /\ o <= Len(image') /\ \A i \in 1..o : image'[i] = image[i]
    BY <1>1, <2>2
  <2> QED
    BY <1>1, <1>2, <2>2, <2>3, Frame
<1>3. ASSUME NEW o, IsTrailer(o)', NoTrailerAfter(o, synced)'
      PROVE  NoTrailerAfter(o, synced)
  <2> SUFFICES ASSUME NEW q \in (o + 1)..synced, IsTrailer(q) PROVE FALSE
    BY DEF NoTrailerAfter
  <2>1. o \in 1..m /\ q \in 1..m /\ q \in (o + 1)..synced'
    BY <1>1, <1>2, <1>3
  <2>2. IsTrailer(q)'
    BY <1>1, <2>1 DEF IsTrailer
  <2> QED
    BY <1>3, <2>1, <2>2 DEF NoTrailerAfter
<1>4. \A o : IsTrailer(o)' /\ o > synced' => o > synced
  BY <1>1, <1>2
<1> QED
  BY <1>2, <1>3, <1>4 DEF NoNewTrailer

LEMMA ImageKept ==
  ASSUME IInv, image' = image, synced' \in Nat, synced <= synced'
  PROVE  NoNewTrailer
<1>1. image \in Seq(Cell) /\ Len(image) \in Nat /\ synced \in Nat /\ synced <= Len(image)
  BY CellAt DEF IInv, TypeOK
<1>2. Len(image) \in synced..Len(image)
  BY <1>1
<1>3. PICK m : m = Len(image)
  OBVIOUS
<1>4. /\ m \in synced..Len(image) /\ m <= Len(image')
      /\ \A i \in 1..m : image'[i] = image[i]
      /\ \A o \in (m + 1)..Len(image') : ~IsTrailer(o)'
  BY <1>1, <1>2, <1>3
<1> QED
  BY <1>1, <1>4, PrefixKept

-----------------------------------------------------------------------------
(* Readers that do not move.                                               *)

LEMMA ReadersWait ==
  ASSUME IInv, IInv', CommitInv, NEW r \in Readers, rd'[r] = rd[r], Prefix(acked, acked'),
         \A ks \in Seq(Keys) : \A o : Prefix(ks, acked) /\ Kept(ks, o) => Kept(ks, o)'
  PROVE  ReaderKept(rd[r])'
<1>1. PICK x : x = rd[r]
  OBVIOUS
<1>2. ReaderKept(x) /\ x \in ReaderRec
  BY <1>1 DEF CommitInv, ReadersKept, IInv, TypeOK
<1>3. x.ack \in Seq(Keys) /\ acked \in Seq(Keys) /\ acked' \in Seq(Keys)
  BY <1>2 DEF ReaderRec, IInv, TypeOK
<1>4. Prefix(x.ack, acked')
  BY <1>2, <1>3, PrefixOf DEF ReaderKept
<1>5. \A o : Kept(x.ack, o) => Kept(x.ack, o)'
  BY <1>2, <1>3 DEF ReaderKept
<1>6. ReaderKept(x)'
  BY <1>2, <1>4, <1>5 DEF ReaderKept
<1> QED
  BY <1>1, <1>6 DEF ReaderKept

LEMMA AllReadersWait ==
  ASSUME IInv, IInv', CommitInv, rd' = rd, Prefix(acked, acked'),
         \A ks \in Seq(Keys) : \A o : Prefix(ks, acked) /\ Kept(ks, o) => Kept(ks, o)'
  PROVE  ReadersKept'
  BY ReadersWait DEF ReadersKept

-----------------------------------------------------------------------------
(* Each action preserves the invariant.                                    *)

LEMMA CommitInitially == Init => CommitInv
<1> SUFFICES ASSUME Init PROVE CommitInv
  OBVIOUS
<1>1. IInv /\ acked = <<>> /\ acked \in Seq(Keys) /\ rd = [r \in Readers |-> ReaderIdle]
      /\ pending = 0 /\ dpending = 0 /\ pc = "idle" /\ synced = Len(image)
  BY Initially, EmptySeq DEF Init
<1>2. \A o : IsTrailer(o) => o = 2
  <2>1. Len(image) = 2 /\ image[1] = Table(<<>>, <<>>) /\ DOMAIN image = 1..2
    BY DEF Init
  <2>2. image[1].t = "table"
    BY <2>1 DEF Table
  <2> QED
    BY <2>1, <2>2 DEF IsTrailer
<1>3. \A o : IsTrailer(o) => Prefix(acked, KeysAt(o))
  BY <1>1, TrailerKeys, PrefixOf
<1>4. TrailersGrow /\ CommitKept /\ HeadersKept /\ AppenderKept
  BY <1>1, <1>2, <1>3 DEF TrailersGrow, CommitKept, HeadersKept, AppenderKept
<1>5. OneUnsynced
  BY <1>2 DEF OneUnsynced
<1>6. ReadersKept
  BY <1>1, PrefixOf DEF ReadersKept, ReaderKept, ReaderIdle
<1> QED
  BY <1>4, <1>5, <1>6 DEF CommitInv

(* Headers that keep an offset, or drop it.                                *)
LEMMA HeadersStay ==
  ASSUME CommitInv, acked' = acked, {pending', dpending'} \subseteq {0, pending, dpending},
         \A ks, o : Kept(ks, o) => Kept(ks, o)'
  PROVE  HeadersKept'
<1> SUFFICES ASSUME NEW p \in {pending, dpending}, p # 0 PROVE Kept(acked, p)'
  BY DEF HeadersKept
<1>1. Kept(acked, p)
  BY DEF CommitInv, HeadersKept
<1>2. PICK ks : ks = acked
  OBVIOUS
<1>3. Kept(ks, p)'
  BY <1>1, <1>2
<1> QED
  BY <1>2, <1>3 DEF Kept

(* The appender's part where neither the image nor its table moves.        *)
LEMMA AppenderStays ==
  ASSUME CommitInv, UNCHANGED <<image, base, docs>>,
         \/ pc' = pc /\ (pc = "cleared" => pending' = pending)
         \/ pc = "flush" /\ pc' = "tailSynced"
         \/ pc = "tailSynced" /\ pc' = "cleared" /\ pending' = 0
  PROVE  AppenderKept'
<1>1. PICK b, n : b = base /\ n = Len(image)
  OBVIOUS
<1>2. KeysAt(b)' = KeysAt(b) /\ KeysAt(n)' = KeysAt(n)
  BY SameImage
<1>3. KeysAt(base)' = KeysAt(base) /\ KeysAt(Len(image))' = KeysAt(Len(image))
  BY <1>1, <1>2
<1> QED
  BY <1>3 DEF CommitInv, AppenderKept

(* A step that makes no trailer, no commit and no reader move.             *)
LEMMA QuietStep ==
  ASSUME IInv, IInv', CommitInv, NoNewTrailer, acked' = acked, rd' = rd, AppenderKept',
         HeadersKept' \/ {pending', dpending'} \subseteq {0, pending, dpending}
  PROVE  CommitInv'
<1>1. /\ TrailersGrow' /\ OneUnsynced' /\ CommitKept'
      /\ \A ks, o : Kept(ks, o) => Kept(ks, o)'
  BY TrailersKept
<1>2. HeadersKept'
  BY <1>1, HeadersStay
<1>3. Prefix(acked, acked')
  BY PrefixOf DEF IInv, TypeOK
<1>4. ReadersKept'
  BY <1>1, <1>3, AllReadersWait
<1> QED
  BY <1>1, <1>2, <1>4 DEF CommitInv

(* The file as it was, seen by a writer that is not in its body.           *)
LEMMA FileActionsKeep ==
  IInv /\ IInv' /\ CommitInv
    /\ (OpenAppend \/ SyncStage \/ Flush \/ SyncTail \/ ClearHeader \/ Writeback)
    => CommitInv'
<1> SUFFICES ASSUME IInv, IInv', CommitInv,
                    OpenAppend \/ SyncStage \/ Flush \/ SyncTail \/ ClearHeader \/ Writeback
             PROVE  CommitInv'
  OBVIOUS
<1>1. /\ image' = image /\ acked' = acked /\ rd' = rd
      /\ {pending', dpending'} \subseteq {0, pending, dpending}
  BY DEF OpenAppend, SyncStage, Flush, SyncTail, ClearHeader, Writeback, SyncData, fileVars
<1>2. synced' \in Nat /\ synced <= synced'
  <2>1. synced \in Nat /\ flen \in Nat /\ synced <= flen
    BY CellAt DEF IInv, TypeOK
  <2>2. synced' = synced \/ synced' = flen
    BY DEF OpenAppend, SyncStage, Flush, SyncTail, ClearHeader, Writeback, SyncData, fileVars
  <2> QED
    BY <2>1, <2>2
<1>3. NoNewTrailer
  BY <1>1, <1>2, ImageKept
<1>4. AppenderKept'
  <2>1. CASE OpenAppend \/ SyncStage
    BY <2>1 DEF OpenAppend, SyncStage, AppenderKept
  <2>2. CASE Flush \/ SyncTail \/ ClearHeader \/ Writeback
    <3>1. UNCHANGED <<image, base, docs>>
      BY <2>2 DEF Flush, SyncTail, ClearHeader, Writeback, SyncData, writerVars
    <3>2. \/ pc' = pc /\ (pc = "cleared" => pending' = pending)
          \/ pc = "flush" /\ pc' = "tailSynced"
          \/ pc = "tailSynced" /\ pc' = "cleared" /\ pending' = 0
      BY <2>2 DEF Flush, SyncTail, ClearHeader, Writeback
    <3> QED
      BY <3>1, <3>2, AppenderStays
  <2> QED
    BY <2>1, <2>2
<1> QED
  BY <1>1, <1>3, <1>4, QuietStep

(* The last trailer of the file holds what was committed.                  *)
LEMMA BaseKept ==
  ASSUME IInv, CommitInv, NEW b, Guarded(b, Len(image))
  PROVE  IsTrailer(b) /\ Prefix(acked, KeysAt(b)) /\ Kept(acked, b)
<1>1. /\ IsTrailer(b) /\ b \in 1..Len(image) /\ Len(image) \in Nat /\ synced \in Nat
      /\ synced <= Len(image) /\ DOMAIN image = 1..Len(image)
  BY CellAt DEF Guarded, IInv, TypeOK
<1>2. NoTrailerAfter(b, synced)
  BY <1>1 DEF Guarded, NoTrailerAfter
<1>3. Prefix(acked, KeysAt(b))
  BY <1>1, <1>2 DEF CommitInv, CommitKept
<1>4. \A q \in DOMAIN image : IsTrailer(q) /\ q >= b => q = b
  BY <1>1 DEF Guarded, NoTrailerAfter
<1> QED
  BY <1>1, <1>3, <1>4 DEF Kept

LEMMA CommitStageHeader == IInv /\ IInv' /\ CommitInv /\ StageHeader => CommitInv'
<1> SUFFICES ASSUME IInv, IInv', CommitInv, StageHeader PROVE CommitInv'
  OBVIOUS
<1>1. /\ image' = image /\ acked' = acked /\ rd' = rd /\ pending' = base
      /\ dpending' = dpending /\ synced' = synced /\ pc' = "staged"
  BY DEF StageHeader
<1>2. PICK b, ks, d : b = base /\ ks = acked /\ d = dpending
  OBVIOUS
<1>3. Kept(ks, b)
  BY <1>2, BaseKept DEF StageHeader, IInv, AppenderInv, Loaded
<1>4. NoNewTrailer
  BY <1>1, ImageKept DEF IInv, TypeOK
<1>5. AppenderKept'
  BY <1>1 DEF AppenderKept
<1>6. HeadersKept'
  <2>1. d # 0 => Kept(ks, d)
    BY <1>2 DEF CommitInv, HeadersKept
  <2>2. Kept(ks, b)' /\ (d # 0 => Kept(ks, d)')
    BY <1>3, <1>4, <2>1, TrailersKept
  <2> QED
    BY <1>1, <1>2, <2>2 DEF HeadersKept, Kept
<1> QED
  BY <1>1, <1>4, <1>5, <1>6, QuietStep

(* Writing a document or a string block.                                   *)
LEMMA CommitBody ==
  ASSUME IInv, IInv', CommitInv, pc = "body",
         NEW c \in Cell, c.t # "trailer", image' = Append(image, c),
         Prefix(KeysOf(docs), KeysOf(docs')),
         UNCHANGED <<flen, synced, pending, dpending, pc, base, acked, rd>>
  PROVE  CommitInv'
<1>1. PICK b, L : b = base /\ L = Len(image)
  OBVIOUS
<1>2. /\ image' \in Seq(Cell) /\ L \in Nat /\ Len(image') = L + 1
      /\ \A i \in 1..L : image'[i] = image[i]
      /\ image'[L + 1] = c
  BY <1>1, BodyGrows
<1>3. \A o \in (L + 1)..(L + 1) : ~IsTrailer(o)'
  BY <1>2 DEF IsTrailer
<1>4. synced \in Nat /\ synced <= L /\ synced' = synced
  BY <1>1, CellAt DEF IInv, TypeOK
<1>5. NoNewTrailer
  <2>1. /\ L \in synced..Len(image) /\ L <= Len(image')
        /\ synced' \in Nat /\ synced <= synced'
    BY <1>1, <1>2, <1>4
  <2> QED
    BY <1>1, <1>2, <1>3, <2>1, PrefixKept
<1>6. AppenderKept'
  <2>1. Guarded(b, L)
    BY <1>1 DEF IInv, AppenderInv, Writing
  <2>2. KeysAt(b) \in Seq(Keys) /\ b \in 1..L
    BY <2>1, TrailerKeys DEF Guarded
  <2>3. KeysAt(b)' = KeysAt(b)
    <3>1. b \in 1..Len(image) /\ b <= Len(image') /\ \A i \in 1..b : image'[i] = image[i]
      BY <1>1, <1>2, <2>2
    <3> QED
      BY <1>2, <3>1, Frame DEF IInv, TypeOK
  <2>4. KeysOf(docs) \in Seq(Keys) /\ KeysOf(docs') \in Seq(Keys)
    BY KeysOfTable DEF IInv, TypeOK
  <2>5. Prefix(KeysAt(b), KeysOf(docs))
    BY <1>1 DEF CommitInv, AppenderKept
  <2>6. Prefix(KeysAt(b), KeysOf(docs'))
    BY <2>2, <2>4, <2>5, PrefixOf
  <2>7. KeysAt(base)' = KeysAt(b)
    BY <1>1, <2>3 DEF KeysAt, Opens, Decodes, IsTrailer, TableAt
  <2>8. KeysOf(docs)' = KeysOf(docs')
    BY DEF KeysOf
  <2> QED
    BY <2>6, <2>7, <2>8 DEF AppenderKept
<1> QED
  BY <1>5, <1>6, QuietStep

LEMMA CommitPush ==
  ASSUME NEW k \in Keys PROVE IInv /\ IInv' /\ CommitInv /\ Push(k) => CommitInv'
<1> SUFFICES ASSUME IInv, IInv', CommitInv, Push(k) PROVE CommitInv'
  OBVIOUS
<1>1. /\ pc = "body" /\ image' = Append(image, Doc(k))
      /\ docs' = Append(docs, [key |-> k, off |-> pos])
      /\ UNCHANGED <<flen, synced, pending, dpending, pc, base, acked, rd>>
  BY DEF Push
<1>2. Doc(k) \in Cell /\ Doc(k).t # "trailer"
  BY DocCell
<1>3. Prefix(KeysOf(docs), KeysOf(docs'))
  <2>1. docs \in Seq(DocEntry) /\ docs' \in Seq(DocEntry)
        /\ [key |-> k, off |-> pos] \in DocEntry
    BY DEF IInv, TypeOK, DocEntry
  <2>2. PICK ds, ds1 : ds = docs /\ ds1 = docs'
    OBVIOUS
  <2>3. /\ Len(ds) \in Nat /\ Len(ds1) = Len(ds) + 1
        /\ \A i \in 1..Len(ds) : ds1[i] = ds[i]
    BY <1>1, <2>1, <2>2, AppendProperties, LenProperties
  <2>4. Prefix(KeysOf(ds), KeysOf(ds1))
    BY <2>1, <2>2, <2>3, KeysOfTable DEF Prefix
  <2> QED
    BY <2>2, <2>4
<1> QED
  BY <1>1, <1>2, <1>3, CommitBody

LEMMA CommitSealBundle == IInv /\ IInv' /\ CommitInv /\ SealBundle => CommitInv'
<1> SUFFICES ASSUME IInv, IInv', CommitInv, SealBundle PROVE CommitInv'
  OBVIOUS
<1>1. /\ pc = "body" /\ image' = Append(image, NewBlock) /\ docs' = docs
      /\ UNCHANGED <<flen, synced, pending, dpending, pc, base, acked, rd>>
  BY DEF SealBundle
<1>2. NewBlock \in Cell /\ NewBlock.t # "trailer"
  BY <1>1, SealedBlock
<1>3. Prefix(KeysOf(docs), KeysOf(docs'))
  BY <1>1, KeysOfTable, PrefixOf DEF IInv, TypeOK
<1> QED
  BY <1>1, <1>2, <1>3, CommitBody

LEMMA CommitTruncate == IInv /\ IInv' /\ CommitInv /\ Truncate => CommitInv'
<1> SUFFICES ASSUME IInv, IInv', CommitInv, Truncate PROVE CommitInv'
  OBVIOUS
<1>1. PICK b, L : b = base /\ L = Len(image)
  OBVIOUS
<1>2. /\ Cut(b, FALSE) /\ synced' = b /\ pc' = "body" /\ base' = b /\ docs' = docs
      /\ UNCHANGED <<pending, dpending, acked, rd>>
  BY <1>1 DEF Truncate, writerVars
<1>3. /\ Guarded(b, L) /\ docs = TableAt(b).docs /\ image \in Seq(Cell)
      /\ synced \in 0..L /\ L \in Nat
  BY <1>1, CellAt DEF Truncate, IInv, TypeOK, AppenderInv, Loaded
<1>4. b \in 1..L /\ IsTrailer(b) /\ NoTrailerAfter(b, L)
  BY <1>3 DEF Guarded
<1>5. /\ image' \in Seq(Cell) /\ Len(image') = b /\ b \in Nat
      /\ \A i \in 1..b : image'[i] = image[i]
  <2>1. b \in 0..Len(image) /\ FALSE \in BOOLEAN
    BY <1>1, <1>3, <1>4
  <2>2. /\ image' \in Seq(Cell) /\ b \in Nat /\ Len(image') = flen'
        /\ flen' = (IF FALSE THEN b + 1 ELSE b)
        /\ \A i \in 1..b : image'[i] = image[i]
    BY <1>2, <1>3, <2>1, CutImage
  <2> QED
    BY <2>2
<1>6. \A o : IsTrailer(o)' => o \in 1..b /\ IsTrailer(o) /\ KeysAt(o)' = KeysAt(o)
  <2> SUFFICES ASSUME NEW o, IsTrailer(o)'
               PROVE  o \in 1..b /\ IsTrailer(o) /\ KeysAt(o)' = KeysAt(o)
    OBVIOUS
  <2>1. o \in 1..b
    BY <1>5, LenProperties DEF IsTrailer
  <2>2. o \in 1..Len(image) /\ o <= Len(image') /\ \A i \in 1..o : image'[i] = image[i]
    BY <1>1, <1>3, <1>4, <1>5, <2>1
  <2> QED
    BY <1>3, <1>5, <2>1, <2>2, Frame
<1>7. IsTrailer(b)' /\ KeysAt(b)' = KeysAt(b)
  <2>1. b \in 1..Len(image) /\ b <= Len(image')
    BY <1>1, <1>4, <1>5
  <2> QED
    BY <1>3, <1>4, <1>5, <2>1, Frame
<1>8. NoNewTrailer
  <2>1. ASSUME NEW o, IsTrailer(o)', NoTrailerAfter(o, synced)'
        PROVE  NoTrailerAfter(o, synced)
    <3>1. o \in 1..b
      BY <1>6, <2>1
    <3>2. o = b
      BY <1>2, <1>4, <1>7, <2>1, <3>1 DEF NoTrailerAfter
    <3> QED
      BY <1>3, <1>4, <3>2 DEF NoTrailerAfter
  <2>2. \A o : IsTrailer(o)' => ~(o > synced')
    BY <1>2, <1>5, <1>6
  <2> QED
    BY <1>6, <2>1, <2>2 DEF NoNewTrailer
<1>9. AppenderKept'
  <2>1. KeysAt(b) = KeysOf(docs) /\ KeysAt(b) \in Seq(Keys)
    BY <1>3, <1>4, TrailerKeys
  <2>2. KeysAt(base)' = KeysAt(b) /\ KeysOf(docs)' = KeysOf(docs)
    BY <1>2, <1>7 DEF KeysAt, Opens, Decodes, IsTrailer, TableAt, KeysOf
  <2>3. Prefix(KeysAt(base)', KeysOf(docs)')
    BY <2>1, <2>2, PrefixOf
  <2> QED
    BY <1>2, <2>3 DEF AppenderKept, Prefix
<1> QED
  BY <1>2, <1>8, <1>9, QuietStep

(* A crash or a power loss leaves a prefix that reaches to the synced      *)
(* cells at least.                                                         *)
LEMMA CutKept ==
  ASSUME IInv, IInv', NEW n \in synced..Len(image), NEW torn \in BOOLEAN, Cut(n, torn),
         synced' = synced \/ synced' = flen'
  PROVE  NoNewTrailer
<1>1. synced \in Nat /\ Len(image) \in Nat /\ image \in Seq(Cell)
  BY CellAt DEF IInv, TypeOK
<1>2. n \in 0..Len(image) /\ synced <= n
  BY <1>1
<1>3. PICK k : k = flen'
  OBVIOUS
<1>4. /\ image' \in Seq(Cell) /\ Len(image') = k /\ k \in Nat /\ n <= k
      /\ \A i \in 1..n : image'[i] = image[i]
      /\ \A o \in (n + 1)..k : ~IsTrailer(o)'
  BY <1>1, <1>2, <1>3, CutImage
<1>5. synced' \in Nat /\ synced <= synced'
  BY <1>1, <1>2, <1>3, <1>4
<1>6. n <= Len(image') /\ \A o \in (n + 1)..Len(image') : ~IsTrailer(o)'
  BY <1>4
<1> QED
  BY <1>4, <1>5, <1>6, PrefixKept

LEMMA CommitStop == IInv /\ IInv' /\ CommitInv /\ Stop => CommitInv'
<1> SUFFICES ASSUME IInv, IInv', CommitInv, Stop PROVE CommitInv'
  OBVIOUS
<1>1. PICK n \in flen..Len(image), torn \in BOOLEAN : Cut(n, torn)
  BY DEF Stop
<1>2. /\ pc' = "idle" /\ UNCHANGED <<synced, pending, dpending, acked, rd>>
  BY DEF Stop, DropWriter
<1>3. n \in synced..Len(image)
  BY CellAt DEF IInv, TypeOK
<1>4. NoNewTrailer
  BY <1>1, <1>2, <1>3, CutKept
<1>5. AppenderKept'
  BY <1>2 DEF AppenderKept
<1> QED
  BY <1>2, <1>4, <1>5, QuietStep

LEMMA CommitPowerLoss == IInv /\ IInv' /\ CommitInv /\ PowerLoss => CommitInv'
<1> SUFFICES ASSUME IInv, IInv', CommitInv, PowerLoss PROVE CommitInv'
  OBVIOUS
<1>1. PICK n \in synced..flen, torn \in BOOLEAN : Cut(n, torn) /\ synced' = flen'
  BY DEF PowerLoss
<1>2. /\ pc' = "idle" /\ acked' = acked /\ rd' = [r \in Readers |-> ReaderIdle]
      /\ (pending' = dpending \/ pending' = pending) /\ dpending' = pending'
  BY DEF PowerLoss, DropWriter
<1>3. n \in synced..Len(image)
  BY CellAt DEF IInv, TypeOK
<1>4. NoNewTrailer
  BY <1>1, <1>3, CutKept
<1>5. /\ TrailersGrow' /\ OneUnsynced' /\ CommitKept'
      /\ \A ks, o : Kept(ks, o) => Kept(ks, o)'
  BY <1>2, <1>4, TrailersKept
<1>6. HeadersKept'
  <2>1. PICK ks, p : ks = acked /\ p = pending'
    OBVIOUS
  <2>2. p # 0 => Kept(ks, p)
    BY <1>2, <2>1 DEF CommitInv, HeadersKept
  <2>3. p # 0 => Kept(ks, p)'
    BY <1>5, <2>2
  <2> QED
    BY <1>2, <2>1, <2>3 DEF HeadersKept, Kept
<1>7. AppenderKept'
  BY <1>2 DEF AppenderKept
<1>8. ReadersKept'
  <2>1. acked' \in Seq(Keys)
    BY DEF IInv, TypeOK
  <2>2. Prefix(<<>>, acked')
    BY <2>1, PrefixOf
  <2> QED
    BY <1>2, <2>2 DEF ReadersKept, ReaderKept, ReaderIdle
<1> QED
  BY <1>5, <1>6, <1>7, <1>8 DEF CommitInv

(* The commit: its keys are those of the last trailer, all of the file is  *)
(* on stable storage, and the header points nowhere.                       *)
LEMMA CommitSyncClear == IInv /\ IInv' /\ CommitInv /\ SyncClear => CommitInv'
<1> SUFFICES ASSUME IInv, IInv', CommitInv, SyncClear PROVE CommitInv'
  OBVIOUS
<1>1. /\ pc = "cleared" /\ pc' = "idle" /\ image' = image /\ flen' = flen
      /\ synced' = flen /\ pending' = pending /\ dpending' = pending
      /\ acked' = KeysOf(docs) /\ rd' = rd
  BY DEF SyncClear, SyncData, DropWriter
<1>2. PICK n : n = Len(image)
  OBVIOUS
<1>3. /\ IsTrailer(n) /\ flen = n /\ synced = flen /\ pending = 0
      /\ KeysAt(n) = acked' /\ n \in Nat /\ DOMAIN image = 1..n
  BY <1>1, <1>2, CellAt DEF IInv, TypeOK, AppenderInv, CommitInv, AppenderKept
<1>4. NoNewTrailer
  BY <1>1, <1>3, ImageKept
<1>5. /\ TrailersGrow' /\ OneUnsynced'
      /\ \A ks, o : Kept(ks, o) => Kept(ks, o)'
  BY <1>4, TrailersKept
<1>6. Guarded(n, n)
  BY <1>3, TrailerKeys DEF Guarded, NoTrailerAfter
<1>7. Prefix(acked, acked')
  BY <1>2, <1>3, <1>6, BaseKept
<1>8. CommitKept'
  <2> SUFFICES ASSUME NEW o, IsTrailer(o)', NoTrailerAfter(o, synced)'
               PROVE  Prefix(acked, KeysAt(o))'
    BY DEF CommitKept
  <2>1. IsTrailer(o) /\ KeysAt(o)' = KeysAt(o) /\ NoTrailerAfter(o, synced)
    BY <1>4 DEF NoNewTrailer
  <2>2. o \in 1..n
    BY <1>2, <2>1, TrailerKeys
  <2>3. o = n
    BY <1>3, <2>1, <2>2 DEF NoTrailerAfter
  <2>4. Prefix(acked', KeysAt(o)')
    BY <1>3, <2>1, <2>3, PrefixOf DEF IInv, TypeOK
  <2> QED
    BY <2>4
<1>9. HeadersKept' /\ AppenderKept'
  BY <1>1, <1>3 DEF HeadersKept, AppenderKept
<1>10. ReadersKept'
  BY <1>1, <1>5, <1>7, AllReadersWait
<1> QED
  BY <1>5, <1>8, <1>9, <1>10 DEF CommitInv

(* finish adds one trailer, which locates the appender's table.            *)
LEMMA FinishTrailer ==
  ASSUME IInv, IInv', Finish, NEW L, L = Len(image), NEW ds, ds = docs
  PROVE  \E n \in Nat :
           /\ n = Len(image') /\ n > L
           /\ IsTrailer(n)' /\ KeysAt(n)' = KeysOf(ds)
           /\ \A o : IsTrailer(o)' =>
                       o = n \/ (o \in 1..L /\ IsTrailer(o) /\ KeysAt(o)' = KeysAt(o))
           /\ \A o \in 1..L : IsTrailer(o) => IsTrailer(o)'
<1>1. PICK at : at = pos' - 2
  OBVIOUS
<1>2. PICK bs \in Seq(BundleDesc) : Finished(L, ds, bs, at)
  BY <1>1, FinishImage
<1>3. /\ L \in Nat /\ at \in Nat /\ at >= L + 1
      /\ image' \in Seq(Cell) /\ Len(image') = at + 1
      /\ \A i \in 1..L : image'[i] = image[i]
      /\ \A i \in (L + 1)..at : image'[i].t # "trailer"
      /\ image'[at] = Table(ds, bs)
      /\ image'[at + 1] = Trailer(at)
  BY <1>2 DEF Finished
<1>4. /\ image \in Seq(Cell) /\ DOMAIN image = 1..L /\ DOMAIN image' = 1..(at + 1)
      /\ ds \in Seq(DocEntry)
  BY <1>3, LenProperties DEF IInv, TypeOK
<1>5. IsTrailer(at + 1)' /\ image'[at + 1].tab = at
  BY <1>3, <1>4, TrailerCell DEF IsTrailer
<1>6. KeysAt(at + 1)' = KeysOf(ds)
  <2>1. PICK n : n = at + 1
    OBVIOUS
  <2>2. Opens(n)'
    BY <1>4, <1>5, <2>1 DEF IInv, TrailersReadable, Readable, IsTrailer
  <2>3. TableAt(n)' = Table(ds, bs)
    BY <1>3, <1>5, <2>1 DEF TableAt
  <2>4. KeysAt(n)' = KeysOf(Table(ds, bs).docs)
    BY <2>2, <2>3 DEF KeysAt, KeysOf
  <2>5. Table(ds, bs).docs = ds
    BY DEF Table
  <2> QED
    BY <2>1, <2>4, <2>5
<1>7. ASSUME NEW o, IsTrailer(o)', o # at + 1
      PROVE  o \in 1..L /\ IsTrailer(o) /\ KeysAt(o)' = KeysAt(o)
  <2>1. o \in 1..(at + 1) /\ ~(o \in (L + 1)..at)
    BY <1>3, <1>4, <1>7 DEF IsTrailer
  <2>2. o \in 1..L
    BY <1>3, <1>7, <2>1
  <2>3. o \in 1..Len(image) /\ o <= Len(image') /\ \A i \in 1..o : image'[i] = image[i]
    BY <1>3, <2>2
  <2> QED
    BY <1>3, <1>4, <1>7, <2>2, <2>3, Frame
<1>8. \A o \in 1..L : IsTrailer(o) => IsTrailer(o)'
  BY <1>3, <1>4 DEF IsTrailer
<1>9. at + 1 \in Nat /\ at + 1 > L
  BY <1>3
<1> QED
  BY <1>3, <1>5, <1>6, <1>7, <1>8, <1>9

LEMMA CommitFinish == IInv /\ IInv' /\ CommitInv /\ Finish => CommitInv'
<1> SUFFICES ASSUME IInv, IInv', CommitInv, Finish PROVE CommitInv'
  OBVIOUS
<1>1. PICK L, ds, b, ks : L = Len(image) /\ ds = docs /\ b = base /\ ks = acked
  OBVIOUS
<1>2. PICK n \in Nat :
        /\ n = Len(image') /\ n > L
        /\ IsTrailer(n)' /\ KeysAt(n)' = KeysOf(ds)
        /\ \A o : IsTrailer(o)' =>
                    o = n \/ (o \in 1..L /\ IsTrailer(o) /\ KeysAt(o)' = KeysAt(o))
        /\ \A o \in 1..L : IsTrailer(o) => IsTrailer(o)'
  BY <1>1, FinishTrailer
<1>3. /\ pc = "body" /\ pc' = "flush" /\ rd' = rd
      /\ UNCHANGED <<flen, synced, pending, dpending, base, docs, acked>>
  BY DEF Finish
<1>4. /\ L \in Nat /\ synced \in 0..L /\ Guarded(b, L) /\ b <= synced
      /\ ds \in Seq(DocEntry) /\ ks \in Seq(Keys) /\ DOMAIN image = 1..L
  BY <1>1, <1>3, CellAt DEF IInv, TypeOK, AppenderInv, Writing
<1>5. /\ IsTrailer(b) /\ b \in 1..L /\ KeysAt(b) \in Seq(Keys) /\ KeysOf(ds) \in Seq(Keys)
      /\ Prefix(ks, KeysAt(b)) /\ Prefix(KeysAt(b), KeysOf(ds))
  BY <1>1, <1>3, <1>4, BaseKept, TrailerKeys, KeysOfTable DEF CommitInv, AppenderKept
<1>6. Prefix(ks, KeysOf(ds))
  BY <1>4, <1>5, PrefixOf
<1>7. \A o : IsTrailer(o) => o \in 1..b
  BY <1>4, <1>5 DEF Guarded, NoTrailerAfter, IsTrailer
<1>8. ASSUME NEW o, IsTrailer(o) PROVE Prefix(KeysAt(o), KeysOf(ds))
  <2>1. KeysAt(o) \in Seq(Keys) /\ Prefix(KeysAt(o), KeysAt(o))
    BY <1>8, TrailerKeys, PrefixOf
  <2>2. Prefix(KeysAt(o), KeysAt(b))
    BY <1>4, <1>5, <1>7, <1>8, <2>1 DEF CommitInv, TrailersGrow, IsTrailer
  <2> QED
    BY <1>5, <2>1, <2>2, PrefixOf
<1>9. TrailersGrow'
  <2> SUFFICES ASSUME NEW o, NEW q, IsTrailer(o)', IsTrailer(q)', o < q
               PROVE  Prefix(KeysAt(o)', KeysAt(q)')
    BY DEF TrailersGrow, Prefix
  <2>1. CASE q = n
    <3>1. o # n
      BY <1>2, <2>1
    <3> QED
      BY <1>2, <1>8, <2>1, <3>1
  <2>2. CASE q # n
    <3>1. q \in 1..L /\ IsTrailer(q) /\ KeysAt(q)' = KeysAt(q)
      BY <1>2, <2>2
    <3>2. o # n
      BY <1>2, <1>4, <3>1
    <3>3. o \in 1..L /\ IsTrailer(o) /\ KeysAt(o)' = KeysAt(o)
      BY <1>2, <3>2
    <3> QED
      BY <1>4, <3>1, <3>3 DEF CommitInv, TrailersGrow
  <2> QED
    BY <2>1, <2>2
<1>10. OneUnsynced'
  <2>1. PICK s \in Nat : s = synced /\ s = synced'
    BY <1>3, <1>4
  <2>2. ASSUME NEW o \in (s + 1)..n, IsTrailer(o)' PROVE o = n
    <3>1. o > s
      OBVIOUS
    <3>2. b <= s /\ b \in Nat
      BY <1>4, <1>5, <2>1
    <3>3. o \notin 1..b
      BY <3>1, <3>2
    <3> QED
      BY <1>2, <1>7, <2>2, <3>3
  <2> QED
    BY <1>2, <2>1, <2>2 DEF OneUnsynced
<1>11. CommitKept'
  <2> SUFFICES ASSUME NEW o, IsTrailer(o)', NoTrailerAfter(o, synced)'
               PROVE  Prefix(ks, KeysAt(o)')
    BY <1>1, <1>3 DEF CommitKept, Prefix
  <2>1. CASE o = n
    BY <1>2, <1>6, <2>1
  <2>2. CASE o # n
    <3>1. o \in 1..L /\ IsTrailer(o) /\ KeysAt(o)' = KeysAt(o)
      BY <1>2, <2>2
    <3>2. NoTrailerAfter(o, synced)
      BY <1>2, <1>3, <1>4, <3>1 DEF NoTrailerAfter
    <3> QED
      BY <1>1, <1>4, <3>1, <3>2 DEF CommitInv, CommitKept
  <2> QED
    BY <2>1, <2>2
<1>12. ASSUME NEW js \in Seq(Keys), NEW o, Prefix(js, ks), Kept(js, o) PROVE Kept(js, o)'
  <2> SUFFICES ASSUME NEW q, IsTrailer(q)', q >= o PROVE Prefix(js, KeysAt(q)')
    BY DEF Kept, Prefix
  <2>1. CASE q = n
    <3>1. Prefix(js, KeysOf(ds))
      BY <1>4, <1>5, <1>6, <1>12, PrefixOf
    <3> QED
      BY <1>2, <2>1, <3>1
  <2>2. CASE q # n
    <3>1. q \in 1..L /\ IsTrailer(q) /\ KeysAt(q)' = KeysAt(q)
      BY <1>2, <2>2
    <3> QED
      BY <1>4, <1>12, <3>1 DEF Kept
  <2> QED
    BY <2>1, <2>2
<1>13. HeadersKept'
  <2>1. PICK p, d : p = pending /\ d = dpending
    OBVIOUS
  <2>2. (p # 0 => Kept(ks, p)) /\ (d # 0 => Kept(ks, d))
    BY <1>1, <2>1 DEF CommitInv, HeadersKept
  <2>3. (p # 0 => Kept(ks, p)') /\ (d # 0 => Kept(ks, d)')
    BY <1>4, <1>12, <2>2, PrefixOf
  <2> QED
    BY <1>1, <1>3, <2>1, <2>3 DEF HeadersKept, Kept
<1>14. AppenderKept'
  <2>1. KeysAt(Len(image))' = KeysAt(n)' /\ KeysOf(docs)' = KeysOf(ds)
    BY <1>1, <1>2, <1>3 DEF KeysAt, Opens, Decodes, IsTrailer, TableAt, KeysOf
  <2> QED
    BY <1>2, <1>3, <2>1 DEF AppenderKept
<1>15. ReadersKept'
  <2>1. Prefix(acked, acked')
    BY <1>1, <1>3, <1>4, PrefixOf
  <2>2. \A js \in Seq(Keys) : \A o : Prefix(js, acked) /\ Kept(js, o) => Kept(js, o)'
    BY <1>1, <1>12
  <2> QED
    BY <1>3, <2>1, <2>2, AllReadersWait
<1> QED
  BY <1>9, <1>10, <1>11, <1>13, <1>14, <1>15 DEF CommitInv

-----------------------------------------------------------------------------
(* Readers.                                                                *)

LEMMA FileStays ==
  ASSUME IInv, IInv', CommitInv, UNCHANGED <<fileVars, pc, writerVars, acked>>
  PROVE  /\ TrailersGrow' /\ OneUnsynced' /\ CommitKept' /\ HeadersKept' /\ AppenderKept'
         /\ \A ks, o : Kept(ks, o) => Kept(ks, o)'
<1>1. UNCHANGED <<image, flen, synced, pending, dpending, pc, base, docs, acked>>
  BY DEF fileVars, writerVars
<1>2. NoNewTrailer
  BY <1>1, ImageKept DEF IInv, TypeOK
<1>3. \A ks, o : Kept(ks, o) => Kept(ks, o)'
  BY <1>2, TrailersKept
<1>4. HeadersKept' /\ AppenderKept'
  BY <1>1, <1>3, HeadersStay, AppenderStays
<1> QED
  BY <1>1, <1>2, <1>4, TrailersKept

LEMMA CommitReaderMoves ==
  ASSUME IInv, IInv', CommitInv, NEW r \in Readers, NEW x, ReaderKept(x),
         rd' = [rd EXCEPT ![r] = x], UNCHANGED <<fileVars, pc, writerVars, acked>>
  PROVE  CommitInv'
<1>1. /\ TrailersGrow' /\ OneUnsynced' /\ CommitKept' /\ HeadersKept' /\ AppenderKept'
      /\ \A ks, o : Kept(ks, o) => Kept(ks, o)'
  BY FileStays
<1>2. rd'[r] = x /\ \A q \in Readers : q # r => rd'[q] = rd[q]
  BY DEF IInv, TypeOK
<1>3. ReaderKept(x)'
  BY <1>1 DEF ReaderKept
<1>4. ReaderKept(rd[r])'
  BY <1>2, <1>3 DEF ReaderKept
<1>5. Prefix(acked, acked')
  BY PrefixOf DEF IInv, TypeOK
<1>6. \A q \in Readers : q # r => ReaderKept(rd[q])'
  BY <1>1, <1>2, <1>5, ReadersWait
<1>7. ReadersKept'
  BY <1>4, <1>6 DEF ReadersKept
<1> QED
  BY <1>1, <1>7 DEF CommitInv

(* A trailer that is read through the mapping holds what the reader must   *)
(* see.                                                                    *)
LEMMA CommitReadTrailer ==
  ASSUME IInv, IInv', CommitInv, NEW r \in Readers, NEW o \in Nat, Kept(rd[r].ack, o),
         NEW invalid, ReaderKept(invalid), ReadTrailerAt(r, o, invalid),
         UNCHANGED <<fileVars, pc, writerVars, acked>>
  PROVE  CommitInv'
<1>1. rd[r] \in ReaderRec /\ Prefix(rd[r].ack, acked)
  BY DEF IInv, TypeOK, CommitInv, ReadersKept, ReaderKept
<1>2. CASE Decodes(o) /\ rd' = [rd EXCEPT ![r] = Opened(r, o)]
  <2>1. IsTrailer(o) /\ Opens(o)
    BY <1>2, TrailerKeys DEF Decodes
  <2>2. Prefix(rd[r].ack, KeysAt(o))
    BY <2>1 DEF Kept, IsTrailer
  <2>3. PICK x : x = Opened(r, o)
    OBVIOUS
  <2>4. x.st = "open" /\ x.ack = rd[r].ack /\ x.snap = KeysAt(o)
    BY <1>1, <2>1, <2>3 DEF Opened, ReaderRec
  <2>5. ReaderKept(x)
    BY <1>1, <2>2, <2>4 DEF ReaderKept
  <2> QED
    BY <1>2, <2>3, <2>5, CommitReaderMoves
<1>3. CASE rd' = [rd EXCEPT ![r] = invalid]
  BY <1>3, CommitReaderMoves
<1>4. CASE rd' = [rd EXCEPT ![r] = [rd[r] EXCEPT !.st = "fault"]]
  <2>1. PICK x : x = [rd[r] EXCEPT !.st = "fault"]
    OBVIOUS
  <2>2. x.st = "fault" /\ x.ack = rd[r].ack
    BY <1>1, <2>1 DEF ReaderRec
  <2>3. ReaderKept(x)
    BY <1>1, <2>2 DEF ReaderKept
  <2> QED
    BY <1>4, <2>1, <2>3, CommitReaderMoves
<1> QED
  BY <1>2, <1>3, <1>4 DEF ReadTrailerAt

LEMMA CommitReader ==
  ASSUME NEW r \in Readers PROVE IInv /\ IInv' /\ CommitInv /\ Reader(r) => CommitInv'
<1> SUFFICES ASSUME IInv, IInv', CommitInv, Reader(r) PROVE CommitInv'
  OBVIOUS
<1>1. UNCHANGED <<fileVars, pc, writerVars, acked>>
  BY DEF Reader, MapFile, ReadHeader, ReadTail, ReadFallback, CloseReader
<1>2. /\ rd[r] \in ReaderRec /\ ReaderKept(rd[r])
      /\ acked \in Seq(Keys) /\ rd[r].len \in Nat /\ rd[r].pend \in Nat
      /\ rd \in [Readers -> ReaderRec]
  BY DEF IInv, TypeOK, CommitInv, ReadersKept, ReaderRec
<1>3. CASE MapFile(r)
  <2>1. PICK x : x = [ReaderIdle EXCEPT !.st = "mapped", !.len = flen, !.ack = acked]
    OBVIOUS
  <2>2. x.st = "mapped" /\ x.len = flen /\ x.ack = acked
    BY <2>1 DEF ReaderIdle
  <2>3. Kept(acked, flen)
    <3>1. synced \in Nat /\ flen \in Nat /\ synced <= flen
      BY CellAt DEF IInv, TypeOK
    <3> SUFFICES ASSUME NEW q, IsTrailer(q), q >= flen PROVE Prefix(acked, KeysAt(q))
      BY DEF Kept
    <3>2. NoTrailerAfter(q, synced)
      BY <3>1, TrailerKeys DEF NoTrailerAfter
    <3> QED
      BY <3>2 DEF CommitInv, CommitKept, IsTrailer
  <2>4. ReaderKept(x)
    BY <1>2, <2>2, <2>3, PrefixOf DEF ReaderKept
  <2>5. rd' = [rd EXCEPT ![r] = x]
    BY <1>3, <2>1 DEF MapFile
  <2> QED
    BY <1>1, <2>4, <2>5, CommitReaderMoves
<1>4. CASE ReadHeader(r)
  <2>1. PICK x : x = [rd[r] EXCEPT !.st = "header", !.pend = pending]
    OBVIOUS
  <2>2. x.st = "header" /\ x.pend = pending /\ x.ack = rd[r].ack /\ x.len = rd[r].len
    BY <1>2, <2>1 DEF ReaderRec
  <2>3. rd[r].st = "mapped" /\ rd' = [rd EXCEPT ![r] = x]
    BY <1>2, <1>4, <2>1 DEF ReadHeader, ReaderRec
  <2>4. ASSUME pending # 0 PROVE Kept(rd[r].ack, pending)
    <3>1. Kept(acked, pending)
      BY <2>4 DEF CommitInv, HeadersKept
    <3>2. rd[r].ack \in Seq(Keys) /\ Prefix(rd[r].ack, acked)
      BY <1>2 DEF ReaderRec, ReaderKept
    <3>3. \A q : IsTrailer(q) => KeysAt(q) \in Seq(Keys)
      BY TrailerKeys
    <3> QED
      BY <1>2, <3>1, <3>2, <3>3, PrefixOf DEF Kept
  <2>5. ReaderKept(x)
    BY <1>2, <2>2, <2>3, <2>4 DEF ReaderKept
  <2> QED
    BY <1>1, <2>3, <2>5, CommitReaderMoves
<1>5. CASE ReadTail(r)
  <2>1. PICK x : x = [rd[r] EXCEPT !.st = "fallback"]
    OBVIOUS
  <2>2. x.st = "fallback" /\ x.pend = rd[r].pend /\ x.ack = rd[r].ack /\ x.len = rd[r].len
    BY <1>2, <2>1 DEF ReaderRec
  <2>3. rd[r].st = "header" /\ ReadTrailerAt(r, rd[r].len, x)
    BY <1>5, <2>1 DEF ReadTail
  <2>4. ReaderKept(x) /\ Kept(rd[r].ack, rd[r].len)
    BY <1>2, <2>2, <2>3 DEF ReaderKept
  <2> QED
    BY <1>1, <1>2, <2>3, <2>4, CommitReadTrailer
<1>6. CASE ReadFallback(r)
  <2>1. PICK x : x = [rd[r] EXCEPT !.st = "failed"]
    OBVIOUS
  <2>2. x.st = "failed" /\ x.ack = rd[r].ack
    BY <1>2, <2>1 DEF ReaderRec
  <2>3. ReaderKept(x)
    BY <1>2, <2>2 DEF ReaderKept
  <2>4. rd[r].st = "fallback"
        /\ \/ rd[r].pend \in 1..rd[r].len /\ ReadTrailerAt(r, rd[r].pend, x)
           \/ rd' = [rd EXCEPT ![r] = x]
    BY <1>6, <2>1 DEF ReadFallback
  <2>5. CASE rd[r].pend \in 1..rd[r].len /\ ReadTrailerAt(r, rd[r].pend, x)
    <3>1. Kept(rd[r].ack, rd[r].pend)
      BY <1>2, <2>4, <2>5 DEF ReaderKept
    <3> QED
      BY <1>1, <1>2, <2>3, <2>5, <3>1, CommitReadTrailer
  <2>6. CASE rd' = [rd EXCEPT ![r] = x]
    BY <1>1, <2>3, <2>6, CommitReaderMoves
  <2> QED
    BY <2>4, <2>5, <2>6
<1>7. CASE CloseReader(r)
  <2>1. ReaderKept(ReaderIdle)
    BY <1>2, PrefixOf DEF ReaderKept, ReaderIdle
  <2> QED
    BY <1>1, <1>7, <2>1, CommitReaderMoves DEF CloseReader
<1> QED
  BY <1>3, <1>4, <1>5, <1>6, <1>7 DEF Reader

-----------------------------------------------------------------------------
(* Commits last, and readers see them.                                     *)

LEMMA CommitStep == IInv /\ IInv' /\ CommitInv /\ [Next]_vars => CommitInv'
<1> SUFFICES ASSUME IInv, IInv', CommitInv, [Next]_vars PROVE CommitInv'
  OBVIOUS
<1>1. CASE Appender
  BY <1>1, FileActionsKeep, CommitStageHeader, CommitTruncate, CommitPush, CommitSealBundle,
     CommitFinish, CommitSyncClear
  DEF Appender
<1>2. CASE Failure
  BY <1>2, FileActionsKeep, CommitStop, CommitPowerLoss DEF Failure
<1>3. CASE \E r \in Readers : Reader(r)
  BY <1>3, CommitReader
<1>4. CASE UNCHANGED vars
  <2>1. UNCHANGED <<fileVars, pc, writerVars, acked>> /\ rd' = rd
    BY <1>4 DEF vars
  <2>2. /\ TrailersGrow' /\ OneUnsynced' /\ CommitKept' /\ HeadersKept' /\ AppenderKept'
        /\ \A ks, o : Kept(ks, o) => Kept(ks, o)'
    BY <2>1, FileStays
  <2>3. Prefix(acked, acked')
    BY <2>1, PrefixOf DEF IInv, TypeOK
  <2> QED
    BY <2>1, <2>2, <2>3, AllReadersWait DEF CommitInv
<1> QED
  BY <1>1, <1>2, <1>3, <1>4 DEF Next

(* The invariant about commits, for any keys, readers and appends.         *)
THEOREM CommitInvHolds == Spec => []CommitInv
  BY CommitInitially, CommitStep, InvariantHolds, PTL DEF Spec

(* finish returned Ok: the commit's documents are on stable storage, and   *)
(* no later append, crash or power loss takes them back.                   *)
THEOREM CommitsAreDurable == Spec => []AckedDurable
<1>1. IInv /\ CommitInv => AckedDurable
  <2> SUFFICES ASSUME IInv, CommitInv PROVE AckedDurable
    OBVIOUS
  <2>1. image \in Seq(Cell) /\ synced \in Nat /\ synced <= Len(image) /\ TrailersReadable
    BY CellAt DEF IInv, TypeOK
  <2>2. Anchored(dpending, synced)
    BY <2>1, CellAt DEF IInv, DiskGuards
  <2>3. Guarded(Select(synced, dpending), synced)
    BY <2>1, <2>2, SelectLast
  <2> QED
    BY <2>3 DEF Guarded, CommitInv, CommitKept, AckedDurable, OnDisk, IsTrailer
<1> QED
  BY <1>1, InvariantHolds, CommitInvHolds, PTL

(* A reader that came after a commit sees it, whatever appends run while   *)
(* it opens the file.                                                      *)
THEOREM ReadersSeeCommits == Spec => []ReadersFresh
<1>1. CommitInv => ReadersFresh
  BY DEF CommitInv, ReadersKept, ReaderKept, ReadersFresh
<1> QED
  BY <1>1, CommitInvHolds, PTL

-----------------------------------------------------------------------------
(* The file implements ArchiveStore.                                       *)

(* What is visible, and what a power loss leaves, are the keys of the last *)
(* trailer of the file and of its synced part.                             *)
LastTold ==
  /\ \E o : Guarded(o, flen)
  /\ \E o : Guarded(o, synced)
  /\ \A o : Guarded(o, flen) => Visible = KeysAt(o)
  /\ \A o : Guarded(o, synced) => OnDisk = KeysAt(o)

LEMMA LastIsTold == IInv => LastTold
<1> SUFFICES ASSUME IInv PROVE LastTold
  OBVIOUS
<1>1. /\ image \in Seq(Cell) /\ Len(image) \in Nat /\ TrailersReadable
      /\ flen \in Nat /\ flen <= Len(image) /\ synced \in Nat /\ synced <= Len(image)
  BY CellAt DEF IInv, TypeOK
<1>2. Anchored(pending, flen) /\ Anchored(dpending, synced)
  BY <1>1 DEF IInv, HeaderGuards, DiskGuards
<1>3. Guarded(Select(flen, pending), flen) /\ Guarded(Select(synced, dpending), synced)
  BY <1>1, <1>2, SelectLast
<1>4. ASSUME NEW n \in Nat, NEW o, NEW q, Guarded(o, n), Guarded(q, n) PROVE o = q
  BY <1>4 DEF Guarded, NoTrailerAfter
<1> QED
  BY <1>1, <1>3, <1>4 DEF LastTold, Visible, OnDisk

LEMMA LastIsToldNext == IInv' => LastTold'
  BY LastIsTold, PTL

LEMMA KeysAreDistinct == IInv => Store!Distinct(Visible)
<1> SUFFICES ASSUME IInv PROVE Store!Distinct(Visible)
  OBVIOUS
<1>1. PICK o : Guarded(o, flen) /\ Visible = KeysAt(o)
  BY LastIsTold DEF LastTold
<1>2. IsTrailer(o)
  BY <1>1 DEF Guarded
<1>3. PICK ds : ds = TableAt(o).docs
  OBVIOUS
<1>4. /\ image \in Seq(Cell) /\ Readable(o) /\ KeysAt(o) = KeysOf(ds)
      /\ ds \in Seq(DocEntry)
  BY <1>2, <1>3, TrailerKeys, TrailersDecode, ReadableTables DEF IInv, TypeOK
<1>5. \A i, j \in DOMAIN ds : ds[i].key = ds[j].key => i = j
  BY <1>3, <1>4 DEF Readable, DocsPlaced
<1>6. Store!Distinct(KeysOf(ds))
  BY <1>4, <1>5, KeysOfTable DEF Store!Distinct
<1> QED
  BY <1>1, <1>4, <1>6

LEMMA KeysAreDistinctNext == IInv' => Store!Distinct(Visible')
<1>1. IInv' => Store!Distinct(Visible)'
  BY KeysAreDistinct, PTL
<1> QED
  BY <1>1 DEF Store!Distinct

(* A part of the file that keeps its cells keeps its last trailer.         *)
LEMMA LastStays ==
  ASSUME IInv, IInv', NEW m \in Nat, m <= Len(image), m <= Len(image'),
         \A i \in 1..m : image'[i] = image[i], NEW o, Guarded(o, m)
  PROVE  Guarded(o, m)' /\ KeysAt(o)' = KeysAt(o) /\ IsTrailer(o)
<1>1. /\ image \in Seq(Cell) /\ image' \in Seq(Cell)
      /\ Len(image) \in Nat /\ Len(image') \in Nat
  BY LenProperties DEF IInv, TypeOK
<1>2. Guarded(o, m)'
  <2>1. m \in 0..Len(image) /\ m \in m..Len(image') /\ \A q \in (m + 1)..m : ~IsTrailer(q)'
    BY <1>1
  <2> QED
    BY <1>1, <2>1, GuardedFrame
<1>3. o \in 1..Len(image) /\ o <= Len(image') /\ \A i \in 1..o : image'[i] = image[i]
  BY <1>1 DEF Guarded
<1> QED
  BY <1>1, <1>2, <1>3, Frame DEF Guarded

LEMMA VisibleStays ==
  ASSUME IInv, IInv', flen <= Len(image'), flen' = flen,
         \A i \in 1..flen : image'[i] = image[i]
  PROVE  Visible' = Visible
<1>1. PICK m \in Nat : m = flen /\ m <= Len(image)
  BY CellAt DEF IInv, TypeOK
<1>2. PICK o : Guarded(o, m) /\ Visible = KeysAt(o)
  BY <1>1, LastIsTold DEF LastTold
<1>3. Guarded(o, m)' /\ KeysAt(o)' = KeysAt(o)
  BY <1>1, <1>2, LastStays
<1>4. Guarded(o, flen)'
  BY <1>1, <1>3 DEF Guarded, NoTrailerAfter, IsTrailer
<1>5. Visible' = KeysAt(o)'
  BY <1>4, LastIsToldNext DEF LastTold
<1> QED
  BY <1>2, <1>3, <1>5

LEMMA OnDiskStays ==
  ASSUME IInv, IInv', synced <= Len(image'), synced' = synced,
         \A i \in 1..synced : image'[i] = image[i]
  PROVE  OnDisk' = OnDisk
<1>1. PICK m \in Nat : m = synced /\ m <= Len(image)
  BY CellAt DEF IInv, TypeOK
<1>2. PICK o : Guarded(o, m) /\ OnDisk = KeysAt(o)
  BY <1>1, LastIsTold DEF LastTold
<1>3. Guarded(o, m)' /\ KeysAt(o)' = KeysAt(o)
  BY <1>1, <1>2, LastStays
<1>4. Guarded(o, synced)'
  BY <1>1, <1>3 DEF Guarded, NoTrailerAfter, IsTrailer
<1>5. OnDisk' = KeysAt(o)'
  BY <1>4, LastIsToldNext DEF LastTold
<1> QED
  BY <1>2, <1>3, <1>5

(* Syncing the file hardens what is visible.                               *)
LEMMA Hardens ==
  ASSUME IInv, IInv', image' = image, flen' = flen, synced' = flen
  PROVE  Store!Harden
<1>1. PICK m \in Nat : m = flen /\ m <= Len(image)
  BY CellAt DEF IInv, TypeOK
<1>2. Visible' = Visible
  BY <1>1, VisibleStays
<1>3. PICK o : Guarded(o, m) /\ Visible = KeysAt(o)
  BY <1>1, LastIsTold DEF LastTold
<1>4. Guarded(o, m)' /\ KeysAt(o)' = KeysAt(o)
  BY <1>1, <1>3, LastStays
<1>5. Guarded(o, synced)'
  BY <1>1, <1>4 DEF Guarded, NoTrailerAfter, IsTrailer
<1>6. OnDisk' = KeysAt(o)'
  BY <1>5, LastIsToldNext DEF LastTold
<1> QED
  BY <1>2, <1>3, <1>4, <1>6 DEF Store!Harden

(* More of the image in the file, or a cut beyond the file: the append is  *)
(* published if its trailer is there.                                      *)
LEMMA Publishes ==
  ASSUME IInv, IInv', CommitInv, NEW n \in flen..Len(image), NEW k \in Nat, k = flen', n <= k,
         \A i \in 1..n : image'[i] = image[i],
         \A o \in (n + 1)..k : ~IsTrailer(o)',
         synced' = synced
  PROVE  Store!Publish
<1>1. /\ flen \in Nat /\ n \in Nat /\ flen <= n /\ n <= Len(image) /\ synced \in Nat
      /\ synced <= flen /\ DOMAIN image = 1..Len(image) /\ image \in Seq(Cell)
      /\ Len(image) \in Nat
  BY CellAt DEF IInv, TypeOK
<1>2. /\ image' \in Seq(Cell) /\ k <= Len(image') /\ Len(image') \in Nat
      /\ DOMAIN image' = 1..Len(image')
  BY LenProperties DEF IInv, TypeOK
<1>3. OnDisk' = OnDisk
  BY <1>1, <1>2, OnDiskStays
<1>4. PICK v : Guarded(v, flen) /\ Visible = KeysAt(v)
  BY LastIsTold DEF LastTold
<1>5. PICK w : Guarded(w, flen)' /\ Visible' = KeysAt(w)'
  BY LastIsToldNext DEF LastTold
<1>6. w \in 1..k /\ IsTrailer(w)' /\ \A q \in (w + 1)..k : ~IsTrailer(q)'
  BY <1>5 DEF Guarded, NoTrailerAfter
<1>7. w \in 1..n
  BY <1>1, <1>2, <1>6
<1>8. IsTrailer(w) /\ KeysAt(w)' = KeysAt(w)
  <2>1. w \in 1..Len(image) /\ w <= Len(image') /\ \A i \in 1..w : image'[i] = image[i]
    BY <1>1, <1>2, <1>7
  <2> QED
    BY <1>1, <1>2, <1>6, <2>1, Frame
<1>9. v \in 1..flen /\ IsTrailer(v) /\ v <= w
  <2>1. v \in 1..flen /\ IsTrailer(v)
    BY <1>4 DEF Guarded
  <2>2. IsTrailer(v)'
    BY <1>1, <1>2, <2>1 DEF IsTrailer
  <2>3. v \in 1..k
    BY <1>1, <1>2, <2>1
  <2> QED
    BY <1>2, <1>6, <2>1, <2>2, <2>3
<1>10. Prefix(KeysAt(v), KeysAt(w))
  <2>1. KeysAt(v) \in Seq(Keys)
    BY <1>9, TrailerKeys
  <2> QED
    BY <1>1, <1>7, <1>8, <1>9, <2>1, PrefixOf DEF CommitInv, TrailersGrow, IsTrailer
<1>11. Store!Extends(Visible', Visible)
  BY <1>4, <1>5, <1>8, <1>10 DEF Store!Extends, Prefix
<1> QED
  BY <1>3, <1>11, KeysAreDistinctNext DEF Store!Publish

(* A step that leaves the file and its synced part.                        *)
LEMMA Stutters ==
  ASSUME IInv, IInv', NEW m \in Nat, flen <= m, m <= Len(image), m <= Len(image'),
         flen' = flen, synced' = synced, \A i \in 1..m : image'[i] = image[i]
  PROVE  UNCHANGED Store!storeVars
<1>1. flen \in Nat /\ synced \in Nat /\ synced <= flen /\ Len(image') \in Nat
  BY CellAt, LenProperties DEF IInv, TypeOK
<1>2. /\ \A i \in 1..flen : image'[i] = image[i]
      /\ \A i \in 1..synced : image'[i] = image[i]
      /\ flen <= Len(image') /\ synced <= Len(image')
  BY <1>1
<1> QED
  BY <1>2, VisibleStays, OnDiskStays DEF Store!storeVars

(* Writing the image past what the file holds is not seen.                 *)
LEMMA ImageGrows ==
  IInv /\ IInv' /\ (SealBundle \/ Finish \/ \E k \in Keys : Push(k))
    => UNCHANGED Store!storeVars
<1> SUFFICES ASSUME IInv, IInv', SealBundle \/ Finish \/ \E k \in Keys : Push(k)
             PROVE  UNCHANGED Store!storeVars
  OBVIOUS
<1>0. Len(image) \in Nat /\ flen \in Nat /\ flen <= Len(image)
  BY CellAt DEF IInv, TypeOK
<1>1. PICK L \in Nat : L = Len(image) /\ flen <= L
  BY <1>0
<1>2. flen' = flen /\ synced' = synced
  BY DEF SealBundle, Finish, Push
<1>3. L <= Len(image') /\ \A i \in 1..L : image'[i] = image[i]
  <2>1. CASE Finish
    <3>1. PICK ds, at : ds = docs /\ at = pos' - 2
      OBVIOUS
    <3>2. PICK bs \in Seq(BundleDesc) : Finished(L, ds, bs, at)
      BY <1>1, <2>1, <3>1, FinishImage
    <3> QED
      BY <3>2 DEF Finished
  <2>2. CASE SealBundle \/ \E k \in Keys : Push(k)
    <3>1. PICK c \in Cell : image' = Append(image, c)
      BY <2>2, SealedBlock, DocCell DEF SealBundle, Push
    <3>2. image \in Seq(Cell)
      BY DEF IInv, TypeOK
    <3> QED
      BY <1>1, <3>1, <3>2, AppendProperties
  <2> QED
    BY <2>1, <2>2
<1> QED
  BY <1>1, <1>2, <1>3, Stutters

(* The truncation drops nothing that anyone sees.                          *)
LEMMA TruncateStutters == IInv /\ IInv' /\ Truncate => UNCHANGED Store!storeVars
<1> SUFFICES ASSUME IInv, IInv', Truncate PROVE UNCHANGED Store!storeVars
  OBVIOUS
<1>1. PICK b : b = base
  OBVIOUS
<1>2. Cut(b, FALSE) /\ synced' = b
  BY <1>1 DEF Truncate
<1>3. /\ Guarded(b, Len(image)) /\ image \in Seq(Cell) /\ synced = flen /\ flen = Len(image)
      /\ Len(image) \in Nat
  BY <1>1, CellAt DEF Truncate, IInv, TypeOK, AppenderInv, Loaded
<1>4. b \in 0..Len(image) /\ b \in Nat /\ FALSE \in BOOLEAN
  BY <1>3 DEF Guarded
<1>5. /\ Len(image') = flen' /\ flen' = (IF FALSE THEN b + 1 ELSE b)
      /\ \A i \in 1..b : image'[i] = image[i]
  BY <1>2, <1>3, <1>4, CutImage
<1>6. Guarded(b, b)
  BY <1>3, <1>4 DEF Guarded, NoTrailerAfter
<1>7. Guarded(b, b)' /\ KeysAt(b)' = KeysAt(b)
  <2>1. b <= Len(image) /\ b <= Len(image')
    BY <1>3, <1>4, <1>5
  <2> QED
    BY <1>4, <1>5, <1>6, <2>1, LastStays
<1>8. Visible = KeysAt(b) /\ OnDisk = KeysAt(b)
  BY <1>3, LastIsTold DEF LastTold
<1>9. Guarded(b, flen)' /\ Guarded(b, synced)'
  BY <1>2, <1>5, <1>7 DEF Guarded, NoTrailerAfter, IsTrailer
<1>10. Visible' = KeysAt(b)' /\ OnDisk' = KeysAt(b)'
  BY <1>9, LastIsToldNext DEF LastTold
<1> QED
  BY <1>7, <1>8, <1>10 DEF Store!storeVars

LEMMA PowerLossFails ==
  IInv /\ IInv' /\ CommitInv /\ PowerLoss => Store!PowerFailure
<1> SUFFICES ASSUME IInv, IInv', CommitInv, PowerLoss PROVE Store!PowerFailure
  OBVIOUS
<1>1. PICK n \in synced..flen, torn \in BOOLEAN : Cut(n, torn) /\ synced' = flen'
  BY DEF PowerLoss
<1>2. /\ image \in Seq(Cell) /\ Len(image) \in Nat /\ DOMAIN image = 1..Len(image)
      /\ flen \in Nat /\ synced \in Nat /\ synced <= n /\ n <= flen /\ flen <= Len(image)
      /\ n \in 0..Len(image)
  BY CellAt, SMTT(30) DEF IInv, TypeOK
<1>3. PICK k : k = flen'
  OBVIOUS
<1>4. /\ image' \in Seq(Cell) /\ Len(image') = k /\ k \in Nat /\ n <= k
      /\ \A i \in 1..n : image'[i] = image[i]
      /\ \A o \in (n + 1)..k : ~IsTrailer(o)'
  BY <1>1, <1>2, <1>3, CutImage
<1>5. PICK w : Guarded(w, flen)' /\ Visible' = KeysAt(w)'
  BY LastIsToldNext DEF LastTold
<1>6. w \in 1..k /\ IsTrailer(w)' /\ \A q \in (w + 1)..k : ~IsTrailer(q)'
  BY <1>3, <1>5 DEF Guarded, NoTrailerAfter
<1>7. OnDisk' = Visible'
  <2>1. Guarded(w, synced)'
    BY <1>1, <1>5 DEF Guarded, NoTrailerAfter, IsTrailer
  <2> QED
    BY <1>5, <2>1, LastIsToldNext DEF LastTold
<1>8. w \in 1..n
  BY <1>2, <1>4, <1>6
<1>9. IsTrailer(w) /\ KeysAt(w)' = KeysAt(w)
  <2>1. w \in 1..Len(image) /\ w <= Len(image') /\ \A i \in 1..w : image'[i] = image[i]
    BY <1>2, <1>4, <1>8
  <2> QED
    BY <1>2, <1>4, <1>6, <2>1, Frame
<1>10. ASSUME NEW q \in (w + 1)..n PROVE ~IsTrailer(q)
  <2>1. q \in (w + 1)..k /\ q \in 1..n
    BY <1>2, <1>4, <1>8
  <2>2. IsTrailer(q) => IsTrailer(q)'
    BY <1>2, <1>4, <2>1, LenProperties DEF IsTrailer
  <2> QED
    BY <1>6, <2>1, <2>2
<1>11. CASE w <= synced
  <2>1. Guarded(w, synced)
    BY <1>2, <1>8, <1>9, <1>10, <1>11 DEF Guarded, NoTrailerAfter
  <2>2. OnDisk = KeysAt(w)
    BY <2>1, LastIsTold DEF LastTold
  <2> QED
    BY <1>5, <1>7, <1>9, <2>2 DEF Store!PowerFailure
<1>12. CASE w > synced
  <2>1. \A q \in (w + 1)..flen : ~IsTrailer(q)
    <3> SUFFICES ASSUME NEW q \in (w + 1)..flen, IsTrailer(q) PROVE FALSE
      OBVIOUS
    <3>1. q \in (synced + 1)..Len(image) /\ w \in (synced + 1)..Len(image) /\ q # w
      BY <1>2, <1>8, <1>12
    <3> QED
      BY <1>9, <3>1 DEF CommitInv, OneUnsynced
  <2>2. Guarded(w, flen)
    BY <1>2, <1>8, <1>9, <2>1 DEF Guarded, NoTrailerAfter
  <2>3. Visible = KeysAt(w)
    BY <2>2, LastIsTold DEF LastTold
  <2> QED
    BY <1>5, <1>7, <1>9, <2>3 DEF Store!PowerFailure
<1> QED
  BY <1>2, <1>8, <1>11, <1>12

LEMMA StoreStep ==
  IInv /\ IInv' /\ CommitInv /\ [Next]_vars => [Store!StoreNext]_Store!storeVars
<1> SUFFICES ASSUME IInv, IInv', CommitInv, [Next]_vars
             PROVE  Store!StoreNext \/ UNCHANGED Store!storeVars
  OBVIOUS
<1>0. Len(image) \in Nat /\ flen \in Nat /\ flen <= Len(image)
  BY CellAt DEF IInv, TypeOK
<1>1. PICK L \in Nat : L = Len(image) /\ flen <= L /\ flen \in Nat
  BY <1>0
<1>2. CASE image' = image /\ flen' = flen /\ synced' = synced
  BY <1>1, <1>2, Stutters
<1>3. CASE image' = image /\ flen' = flen /\ synced' = flen
  BY <1>3, Hardens DEF Store!StoreNext
<1>4. CASE OpenAppend \/ StageHeader \/ ClearHeader \/ (\E r \in Readers : Reader(r))
           \/ UNCHANGED vars
  BY <1>2, <1>4 DEF OpenAppend, StageHeader, ClearHeader, Reader, MapFile, ReadHeader,
     ReadTail, ReadFallback, CloseReader, vars, fileVars
<1>5. CASE SyncStage \/ SyncTail \/ SyncClear \/ Writeback
  BY <1>2, <1>3, <1>5 DEF SyncStage, SyncTail, SyncClear, Writeback, SyncData
<1>6. CASE SealBundle \/ Finish \/ \E k \in Keys : Push(k)
  BY <1>6, ImageGrows
<1>7. CASE Truncate
  BY <1>7, TruncateStutters
<1>8. CASE Flush
  <2>1. image' = image /\ flen < L /\ flen' = flen + 1 /\ synced' = synced
    BY <1>1, <1>8 DEF Flush
  <2>2. PICK k \in Nat : k = flen + 1
    BY <1>1
  <2>3. k \in flen..Len(image) /\ k = flen' /\ \A o \in (k + 1)..k : ~IsTrailer(o)'
    BY <1>1, <2>1, <2>2
  <2> QED
    BY <2>1, <2>3, Publishes DEF Store!StoreNext
<1>9. CASE Stop
  <2>1. PICK n \in flen..Len(image), torn \in BOOLEAN : Cut(n, torn)
    BY <1>9 DEF Stop
  <2>2. PICK k : k = flen'
    OBVIOUS
  <2>3. image \in Seq(Cell) /\ n \in 0..Len(image) /\ synced' = synced
    BY <1>1, <1>9 DEF IInv, TypeOK, Stop
  <2>4. /\ k \in Nat /\ n <= k
        /\ \A i \in 1..n : image'[i] = image[i]
        /\ \A o \in (n + 1)..k : ~IsTrailer(o)'
    BY <2>1, <2>2, <2>3, CutImage
  <2> QED
    BY <2>2, <2>3, <2>4, Publishes DEF Store!StoreNext
<1>10. CASE PowerLoss
  BY <1>10, PowerLossFails DEF Store!StoreNext
<1> QED
  BY <1>4, <1>5, <1>6, <1>7, <1>8, <1>9, <1>10 DEF Next, Appender, Failure

LEMMA StoreInitially == Init => Store!StoreInit
<1> SUFFICES ASSUME Init PROVE Visible = <<>> /\ OnDisk = <<>>
  BY DEF Store!StoreInit
<1>1. IInv /\ flen = synced /\ image = <<Table(<<>>, <<>>), Trailer(1)>>
  BY Initially DEF Init
<1>2. PICK o : Guarded(o, flen) /\ Visible = KeysAt(o) /\ OnDisk = KeysAt(o)
  BY <1>1, LastIsTold DEF LastTold
<1>3. IsTrailer(o)
  BY <1>2 DEF Guarded
<1>4. o = 2 /\ TableAt(o).docs = <<>>
  BY <1>1, <1>3 DEF IsTrailer, TableAt, Table, Trailer
<1>5. KeysAt(o) = KeysOf(<<>>)
  BY <1>1, <1>3, <1>4, TrailerKeys
<1>6. KeysOf(<<>>) \in Seq(Keys) /\ Len(KeysOf(<<>>)) = 0
  BY EmptySeq, KeysOfTable
<1> QED
  BY <1>2, <1>5, <1>6, EmptySeq

(* Appends appear whole and keep what was there, and a power loss takes    *)
(* only what was not hardened: the file implements the abstract archive.   *)
THEOREM FileImplementsStore == Spec => ImplementsStore
  BY StoreInitially, StoreStep, InvariantHolds, CommitInvHolds, PTL
  DEF Spec, ImplementsStore, Store!StoreSpec

=============================================================================
