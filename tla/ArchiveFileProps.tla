-------------------------- MODULE ArchiveFileProps --------------------------
(***************************************************************************)
(* What in-place append promises, over the states of ArchiveFile.          *)
(***************************************************************************)
EXTENDS ArchiveFile

ReaderState == {"idle", "mapped", "header", "fallback", "open", "failed", "fault"}

ReaderRec == [st : ReaderState, len : Nat, pend : Nat, off : Nat,
              snap : Seq(Keys), ack : Seq(Keys)]

AppenderState == {"idle", "selected", "staged", "stageSynced", "body", "flush",
                  "tailSynced", "cleared"}

(* The types of the file, of the appender's tables and of the readers.     *)
TypeOK ==
  /\ image \in Seq(Cell)
  /\ flen \in 0..Len(image)
  /\ synced \in 0..flen
  /\ pending \in Nat
  /\ dpending \in Nat
  /\ pc \in AppenderState
  /\ base \in Nat
  /\ pos \in Nat
  /\ docs \in Seq(DocEntry)
  /\ bundles \in Seq(BundleDesc)
  /\ seen \subseteq Keys
  /\ sessions \in 0..MaxSessions
  /\ acked \in Seq(Keys)
  /\ rd \in [Readers -> ReaderRec]

(* Every entry of a doc table is where it says, under its own key.         *)
DocsPlaced(ds, limit) ==
  /\ \A i \in DOMAIN ds : ds[i].off \in 1..limit /\ image[ds[i].off] = Doc(ds[i].key)
  /\ \A i, j \in DOMAIN ds : ds[i].key = ds[j].key => i = j

(* Bundles tile a prefix of the n documents ...                            *)
Tiles(bs, n) ==
  \A b \in DOMAIN bs :
    /\ bs[b].start = IF b = 1 THEN 1 ELSE bs[b - 1].start + bs[b - 1].n
    /\ bs[b].n > 0
    /\ bs[b].start - 1 + bs[b].n <= n

(* ... each with its own documents' string block.                          *)
BlocksPlaced(bs, ds, limit) ==
  \A b \in DOMAIN bs :
    /\ bs[b].off \in 1..limit
    /\ image[bs[b].off] =
         Block([i \in 1..bs[b].n |-> ds[bs[b].start - 1 + i].key])

BundlesPlaced(bs, ds, limit) == Tiles(bs, Len(ds)) /\ BlocksPlaced(bs, ds, limit)

Readable(o) ==
  /\ Opens(o)
  /\ DocsPlaced(TableAt(o).docs, image[o].tab - 1)
  /\ BundlesPlaced(TableAt(o).bundles, TableAt(o).docs, image[o].tab - 1)
  /\ Covered(TableAt(o).bundles) = Len(TableAt(o).docs)

(* ADR 0010: wherever the appender stops, the file opens, and every        *)
(* document and string block its tables name is the right one.  A footer   *)
(* that is found before its body, a lost recovery offset or an offset that *)
(* slipped would break it (Trailer::select, ArchiveWriter::finish).        *)
Recoverable == Readable(Select(flen, pending))

(* The same of what a power loss would leave, with either header: the      *)
(* staging sync comes before the first byte and the tail is synced before  *)
(* the header is cleared (writer.rs, "Commit order matters").              *)
DurablyRecoverable ==
  /\ Readable(Select(synced, dpending))
  /\ HeaderMayPersist => Readable(Select(synced, pending))

Prefix(old, new) == Len(old) <= Len(new) /\ \A i \in DOMAIN old : new[i] = old[i]

(* A commit that returned Ok is on stable storage and stays there: no      *)
(* later append, abandoned or not, and no power loss takes it back.        *)
AckedDurable == Prefix(acked, OnDisk)

(* ADR 0010: readers that hold the archive open are unaffected.  The       *)
(* regions they use stay in the file and keep their content, also while a  *)
(* later append truncates an abandoned tail and writes over it.            *)
ReadersStable ==
  \A r \in Readers :
    rd[r].st = "open" =>
      /\ rd[r].off <= flen
      /\ Readable(rd[r].off)
      /\ KeysAt(rd[r].off) = rd[r].snap

(* A reader that starts to open after a commit returned sees that commit,  *)
(* however the steps of its open interleave with later appends.            *)
ReadersFresh ==
  \A r \in Readers : rd[r].st = "open" => Prefix(rd[r].ack, rd[r].snap)

(* The offset the appender records for what it writes next is where it     *)
(* lands: writer.rs calls pos "the single source of truth for every        *)
(* recorded offset".                                                       *)
PosIsFilePosition == pc \in {"body", "flush"} => pos = Len(image) + 1

(* The file implements the abstract archive: appends appear whole and      *)
(* keep what was there, and only unhardened ones are lost.                 *)
Store == INSTANCE ArchiveStore WITH store <- Visible, durable <- OnDisk

ImplementsStore == Store!StoreSpec

(* trailer.rs: the staged offset is the fallback in "exactly the state a   *)
(* crashed or in-progress in-place append leaves behind", so an open       *)
(* during an append finds one archive or the other.                        *)
OpenNeverFails == \A r \in Readers : rd[r].st # "failed"

(* ADR 0010: "append only writes past their mapped EOF", so a mapping      *)
(* never loses its pages to an append.                                     *)
MappingStaysBacked == \A r \in Readers : rd[r].st # "fault"

-----------------------------------------------------------------------------
(* The inductive invariant.                                                *)

NoTrailerAfter(o, n) == \A q \in (o + 1)..n : ~IsTrailer(q)

(* The first n cells, under a header that holds p, open at their last      *)
(* trailer because the header points at it ...                             *)
Guarded(p, n) == p \in 1..n /\ IsTrailer(p) /\ NoTrailerAfter(p, n)

(* ... or because it ends the image.                                       *)
Anchored(p, n) == Guarded(p, n) \/ (n = Len(image) /\ IsTrailer(n))

TrailersReadable == \A o \in DOMAIN image : IsTrailer(o) => Readable(o)

(* Every cut the crash of the process can make, and every cut a power loss *)
(* can make, is anchored.                                                  *)
HeaderGuards == \A n \in flen..Len(image) : Anchored(pending, n)

DiskGuards ==
  \A n \in synced..Len(image) :
    /\ Anchored(dpending, n)
    /\ HeaderMayPersist => Anchored(pending, n)

(* The appender has loaded the last trailer and the tables it locates.     *)
Loaded ==
  /\ Guarded(base, Len(image))
  /\ docs = TableAt(base).docs
  /\ bundles = TableAt(base).bundles
  /\ pos = base + 1

(* It is writing past the trailer its header, synced, points at.           *)
Writing ==
  /\ base <= synced /\ Guarded(base, Len(image))
  /\ pending = base /\ dpending = base
  /\ pos = Len(image) + 1
  /\ DocsPlaced(docs, Len(image))
  /\ BundlesPlaced(bundles, docs, Len(image))

AppenderInv ==
  /\ pc \notin {"body", "flush"} => flen = Len(image)
  /\ pc \in {"selected", "staged", "stageSynced"} => Loaded
  /\ pc \in {"staged", "stageSynced"} => pending = base
  /\ pc = "stageSynced" => dpending = base /\ synced = flen
  /\ pc \in {"selected", "staged", "stageSynced", "body"} =>
       seen = {docs[i].key : i \in DOMAIN docs}
  /\ pc = "body" => Writing
  /\ pc \in {"flush", "tailSynced", "cleared"} => IsTrailer(Len(image))
  /\ pc \in {"tailSynced", "cleared"} => synced = flen

ReadersInv ==
  \A r \in Readers :
    rd[r].st = "open" =>
      /\ rd[r].off \in 1..flen
      /\ IsTrailer(rd[r].off)
      /\ KeysAt(rd[r].off) = rd[r].snap

IInv ==
  TypeOK /\ TrailersReadable /\ HeaderGuards /\ DiskGuards /\ AppenderInv /\ ReadersInv

-----------------------------------------------------------------------------
(* What the trailers in the file say about commits: a second inductive     *)
(* invariant, on top of IInv.                                              *)

(* A later trailer holds what an earlier one holds.                        *)
TrailersGrow ==
  \A o, q \in DOMAIN image :
    IsTrailer(o) /\ IsTrailer(q) /\ o < q => Prefix(KeysAt(o), KeysAt(q))

(* At most one append is in the file that is not on stable storage.        *)
OneUnsynced ==
  \A o, q \in (synced + 1)..Len(image) : IsTrailer(o) /\ IsTrailer(q) => o = q

(* No trailer from o on has forgotten one of the keys ks.                  *)
Kept(ks, o) == \A q \in DOMAIN image : IsTrailer(q) /\ q >= o => Prefix(ks, KeysAt(q))

(* Any trailer that a power loss can leave as the last one holds what was  *)
(* committed, and so do those from a staged offset on.                     *)
CommitKept ==
  \A o \in DOMAIN image :
    IsTrailer(o) /\ NoTrailerAfter(o, synced) => Prefix(acked, KeysAt(o))

HeadersKept == \A p \in {pending, dpending} : p # 0 => Kept(acked, p)

(* The appender's table extends the one it loaded, and is the one it wrote. *)
AppenderKept ==
  /\ pc = "body" => Prefix(KeysAt(base), KeysOf(docs))
  /\ pc \in {"flush", "tailSynced", "cleared"} => KeysAt(Len(image)) = KeysOf(docs)
  /\ pc = "cleared" => pending = 0

(* Whatever trailer a reader may still arrive at holds what was committed  *)
(* before it mapped the file.                                              *)
ReaderKept(x) ==
  /\ Prefix(x.ack, acked)
  /\ x.st \in {"mapped", "header", "fallback"} => Kept(x.ack, x.len)
  /\ x.st \in {"header", "fallback"} /\ x.pend # 0 => Kept(x.ack, x.pend)
  /\ x.st = "open" => Prefix(x.ack, x.snap)

ReadersKept == \A r \in Readers : ReaderKept(rd[r])

CommitInv ==
  TrailersGrow /\ OneUnsynced /\ CommitKept /\ HeadersKept /\ AppenderKept /\ ReadersKept

=============================================================================
