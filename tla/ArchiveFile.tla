---------------------------- MODULE ArchiveFile -----------------------------
(***************************************************************************)
(* One .htmlarc file under in-place append (ADR 0010): the appender of     *)
(* htmlarc-archive/src/writer.rs, the header and trailer lookup that every *)
(* reader and the next appender share, readers that map the file while it  *)
(* grows, a process that stops anywhere, and power loss.                   *)
(*                                                                         *)
(* The file is a sequence of cells, one per blob, region or trailer; an    *)
(* offset is an index into it, and 0 is the header's "no offset".  The     *)
(* appender's BufWriter is not a second copy: `image` is the file as the   *)
(* appender has written it, `flen` says how much of it the file holds and  *)
(* `synced` how much of that is on stable storage.                         *)
(***************************************************************************)
EXTENDS Naturals, Sequences

CONSTANTS
  Keys,          (* document keys                                          *)
  Readers,       (* reader threads or processes                            *)
  MaxSessions    (* bound: appends attempted                               *)

ASSUME SessionsAssumption == MaxSessions \in Nat

VARIABLES
  image,         (* cells written, those still buffered included           *)
  flen,          (* cells of the image the file holds                      *)
  synced,        (* cells of the file on stable storage                    *)
  pending,       (* header bytes 10..16: staged trailer offset, 0 = none   *)
  dpending,      (* the same bytes on stable storage                       *)
  pc,            (* where the appender is                                  *)
  base,          (* the trailer it selected: old_trailer_offset            *)
  pos,           (* ArchiveWriter.pos: the offset it records for what next *)
                 (* it writes                                              *)
  docs,          (* ArchiveWriter.docs                                     *)
  bundles,       (* ArchiveWriter.bundles                                  *)
  seen,          (* ArchiveWriter.seen                                     *)
  sessions,      (* appends attempted so far                               *)
  acked,         (* history: the keys whose commit has returned Ok         *)
  rd             (* readers                                                *)

fileVars   == <<image, flen, synced, pending, dpending>>
writerVars == <<base, pos, docs, bundles, seen>>
vars == <<fileVars, pc, writerVars, sessions, acked, rd>>

-----------------------------------------------------------------------------
(* Cells.                                                                  *)

Doc(k)          == [t |-> "doc", key |-> k]
Block(ks)       == [t |-> "block", keys |-> ks]
Table(ds, bs)   == [t |-> "table", docs |-> ds, bundles |-> bs]
Trailer(at)     == [t |-> "trailer", tab |-> at]
Torn            == [t |-> "torn"]

DocEntry   == [key : Keys, off : Nat]
BundleDesc == [start : Nat, n : Nat, off : Nat]

Cell ==
  [t : {"doc"}, key : Keys]
    \cup [t : {"block"}, keys : Seq(Keys)]
    \cup [t : {"table"}, docs : Seq(DocEntry), bundles : Seq(BundleDesc)]
    \cup [t : {"trailer"}, tab : Nat]
    \cup [t : {"torn"}]

KeysOf(ds) == [i \in DOMAIN ds |-> ds[i].key]

IsTrailer(o) == o \in DOMAIN image /\ image[o].t = "trailer"

(* Trailer::decode: the magic is there and the footer lies before it.      *)
Decodes(o) == IsTrailer(o) /\ image[o].tab \in 1..(o - 1)

(* Trailer::select on a file of `len` cells whose header holds p: a        *)
(* complete tail wins, the staged offset is the fallback, 0 is an error.   *)
Select(len, p) ==
  IF Decodes(len) THEN len
  ELSE IF p \in 1..len /\ Decodes(p) THEN p
  ELSE 0

TableAt(o) == image[image[o].tab]

(* The trailer at o locates a footer that passes the checks of open.       *)
Opens(o) == Decodes(o) /\ TableAt(o).t = "table"

(* The documents found through it.                                         *)
KeysAt(o) == IF Opens(o) THEN KeysOf(TableAt(o).docs) ELSE <<>>

Visible    == KeysAt(Select(flen, pending))
OnDisk     == KeysAt(Select(synced, dpending))

(* The first n cells of the image survive, and perhaps a part of the next. *)
Cut(n, torn) ==
  /\ torn => n < Len(image)
  /\ image' = SubSeq(image, 1, n) \o (IF torn THEN <<Torn>> ELSE <<>>)
  /\ flen' = IF torn THEN n + 1 ELSE n

-----------------------------------------------------------------------------
(* The appender: ArchiveWriter::append.                                    *)

(* The ArchiveWriter is dropped: its process died, or finish consumed it.  *)
DropWriter ==
  /\ pc' = "idle"
  /\ base' = 0 /\ pos' = 0
  /\ docs' = <<>> /\ bundles' = <<>> /\ seen' = {}

(* Mutant of OpenAppend: the reopened writer starts from empty tables.     *)
OpenAppendFresh ==
  /\ pc = "idle"
  /\ sessions < MaxSessions
  /\ sessions' = sessions + 1
  /\ Opens(Select(flen, pending))
  /\ base' = Select(flen, pending)
  /\ pos' = base' + 1
  /\ docs' = <<>> /\ bundles' = <<>> /\ seen' = {}
  /\ pc' = "selected"
  /\ UNCHANGED <<fileVars, acked, rd>>

(* Read the authoritative trailer and the tables it locates.               *)
OpenAppend ==
  /\ pc = "idle"
  /\ sessions < MaxSessions
  /\ sessions' = sessions + 1
  /\ LET o == Select(flen, pending) IN
       /\ Opens(o)
       /\ base' = o
       /\ docs' = TableAt(o).docs
       /\ bundles' = TableAt(o).bundles
       /\ seen' = {TableAt(o).docs[i].key : i \in DOMAIN TableAt(o).docs}
       /\ pos' = o + 1
  /\ pc' = "selected"
  /\ UNCHANGED <<fileVars, acked, rd>>

(* Mutants of StageHeader: nothing is staged; or an offset that an         *)
(* abandoned append staged is kept.                                        *)
StageNothing ==
  /\ pc = "selected"
  /\ pc' = "staged"
  /\ UNCHANGED <<fileVars, writerVars, sessions, acked, rd>>

StageOnce ==
  /\ pc = "selected"
  /\ pending' = IF pending = 0 THEN base ELSE pending
  /\ pc' = "staged"
  /\ UNCHANGED <<image, flen, synced, dpending, writerVars, sessions, acked, rd>>

(* Stage the selected trailer in the header.                               *)
StageHeader ==
  /\ pc = "selected"
  /\ pending' = base
  /\ pc' = "staged"
  /\ UNCHANGED <<image, flen, synced, dpending, writerVars, sessions, acked, rd>>

SyncData ==
  /\ synced' = flen
  /\ dpending' = pending
  /\ UNCHANGED <<image, flen, pending>>

(* Mutant of SyncStage: the staging is not synced.                         *)
StageUnsynced ==
  /\ pc = "staged"
  /\ pc' = "stageSynced"
  /\ UNCHANGED <<fileVars, writerVars, sessions, acked, rd>>

SyncStage ==
  /\ pc = "staged"
  /\ SyncData
  /\ pc' = "stageSynced"
  /\ UNCHANGED <<writerVars, sessions, acked, rd>>

(* Mutant of Truncate: the trailer itself is cut off.                      *)
TruncateAtTrailer ==
  /\ pc = "stageSynced"
  /\ Cut(base - 1, FALSE)
  /\ synced' = base - 1
  /\ pc' = "body"
  /\ UNCHANGED <<pending, dpending, writerVars, sessions, acked, rd>>

(* Discard what lies beyond the selected trailer: file.set_len.            *)
Truncate ==
  /\ pc = "stageSynced"
  /\ Cut(base, FALSE)
  /\ synced' = base
  /\ pc' = "body"
  /\ UNCHANGED <<pending, dpending, writerVars, sessions, acked, rd>>

(* ArchiveWriter::push of a key that is not stored yet; a duplicate        *)
(* changes nothing.                                                        *)
Push(k) ==
  /\ pc = "body"
  /\ k \notin seen
  /\ seen' = seen \cup {k}
  /\ image' = Append(image, Doc(k))
  /\ docs' = Append(docs, [key |-> k, off |-> pos])
  /\ pos' = pos + 1
  /\ UNCHANGED <<flen, synced, pending, dpending, pc, base, bundles, sessions,
                 acked, rd>>

(* The documents that have their bundle; those after them are still open.  *)
Covered(bs) == IF bs = <<>> THEN 0 ELSE bs[Len(bs)].start + bs[Len(bs)].n - 1

Sealed == Covered(bundles)

OpenDocs == Len(docs) - Sealed

(* The block, and the descriptor seal_bundle records for it at offset at.  *)

NewBlock == Block([i \in 1..OpenDocs |-> docs[Sealed + i].key])

NewDesc(at) == [start |-> Sealed + 1, n |-> OpenDocs, off |-> at]

SealBundle ==
  /\ pc = "body"
  /\ OpenDocs > 0
  /\ image' = Append(image, NewBlock)
  /\ bundles' = Append(bundles, NewDesc(pos))
  /\ pos' = pos + 1
  /\ UNCHANGED <<flen, synced, pending, dpending, pc, base, docs, seen, sessions,
                 acked, rd>>

(* ArchiveWriter::finish up to its flush: seal the tail bundle, if it has  *)
(* documents, then the footer and the trailer.                             *)
Finish ==
  /\ pc = "body"
  /\ LET tail == IF OpenDocs > 0 THEN <<NewBlock>> ELSE <<>>
         bs   == IF OpenDocs > 0 THEN Append(bundles, NewDesc(pos)) ELSE bundles
         at   == pos + Len(tail)
     IN  /\ image' = image \o tail \o <<Table(docs, bs), Trailer(at)>>
         /\ bundles' = bs
         /\ pos' = at + 2
  /\ pc' = "flush"
  /\ UNCHANGED <<flen, synced, pending, dpending, base, docs, seen, sessions,
                 acked, rd>>

(* The BufWriter hands the next cell to the file, whenever it fills or is  *)
(* flushed.                                                                *)
Flush ==
  /\ pc \in {"body", "flush"}
  /\ flen < Len(image)
  /\ flen' = flen + 1
  /\ UNCHANGED <<image, synced, pending, dpending, pc, writerVars, sessions,
                 acked, rd>>

(* Mutant of SyncTail: the header is cleared before the tail is durable.   *)
TailUnsynced ==
  /\ pc = "flush"
  /\ flen = Len(image)
  /\ pc' = "tailSynced"
  /\ UNCHANGED <<fileVars, writerVars, sessions, acked, rd>>

SyncTail ==
  /\ pc = "flush"
  /\ flen = Len(image)
  /\ SyncData
  /\ pc' = "tailSynced"
  /\ UNCHANGED <<writerVars, sessions, acked, rd>>

ClearHeader ==
  /\ pc = "tailSynced"
  /\ pending' = 0
  /\ pc' = "cleared"
  /\ UNCHANGED <<image, flen, synced, dpending, writerVars, sessions, acked, rd>>

(* The last sync, after which finish returns Ok.                           *)
SyncClear ==
  /\ pc = "cleared"
  /\ SyncData
  /\ acked' = KeysOf(docs)
  /\ DropWriter
  /\ UNCHANGED <<sessions, rd>>

-----------------------------------------------------------------------------
(* Failure.                                                                *)

ReaderIdle == [st |-> "idle", len |-> 0, pend |-> 0, off |-> 0,
               snap |-> <<>>, ack |-> <<>>]

(* The appender stops: killed, dropped without commit (BufWriter's drop    *)
(* flushes), or returning an I/O error.  Any part of its buffer may reach  *)
(* the file on the way.                                                    *)
Stop ==
  /\ pc # "idle"
  /\ \E n \in flen..Len(image), torn \in BOOLEAN : Cut(n, torn)
  /\ DropWriter
  /\ UNCHANGED <<synced, pending, dpending, sessions, acked, rd>>

(* The header page may reach the disk on its own, but not ahead of the     *)
(* trailer it names: an assumption about the disk, for an appender that    *)
(* was killed after its trailer and before sync_data, and a next one that  *)
(* stages that trailer.                                                    *)
HeaderMayPersist == pending <= synced

(* The kernel writes the data or the header back on its own.               *)
Writeback ==
  /\ \/ /\ synced' = flen
        /\ synced' # synced
        /\ UNCHANGED dpending
     \/ /\ HeaderMayPersist
        /\ dpending' = pending
        /\ dpending' # dpending
        /\ UNCHANGED synced
  /\ UNCHANGED <<image, flen, pending, pc, writerVars, sessions, acked, rd>>

(* Power loss, for a file system that persists appended data in order and  *)
(* the header page independently of it: of what was not synced, a prefix   *)
(* of the data survives, and either header.                                *)
PowerLoss ==
  /\ \E n \in synced..flen, torn \in BOOLEAN :
       /\ Cut(n, torn)
       /\ synced' = flen'
  /\ pending' = dpending \/ (HeaderMayPersist /\ pending' = pending)
  /\ dpending' = pending'
  /\ DropWriter
  /\ rd' = [r \in Readers |-> ReaderIdle]
  /\ UNCHANGED <<sessions, acked>>

-----------------------------------------------------------------------------
(* Readers: MmapArchive::open, one step per access to the live mapping.    *)

MapFile(r) ==
  /\ rd[r].st = "idle"
  /\ rd' = [rd EXCEPT ![r] = [ReaderIdle EXCEPT !.st = "mapped", !.len = flen,
                                                !.ack = acked]]
  /\ UNCHANGED <<fileVars, pc, writerVars, sessions, acked>>

ReadHeader(r) ==
  /\ rd[r].st = "mapped"
  /\ rd' = [rd EXCEPT ![r].st = "header", ![r].pend = pending]
  /\ UNCHANGED <<fileVars, pc, writerVars, sessions, acked>>

(* Open through the trailer at o, if its footer validates.                 *)
Opened(r, o) ==
  IF Opens(o)
  THEN [rd[r] EXCEPT !.st = "open", !.off = o, !.snap = KeysAt(o)]
  ELSE [rd[r] EXCEPT !.st = "failed"]

(* Read a trailer at o through the mapping; `invalid` is the reader when   *)
(* there is none.  Where an appender has truncated the file below o, the   *)
(* access faults or, on the file's last page, reads zeros.                 *)
ReadTrailerAt(r, o, invalid) ==
  \/ /\ o <= flen
     /\ rd' = [rd EXCEPT ![r] = IF Decodes(o) THEN Opened(r, o) ELSE invalid]
  \/ /\ o > flen
     /\ \E outcome \in {[rd[r] EXCEPT !.st = "fault"], invalid} :
          rd' = [rd EXCEPT ![r] = outcome]

ReadTail(r) ==
  /\ rd[r].st = "header"
  /\ ReadTrailerAt(r, rd[r].len, [rd[r] EXCEPT !.st = "fallback"])
  /\ UNCHANGED <<fileVars, pc, writerVars, sessions, acked>>

(* The tail is no trailer: follow the staged offset read before it.        *)
ReadFallback(r) ==
  /\ rd[r].st = "fallback"
  /\ LET failed == [rd[r] EXCEPT !.st = "failed"] IN
       \/ /\ rd[r].pend \in 1..rd[r].len
          /\ ReadTrailerAt(r, rd[r].pend, failed)
       \/ /\ rd[r].pend \notin 1..rd[r].len
          /\ rd' = [rd EXCEPT ![r] = failed]
  /\ UNCHANGED <<fileVars, pc, writerVars, sessions, acked>>

CloseReader(r) ==
  /\ rd[r].st \in {"open", "failed", "fault"}
  /\ rd' = [rd EXCEPT ![r] = ReaderIdle]
  /\ UNCHANGED <<fileVars, pc, writerVars, sessions, acked>>

-----------------------------------------------------------------------------

(* An archive without documents, freshly packed: its tables and trailer.   *)
Init ==
  /\ image = <<Table(<<>>, <<>>), Trailer(1)>>
  /\ flen = 2 /\ synced = 2
  /\ pending = 0 /\ dpending = 0
  /\ pc = "idle" /\ base = 0 /\ pos = 0
  /\ docs = <<>> /\ bundles = <<>> /\ seen = {}
  /\ sessions = 0
  /\ acked = <<>>
  /\ rd = [r \in Readers |-> ReaderIdle]

Appender ==
  \/ OpenAppend \/ StageHeader \/ SyncStage \/ Truncate
  \/ \E k \in Keys : Push(k)
  \/ SealBundle \/ Finish \/ Flush
  \/ SyncTail \/ ClearHeader \/ SyncClear

Failure == Stop \/ Writeback \/ PowerLoss

Reader(r) ==
  MapFile(r) \/ ReadHeader(r) \/ ReadTail(r) \/ ReadFallback(r) \/ CloseReader(r)

Next == Appender \/ Failure \/ \E r \in Readers : Reader(r)

Spec == Init /\ [][Next]_vars

-----------------------------------------------------------------------------
(* A caller that goes on after an I/O error.  write_doc_blocks writes a    *)
(* large blob straight through the BufWriter; when the disk fills up, part *)
(* of it is in the file, the Err comes before `pos += len`, and the key is *)
(* in `seen` already.                                                      *)
PushFailed(k) ==
  /\ pc = "body"
  /\ k \notin seen
  /\ seen' = seen \cup {k}
  /\ image' = Append(image, Torn)
  /\ flen' = Len(image) + 1
  /\ UNCHANGED <<synced, pending, dpending, pc, base, pos, docs, bundles,
                 sessions, acked, rd>>

SpecWriteErrors == Init /\ [][Next \/ \E k \in Keys : PushFailed(k)]_vars

=============================================================================
