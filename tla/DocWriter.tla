----------------------------- MODULE DocWriter ------------------------------
(***************************************************************************)
(* ArchiveWriter (htmlarc-archive/src/writer.rs) as its callers see it:    *)
(* which documents it holds, in which bundles, and which documents' text   *)
(* frames each bundle's string block has.  Where the bytes are is          *)
(* ArchiveFile's business.  A document is a record with a field `key`; a   *)
(* frame is the document it belongs to.                                    *)
(***************************************************************************)
EXTENDS Naturals, Sequences

(* ArchiveWriter::create; its frames are those of cur_strings, its start   *)
(* is bundle_start_doc.                                                    *)
NewWriter ==
  [docs |-> <<>>, bundles |-> <<>>, frames |-> <<>>, start |-> 0, seen |-> {},
   collapsed |-> 0]

IsDuplicate(w, k) == k \in w.seen

(* push, push_entry, push_serialized: first wins.                          *)
PushDoc(w, d) ==
  IF IsDuplicate(w, d.key) THEN [w EXCEPT !.collapsed = @ + 1]
  ELSE [w EXCEPT !.docs = Append(@, d), !.frames = Append(@, d),
                 !.seen = @ \cup {d.key}]

(* The same of a document that is not a duplicate, when the write fails:   *)
(* its key has been inserted already.                                      *)
PushDocFails(w, d) == [w EXCEPT !.seen = @ \cup {d.key}]

(* seal_bundle; a no-op without documents since the last seal.             *)
Seal(w) ==
  IF Len(w.docs) = w.start THEN w
  ELSE [w EXCEPT !.bundles = Append(@, [n |-> Len(w.docs) - w.start,
                                        frames |-> w.frames]),
                 !.frames = <<>>,
                 !.start = Len(w.docs)]

(* The same, when the block cannot be written: cur_strings was taken out   *)
(* before.                                                                 *)
SealFails(w) == [w EXCEPT !.frames = <<>>]

(* finish seals the tail bundle and compares the metadata rows, if there   *)
(* is a table, with the documents.                                         *)
RowsMatch(w, hasMeta, rowCount) == hasMeta => rowCount = Len(Seal(w).docs)

=============================================================================
