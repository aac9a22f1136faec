---------------------------- MODULE InputFormats ----------------------------
(***************************************************************************)
(* The three formats convert reads (htmlarc-convert/src/source): warc.rs,  *)
(* zim.rs and dir.rs.  Each gives pass 1 its items, [skip, key, group, at, *)
(* body], and pass 2 the body of one.                                      *)
(***************************************************************************)
EXTENDS Naturals, Sequences, SequencesExt

CONSTANTS
  NoKey,          (* a record without a WARC-Target-URI                      *)
  NoBody,         (* no body could be read                                   *)
  NoTitle,        (* an entry whose title is empty                           *)
  BundleCap,      (* BUNDLE_CAP                                              *)
  Nfc(_)          (* NFC normalization of a key                              *)

-----------------------------------------------------------------------------
(***************************************************************************)
(* Reading WARC files (htmlarc-convert/src/source/warc.rs).                *)
(*                                                                         *)
(* A file is [present, members].  A member is what a reader can seek to: a *)
(* gzip member with all its records, or one record of a plain file.  It is *)
(* [recs, fault]: its readable records, and what is wrong with it, "none", *)
(* "member" (it cannot be decoded at all) or "record" (it cannot be read   *)
(* behind recs).  Its number stands for its byte offset.  A record is      *)
(* [key, html, body]: the target URI, whether it is a response of type     *)
(* text/html, and the body behind the HTTP header.                         *)
(***************************************************************************)
(* The walk in file order ends at the first member that cannot be read.      *)
Decodes(file, m) == m \in DOMAIN file.members /\ file.members[m].fault # "member"
WalkEnds(file, m) == file.members[m].fault = "record"

HtmlBody(rec) == IF rec.html THEN rec.body ELSE NoBody

\* What pass 1 makes of the records of a member, each with its locator.
RecordItems(file, f, m) ==
    LET recs == file.members[m].recs
    IN [o \in DOMAIN recs |->
          [skip |-> IF HtmlBody(recs[o]) = NoBody \/ recs[o].key = NoKey THEN "silent" ELSE "no",
           key |-> recs[o].key, group |-> f, at |-> <<m, o>>, body |-> HtmlBody(recs[o])]]

\* Mutant of ReadBody: the ordinal is forgotten, a member is taken for one record.
ReadBodyFirst(file, loc) ==
    LET m == loc.at[1]
    IN IF Decodes(file, m) /\ file.members[m].recs # <<>> THEN HtmlBody(file.members[m].recs[1]) ELSE NoBody

\* Pass 2 seeks to the member and skips to the record.
ReadBody(file, loc) ==
    LET m == loc.at[1]  o == loc.at[2]
    IN IF Decodes(file, m) /\ o \in DOMAIN file.members[m].recs
       THEN HtmlBody(file.members[m].recs[o])
       ELSE NoBody

-----------------------------------------------------------------------------
(***************************************************************************)
(* Reading ZIM archives (htmlarc-convert/src/source/zim.rs).               *)
(*                                                                         *)
(* An archive is [entries, broken]: its directory in URL order, and the    *)
(* clusters that cannot be decompressed.  An entry is [content, html,      *)
(* title, url, cluster, body]; a blob that cannot be read, or is not       *)
(* UTF-8, has no body.                                                     *)
(***************************************************************************)
KeyFor(entry) == Nfc(IF entry.title = NoTitle THEN entry.url ELSE entry.title)

EntryItems(zim) ==
    [i \in DOMAIN zim.entries |->
       LET entry == zim.entries[i]
       IN [skip |-> IF ~entry.content THEN "silent" ELSE IF ~entry.html THEN "counted" ELSE "no",
           key |-> KeyFor(entry), group |-> entry.cluster, at |-> <<i>>, body |-> entry.body]]

\* The selected documents cluster by cluster, directory order within each.
ByCluster(docs) ==
    LET clusters == SetToSortSeq({docs[i].group : i \in DOMAIN docs}, <)
    IN [c \in DOMAIN clusters |-> SelectSeq(docs, LAMBDA d : d.group = clusters[c])]

\* One more cluster; the run is sealed once it reaches the cap.
AddCluster(acc, cluster) ==
    LET current == acc.current \o cluster
    IN IF Len(current) >= BundleCap
       THEN [runs |-> Append(acc.runs, current), current |-> <<>>]
       ELSE [acc EXCEPT !.current = current]

GroupIntoRuns(clusters) ==
    LET acc == FoldLeft(AddCluster, [runs |-> <<>>, current |-> <<>>], clusters)
    IN IF acc.current = <<>> THEN acc.runs ELSE Append(acc.runs, acc.current)

ReadBlob(zim, doc) == zim.entries[doc.at[1]].body

-----------------------------------------------------------------------------
(***************************************************************************)
(* Reading a directory of saved pages (htmlarc-convert/src/source/dir.rs). *)
(*                                                                         *)
(* A directory is the sequence of the .html and .htm files under it, in    *)
(* path order, each [present, key, body]: the key is the path under the    *)
(* root, and a file that is not present cannot be read.                    *)
(***************************************************************************)
\* The walk lists the files; nothing is opened.
Walk(dir) == SelectSeq([i \in DOMAIN dir |-> [file |-> i, entry |-> dir[i]]],
                       LAMBDA w : w.entry.present)

FileItems(dir) ==
    LET walk == Walk(dir)
    IN [i \in DOMAIN walk |->
          [skip |-> "no", key |-> walk[i].entry.key, group |-> walk[i].file, at |-> <<>>,
           body |-> walk[i].entry.body]]
=============================================================================
