--------------------------- MODULE ArchiveSession ---------------------------
(***************************************************************************)
(* The archive as its callers use it (htmlarc-archive: builder.rs,         *)
(* archive.rs, append.rs, doc_table.rs): documents and metadata rows are   *)
(* added to a builder, which becomes an archive in memory or a file; a     *)
(* file is read back, saved again, or appended to.  Rows may be refused    *)
(* and writes may fail.  One step is one call; ArchiveFile has what        *)
(* happens on the disk inside a call.                                      *)
(*                                                                         *)
(* A document is [key, id, text]: id says which call added it, and text    *)
(* whose text it reads as.  A key is <<grapheme count, text>>.             *)
(***************************************************************************)
EXTENDS DocWriter, MetaRows, FiniteSets

CONSTANTS
  Keys,
  BundleCap,             (* BUNDLE_CAP                                      *)
  Fields,                (* the number of fields of the schema              *)
  MaxAdds,               (* bound: calls of add_html and add_html_with_meta *)
  None                   (* Option::None                                    *)

ASSUME CapAssumption == BundleCap \in Nat \ {0} /\ Fields \in Nat \ {0}

(* Texts are numbers in the order of their bytes.                          *)
ASSUME KeysAssumption == Keys \subseteq Nat \X Nat

VARIABLES
  builder,      (* an HtmlArchiveBuilder                                    *)
  memory,       (* an HtmlArchive                                           *)
  file,         (* the archive file                                         *)
  appender,     (* an ArchiveAppender on the file                           *)
  adds          (* how many add calls were made                             *)

vars == <<builder, memory, file, appender, adds>>

-----------------------------------------------------------------------------
(* Adding.  `told` of a builder, an appender and a file is what callers    *)
(* were told is in it, a history: the documents with their rows.           *)

NewId == adds + 2

NewDoc(key) == [key |-> key, id |-> NewId, text |-> NewId]

(* What a caller may give as a row: good values, too few, one of another   *)
(* type behind good ones, or a string of 2 GiB last.                       *)
GoodRow == [f \in 1..Fields |-> 2 * NewId]
Huge == 2 * NewId + 1
Rows ==
  {GoodRow, Tail(GoodRow), [GoodRow EXCEPT ![Fields] = BadValue],
   [GoodRow EXCEPT ![Fields] = Huge]}

Told(held, doc, row) == Append(held.told, [doc |-> doc, row |-> row])

NewBuilder == [entries |-> << >>, seen |-> {}, cols |-> NoTable,
               calls |-> << >>, told |-> << >>]

(* set_meta_schema                                                         *)
SetMetaSchema ==
  /\ builder # None
  /\ builder.entries = << >>
  /\ builder' = [builder EXCEPT !.cols = NewTable(Fields)]
  /\ UNCHANGED <<memory, file, appender, adds>>

(* HtmlArchiveBuilder::add_inner, of a key that is not there yet.          *)
Accept(b, doc, row) ==
  [b EXCEPT !.entries = Append(@, doc),
            !.seen = @ \cup {doc.key},
            !.cols = PushRow(@, row),
            !.told = Told(b, doc, row)]

(* `calls` is the history of the documents offered with a row in order.    *)
Offered(key) == [builder EXCEPT !.calls = Append(@, NewDoc(key))]

AddHtml(key) ==
  /\ builder # None
  /\ adds < MaxAdds
  /\ builder' = IF key \in builder.seen THEN Offered(key)
                ELSE Accept(Offered(key), NewDoc(key), NullRow(builder.cols))
  /\ adds' = adds + 1
  /\ UNCHANGED <<memory, file, appender>>

(* A duplicate's row is not looked at.                                     *)
AddHtmlWithMeta(key, row) ==
  /\ builder # None /\ builder.cols # NoTable
  /\ adds < MaxAdds
  /\ key \in builder.seen \/ TakesRow(builder.cols, row)
  /\ builder' = IF key \in builder.seen THEN Offered(key)
                ELSE Accept(Offered(key), NewDoc(key), row)
  /\ adds' = adds + 1
  /\ UNCHANGED <<memory, file, appender>>

(* A refused row: the key is given back, but the row's values up to the    *)
(* one that is refused stay in the columns.                                *)
RefuseRow(key, row) ==
  /\ builder # None /\ builder.cols # NoTable
  /\ adds < MaxAdds
  /\ key \notin builder.seen /\ ~TakesRow(builder.cols, row)
  /\ builder' = [builder EXCEPT !.cols = PushRow(@, row)]
  /\ adds' = adds + 1
  /\ UNCHANGED <<memory, file, appender>>

-----------------------------------------------------------------------------
(* Bundles.                                                                *)

(* HtmlArchive::from_vec: chunks of BundleCap.                             *)
FromVec(entries) ==
  [b \in 1..((Len(entries) + BundleCap - 1) \div BundleCap) |->
     SubSeq(entries, (b - 1) * BundleCap + 1,
            IF b * BundleCap < Len(entries) THEN b * BundleCap ELSE Len(entries))]

(* HtmlArchiveBuilder::write_to up to finish.                              *)
WriteEntries(entries) ==
  LET done[i \in 0..Len(entries)] ==
        IF i = 0 THEN NewWriter
        ELSE LET pushed == PushDoc(done[i - 1], entries[i]) IN
             IF i % BundleCap = 0 THEN Seal(pushed) ELSE pushed
  IN  done[Len(entries)]

(* Mutant of PackDocs: files are counted, not documents.                   *)
PackFiles(offered) == WriteEntries(offered)

(* HtmlArchive::pack_to of a directory: `sealed` is what the writer has in *)
(* bundles.                                                                *)
PackDocs(offered) ==
  LET done[i \in 0..Len(offered)] ==
        IF i = 0 THEN NewWriter
        ELSE LET pushed == PushDoc(done[i - 1], offered[i]) IN
             IF Len(pushed.docs) - pushed.start >= BundleCap THEN Seal(pushed)
                                                             ELSE pushed
  IN  done[Len(offered)]

(* Mutant of SaveBundles: a flat list is written.                          *)
SaveFlat(bundles) == WriteEntries(FlattenSeq(bundles))

PushAll(w, docs) ==
  LET done[i \in 0..Len(docs)] == IF i = 0 THEN w ELSE PushDoc(done[i - 1], docs[i])
  IN  done[Len(docs)]

(* HtmlArchive::write_to up to finish: a bundle is saved as a bundle.      *)
SaveBundles(bundles) ==
  LET done[b \in 0..Len(bundles)] ==
        IF b = 0 THEN NewWriter ELSE Seal(PushAll(done[b - 1], bundles[b]))
  IN  done[Len(bundles)]

-----------------------------------------------------------------------------
(* The key index.                                                          *)

(* Mutant of Before: keys are compared as texts.                           *)
BeforeAsText(k, l) == k[2] < l[2]

(* doc_table::compare                                                      *)
Before(k, l) == k[1] < l[1] \/ (k[1] = l[1] /\ k[2] < l[2])

Earlier(docs, i) == {j \in DOMAIN docs : Before(docs[j].key, docs[i].key)}

(* build_sort_index: the positions of the documents in that order; no two  *)
(* documents of a writer have the same key.                                *)
SortIndex(docs) ==
  [r \in DOMAIN docs |->
     CHOOSE i \in DOMAIN docs : Cardinality(Earlier(docs, i)) = r - 1]

(* slice::binary_search_by with doc_table::compare, as in find_index and   *)
(* locate: 0 if there is none.                                             *)
Search(docs, index, key) ==
  LET at[part \in (1..(Len(index) + 1)) \X (0..Len(index))] ==
        LET lo == part[1]
            hi == part[2]
            mid == (lo + hi) \div 2
            k == docs[index[mid]].key
        IN  IF lo > hi THEN 0
            ELSE IF k = key THEN index[mid]
            ELSE IF k[1] < key[1] \/ (k[1] = key[1] /\ k[2] < key[2])
                 THEN at[<<mid + 1, hi>>] ELSE at[<<lo, mid - 1>>]
  IN  at[<<1, Len(index)>>]

-----------------------------------------------------------------------------
(* Files.                                                                  *)

(* finish: the file's footer.  `lost` and `short` are history: a bundle's  *)
(* text was lost, a document's row is incomplete.                          *)
Footer(w, cols, told, lost, short) ==
  LET sealed == Seal(w) IN
  [docs |-> sealed.docs, bundles |-> sealed.bundles, cols |-> cols,
   index |-> SortIndex(sealed.docs), told |-> told, lost |-> lost, short |-> short]

Finishes(w, cols) == RowsMatch(w, cols # NoTable, RowCount(cols))

(* How many documents the bundles before the b-th have.                    *)
Start(f, b) ==
  LET at[c \in 1..(Len(f.bundles) + 1)] ==
        IF c = 1 THEN 0 ELSE at[c - 1] + f.bundles[c - 1].n
  IN  at[b]

(* read_from: each check of the bundle table, the blocks and the rows.     *)
Reads(f) ==
  /\ Start(f, Len(f.bundles) + 1) = Len(f.docs)
  /\ \A b \in DOMAIN f.bundles : Len(f.bundles[b].frames) = f.bundles[b].n
  /\ ValidArchived(f.cols, Len(f.docs))

(* read_from: every document gets its text back from its bundle.           *)
ReadFrom(f) ==
  [bundles |-> [b \in DOMAIN f.bundles |->
      [slot \in 1..f.bundles[b].n |->
         [f.docs[Start(f, b) + slot] EXCEPT
            !.text = f.bundles[b].frames[slot].text]]],
   cols |-> f.cols, told |-> f.told]

Build ==
  /\ builder # None
  /\ memory' = [bundles |-> FromVec(builder.entries), cols |-> builder.cols,
                told |-> builder.told]
  /\ builder' = None
  /\ UNCHANGED <<file, appender, adds>>

(* HtmlArchiveBuilder::write_to: written to .tmp and renamed; when it      *)
(* fails the builder is gone and the path is what it was.                  *)
WriteTo ==
  /\ builder # None
  /\ LET w == WriteEntries(builder.entries) IN
       \/ Finishes(w, builder.cols)
          /\ file' = Footer(w, builder.cols, builder.told, FALSE, FALSE)
       \/ UNCHANGED file
  /\ builder' = None
  /\ UNCHANGED <<memory, appender, adds>>

(* HtmlArchive::write_to, over the file or where there is none.            *)
Save ==
  /\ memory # None
  /\ appender = None
  /\ LET w == SaveBundles(memory.bundles) IN
       \/ Finishes(w, memory.cols)
          /\ file' = Footer(w, memory.cols, memory.told, FALSE, FALSE)
       \/ UNCHANGED file
  /\ memory' = None
  /\ UNCHANGED <<builder, appender, adds>>

Read ==
  /\ file # None /\ memory = None
  /\ Reads(file)
  /\ memory' = ReadFrom(file)
  /\ UNCHANGED <<builder, file, appender, adds>>

-----------------------------------------------------------------------------
(* Appending.                                                              *)

(* Mutant of Resume: the tail bundle is opened again.                      *)
ResumeTail(f) ==
  [docs |-> f.docs, bundles |-> SubSeq(f.bundles, 1, Len(f.bundles) - 1),
   frames |-> IF f.bundles = << >> THEN << >> ELSE f.bundles[Len(f.bundles)].frames,
   start |-> IF f.bundles = << >> THEN 0 ELSE Start(f, Len(f.bundles)),
   seen |-> {f.docs[i].key : i \in DOMAIN f.docs}, collapsed |-> 0]

(* ArchiveWriter::append as a writer: seeded with the file's tables.       *)
Resume(f) ==
  [docs |-> f.docs, bundles |-> f.bundles, frames |-> << >>, start |-> Len(f.docs),
   seen |-> {f.docs[i].key : i \in DOMAIN f.docs}, collapsed |-> 0]

OpenAppender ==
  /\ appender = None /\ file # None
  /\ appender' = [writer |-> Resume(file), cols |-> file.cols, since_seal |-> 0,
                  told |-> file.told, lost |-> file.lost, short |-> file.short,
                  slipped |-> FALSE]
  /\ UNCHANGED <<builder, memory, file, adds>>

(* A write that fails may have put a part of its bytes into the file, and  *)
(* `pos` does not count them: what is written after it is not where the    *)
(* writer says.  `slipped` says that this has happened; it may not.        *)
Slips(a) == {a, [a EXCEPT !.slipped = TRUE]}

(* add_inner of ArchiveAppender, with the row that is pushed.  A full      *)
(* column refuses the row when the document is stored already.  The seal   *)
(* that is due may fail: the document stays, its bundle's text is gone.    *)
Store(key, row) ==
  LET a == appender
      pushed == [a EXCEPT !.writer = PushDoc(@, NewDoc(key)),
                          !.cols = PushRow(@, row),
                          !.told = Told(a, NewDoc(key), row)]
      stored == [pushed EXCEPT !.since_seal = @ + 1]
  IN  IF IsDuplicate(a.writer, key) THEN appender' = [a EXCEPT !.writer = PushDoc(@, NewDoc(key))]
      ELSE IF ~TakesRow(a.cols, row)
      THEN appender' = [pushed EXCEPT !.short = @ \/ ValidRow(a.cols, row)]
      ELSE IF stored.since_seal # BundleCap THEN appender' = stored
      ELSE \/ appender' = [stored EXCEPT !.writer = Seal(@), !.since_seal = 0]
           \/ appender' \in Slips([stored EXCEPT !.writer = SealFails(@), !.lost = TRUE])

(* Mutant of AppendWithMeta: the row is checked by push_row only.          *)
AppendUnchecked(key, row) ==
  /\ appender # None /\ appender.cols # NoTable
  /\ adds < MaxAdds
  /\ Store(key, row)
  /\ adds' = adds + 1
  /\ UNCHANGED <<builder, memory, file>>

AppendHtml(key) ==
  /\ appender # None
  /\ adds < MaxAdds
  /\ Store(key, NullRow(appender.cols))
  /\ adds' = adds + 1
  /\ UNCHANGED <<builder, memory, file>>

(* The row is checked first, its types and their number: nothing happens   *)
(* when it is refused here.                                                *)
AppendWithMeta(key, row) ==
  /\ appender # None /\ appender.cols # NoTable
  /\ adds < MaxAdds
  /\ ValidRow(appender.cols, row)
  /\ Store(key, row)
  /\ adds' = adds + 1
  /\ UNCHANGED <<builder, memory, file>>

(* The document could not be written: an error, but the key is taken.      *)
AppendFails(key) ==
  /\ appender # None
  /\ adds < MaxAdds
  /\ ~IsDuplicate(appender.writer, key)
  /\ appender' \in Slips([appender EXCEPT !.writer = PushDocFails(@, NewDoc(key))])
  /\ adds' = adds + 1
  /\ UNCHANGED <<builder, memory, file>>

(* A trailer that was written after a slip locates no footer: nothing      *)
(* opens the file any more, and for the callers there is none.             *)
Commit ==
  /\ appender # None
  /\ Finishes(appender.writer, appender.cols)
  /\ file' = IF appender.slipped THEN None
             ELSE Footer(appender.writer, appender.cols, appender.told, appender.lost,
                         appender.short)
  /\ appender' = None
  /\ UNCHANGED <<builder, memory, adds>>

(* Dropped without commit, or commit failed: the next open heals the file. *)
Abandon ==
  /\ appender # None
  /\ appender' = None
  /\ UNCHANGED <<builder, memory, file, adds>>

-----------------------------------------------------------------------------

Init ==
  /\ builder = NewBuilder
  /\ memory = None
  /\ file = None
  /\ appender = None
  /\ adds = 0

Next ==
  \/ SetMetaSchema \/ Build \/ WriteTo \/ Save \/ Read \/ OpenAppender
  \/ Commit \/ Abandon
  \/ \E key \in Keys :
       \/ AddHtml(key) \/ AppendHtml(key) \/ AppendFails(key)
       \/ \E row \in Rows : AddHtmlWithMeta(key, row) \/ RefuseRow(key, row)
                              \/ AppendWithMeta(key, row)

Spec == Init /\ [][Next]_vars

-----------------------------------------------------------------------------
(* Properties.                                                             *)

(* What a caller was told of document i is what is there, with its own     *)
(* text and its own row.                                                   *)
Tells(d, cols, i, told) ==
  d = told[i].doc /\ d.text = d.id /\ RowAt(cols, i) = told[i].row

(* A file that opens reads back as what was stored in it: each document    *)
(* with its own text and its own row, whatever was refused, collapsed or   *)
(* failed on the way.  A published or committed file opens unless its      *)
(* caller went on after a failed seal, after a row that was refused when   *)
(* its document was stored already, or after a write that failed part-way  *)
(* (which is no file here).                                                *)
FileSound ==
  file # None =>
    /\ Reads(file) \/ file.lost \/ file.short
    /\ Reads(file) =>
         /\ Len(file.told) = Len(file.docs)
         /\ LET read == ReadFrom(file).bundles IN
              \A b \in DOMAIN read : \A slot \in DOMAIN read[b] :
                Tells(read[b][slot], file.cols, Start(file, b) + slot, file.told)

(* builder.rs: "the builder and the streaming ArchiveWriter produce        *)
(* identical bundle boundaries": build, write_to and the streaming pack of *)
(* the same documents agree.                                               *)
SameBundles ==
  builder # None =>
    LET blocks(w) == [b \in DOMAIN w.bundles |-> w.bundles[b].frames]
    IN  /\ blocks(Seal(WriteEntries(builder.entries))) = FromVec(builder.entries)
        /\ blocks(Seal(PackDocs(builder.calls))) = FromVec(builder.entries)

(* Reading a file and saving it again changes nothing: the documents, the  *)
(* bundle boundaries, the key index and the rows stay.                     *)
ResaveKeeps ==
  file # None /\ Reads(file) =>
    LET m == ReadFrom(file)
        w == SaveBundles(m.bundles)
    IN  Finishes(w, m.cols) /\ Footer(w, m.cols, m.told, FALSE, FALSE) = file

(* A key finds its document and no other, in every file.                   *)
KeysFound ==
  file # None =>
    \A key \in Keys :
      LET i == Search(file.docs, file.index, key) IN
      IF i = 0 THEN \A j \in DOMAIN file.docs : file.docs[j].key # key
               ELSE file.docs[i].key = key

(* append.rs: "old bundles are untouched".  A commit extends the file; a   *)
(* failed seal and a row refused late are not counted in since_seal, and   *)
(* the bundle goes on.                                                     *)
CommitExtends ==
  [][appender # None /\ file' # file /\ file' # None =>
       /\ IsPrefix(file.docs, file'.docs)
       /\ IsPrefix(file.bundles, file'.bundles)
       /\ \A b \in DOMAIN file'.bundles \ DOMAIN file.bundles :
            file'.bundles[b].n <= BundleCap \/ file'.lost \/ file'.short]_vars

(* builder.rs: "row i always describes stored document i".                 *)
RowsDescribeDocs ==
  builder # None => RowCount(builder.cols) = Len(builder.entries) \/ builder.cols = NoTable

(* append.rs: "commit writes the new footer and makes the tail             *)
(* authoritative again": after a commit there is a file and it opens.      *)
CommittedReads ==
  [][appender # None /\ file' # file => file' # None /\ Reads(file')]_vars

=============================================================================
