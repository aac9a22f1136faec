----------------------------- MODULE ScanTable ------------------------------
(***************************************************************************)
(* The columnar result of a sweep (scan_table of htmlarc-py/src/lib.rs):   *)
(* build_batches appends the documents' chunks to four columns, key, text, *)
(* one attribute and one metadata field, and cuts a batch between two      *)
(* documents when a column would pass the limit.  Offsets are 32 bit wide: *)
(* one above the ceiling fails the scan.                                   *)
(*                                                                         *)
(* A chunk is [rows, meta]: of each matched element the length of its text *)
(* and of its attribute, NoValue where it has none, and the length of the  *)
(* document's metadata value.                                              *)
(***************************************************************************)
EXTENDS Integers, Sequences, SequencesExt, Lists

CONSTANTS
  Limit,          (* batch_data_limit: 2^30, or what the environment says    *)
  Ceiling,        (* i32::MAX                                                *)
  KeyLength,
  Chunks,         (* chunks a document may come to                           *)
  NoValue         (* -1: null                                                *)

ASSUME ScanTableAssumption ==
    /\ Limit \in Nat /\ Ceiling \in Nat
    /\ KeyLength \in Nat /\ NoValue \in Int \ Nat
    /\ Chunks \subseteq [rows : Seq([text : Nat \union {NoValue}, attr : Nat \union {NoValue}]),
                         meta : Nat \union {NoValue}]

VARIABLES
  todo,           (* positions of the documents with a match, in order       *)
  cols,           (* the columns of the current batch                        *)
  batches,
  scan,           (* idle, building, done, failed                            *)
  appended        (* history: the chunks and their positions                 *)

tableVars == <<todo, cols, batches, scan, appended>>

-----------------------------------------------------------------------------
Names == {"key", "text", "attr", "meta"}

\* A column: the bytes it has, where its values end, which are valid.
NewCol == [data |-> 0, ends |-> <<0>>, valid |-> <<>>]
NewCols == [name \in Names |-> NewCol]

RowsInBatch == Len(cols["key"].valid)

Bytes(n) == IF n = NoValue THEN 0 ELSE n

\* The values a chunk has for a column.
ValuesOf(chunk, name) ==
    [r \in DOMAIN chunk.rows |->
       CASE name = "key" -> KeyLength
         [] name = "text" -> chunk.rows[r].text
         [] name = "attr" -> chunk.rows[r].attr
         [] name = "meta" -> chunk.meta]

\* What the first r values come to, for every r.
Sums(values) ==
    LET upto[r \in 0..Len(values)] == IF r = 0 THEN 0 ELSE upto[r - 1] + Bytes(values[r])
    IN upto

Total(values) == Sums(values)[Len(values)]

\* Ends within the chunk, as the worker counted them.
EndsOf(values) == [r \in DOMAIN values |-> Sums(values)[r]]

\* Mutant of AppendCol: the ends are not moved to where the chunk begins.
AppendColRaw(col, values) ==
    [data |-> col.data + Total(values),
     ends |-> col.ends \o EndsOf(values),
     valid |-> col.valid \o [r \in DOMAIN values |-> values[r] # NoValue]]

AppendCol(col, values) ==
    [data |-> col.data + Total(values),
     ends |-> col.ends \o [r \in DOMAIN values |-> col.data + EndsOf(values)[r]],
     valid |-> col.valid \o [r \in DOMAIN values |-> values[r] # NoValue]]

\* Metadata is looked at as it stands, the others with what they would become.
Cuts(chunk) ==
    /\ RowsInBatch > 0
    /\ \/ \E name \in Names \ {"meta"} : cols[name].data + Total(ValuesOf(chunk, name)) > Limit
       \/ cols["meta"].data > Limit

AppendChunk ==
    /\ scan = "building" /\ todo # <<>>
    /\ \E chunk \in Chunks :
         LET base == IF Cuts(chunk) THEN NewCols ELSE cols
             full == [name \in Names |-> AppendCol(base[name], ValuesOf(chunk, name))]
         IN /\ batches' = IF Cuts(chunk) THEN Append(batches, cols) ELSE batches
            /\ cols' = full
            /\ appended' = Append(appended, chunk)
            /\ scan' = IF \E name \in Names : full[name].data > Ceiling THEN "failed" ELSE scan
    /\ todo' = Tail(todo)

FinishTable ==
    /\ scan = "building" /\ todo = <<>>
    /\ batches' = IF RowsInBatch > 0 THEN Append(batches, cols) ELSE batches
    /\ cols' = NewCols
    /\ scan' = "done"
    /\ UNCHANGED <<todo, appended>>

StartTable(hits) ==
    /\ scan = "idle"
    /\ scan' = "building" /\ todo' = hits
    /\ UNCHANGED <<cols, batches, appended>>

TableInit ==
    /\ todo = <<>> /\ cols = NewCols /\ batches = <<>> /\ scan = "idle" /\ appended = <<>>

-----------------------------------------------------------------------------
\* What a reader of the stream takes for the values of a column.
Told(batch, name) ==
    [r \in DOMAIN batch[name].valid |->
       IF batch[name].valid[r] THEN batch[name].ends[r + 1] - batch[name].ends[r] ELSE NoValue]

ReadFrom(tables, name) == Joined([b \in DOMAIN tables |-> Told(tables[b], name)])
Expected(name) == Joined([d \in DOMAIN appended |-> ValuesOf(appended[d], name)])

\* Why a document may fail a scan: a column of it alone passes the ceiling.
\* Two more it fails for that the comments of arrow_err and append_col leave
\* out: its metadata, repeated for each of its rows, is added to what a batch
\* may already hold of it, and the limit may be set above the ceiling.
FailsFor(chunk) ==
    \/ \E name \in Names : Total(ValuesOf(chunk, name)) > Ceiling
    \/ Limit + Total(ValuesOf(chunk, "meta")) > Ceiling
    \/ Limit > Ceiling

\* No column of a batch passes the limit, but where the batch is one document;
\* and metadata by no more than one document has of it.
OfOne(batch, chunk) == \A name \in Names : Told(batch, name) = ValuesOf(chunk, name)

Bounded(batch, chunks) ==
    /\ \/ \A name \in Names \ {"meta"} : batch[name].data <= Limit
       \/ \E d \in DOMAIN chunks : OfOne(batch, chunks[d])
    /\ \E d \in DOMAIN chunks :
          batch["meta"].data <= Limit + Total(ValuesOf(chunks[d], "meta"))

\* A table has the values of every matched element, in order and in every
\* column, in batches that keep to the limit, and a scan fails only for a
\* document too large (build_batches, append_col, MetaColBuilder::append).
TableTells ==
    /\ scan = "done" =>
          /\ \A name \in Names : ReadFrom(batches, name) = Expected(name)
          /\ \A b \in DOMAIN batches : Bounded(batches[b], appended)
    /\ scan = "failed" => FailsFor(Last(appended))

\* lib.rs:1737: cut "so no column's utf8 data passes batch_data_limit", and
\* lib.rs:1412: the "only failure mode" is one document's text or attributes.
LimitKept ==
    /\ \A b \in DOMAIN batches :
          \/ \A name \in Names : batches[b][name].data <= Limit
          \/ \E d \in DOMAIN appended : OfOne(batches[b], appended[d])
    /\ scan = "failed" =>
          \E name \in {"text", "attr"} : Total(ValuesOf(Last(appended), name)) > Ceiling

-----------------------------------------------------------------------------
\* The inductive invariant of the table.  A column's values end where its data
\* does and begin at 0, and there is one more end than values.
ColWhole(col) ==
    /\ col = [data |-> col.data, ends |-> col.ends, valid |-> col.valid]
    /\ col.data \in Nat /\ col.ends \in Seq(Nat) /\ col.valid \in Seq(BOOLEAN)
    /\ Len(col.ends) = Len(col.valid) + 1
    /\ col.ends[1] = 0 /\ col.ends[Len(col.ends)] = col.data

\* Columns of one length, one for each name.
BatchWhole(batch) ==
    /\ batch = [name \in Names |-> batch[name]]
    /\ \A name \in Names :
          ColWhole(batch[name]) /\ Len(batch[name].valid) = Len(batch["key"].valid)

BatchesWhole(tables) ==
    /\ tables \in Seq({tables[b] : b \in DOMAIN tables})
    /\ \A b \in DOMAIN tables : BatchWhole(tables[b])

TableInv ==
    /\ scan \in {"idle", "building", "done", "failed"}
    /\ BatchWhole(cols)
    /\ BatchesWhole(batches)
    /\ appended \in Seq(Chunks)
    /\ scan \in {"idle", "done"} => cols = NewCols
    /\ \A name \in Names : ReadFrom(batches, name) \o Told(cols, name) = Expected(name)
    /\ \A b \in DOMAIN batches : Bounded(batches[b], appended)
    /\ RowsInBatch > 0 => Bounded(cols, appended)
    /\ scan = "failed" => FailsFor(Last(appended))
=============================================================================
