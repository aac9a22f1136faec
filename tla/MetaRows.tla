------------------------------ MODULE MetaRows ------------------------------
(***************************************************************************)
(* The metadata table (htmlarc-archive/src/meta.rs): one column per field  *)
(* of the schema, filled a row at a time.  A row is a sequence of values,  *)
(* each of the field's declared type, NoValue (null) or BadValue (of       *)
(* another type).  Fields are strings here, the only type whose column can *)
(* be full; a value that is an odd number is a string of 2 GiB.            *)
(***************************************************************************)
EXTENDS Naturals, Sequences, SequencesExt

NoValue  == 0
BadValue == 1      (* no row's own value: those start at 2                *)

NoTable == << >>   (* no schema; a schema has a field at least            *)

(* MetaTableBuilder::new                                                   *)
NewTable(fields) == [f \in 1..fields |-> << >>]

NullRow(cols) == [f \in DOMAIN cols |-> NoValue]

(* MetaSchema::validate_row                                                *)
ValidRow(cols, row) ==
  /\ Len(row) = Len(cols)
  /\ \A f \in DOMAIN row : row[f] # BadValue

(* The ends of a string column are u32: it holds one string of 2 GiB, and  *)
(* the second does not fit.                                                *)
IsHuge(value) == value # BadValue /\ value % 2 = 1

Fits(col, value) == IsHuge(value) => \A i \in DOMAIN col : ~IsHuge(col[i])

Taken(cols, row, f) == row[f] # BadValue /\ Fits(cols[f], row[f])

(* MetaTableBuilder::push_row: the columns are filled from left to right,  *)
(* and a value of another type, or one too many bytes for its column,      *)
(* stops it where it is.                                                   *)
PushRow(cols, row) ==
  IF Len(row) # Len(cols) THEN cols
  ELSE [f \in DOMAIN cols |->
          IF \A g \in 1..f : Taken(cols, row, g) THEN Append(cols[f], row[f])
                                                 ELSE cols[f]]

(* It returns Ok.                                                          *)
TakesRow(cols, row) ==
  Len(row) = Len(cols) /\ \A f \in DOMAIN row : Taken(cols, row, f)

(* row_count looks at the first column only.                               *)
RowCount(cols) == IF cols = NoTable THEN 0 ELSE Len(cols[1])

(* validate_archived, when an archive is opened: every column has a row a  *)
(* document.                                                               *)
ValidArchived(cols, docCount) == \A f \in DOMAIN cols : Len(cols[f]) = docCount

(* archived_value of each field: the row as a reader sees it.              *)
RowAt(cols, i) ==
  [f \in DOMAIN cols |-> IF i \in DOMAIN cols[f] THEN cols[f][i] ELSE NoValue]

=============================================================================
