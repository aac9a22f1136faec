--------------------------- MODULE ConvertSession ---------------------------
(***************************************************************************)
(* The convert command (htmlarc-convert/src/convert.rs): warm-up runs are  *)
(* parsed and held back until enough text is there to train a dictionary,  *)
(* the rest are emitted by drive_runs_parallel (ParallelRuns), in rank     *)
(* order; documents are stored first wins with their metadata rows, a run  *)
(* is sealed as a bundle, and the archive is renamed into place at the     *)
(* end.  Writes may fail.                                                  *)
(*                                                                         *)
(* A document is [key, id, ok]: its key, its place in the input, which is  *)
(* also its metadata row, and whether it can be read, parsed and           *)
(* serialized (and, by a worker of phase 4, compressed).                   *)
(***************************************************************************)
EXTENDS DocWriter, SequencesExt

CONSTANTS
  Keys,
  MaxRuns, MaxDocs,      (* bounds: runs, documents in a run                *)
  DictSampleDocs         (* DICT_SAMPLE_DOCS                                *)

ASSUME SampleAssumption == DictSampleDocs \in Nat \ {0}

VARIABLES
  source,       (* the runs of the input, each a sequence of documents      *)
  hasMeta,      (* source.meta_schema() is Some                             *)
  phase,        (* warmup, store, stream, finish, done, failed              *)
  warmup,       (* the bundle results held back                             *)
  todo,         (* documents of the current run, not stored yet             *)
  tally,        (* documents of the current run that failed                 *)
  next,         (* the run to take next                                     *)
  writer,       (* the ArchiveWriter                                        *)
  rows,         (* the metadata table                                       *)
  report,       (* [exported, failed]                                       *)
  write_err,
  output        (* what the output path names                               *)

vars == <<source, hasMeta, phase, warmup, todo, tally, next, writer, rows,
          report, write_err, output>>

inputVars == <<source, hasMeta>>

-----------------------------------------------------------------------------
(* Documents the sink keeps, one after the other, and how many it drops:   *)
(* EntrySink::accept.                                                      *)
Kept(run) ==
  LET kept[n \in 0..Len(run)] ==
        IF n = 0 THEN <<>>
        ELSE IF run[n].ok THEN Append(kept[n - 1], run[n]) ELSE kept[n - 1]
  IN  kept[Len(run)]

Dropped(run) == Len(run) - Len(Kept(run))

WarmupDocs == FoldLeft(LAMBDA n, run : n + Len(Kept(run)), 0, warmup)

(* Phase 1: one more run is parsed and held back.                          *)
ParseWarmup ==
  /\ phase = "warmup"
  /\ Len(warmup) < Len(source)
  /\ WarmupDocs < DictSampleDocs
  /\ warmup' = Append(warmup, source[Len(warmup) + 1])
  /\ UNCHANGED <<inputVars, phase, todo, tally, next, writer, rows, report,
                 write_err, output>>

(* Phase 2: the dictionary is trained.                                     *)
Train ==
  /\ phase = "warmup"
  /\ Len(warmup) = Len(source) \/ WarmupDocs >= DictSampleDocs
  /\ phase' = "store"
  /\ UNCHANGED <<inputVars, warmup, todo, tally, next, writer, rows, report,
                 write_err, output>>

-----------------------------------------------------------------------------
(* Phases 3 and 4.                                                         *)

(* A run is open while it is stored: `tally` is -1 between runs.           *)
NoRun == 0 - 1
Idle == tally = NoRun

LastRun == IF phase = "store" THEN Len(warmup) ELSE Len(source)

(* The next run: from the warm-up buffer, or emitted by the coordinator    *)
(* that reassembles the workers' results in rank order.  After an error    *)
(* its documents are dropped.                                              *)
TakeRun ==
  /\ phase \in {"store", "stream"}
  /\ Idle
  /\ next <= LastRun
  /\ todo' = IF write_err THEN <<>> ELSE Kept(source[next])
  /\ tally' = Dropped(source[next])
  /\ next' = next + 1
  /\ UNCHANGED <<inputVars, phase, warmup, writer, rows, report, write_err, output>>

(* Mutant of StoreDoc: the row of a duplicate is stored too.               *)
StoreDocRow ==
  /\ ~Idle /\ todo # <<>>
  /\ LET d == Head(todo) IN
       /\ writer' = PushDoc(writer, d)
       /\ report' = [report EXCEPT !.exported = @ + (IF IsDuplicate(writer, d.key) THEN 0 ELSE 1)]
       /\ rows' = IF hasMeta THEN Append(rows, d.id) ELSE rows
  /\ todo' = Tail(todo)
  /\ UNCHANGED <<inputVars, phase, warmup, tally, next, write_err, output>>

(* store: push_serialized and, when the document was stored, its row.      *)
StoreDoc ==
  /\ ~Idle /\ todo # <<>>
  /\ LET d == Head(todo)
         stored == ~IsDuplicate(writer, d.key)
     IN  /\ writer' = PushDoc(writer, d)
         /\ report' = IF stored THEN [report EXCEPT !.exported = @ + 1] ELSE report
         /\ rows' = IF stored /\ hasMeta THEN Append(rows, d.id) ELSE rows
  /\ todo' = Tail(todo)
  /\ UNCHANGED <<inputVars, phase, warmup, tally, next, write_err, output>>

(* An error ends phase 3 at once; in phase 4 it is kept, and the remaining *)
(* runs are drained.                                                       *)
Fail ==
  /\ phase' = IF phase = "store" THEN "failed" ELSE phase
  /\ write_err' = TRUE
  /\ todo' = <<>>
  /\ UNCHANGED <<inputVars, warmup, tally, next, rows, report, output>>

(* A document held back is compressed by the coordinator, and an error     *)
(* there is not one failed document but the end of the command.            *)
CompressFails ==
  /\ ~Idle /\ todo # <<>>
  /\ phase = "store"
  /\ Fail
  /\ UNCHANGED writer

StoreFails ==
  /\ ~Idle /\ todo # <<>>
  /\ phase \in {"store", "stream"}
  /\ ~IsDuplicate(writer, Head(todo).key)
  /\ writer' = PushDocFails(writer, Head(todo))
  /\ Fail

SealRun ==
  /\ ~Idle /\ todo = <<>>
  /\ phase \in {"store", "stream"}
  /\ writer' = IF write_err THEN writer ELSE Seal(writer)
  /\ report' = [report EXCEPT !.failed = @ + tally]
  /\ tally' = NoRun
  /\ UNCHANGED <<inputVars, phase, warmup, todo, next, rows, write_err, output>>

SealRunFails ==
  /\ ~Idle /\ todo = <<>>
  /\ phase \in {"store", "stream"}
  /\ ~write_err
  /\ Len(writer.docs) > writer.start
  /\ writer' = SealFails(writer)
  /\ Fail

(* Mutant of EndPhase: the error kept in phase 4 is forgotten.             *)
EndPhaseAnyway ==
  /\ Idle /\ next > LastRun
  /\ phase' = CASE phase = "store"  -> "stream"
                [] phase = "stream" -> "finish"
                [] OTHER            -> phase
  /\ phase' # phase
  /\ UNCHANGED <<inputVars, warmup, todo, tally, next, writer, rows, report,
                 write_err, output>>

(* The loop of phase 3, or drive_runs_parallel, returns.                   *)
EndPhase ==
  /\ Idle /\ next > LastRun
  /\ \/ phase = "store"  /\ phase' = "stream"
     \/ phase = "stream" /\ phase' = IF write_err THEN "failed" ELSE "finish"
  /\ UNCHANGED <<inputVars, warmup, todo, tally, next, writer, rows, report,
                 write_err, output>>

(* finish: check the rows, write the footer, rename.                       *)
FinishArchive ==
  /\ phase = "finish"
  /\ IF RowsMatch(writer, hasMeta, Len(rows))
     THEN /\ writer' = Seal(writer)
          /\ output' = "new"
          /\ phase' = "done"
     ELSE phase' = "failed" /\ UNCHANGED <<writer, output>>
  /\ UNCHANGED <<inputVars, warmup, todo, tally, next, rows, report, write_err>>

FinishFails ==
  /\ phase = "finish"
  /\ phase' = "failed"
  /\ UNCHANGED <<inputVars, warmup, todo, tally, next, writer, rows, report,
                 write_err, output>>

-----------------------------------------------------------------------------

Documents(runs) ==
  [r \in DOMAIN runs |->
     [i \in DOMAIN runs[r] |->
        [key |-> runs[r][i].key, ok |-> runs[r][i].ok, id |-> <<r, i>>]]]

Init ==
  /\ \E runs \in SeqOf(SeqOf([key : Keys, ok : BOOLEAN], MaxDocs), MaxRuns) :
       source = Documents(runs)
  /\ hasMeta \in BOOLEAN
  /\ phase = "warmup"
  /\ warmup = <<>>
  /\ todo = <<>>
  /\ tally = NoRun
  /\ next = 1
  /\ writer = NewWriter
  /\ rows = <<>>
  /\ report = [exported |-> 0, failed |-> 0]
  /\ write_err = FALSE
  /\ output = "old"

Next ==
  \/ ParseWarmup \/ Train
  \/ TakeRun \/ StoreDoc \/ CompressFails \/ StoreFails \/ SealRun \/ SealRunFails \/ EndPhase
  \/ FinishArchive \/ FinishFails

Spec == Init /\ [][Next]_vars

-----------------------------------------------------------------------------
(* Properties.                                                             *)

(* convert.rs: "keeping the row stream 1:1 with the stored documents", at  *)
(* every step and after every failed write.                                *)
RowsPaired ==
  /\ hasMeta => rows = [i \in DOMAIN writer.docs |-> writer.docs[i].id]
  /\ ~hasMeta => rows = <<>>

(* A key is stored once, whichever runs had it: first wins.                *)
KeysOnce ==
  \A i, j \in DOMAIN writer.docs :
     writer.docs[i].key = writer.docs[j].key => i = j

(* Documents of the input that can be stored, and their order.             *)
Run(d)   == d.id[1]
Place(d) == d.id[2]

Entry(d) ==
  /\ Run(d) \in DOMAIN source /\ Place(d) \in DOMAIN source[Run(d)]
  /\ d = source[Run(d)][Place(d)] /\ d.ok

Before(d, e) == Run(d) < Run(e) \/ (Run(d) = Run(e) /\ Place(d) < Place(e))

Ordered(docs) == \A i, j \in DOMAIN docs : i < j => Before(docs[i], docs[j])

First(d) ==
  \A r \in DOMAIN source : \A i \in DOMAIN source[r] :
    LET e == source[r][i] IN e.ok /\ e.key = d.key => ~Before(e, d)

(* What the command computes, with no regard to phases, threads or         *)
(* bundles: the archive has the first document of every key of the input,  *)
(* and no other, in the order of the input.                                *)
FirstWins ==
  output = "new" =>
    /\ Ordered(writer.docs)
    /\ \A k \in DOMAIN writer.docs : Entry(writer.docs[k]) /\ First(writer.docs[k])
    /\ \A r \in DOMAIN source : \A i \in DOMAIN source[r] :
         LET d == source[r][i] IN
           d.ok /\ First(d) => \E k \in DOMAIN writer.docs : writer.docs[k] = d

(* Where the bundles end: they part the documents, in order, each has the  *)
(* text of its own, and they are those of one run.                         *)
Cuts(w, cut) ==
  /\ cut[0] = 0 /\ cut[Len(w.bundles)] = w.start
  /\ \A b \in DOMAIN w.bundles :
       LET mine == (cut[b - 1] + 1)..cut[b] IN
       /\ cut[b - 1] < cut[b]
       /\ w.bundles[b].n = cut[b] - cut[b - 1]
       /\ w.bundles[b].frames = SubSeq(w.docs, cut[b - 1] + 1, cut[b])
       /\ \A i \in mine, j \in DOMAIN w.docs :
            Run(w.docs[j]) = Run(w.docs[i]) <=> j \in mine

Parted(w) == \E cut \in [0..Len(w.bundles) -> 0..Len(w.docs)] : Cuts(w, cut)

BundlesTell == Parted(writer)

(* Documents of the first n runs that were dropped.                        *)
DroppedOf(runs, n) ==
  LET dropped[r \in 0..Len(runs)] ==
        IF r = 0 THEN 0 ELSE dropped[r - 1] + Dropped(runs[r])
  IN  dropped[n]

(* The archive that appears at the output is the whole input's: first      *)
(* wins across runs, whichever of them were warm-up; every document is in  *)
(* the bundle of its run, with its own text and its own row; and the       *)
(* report adds up.                                                         *)
PublishedWhole ==
  output = "new" =>
    /\ phase = "done"
    /\ FirstWins /\ KeysOnce /\ RowsPaired
    /\ BundlesTell /\ writer.start = Len(writer.docs)
    /\ report.exported = Len(writer.docs)
    /\ report.failed = DroppedOf(source, Len(source))

(* The check of the rows at the end never refuses what was stored.         *)
FinishAccepts == phase = "finish" => RowsMatch(writer, hasMeta, Len(rows))

-----------------------------------------------------------------------------
(* The inductive invariant.                                                *)
IsSequence(s) == s \in Seq(ToSet(s))

Inputs ==
  /\ IsSequence(source)
  /\ \A r \in DOMAIN source :
       /\ IsSequence(source[r])
       /\ \A i \in DOMAIN source[r] : source[r][i].id = <<r, i>>

WriterShape(w) ==
  /\ w = [docs |-> w.docs, bundles |-> w.bundles, frames |-> w.frames,
          start |-> w.start, seen |-> w.seen, collapsed |-> w.collapsed]
  /\ IsSequence(w.docs) /\ IsSequence(w.bundles) /\ w.start \in 0..Len(w.docs)

Shapes ==
  /\ WriterShape(writer)
  /\ report = [exported |-> report.exported, failed |-> report.failed]
  /\ IsSequence(todo)
  /\ IsSequence(warmup) /\ Len(warmup) <= Len(source)
  /\ next \in Nat \ {0} /\ tally \in Nat \union {NoRun}

(* A run is open in phases 3 and 4 alone; after an error nothing is        *)
(* stored, sealed or published.                                            *)
Phases ==
  /\ phase \notin {"store", "stream"} => todo = <<>>
  /\ Idle => todo = <<>>
  /\ write_err => phase \in {"stream", "failed"} /\ todo = <<>>
  /\ phase \in {"finish", "done"} => Idle /\ next > Len(source)
  /\ output = "new" => phase = "done"

(* What is stored, and what of the open run is not stored yet, is in the   *)
(* input's order.                                                          *)
Order ==
  /\ \A k \in DOMAIN writer.docs : Entry(writer.docs[k]) /\ Run(writer.docs[k]) < next
  /\ \A k \in DOMAIN todo : Entry(todo[k]) /\ Run(todo[k]) = next - 1
  /\ Ordered(writer.docs) /\ Ordered(todo)
  /\ \A i \in DOMAIN writer.docs, j \in DOMAIN todo : Before(writer.docs[i], todo[j])

(* Until a write fails nothing of the runs taken is lost: a document is    *)
(* stored, or one of its key before it, or it is still to come.            *)
Told(d) ==
  \/ \E j \in DOMAIN todo : todo[j] = d
  \/ \E k \in DOMAIN writer.docs :
       /\ writer.docs[k].key = d.key
       /\ writer.docs[k] = d \/ Before(writer.docs[k], d)

NoneLost ==
  ~write_err =>
    \A r \in DOMAIN source : \A i \in DOMAIN source[r] :
      r < next /\ source[r][i].ok => Told(source[r][i])

KeysSeen ==
  /\ \A k \in DOMAIN writer.docs : writer.docs[k].key \in writer.seen
  /\ ~write_err => \A key \in writer.seen :
                     \E k \in DOMAIN writer.docs : writer.docs[k].key = key

(* Until a write fails the open bundle has the text of what is not sealed, *)
(* all of it of the run that is open.                                      *)
OpenBundle ==
  /\ ~write_err =>
       /\ writer.frames = SubSeq(writer.docs, writer.start + 1, Len(writer.docs))
       /\ Idle => writer.start = Len(writer.docs)
       /\ \A k \in DOMAIN writer.docs :
            ~Idle => (Run(writer.docs[k]) = next - 1 <=> k > writer.start)

Counted ==
  /\ report.exported = Len(writer.docs) /\ report.failed \in Nat
  /\ next <= Len(source) + 1
  /\ report.failed + (IF Idle THEN 0 ELSE tally) = DroppedOf(source, next - 1)

IInv ==
  /\ Inputs /\ Shapes /\ Phases /\ RowsPaired
  /\ Order /\ NoneLost /\ KeysOnce /\ KeysSeen /\ OpenBundle /\ BundlesTell
  /\ Counted

=============================================================================
