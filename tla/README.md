# A TLA+ model of htmlarc

htmlarc stores parsed HTML documents in one archive file and queries them in
place. This directory holds TLA+ modules translated from its Rust sources, TLC
configurations that check them on small instances, and theorems about them that
TLAPS checks for every value of the constants. Paths below are relative to the
repository root unless they start with a crate's own directory.

## 1. The system

| Component | Where | State | Operations |
| --- | --- | --- | --- |
| Archive file: writer, header, trailer | `crates/htmlarc-archive/src/{writer,header,trailer}.rs` | the file; the header's staged trailer offset; the writer's `pos`, `docs`, `bundles`, `seen`, `cur_strings` | `create`, `append`, `push*`, `seal_bundle`, `finish`; `Trailer::select` |
| Mapped readers | `mmap.rs` | a mapping of a fixed length; which bundles have been validated; a text cache per thread | `open`, `try_doc`, keyed lookup |
| Builder, appender, in-memory archive | `builder.rs`, `append.rs`, `archive.rs` | entries or bundles, `seen`, the metadata columns, documents since the last seal | `add_*`, `build`, `write_to`, `commit`, `read_from`, `pack_to` |
| Metadata, key index | `meta.rs`, `doc_table.rs`, `entry.rs` | columns with validity bits; a permutation sorted by (length, key) | `push_row`, `validate_row`, `find_index` |
| Text blocks, codec | `bundle_strings.rs`, `codec.rs` | frames of a bundle's documents | `block_cuts`, `push_doc_blocks`, range reads |
| Conversion | `cli/htmlarc-convert/src/convert.rs` | warm-up buffer, writer, rows, report, a kept write error | four phases: parse the warm-up, train, store it, stream the rest |
| Parallel runs | `cli/htmlarc-convert/src/source/mod.rs` | permits, rank counter, channel, reorder buffer | `drive_runs_parallel` |
| Sources | `source/{zim,warc,dir}.rs`, `framing.rs` | a plan of runs | `drive_run` |
| DOM arena | `crates/htmlarc-dom/src/dom/{nodes,dom_inner,rebuilder}.rs` | parent, sibling and child links in an array of nodes | insert, remove, unwrap, replace, prune, rebuild |
| Iterators | `crates/htmlarc-dom/src/iters/` | a stack of (node, ordinal), or an index range | `next`, `next_back`, matching |
| Parser | `crates/htmlarc-dom/src/parser/` | open-element stack, index stack, poison | `push_tag`, `pop_tag`, `add_text_tag` |
| Stores | `crates/htmlarc-dom/src/stores/` | symbols, attribute and class runs, strings, extended tags | intern, append, rebuild |
| Selectors, patterns | `crates/htmlarc-dom/src/css/` | ids a list is bound to while a walk lasts | parse, show, resolve, match |
| Accessors | `accessors/` | attribute and class runs of an element | append, remove |
| Filter | `crates/htmlarc-archive/src/filter.rs` | none | `keep`, `keep_key`, `include_keys` |
| Statistics | `cli/htmlarc-convert/src/stats/` | counters of a document, a histogram per run | count, merge, percentile |
| Formatting, tables | `fmt/`, `html/` | none | |
| Python binding | `crates/htmlarc-py/src/lib.rs` | a thread pool per process, a busy mark | sweeps over an archive, builder and appender |
| `htmlarc` command | `cli/htmlarc/src/` | none | probe, pack, pipe documents through a command |

How they interact. A source yields runs; `drive_runs_parallel` has them parsed
and serialized by workers and handed to the coordinator in rank order; the
conversion pushes each run's documents to an `ArchiveWriter` and seals the run as
a bundle. The builder and the in-memory archive drive the same writer. An
appender reopens a finished file, cuts what an earlier appender left behind the
last trailer and writes past it. Readers share nothing with it but the file, and
map that file at any moment. A document read from a file is edited in its arena,
which is rebuilt before anything relies on its index order. A selector list is
bound to the symbol table of one document for one walk. A filter is applied by
`list`, `probe` and the archive types, each by its own route.

What is hard to test here, with the place in the code, is the list `hazards` of
`PROJECT.json`. In short: the moments at which an appender can die, and what a
reader or the next appender makes of each; readers that open in the middle of an
append; errors in the middle of an operation whose object lives on; rows and text
frames that travel apart from the documents they belong to; permits handed from
thread to thread; loops that edit the tree they walk; a parser that must put a
tag off until the text before it has come; stores whose runs move and whose ids
change under a rebuild; files that change between the two passes of a source; and
a process that forks while it sweeps.

## 2. The modules

### The archive file: `ArchiveFile`, `ArchiveFileProps`, `ArchiveStore`

`ArchiveFile` is one file: a sequence of cells, one for each document blob,
string block, footer (tables) or trailer. `image` is what the appender has
written, `flen` how much of it the file holds (the rest is in the `BufWriter`)
and `synced` how much is on stable storage; the header is reduced to the staged
trailer offset (`pending`, and `dpending` on stable storage). One action per step
of `ArchiveWriter::append` and `finish`: `OpenAppend`, `StageHeader`,
`SyncStage`, `Truncate`, `Push`, `SealBundle`, `Finish`, `Flush`, `SyncTail`,
`ClearHeader`, `SyncClear`. `Stop` is a process that ends anywhere, with any
part of its buffer and perhaps a torn cell in the file; `PowerLoss` keeps a
prefix of the unsynced data and either header; `Writeback` is the kernel's own
writing. A reader opens in four steps, as `MmapArchive::open` touches the live
mapping: map, header, tail, fallback. An access beyond the end of a file that was
cut is a fault or, on the last page, zeros.

`ArchiveStore` is the promise: a sequence of distinct keys that changes by whole
appends, and what of it is durable. `ArchiveFileProps` has the properties and the
inductive invariant, and maps `store` to what an open would find now and
`durable` to what it would find after a power loss.

Assumptions about the disk: appended data persists as a prefix of what was
written, a truncation is journaled, and the header page may reach the disk on its
own but not ahead of the trailer it names (`HeaderMayPersist`). The repository's
README promises nothing for power loss; the durability properties say what the
three `sync_data` calls give under these assumptions.

### Runs in parallel: `ParallelRuns`, `ParallelRunsProps`, `OrderedRuns`

`drive_runs_parallel` with its semaphore. A step is what a thread does between
two accesses to shared state: a critical section of the semaphore's mutex, the
`fetch_add`, a send, a receive. `release` is two steps, the increment and
`notify_one`, because the code notifies after unlocking. Any `MaxPanics` of the
runs may panic, in `process` (a worker) or in `emit` (the coordinator).
`OrderedRuns` is the promise: ranks are emitted in ascending order, none twice,
none skipped.

### The conversion: `ConvertSession` on `DocWriter`

`DocWriter` is `ArchiveWriter` as its callers see it: documents, bundles, the
text frames of the open bundle, the keys seen. `ConvertSession` is the conversion: every
input of up to `MaxRuns` runs of `MaxDocs` documents, with equal keys and
documents that fail, and a failure at any store, seal or finish. Phase 4 takes
runs in rank order: this is the theorem `RunsEmittedInOrder` used as an
assumption of the next module. Dictionary contents are abstracted.

### Building, appending, saving: `ArchiveSession` on `DocWriter`, `MetaRows`

The calls of `HtmlArchiveBuilder`, `ArchiveAppender` and `HtmlArchive`, one step
per call, on one path. `MetaRows` is `MetaTableBuilder` with its columns: a row
is pushed value by value, and is refused by its validation, before its document is
stored, or late, by a column at its limit: then it has left values behind and, in an
append, its document is there without it. A failed write is one of which nothing or
a part came into the file; after a part the writer's offsets are not the file's
(`slipped`), and what a commit then publishes is taken for no archive (`None`), though
it may be one that opens and is wrong. `told`, `calls`, `lost` and `short` are history:
what callers were told is stored, what they offered, and whether a bundle's text was
lost by a failed seal or a document's row by a late refusal. A key is a pair of a
grapheme count and a number for its text, in the order of the bytes.

`KeyFilter` has the rules of a filter and the five routes by which one is
applied to what `ArchiveSession` has published: `entries_matching` of a mapped
file and of an archive in memory, `list` and `probe` through the index when the
rules name the keys, and bundle by bundle when they do not.

`Lists` is what the loops of several crates come to: a set of positions in order, and
lists one behind the other. `KeyFilter`, the sweeps and the rebuilders use it.

### The tree: `NodeTree`, `DomEdit`

`NodeTree` is the arena with the link surgery of `nodes.rs`, as operators from
arena to arena; removed nodes keep their slot and sibling links, as in the code.
`DomEdit` is the edits of `HtmlElement` and `DomInner` with all they do:
inserting spaces, pruning emptied blocks upwards, moving the cursor; then
`Rebuild`; and a depth-first loop with `VisitedStack`, which edits the element it
has just met and must find its place again. Tags are reduced to the classes the
code tells apart (block, inline, `body`, `summary`, text, comment) and texts to a
word, a space and a newline. A panic is the arena `Panicked`. What `remove_formatting`
does to the texts themselves is reduced to these three. Handles are elements
in the tree; inside a loop, the element just met. Replacing an element by itself
or an ancestor, which nothing refuses, is left out.

### The parser: `TreeBuilder` on `DocBuilder`, `DocStores`

`DocStores` is the stores of a document as operators: a symbol table with its
sorted permutation, a run arena, attribute entries, extended tags with a
vocabulary of bytes and an overflow list. Strings are numbers in byte order.
`DocBuilder` is `DomBuilderCursor` under the rules of `DomStack`: two stacks,
poison instead of failure, implied ends, recovery at an end tag. `TreeBuilder` is
the driver: a source is a sequence of tokens, html5gum turns each into the events
it gives (external: text before a start tag comes after the tag was opened), and
one action takes one event. Its last part states what the source describes
by a reader that has names for ids, no deferral and no capacity, and compares.
`StatsCounter` takes the same events with the counters of `stats/counter.rs`, which
looks names up by a table of its own: a `<text>` or `<sys_…>` of the source
(`Reserved`) is a tag of the system to it and a custom one to the parser.

### Edits of a parsed document: `DocEdits`, `DocContent`

`DocEdits` starts from documents `DocBuilder` built and edits them as
`attributes_mut`, `classes_mut`, `append_child` and `remove_children` do, with
runs that extend in place or move; `Repackage` is `rebuilder.rs` with the
rebuilders of the four stores, `StoreAndLoad` the choice of record width.
`DocContent` is the promise: elements with a name, attributes, classes and
children, and nothing of ids, offsets or order of arrival.

### Selectors: `CssText`, `CssValues`, `CssMatch`, `SelectWalk`

`CssText` reads and writes selector texts, tokens for characters, one operator
per `from_chars` and per `fmt`; it is recursive, as the code is. A quoted value is
kept as it stands between its quotes, with its entities decoded once, and written
between single quotes as it is kept. `CssValues` is
the operators of `[class…]` on a list of classes. `CssMatch` is binding and
matching of a list against an element, by id where the list is bound and by
string where it is not; what an operator accepts is a set there. `SelectWalk`
lends one list to walk after walk over documents of `DocEdits`, with edits
between two yields. Its last part says what a selector means over strings and the
tree, apart from how the matcher goes about it: of one type are elements of one name.
`:empty` is there what the repository's tests say of it, no child element
(`css3.rs:2155`), where CSS counts text too.

### Sources: `InputFormats`, `Sources`

The three kinds of input are operators: which items a first pass meets, what of
them can be selected, and what a second pass finds at a place it was given.
`Sources` has the two passes as actions, member by member and document by
document, for `convert` and `list` (with a limit and a list of keys), `extract`
and `stats`, and an action of the world by which the input changes once: it
grows, is cut, goes or is replaced under its name. Who has a file open goes on
reading what was there. The histograms that each run fills, and their merge, are in `Sources`
too.

### Sweeps from Python: `ParSweep`, `ScanTable`, `PySweeps`

`ParSweep` has the threads of `par_fold` with their atomic counter, `on_workers`
with the mark `BUSY`, and `sweep_pool` with its mutex, each access to shared
state a step, for several sweeps in several processes; `Fork` copies the memory
of a process with the pool, the mark and the mutex as they are at this moment,
and none of its threads. `ScanTable` is `build_batches`: four columns, limits of a
few bytes for those of 2^30. `PySweeps` composes them.

## 3. The runs

| Run | Question | Bounds |
| --- | --- | --- |
| `archive_file` | Wherever an appender stops, is the file readable, durable as acknowledged, and stable for readers; does it implement `ArchiveStore`? | 2 keys, 1 reader, 3 appends |
| `parallel_runs` | Bounded in flight, in order, nothing left behind, and does the scope end? | 2 threads (6 permits), 7 runs, 1 panic |
| `convert_session` | Is the published archive what the input says, rows with their documents, after any failures? | 2 keys, 3 runs of 2, warm-up of 2 |
| `archive_session` | Do build, write, save, append and read agree, with duplicates, refused rows and writes that fail whole or in part; do keys find their documents, and filters the same ones by every route? | 3 keys, 5 adds, bundles of 2, 2 fields, 12 filters |
| `dom_edit` | Do links agree, words survive, cursors stay live, rebuilds sweep, and does a loop recover from one edit? | 4 documents, 2 edits, 12 steps of a loop |
| `parse` | Does an accepted document read back as its source describes it; do the stacks stay one path; does the counting pass cover what is stored? | 4 of 17 tokens, one of a reserved name, depth 3, 5 nodes, 2 symbols, 7 run slots |
| `doc_edits` | Is each edit, repackage and store-and-load the abstract one; is every string found; is a repackage compact? | 3 documents, 3 edits, 3 symbols, 9 run slots, a vocabulary of 1 |
| `select` | Is each yield of a walk the next element the selectors mean, during edits and for list after list; does direct matching agree? | 12 lists, 4 documents, 1 edit |
| `css` | Is what is read, shown and read again the same, and what is not; is no word passed over; is `[class…]` on a list what it is on the joined value? | 4 of 27 pieces; 3 of 5 classes, patterns of 4 characters |
| `sources` | Does each command get what it selects, is each document delivered or counted when the input changes, and do merged histograms tell of all? | 3 records in 3 layouts, 3 ZIM entries, up to 3 pages, 1 change |
| `py_sweeps` | Does each sweep end, with every hit in order or the refusal it met; has a pool one sweep; do batches hold every value? | 2 sweeps, 2 threads each, 2 processes, 3 documents, limit 3 of 5 |
| `css_chain` | (violated) Does direct matching find the `b` of `ul > p > div b`? | 1 list, 1 document |

Why these bounds are enough for the interesting cases. Three appends are one that
is abandoned, one that heals it and one after that, with a reader that may span
all of them. Seven runs on six permits make one run wait for a permit while a
panic holds another. Three runs with a warm-up of two documents put equal keys on
both sides of the phase boundary. Five documents in bundles of two fill two bundles
and leave a short one, on either side of a commit; the keys are ordered so that
length order and text order differ. Two edits of a tree are needed to make one
edit meet what another left behind. Four tokens are an element, a second in it, text
between tags and an end tag, and enough to pass the depth, the nodes and each store;
an attribute may be dropped, repeated or a class. Three edits make a run that is not
the last grow, a repackage and an edit after it; the documents start with tables that
are nearly full. Four pieces of a selector are a compound in a parenthesis with a
combinator before it. Three records put a duplicate, a damaged member and a file
boundary in one crawl; runs of two make a second run. Two sweeps of two threads meet
on the pool, the mark and the mutex, with a fork at each step of the other. They are
small scopes all the same; what is proved does not depend on them.

Symmetry over keys and readers in `archive_file` is sound: no property
distinguishes them, and none is a liveness property. `CHECK_DEADLOCK FALSE` is set where
a session really ends.

Fairness. `ParallelRuns` and `PySweeps` state it, both for the operating system: it
keeps running every thread that can run. In `ParallelRuns` this is `WF` of each
worker and of the coordinator; spurious wake-ups may happen and are not relied on.
Under it the scope ends unless a run panics with `in_flight_cap` or more runs to go:
then the results behind the hole keep all the permits and the other workers wait for
ever. `JoinsUnlessDrained` states this bound. In `PySweeps` it is `WF` of each call's
steps, those of its workers among them; nobody must begin a sweep or fork.
`SweepsEnd` sets one case apart, `Stranded`: a child forked while another
thread is inside a critical section of `sweep_pool` inherits a mutex nobody will
unlock. All other properties are safety.

### Where the code is not what it says

`css_chain` is a run of its own: `ComplexSelector::verify` takes compounds from one
iterator for all ancestors it tries, so an attempt that fails takes from the next.

The following properties are defined in the modules and do not hold of the code. Each
can be seen by giving it as the only `INVARIANT` (or `PROPERTY`, where marked) of the
configuration named.

| Property | Configuration | What happens |
| --- | --- | --- |
| `OpenNeverFails` | `archive_file` | A reader that maps during an append's footer and reads the header after it was cleared (`trailer.rs:73`) finds neither a trailer nor the fallback: `open` fails though the archive is complete. |
| `MappingStaysBacked` | `archive_file` | An append that heals an abandoned one cuts the file below the length a reader has mapped (`writer.rs:213`). |
| `PosIsFilePosition` | `archive_file`, `SPECIFICATION SpecWriteErrors` | After a failed write the writer goes on with a `pos` that is not the file's (`writer.rs:353`). |
| `RowsDescribeDocs` | `archive_session` | A row refused at a later field leaves its first values in the builder's columns (`builder.rs:85`). |
| `CommittedReads` | `archive_session` (PROPERTY) | A commit after a failed seal publishes a bundle without some of its text (`append.rs:97`), one after a row refused late a document without its row (`append.rs:94`), one after a write that failed in part offsets that are not the file's (`writer.rs:353`). |
| `NoneExcluded` | `archive_session` | `filter.rs:8-11` keeps an entry that "matches none of the exclude rules"; `keep` drops only one that matches all of them. |
| `LoopMeetsAll` | `dom_edit` with `Docs <- LoopDocs` (PROPERTY) | A loop that removes two elements, the first emptying its parent, misses a third (`stack.rs:130`). |
| `ReplaceSucceeds` | `dom_edit` with `MaxEdits = 1`, `MaxYields = 0` | Replacing a block by the only child of its inline neighbour panics (`dom_inner.rs:141`). |
| `EndTagCloses` | `parse` (PROPERTY) | `</ul>` with an open `li` on top closes the `li` and leaves the `ul` open (`parser/dom.rs:124`). |
| `MatchesMeaning` | `select` | `:first-of-type` and its kin compare tag bytes, so that all custom elements are of one type (`element.rs:398`, `pseudo_class.rs:342`). `DirectMatches` and `SelectsNext` set lists that ask this of such elements apart (`OneTypeForAll`). |
| `LimitKept` | `py_sweeps` | `lib.rs:1737` lets no column pass the limit of a batch and `lib.rs:1412` knows one failure, a document's text or attributes above the ceiling. Metadata is looked at before the chunk is added (`lib.rs:1797-1802`): it passes the limit by one document's, and can fail a scan by that. A limit above the ceiling (`lib.rs:1524-1530` takes any) fails it too. |
| `CommasApart` | `css` | `div , p` is refused, `div, p` is not: the space before a comma is read as a combinator (`relative.rs`). |

Smaller ones, met while translating. Those of `RoundTrip`, where what is read, shown
and read again is not the same, are named in it:

- `:has(> .a .b)` is shown without its inner space (`Late`).
- A value with an apostrophe, read from double quotes, is shown in single ones, and
  `&amp;lt;` is decoded again when its showing is read (`quoted_string.rs:49-53`, `86`;
  `Misspelt`).
- `[class~="a.b"]` is shown as `.a.b`, two classes (`Misspelt`).
- `0n` is shown as `n` (`ZeroStep`); matching `:nth-child(0n)` divides by zero
  (`ordinal_pattern.rs:222-265`).

`NothingLost` names the one thing that reading drops: the first of two `[text]` of a
compound (`compound.rs:256`). Without a property: `parse_css` ignores what follows an
unopened `)`; the depth `stats/counter.rs:164-169` calls an upper bound is none after an
unmatched end tag; the counter takes the reserved spellings `<text>`, `<comment>`,
`<doctype>`, `<extended>` and `<sys_…>` for known tags (`counter.rs:83`), where the parser
stores a symbol for them (`html_tag.rs:171-191`), so `CountsCover` does not count on their
names; `stats`, `list` and `extract` drop the count of undelivered documents that
`drive_run` returns (`stats/mod.rs:438`, `commands.rs:22`), so `EachAccounted` is the
promise of `drive_run`; the keys of `--list` are NFC-normalized and those of WARC files
and directories are not; a rebuild drops the attribute and class runs of the root
(`rebuilder.rs:39-44`).

## 4. What is proved

All of it is for every value of the constants under the assumptions listed at the
end of this section. The inductive invariants are not in the `.cfg` files: their
theorems say more than a run on a small instance would.

`ArchiveFileProofs` proves, for every set of keys and readers and every number
of sessions, that `IInv` is an invariant, and from it `TypeOK`, `Recoverable`,
`DurablyRecoverable` and `ReadersStable`. The properties alone are not inductive:
that a cut file opens depends on which trailers are in the part that was not
flushed. The strengthening says that every trailer in the image has sound tables
before it (`TrailersReadable`), and that every length the file can be cut to ends
in a trailer or is guarded by the header's offset, which then points to the last
trailer before the cut (`HeaderGuards`; `DiskGuards` for what is on disk). The
appender's part says what each of its steps has established (`AppenderInv`). The
lemmas say what appending to, and cutting, the image does to readable trailers.

Its second half goes on from there to what a commit promises: `AckedDurable`,
`ReadersFresh` and the refinement `ImplementsStore`. None of them follows from
`IInv`, which says that what is found is whole and not that it is the right one.
`CommitInv` is the second invariant: a later trailer holds what an earlier one holds
(`TrailersGrow`), at most one append is not on stable storage (`OneUnsynced`), and
each trailer that a power loss, a staged header or a reader that is still opening
may arrive at holds what was committed before (`CommitKept`, `HeadersKept`,
`ReadersKept`). For the refinement each action is mapped to one of `ArchiveStore` or
to a stutter: whatever brings a new trailer into the file whole (`Flush`, or a `Stop`
that got that far) publishes the append, a sync or the kernel's writing hardens it, and
`PowerLoss` keeps what was hardened or published.

`ParallelRunsProofs` proves, for every number of threads, every range and any
panics, that its `IInv` is an invariant, and from it `InFlightBounded`,
`NothingLeftBehind` and, as a refinement, `ImplementsOrderedRuns`. The
strengthening is the conservation of permits (free ones, those of workers, of
results under way and in the buffer never exceed the cap) and that each claimed
run is with its worker, in the channel, in the buffer or emitted. Cardinality
arithmetic over workers and buffer is in lemmas of its own.

`ConvertSessionProofs` proves, for every input, `RowsPaired` and `PublishedWhole`,
and that the check of the rows in `finish` refuses nothing the command stored.
`IInv` (in `ConvertSession`) adds to them what the phases leave to each other: until a
write fails, every good document of the runs taken is stored, preceded by one of its
key, or still to come (`NoneLost`); stored and coming documents are in the input's
order (`Order`); the sealed bundles part the documents by runs and the open one has
the text of what is not sealed (`BundlesTell`, `OpenBundle`); the failures reported
are those of the runs done, a recursive sum (`Counted`).

`ArchiveSessionProofs` proves, for every set of keys, bundle size, schema and number of
calls, `FileSound`, `SameBundles`, `ResaveKeeps`, the action property
`CommitExtends`, and `KeysAndFiltersFind`: that the binary search through the index of
a commit is right for each key, and that every route that applies a filter keeps the
same documents, those its rules keep of what the callers were told. Of the filters it
assumes that the words of an include list are keys, pairs of numbers, known to the file
or not (`FiltersAssumption`), and of selectors nothing; the routes
come together because the bundles of a file part the positions of its documents in
order, so that a bundle's kept documents, one bundle behind the other, are the kept
documents. Its `IInv` says of the four objects what they owe each
other. A builder has, for each route by which its documents can be written, the
writer that route would end with, in full bundles and a rest (`Chunked`); its
columns hold the rows that were told of, or are too long for good, and the first is
the longest of them (`RowsKept`), which is why a row that was refused late can never
come to be published beside a wrong document. An archive in memory is described by
the writer that saves it. A file's bundles part its documents and have their text,
or one of them lost it and shows it (`BundleBroken`): this is why `read_from` refuses
such a file. A row that was refused late shows in a last column shorter than the
documents (`RowsTold`), so `read_from` refuses that file as well, and a commit after a
write that failed in part is no archive. An appender extends the file it was opened on.
`FileSound` is about a file that opens, or reads back: then it tells what the
callers were told, whatever they were refused before.

`PySweepsProofs` proves, for every number of processes, calls and threads, any chunk
and any archive, `PoolHeldByOne`, that a broadcast runs in the process that made the
pool (`BroadcastsAtHome`) and that the sweeps of a process all get the pool in its slot
(`SamePool`: several may make one at a time, without the mutex, but whoever comes late to
the slot takes what is there, and an inherited one counts as none), and, from the second half of
the invariant, that at every moment of a sweep each hit of a claimed document is with
one worker (`HitsShared`) and `SweepAnswers`: that the answer has every hit once and in archive order,
and nothing else, or names a refusal or a panic that was met. `Control` says who has
the mutex, the mark and the pool of a process, forks included; `Work` that the
claimed documents are divided among workers: visited and counted, marked, or in the
hands of one of them. The order comes from the sort alone: it is the one list of the
hits that rises, and the workers' results are a list of them.

`TableTells` is a fact of `ScanTable`'s functions, which the composed module asks in
every state: for any limit, ceiling and archive, the batches built of a result have every value of
every hit, column by column, keep to the limit as `Bounded` has it, and a scan fails only
for what `FailsFor` lists. `TableInv` is what holds after each document: what was cut
and what is pending together are the rows so far, what is pending is `Bounded` like what was cut, and the
offsets of a column are the sums of its values' sizes (`ScanTableAssumption`: sizes are
natural numbers; of the limit and the ceiling nothing more is assumed).

`ListsProofs` has what the proofs of several modules need of `Lists`: that a set in order
is the one rising list of it, that it splits where the set does, and how long lists one
behind the other are and what stands where; that the binary search of the program's sorted
tables splits a rising list where it should (`BisectSplits`); and that a walk, which is a step
repeated until nothing is added, keeps what each step keeps (`StepsReach`).

`TreeBuilderProofs` proves `OpenPath` for every source, any capacities and any limits of
depth and nodes: whatever is refused, the two stacks stay one path of the tree with the
names of its elements, and what is below a node is what follows it up to where its range
ends. `ParseInv` is the inductive invariant, in three parts. The tree is in `Preorder` with
a range for each node, a parent before its children and a next sibling where the range ends;
ranges are what makes the walk of `Descendants` and the climb of `SubtreeEnd` agree without
recursion. The open elements are a `Path`: each the last child of the one below it, its
range open to the end of the arena, which is why a child can only be added behind
everything. `Names` and `Spelt` say what the byte of a node stands for: an overflow entry is
found again because entries come in the order of their nodes. Of the driver it says that a
value comes behind the name it is for (`Paired`); html5gum's emitter gives no other events
(`EmittedWhole`). The tokens are those of html5gum (`TokensAssumption`).

`DocEditsProofs` proves `Findable` for every document that is built
from what the parser leaves and edited by any calls: binary search is right in a
sorted table, inserting keeps a table sorted, runs end where a run
must whatever was appended to or removed from them, walks stay in the arena, and a rebuild, which
renumbers strings, pairs, runs and nodes, drops only what no live node reaches. The
property alone is not inductive: a rebuild is only right if each run, pair and tag of the
document points at a string that exists. `Sound` says so of all of them, together with
the permutations being complete and in order; it holds of a document just built
(`BuiltSound`), and edits, `Rebuilt` and `Packed` keep it. Of the builder's result the
edits assume `IsWhole`, that nothing in it points nowhere, which TLC evaluates for the
documents of the run (`CallsAssumption`).

What these modules compute is written as recursive functions over positions
(`WriteEntries`, `PackDocs`, `SaveBundles`, `Start`, `Search`, `DroppedOf`), not as
`RECURSIVE` operators. A theorem of induction is out of reach, so each such function
is proved to exist by giving it explicitly or by choosing a least length at which it
does not, and to have a property by the least position at which it fails (`Least`,
`Iterates`, `Upward` in the proofs).

Assumptions, all named in the modules and evaluated by TLC: at least one thread and
a range that is not empty (`ThreadsAssumption`, `RangeAssumption`), a natural number of
sessions (`SessionsAssumption`), a warm-up of at least one document
(`SampleAssumption`: `DICT_SAMPLE_DOCS` is a positive constant), a bundle of at least one
document and a schema with a field (`CapAssumption`), keys that are pairs of numbers
(`KeysAssumption`), the tokens and attributes of an HTML tokenizer (`TokensAssumption`), a
limit of depth and of nodes that is not 0 (`DocBuilderAssumption`), capacities of the stores
that are numbers (`StoreAssumption`), reserved names that are custom ones
(`ReservedAssumption`), and for the sweeps (`ParSweepAssumption`) that 0 is the number of no
process, that a rayon pool has a thread, that a chunk is not empty (the code clamps it
to 1..64) and that an archive is a finite sequence.

Only model-checked:

- `JoinsUnlessDrained` and `SweepsEnd`: liveness is out of the prover's reach.
- `DomEdit`, `CssText`, `CssMatch` and what is built on them (`WellLinked`,
  `RebuildIsSweepable`, the loop, the walks, reading and showing of selectors): recursive
  operators, as the code is recursive.
- `AcceptedIsWhole` and `CountsCover` compare a parsed document with what a second reader or
  a counter makes of the same tokens; `ImplementsContent` and `RebuildCompact` compare the
  documents before and after an edit or a rebuild, not their tables alone. Each is an equality of
  whole documents, and needs an invariant for everything the stores hold: not proved yet.
- The sources (`DeliversSelection`, `EachAccounted`, `HistogramTells`): their passes fold
  over lists with an operator of the libraries that takes another operator, of which the
  provers know nothing.

## 5. What is not modelled, and why

- zstd, rkyv, html5gum, flate2, memmap2, rayon and the ZIM reader are libraries; bytes,
  checksums and layout are not modelled, only what is found where.
- How a document's text is cut into blocks and read across them (`bundle_strings.rs`):
  arithmetic over byte lengths, where a text is one item here.
- The once-per-bundle validation memo and the per-thread text cache of `mmap.rs`, and
  plain reads during an append (`HtmlArchive::read_from`).
- Stack overflow of a worker aborts the process; it is `Stop` for the file.
- Creating a new file: the temporary file, its rename, and the missing sync.
- Formatting and the entity and attribute tables: values to values, pinned by
  snapshot tests. The wording of errors, which is all that `ParseError::diagnosis` is.
- Of the command lines: parsing of arguments, `probe`'s counted tree, pipes to other
  programs, training of dictionaries, compression estimates and printed reports. Of the
  Python binding: conversion of values and the classes that wrap documents.

## 6. Plan

Done: the archive file, the runs, the conversion, the session with its filters, the
tree, the parser with its stores, edits of documents, selectors, sources and sweeps.

Proved: the archive file with its commits and its refinement, the runs, the conversion,
the session with its filters, the sweeps with their tables, the path of open elements in the
parser, and the searches of a document through its edits.

Left, in order:

1. `NodeTree` and `DomEdit`: which links each surgery leaves in agreement, as lemmas on
   arenas, then `WellLinked` for edits outside loops. The recursive climbs of `DomEdit` have
   to become functions for it; the ranges of `TreeBuilderProofs` are a beginning.
2. `DocEdits`: `ImplementsContent`, with `Sound` for the tables and what a run holds as the
   content of a node.
3. `StatsCounter`: `CountsCover`, the counters beside the stores they predict.
4. `Sources`: `EachAccounted` and `HistogramTells`, with the folds written as functions.
5. Creation and rename of a new file, and plain reads during an append, in
   `ArchiveFile`, with its proofs.
