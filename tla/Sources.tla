------------------------------- MODULE Sources ------------------------------
(***************************************************************************)
(* The documents of an input, as convert, list, extract and stats read     *)
(* them (htmlarc-convert/src/source, commands.rs, stats/mod.rs).  A first  *)
(* pass selects documents and keeps where they are; the second goes back   *)
(* for one run of bodies at a time.  In between the input is only a path:  *)
(* the files of a crawl may grow, shrink, go or be replaced.               *)
(*                                                                         *)
(* Runs are driven in rank order here; that their results are used in that *)
(* order is ParallelRuns.                                                  *)
(***************************************************************************)
EXTENDS InputFormats, FiniteSetsExt

CONSTANTS
  Keys,           (* keys of the records a file may grow by                  *)
  NoLimit,        (* no --limit: a number above that of the documents        *)
  Value(_),       (* count_doc: a count of a document, by its body           *)
  Buckets,        (* the number of the last log2 bucket of a histogram: 32   *)
  Threshold,      (* the ceiling of the metric                               *)
  NoMaxKey        (* the key of an empty histogram                           *)

VARIABLES
  settings,       (* [format, command, given, lines, limit, want]            *)
  disk,           (* the input                                               *)
  phase,          (* scan, drive, done, refused                              *)
  held,           (* the file or cluster that is open                        *)
  at,             (* pass 1: the file and member to read next                *)
  sel,            (* pass 1: what is selected so far                         *)
  runs, place,    (* pass 2: the runs, and the document to read next         *)
  plan,           (* every document selected, by all sources opened          *)
  delivered, failed,
  part,           (* stats: the WARC file that is a source of its own        *)
  hist, runHist,  (* stats: merged, and of the current run                   *)
  change          (* what happened to the input                              *)

readVars == <<settings, phase, held, at, sel, runs, place, plan, delivered,
              failed, part, hist, runHist>>
vars == <<readVars, disk, change>>

-----------------------------------------------------------------------------
(* The histograms of stats (stats/mod.rs): one is filled per run by a       *)
(* worker, and they are merged in rank order.                              *)
NewHist == [buckets |-> [b \in 0..Buckets |-> 0], count |-> 0, over |-> 0,
            max |-> 0, maxKey |-> NoMaxKey]

\* The bits of a value: 32 - leading_zeros.
BucketOf(v) == Min({b \in 0..Buckets : v < 2 ^ b})

Record(h, v, key) ==
    [buckets |-> [h.buckets EXCEPT ![BucketOf(v)] = @ + 1],
     count |-> h.count + 1,
     over |-> h.over + (IF v > Threshold THEN 1 ELSE 0),
     max |-> IF v > h.max THEN v ELSE h.max,
     maxKey |-> IF v > h.max THEN key ELSE h.maxKey]

Merge(h, other) ==
    [buckets |-> [b \in 0..Buckets |-> h.buckets[b] + other.buckets[b]],
     count |-> h.count + other.count,
     over |-> h.over + other.over,
     max |-> IF other.max > h.max THEN other.max ELSE h.max,
     maxKey |-> IF other.max > h.max THEN other.maxKey ELSE h.maxKey]

Upper(b) == IF b = 0 THEN 0 ELSE 2 ^ b - 1

InFirst(h, b) == MapThenSumSet(LAMBDA c : h.buckets[c], 0..b)

\* Mutant of Percentile: the share is rounded down to a number of values.
PercentileDown(h, num, den) ==
    LET target == (num * h.count) \div den
    IN IF h.count = 0 THEN 0
       ELSE Min({h.max, Upper(Min({b \in 0..Buckets : InFirst(h, b) >= target}))})

\* The bound of the bucket that the share num / den of the values reaches.
Percentile(h, num, den) ==
    LET target == (num * h.count + den - 1) \div den
    IN IF h.count = 0 THEN 0
       ELSE Min({h.max, Upper(Min({b \in 0..Buckets : InFirst(h, b) >= target}))})

OverPow2(h, exp) == MapThenSumSet(LAMBDA b : h.buckets[b], (exp + 1)..Buckets)

-----------------------------------------------------------------------------
Format == settings.format
PerFile == settings.command = "stats" /\ Format = "warc"

\* --list is normalized line by line; WARC and directory keys are not.
Wordlist == {Nfc(line) : line \in settings.lines}
Listed(key) == ~settings.given \/ key \in Wordlist

Nothing == [docs |-> <<>>, seen |-> {}, ignored |-> 0, collapsed |-> 0]

\* What earlier sources took counts against the limit.
Full(s) == Len(plan) + Len(s.docs) >= settings.limit

Select(s, item) ==
    IF Full(s) \/ item.skip = "silent" THEN s
    ELSE IF item.skip = "counted" \/ ~Listed(item.key) THEN [s EXCEPT !.ignored = @ + 1]
    ELSE IF item.key \in s.seen THEN [s EXCEPT !.collapsed = @ + 1]
    ELSE [s EXCEPT !.seen = @ \union {item.key}, !.docs = Append(@, item)]

\* The scan stops at an item it meets when it has enough.
Breaks(s, items) == items # <<>> /\ Full(FoldLeft(Select, s, Front(items)))

Chunks(docs) ==
    [r \in 1..((Len(docs) + BundleCap - 1) \div BundleCap) |->
       SubSeq(docs, (r - 1) * BundleCap + 1, Min({r * BundleCap, Len(docs)}))]

RunsOf(docs) == IF Format = "zim" THEN GroupIntoRuns(ByCluster(docs)) ELSE Chunks(docs)

-----------------------------------------------------------------------------
Shut == [open |-> FALSE]
Hold(file) == [open |-> TRUE, linked |-> TRUE, file |-> file]

\* A file removed or replaced under its name is read on by whoever has it open.
Held == IF held.linked THEN disk[held.file] ELSE held.data

LastFile == IF PerFile THEN part ELSE Len(disk)

EndScan(s) ==
    /\ phase' = "drive"
    /\ sel' = s
    /\ runs' = RunsOf(s.docs)
    /\ plan' = plan \o FlattenSeq(RunsOf(s.docs))
    /\ place' = [run |-> 1, doc |-> 1]
    /\ held' = Shut
    /\ UNCHANGED <<settings, delivered, failed, part, hist, runHist>>

Refuse ==
    /\ phase' = "refused"
    /\ UNCHANGED <<settings, held, at, sel, runs, place, plan, delivered, failed, part, hist, runHist>>

NextFile == [file |-> at.file + 1, member |-> 1]

ScanFile ==
    /\ phase = "scan" /\ Format = "warc" /\ ~held.open
    /\ IF at.file > LastFile THEN EndScan(sel) /\ UNCHANGED at
       ELSE IF ~disk[at.file].present THEN Refuse
       ELSE /\ held' = Hold(at.file)
            /\ UNCHANGED <<settings, phase, at, sel, runs, place, plan, delivered, failed, part,
                           hist, runHist>>
    /\ UNCHANGED <<disk, change>>

ScanMember ==
    /\ phase = "scan" /\ Format = "warc" /\ held.open
    /\ IF ~Decodes(Held, at.member)
       THEN /\ held' = Shut /\ at' = NextFile
            /\ UNCHANGED <<settings, phase, sel, runs, place, plan, delivered, failed, part, hist, runHist>>
       ELSE LET items == RecordItems(Held, at.file, at.member)
                s == FoldLeft(Select, sel, items)
            IN IF Breaks(sel, items) THEN EndScan(s) /\ UNCHANGED at
               ELSE /\ sel' = s
                    /\ IF WalkEnds(Held, at.member)
                       THEN held' = Shut /\ at' = NextFile
                       ELSE at' = [at EXCEPT !.member = @ + 1] /\ UNCHANGED held
                    /\ UNCHANGED <<settings, phase, runs, place, plan, delivered, failed, part, hist, runHist>>
    /\ UNCHANGED <<disk, change>>

ScanAll ==
    /\ phase = "scan" /\ Format \in {"zim", "dir"}
    /\ LET items == IF Format = "zim" THEN EntryItems(disk) ELSE FileItems(disk)
           s == FoldLeft(Select, sel, items)
       IN IF Format = "dir" /\ s.docs = <<>> THEN Refuse ELSE EndScan(s) /\ UNCHANGED at
    /\ UNCHANGED <<disk, change>>

-----------------------------------------------------------------------------
Run == runs[place.run]
Doc == Run[place.doc]

\* Up to where the documents of a run come out of the same file or cluster.
GroupEnd == Max({i \in place.doc..Len(Run) :
                   \A j \in place.doc..i : Run[j].group = Doc.group})

Opens(group) ==
    CASE Format = "warc" -> disk[group].present
      [] Format = "zim" -> group \notin disk.broken
      [] Format = "dir" -> TRUE

BodyOf(doc) ==
    CASE Format = "warc" -> ReadBody(Held, doc)
      [] Format = "zim" -> ReadBlob(disk, doc)
      [] Format = "dir" -> IF disk[doc.group].present THEN disk[doc.group].body ELSE NoBody

\* Mutant of OpenGroup: a file that cannot be reopened counts as one failure.
OpenGroupOnce ==
    /\ phase = "drive" /\ ~held.open
    /\ place.run <= Len(runs) /\ place.doc <= Len(Run)
    /\ IF Opens(Doc.group)
       THEN held' = Hold(Doc.group) /\ UNCHANGED <<place, failed>>
       ELSE place' = [place EXCEPT !.doc = GroupEnd + 1] /\ failed' = failed + 1 /\ UNCHANGED held
    /\ UNCHANGED <<settings, phase, at, sel, runs, plan, delivered, part, hist, runHist, disk, change>>

OpenGroup ==
    /\ phase = "drive" /\ ~held.open
    /\ place.run <= Len(runs) /\ place.doc <= Len(Run)
    /\ IF Opens(Doc.group)
       THEN held' = Hold(Doc.group) /\ UNCHANGED <<place, failed>>
       ELSE /\ place' = [place EXCEPT !.doc = GroupEnd + 1]
            /\ failed' = failed + (GroupEnd + 1 - place.doc)
            /\ UNCHANGED held
    /\ UNCHANGED <<settings, phase, at, sel, runs, plan, delivered, part, hist, runHist, disk, change>>

\* DocSink::accept, of the stats command or of any other.
Accept(body) ==
    /\ delivered' = Append(delivered, [doc |-> Doc, body |-> body])
    /\ runHist' = IF settings.command = "stats" THEN Record(runHist, Value(body), Doc.key) ELSE runHist
    /\ UNCHANGED failed

ReadDoc ==
    /\ phase = "drive" /\ held.open
    /\ LET body == BodyOf(Doc)
       IN IF body # NoBody THEN Accept(body)
          ELSE failed' = failed + 1 /\ UNCHANGED <<delivered, runHist>>
    /\ held' = IF place.doc < GroupEnd THEN held ELSE Shut
    /\ place' = [place EXCEPT !.doc = @ + 1]
    /\ UNCHANGED <<settings, phase, at, sel, runs, plan, part, hist, disk, change>>

Found == settings.command = "extract" /\ \E i \in DOMAIN delivered : delivered[i].doc.key = settings.want

EndRun ==
    /\ phase = "drive" /\ ~held.open
    /\ place.run <= Len(runs) /\ place.doc > Len(Run)
    /\ place' = [run |-> place.run + 1, doc |-> 1]
    /\ hist' = Merge(hist, runHist)
    /\ runHist' = NewHist
    /\ phase' = IF Found THEN "done" ELSE phase
    /\ UNCHANGED <<settings, held, at, sel, runs, plan, delivered, failed, part, disk, change>>

\* stats opens the next WARC file, unless the limit is reached.
EndSource ==
    /\ phase = "drive" /\ place.run > Len(runs)
    /\ IF PerFile /\ part < Len(disk) /\ Len(plan) < settings.limit
       THEN /\ phase' = "scan" /\ part' = part + 1
            /\ at' = [file |-> part + 1, member |-> 1]
            /\ sel' = Nothing
            /\ runs' = <<>>
       ELSE phase' = "done" /\ UNCHANGED <<part, at, sel, runs>>
    /\ UNCHANGED <<settings, held, place, plan, delivered, failed, hist, runHist, disk, change>>

-----------------------------------------------------------------------------
(* The world: one file of the input changes, once (a bound).                 *)
Calm == [kind |-> "none", file |-> 0]

\* Whoever has the file open keeps the old one.
Relink(f, file) ==
    /\ disk' = [disk EXCEPT ![f] = file]
    /\ held' = IF held.open /\ held.linked /\ held.file = f
               THEN [held EXCEPT !.linked = FALSE] @@ [data |-> disk[f]]
               ELSE held

Grow(f, key) ==
    /\ disk' = [disk EXCEPT ![f].members =
                  Append(@, [recs |-> <<[key |-> key, html |-> TRUE, body |-> NoLimit]>>, fault |-> "none"])]
    /\ UNCHANGED held

Shrink(f) ==
    /\ disk[f].members # <<>>
    /\ disk' = [disk EXCEPT ![f].members = Front(@)]
    /\ UNCHANGED held

Changes(f) ==
    \/ Format = "warc" /\ change' = [kind |-> "grown", file |-> f] /\ \E key \in Keys : Grow(f, key)
    \/ Format = "warc" /\ change' = [kind |-> "shrunk", file |-> f] /\ Shrink(f)
    \/ /\ Format = "warc"
       /\ change' = [kind |-> "replaced", file |-> f]
       /\ Relink(f, [disk[f] EXCEPT !.members = Reverse(@)])
    \/ /\ Format \in {"warc", "dir"}
       /\ change' = [kind |-> "removed", file |-> f]
       /\ Relink(f, [disk[f] EXCEPT !.present = FALSE])

Disturb ==
    /\ change.kind = "none"
    /\ Format # "zim" /\ phase \in {"scan", "drive"}
    /\ \E f \in DOMAIN disk : disk[f].present /\ Changes(f)
    /\ UNCHANGED <<settings, phase, at, sel, runs, place, plan, delivered, failed, part, hist, runHist>>

-----------------------------------------------------------------------------
Start ==
    /\ phase = "scan" /\ held = Shut /\ at = [file |-> 1, member |-> 1]
    /\ sel = Nothing /\ runs = <<>> /\ place = [run |-> 1, doc |-> 1]
    /\ plan = <<>> /\ delivered = <<>> /\ failed = 0 /\ part = 1
    /\ hist = NewHist /\ runHist = NewHist /\ change = Calm

Read == ScanFile \/ ScanMember \/ ScanAll \/ OpenGroup \/ ReadDoc \/ EndRun \/ EndSource
Next == Read \/ Disturb

-----------------------------------------------------------------------------
(* What reading an input in two passes promises.                             *)

Range2(f) == {f[i] : i \in DOMAIN f}

(* The items of an input in order, said without walking it.                  *)
Reached(file) ==
    {m \in DOMAIN file.members :
       file.members[m].fault # "member" /\ \A k \in 1..(m - 1) : file.members[k].fault = "none"}

FileRecords(f) ==
    FlattenSeq([m \in 1..Cardinality(Reached(disk[f])) |-> RecordItems(disk[f], f, m)])

Eligible(item) == item.skip = "no" /\ Listed(item.key)

\* First wins.
Firsts(items) ==
    LET wins == {i \in DOMAIN items :
                   /\ Eligible(items[i])
                   /\ \A j \in 1..(i - 1) : Eligible(items[j]) => items[j].key # items[i].key}
        order == SetToSortSeq(wins, <)
    IN [n \in DOMAIN order |-> items[order[n]]]

UpTo(items) == SubSeq(items, 1, Min({settings.limit, Len(items)}))

Selection ==
    CASE Format = "warc" ->
           UpTo(IF PerFile THEN FlattenSeq([f \in DOMAIN disk |-> Firsts(FileRecords(f))])
                ELSE Firsts(FlattenSeq([f \in DOMAIN disk |-> FileRecords(f)])))
      [] Format = "zim" -> FlattenSeq(ByCluster(UpTo(Firsts(EntryItems(disk)))))
      [] Format = "dir" -> UpTo(Firsts(FileItems(disk)))

Readable == SelectSeq(Selection, LAMBDA d : d.body # NoBody /\ (Format = "zim" => d.group \notin disk.broken))

Given == [i \in DOMAIN delivered |-> delivered[i].doc]
Mixed == {i \in DOMAIN delivered : delivered[i].body # delivered[i].doc.body}
Answer == SelectSeq(Given, LAMBDA d : d.key = settings.want)

\* From an input nobody touches, each command gets the documents its options
\* select, first wins, in order and with their own text; extract finds the
\* document there is.
DeliversSelection ==
    (phase = "done" /\ change.kind = "none") =>
        /\ Mixed = {}
        /\ IF settings.command = "extract"
           THEN Answer = SelectSeq(Readable, LAMBDA d : d.key = settings.want)
           ELSE Given = Readable

\* Whatever happens to the input, each document of pass 1 is delivered in its
\* place or counted as failed; only a file replaced under its name gives a
\* document the text of another, and one that grew or is as it was gives all
\* that could be read.
EachAccounted ==
    (phase = "done" /\ settings.command # "extract") =>
        /\ Given = SelectSeq(plan, LAMBDA d : d \in Range2(Given))
        /\ Len(Given) + failed = Len(plan)
        /\ change.kind # "replaced" => Mixed = {}
        /\ (Format = "warc" /\ change.kind = "grown") => failed = 0

Values == [i \in DOMAIN delivered |-> Value(delivered[i].body)]
Above(n) == Cardinality({i \in DOMAIN Values : Values[i] > n})

\* The exact value at a share of the documents.
AtShare(num, den) ==
    Min({v \in Range2(Values) : (Len(Values) - Above(v)) * den >= num * Len(Values)})

\* Merged run by run, the histogram says of the documents what they say: the
\* maximum and who had it first, how many are over a bound, and a percentile
\* at or above the exact one, in its bucket, never above the maximum.
HistogramTells ==
    (phase = "done" /\ settings.command = "stats" /\ delivered # <<>>) =>
        /\ hist.count = Len(delivered)
        /\ hist.max = Max(Range2(Values))
        /\ hist.max > 0 =>
              hist.maxKey = delivered[Min({i \in DOMAIN Values : Values[i] = hist.max})].doc.key
        /\ hist.over = Above(Threshold)
        /\ \A e \in 0..(Buckets - 1) : OverPow2(hist, e) = Above(2 ^ e - 1)
        /\ \A p \in {<<1, 2>>, <<99, 100>>} :
              LET exact == AtShare(p[1], p[2])  told == Percentile(hist, p[1], p[2])
              IN exact <= told /\ told <= hist.max /\ BucketOf(told) = BucketOf(exact)
=============================================================================
