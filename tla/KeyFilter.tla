----------------------------- MODULE KeyFilter ------------------------------
(* What a filter keeps of an archive (htmlarc-archive, filter.rs): the rules *)
(* themselves, and the routes by which a file, an archive in memory, `list`  *)
(* and `probe` apply them: by key alone where no rule looks at a document,   *)
(* through the index where the rules name the keys, bundle by bundle         *)
(* otherwise.                                                                *)
EXTENDS ArchiveSession, Lists

CONSTANTS
    Filters,        \* [include, exclude], each a set of selectors and a set of words
    Selects(_, _)   \* whether a selector finds anything in a document's text

(* A word of a list need not be the key of any document.                     *)
ASSUME FiltersAssumption ==
    \A f \in Filters : f.include.words \subseteq Nat \X Nat

\* All the rules of one side are asked for, for exclusion as for inclusion.
IsEmpty(rules) == rules.css = {} /\ rules.words = {}
Matches(rules, key, text) ==
    /\ \A selector \in rules.css : Selects(selector, text)
    /\ rules.words = {} \/ key \in rules.words

Keep(f, key, text) ==
    /\ IsEmpty(f.include) \/ Matches(f.include, key, text)
    /\ IsEmpty(f.exclude) \/ ~Matches(f.exclude, key, text)

NeedsBody(f) == f.include.css # {} \/ f.exclude.css # {}

\* Mutant of KeepKey: a document is excluded when nothing excludes any.
KeepKeyNone(f, key) ==
    /\ f.include.words = {} \/ key \in f.include.words
    /\ f.exclude.words # {} /\ key \notin f.exclude.words

KeepKey(f, key) ==
    /\ f.include.words = {} \/ key \in f.include.words
    /\ key \notin f.exclude.words

-----------------------------------------------------------------------------
(* Routes: positions of a file's documents                                   *)
BundleRange(a, b) == (Start(a, b) + 1)..(Start(a, b) + a.bundles[b].n)

\* The last bundle that starts at or before i, and the document with its text.
BundleOf(a, i) ==
    CHOOSE b \in DOMAIN a.bundles :
        Start(a, b) < i /\ \A c \in DOMAIN a.bundles : c > b => Start(a, c) >= i

Passes(a, f, i) ==
    LET b == BundleOf(a, i)
    IN Keep(f, a.docs[i].key, a.bundles[b].frames[i - Start(a, b)].text)

Quickly(a, f, i) == IF NeedsBody(f) THEN Passes(a, f, i) ELSE KeepKey(f, a.docs[i].key)

KeptIn(a, f, b) ==
    InOrder({i \in BundleRange(a, b) :
        IF NeedsBody(f) THEN Keep(f, a.docs[i].key, a.bundles[b].frames[i - Start(a, b)].text)
        ELSE KeepKey(f, a.docs[i].key)})

EntriesMatching(a, f) == Joined([b \in DOMAIN a.bundles |-> KeptIn(a, f, b)])

EntriesInMemory(bundles, f) ==
    LET entries == Joined(bundles)
        kept == InOrder({i \in DOMAIN entries :
                    IF NeedsBody(f) THEN Keep(f, entries[i].key, entries[i].text)
                    ELSE KeepKey(f, entries[i].key)})
    IN [k \in DOMAIN kept |-> entries[kept[k]]]

\* Workers take bundles; what they kept is sorted.
Sweep(a, f) ==
    InOrder({i \in UNION {BundleRange(a, b) : b \in DOMAIN a.bundles} : Passes(a, f, i)})

\* Positions of the words the archive has, looked up one by one.
Candidates(a, f) == {Search(a.docs, a.index, word) : word \in f.include.words} \ {0}

ListIndexes(a, f, firstN) ==
    LET kept == IF f.include.words = {} THEN Sweep(a, f)
                ELSE InOrder({i \in Candidates(a, f) : Quickly(a, f, i)})
    IN SubSeq(kept, 1, IF firstN < Len(kept) THEN firstN ELSE Len(kept))

Probed(a, f) ==
    IF f.include.words = {} THEN Sweep(a, f)
    ELSE InOrder({i \in Candidates(a, f) : Passes(a, f, i)})

-----------------------------------------------------------------------------
\* What was told a file's callers and passes the filter, in their order.
ToldKept(f) ==
    InOrder({i \in DOMAIN file.told : Keep(f, file.told[i].doc.key, file.told[i].doc.id)})

\* Of a file that opens a filter keeps the same documents by every route, in
\* archive order: those its rules keep of what the callers were told.
FiltersAgree ==
    file # None /\ Reads(file) =>
        \A f \in Filters :
            /\ EntriesMatching(file, f) = ToldKept(f)
            /\ EntriesInMemory(ReadFrom(file).bundles, f) =
                  [k \in DOMAIN ToldKept(f) |-> file.told[ToldKept(f)[k]].doc]
            /\ Probed(file, f) = ToldKept(f)
            /\ \A n \in 1..(Len(ToldKept(f)) + 1) :
                  ListIndexes(file, f, n) =
                      SubSeq(ToldKept(f), 1, IF n > Len(ToldKept(f)) THEN n - 1 ELSE n)

(* A key finds its document and no other, in every file, and a filter those   *)
(* it keeps, whichever of the routes is taken.                                *)
KeysAndFiltersFind == KeysFound /\ FiltersAgree

\* filter.rs:8-11: an entry is kept when it "matches none of the exclude rules".
NoneExcluded ==
    file # None =>
        \A f \in Filters, i \in DOMAIN file.docs :
            Keep(f, file.docs[i].key, file.docs[i].text) =>
                /\ file.docs[i].key \notin f.exclude.words
                /\ \A selector \in f.exclude.css : ~Selects(selector, file.docs[i].text)
=============================================================================
