----------------------------- MODULE DocStores -----------------------------
(* The stores of one document (htmlarc-dom, stores/): a table of identity    *)
(* strings, runs of class tokens and of attributes, and the names of custom  *)
(* elements.  Strings are numbers, in their byte order; offsets start at 1,  *)
(* and None is the sentinel.                                                 *)
EXTENDS Integers, SequencesExt, Lists

CONSTANTS
    LocalCap,   \* symbols, values or entries a document can hold (0xEF00)
    ArenaCap,   \* slots of a run arena (0xFFFF)
    VocabCap,   \* custom names with a tag byte of their own (63)
    MaxString   \* the largest string

ASSUME StoreAssumption ==
    /\ LocalCap \in Nat \ {0} /\ ArenaCap \in Nat /\ VocabCap \in Nat
    /\ MaxString \in Nat

None == 0
Terminator == -1      \* no id is negative
Poison == 1           \* the id an overflowing builder hands out: the first

\* Where x first stands in s.
IndexIn(s, x) == CHOOSE i \in 1..Len(s) : s[i] = x

-----------------------------------------------------------------------------
(* A string table: `heap` gives each string its id, `sorted` lists the ids   *)
(* in the strings' order.                                                    *)
NoStrings == [heap |-> <<>>, sorted |-> <<>>]

Spelled(t) == [i \in 1..Len(t.sorted) |-> t.heap[t.sorted[i]]]

\* The id of s, or None.
Find(t, s) == IF Hit(Spelled(t), s) THEN t.sorted[Bisect(Spelled(t), s)] ELSE None

\* While a document is parsed the table is a heap with a hash of it.
Intern(heap, s) ==
    IF s \in ToSet(heap) THEN [heap |-> heap, id |-> IndexIn(heap, s), full |-> FALSE]
    ELSE IF Len(heap) >= LocalCap THEN [heap |-> heap, id |-> Poison, full |-> TRUE]
    ELSE [heap |-> Append(heap, s), id |-> Len(heap) + 1, full |-> FALSE]

\* Where the keys are, from the smallest on.
Ranked(keys) ==
    LET rising == InOrder(ToSet(keys))
    IN [r \in 1..Len(rising) |-> IndexIn(keys, rising[r])]

Table(heap) == [heap |-> heap, sorted |-> Ranked(heap)]

\* Mutant of TableInsert: the id goes to the end of the permutation.
TableInsertLast(t, s) ==
    IF Find(t, s) # None THEN [table |-> t, id |-> Find(t, s)]
    ELSE [table |-> [heap |-> Append(t.heap, s),
                     sorted |-> Append(t.sorted, Len(t.heap) + 1)],
          id |-> Len(t.heap) + 1]

\* After parsing: the id of s, which takes its place in the order.
TableInsert(t, s) ==
    IF Find(t, s) # None THEN [table |-> t, id |-> Find(t, s)]
    ELSE [table |-> [heap |-> Append(t.heap, s),
                     sorted |-> InsertAt(t.sorted, Bisect(Spelled(t), s), Len(t.heap) + 1)],
          id |-> Len(t.heap) + 1]

TableIsFull(t, s) == Find(t, s) = None /\ Len(t.heap) >= LocalCap

-----------------------------------------------------------------------------
(* Runs of ids in one arena, each ended by a terminator and named by where   *)
(* it starts.                                                                *)
RunEnd(arena, start) ==
    CHOOSE e \in start..Len(arena) :
        arena[e] = Terminator /\ \A k \in start..(e - 1) : arena[k] # Terminator

RunAt(arena, start) ==
    IF start = None THEN <<>> ELSE SubSeq(arena, start, RunEnd(arena, start) - 1)

NewRunFits(arena) == Len(arena) + 2 <= ArenaCap
NewRun(arena, id) == arena \o <<id, Terminator>>
NewRunStart(arena) == Len(arena) + 1

\* The parser appends to the run it has just started.
ExtendLast(arena, start, id) ==
    IF id \in ToSet(RunAt(arena, start)) THEN [arena |-> arena, full |-> FALSE]
    ELSE IF Len(arena) >= ArenaCap THEN [arena |-> arena, full |-> TRUE]
    ELSE [arena |-> Front(arena) \o <<id, Terminator>>, full |-> FALSE]

\* Mutant of AppendRun: a run in the middle is extended over the next one.
AppendRunOver(arena, start, id) ==
    LET end == RunEnd(arena, start) IN
    IF id \in ToSet(RunAt(arena, start)) THEN [arena |-> arena, start |-> start]
    ELSE [arena |-> [arena EXCEPT ![end] = id], start |-> start]

(* An edit extends the last run in place and moves any other to the end of   *)
(* the arena.                                                                *)
AppendRun(arena, start, id) ==
    IF id \in ToSet(RunAt(arena, start)) THEN [arena |-> arena, start |-> start]
    ELSE IF RunEnd(arena, start) = Len(arena)
    THEN [arena |-> Front(arena) \o <<id, Terminator>>, start |-> start]
    ELSE [arena |-> arena \o RunAt(arena, start) \o <<id, Terminator>>,
          start |-> Len(arena) + 1]

AppendRunFits(arena, start, id) ==
    \/ id \in ToSet(RunAt(arena, start))
    \/ IF RunEnd(arena, start) = Len(arena) THEN Len(arena) < ArenaCap
       ELSE Len(arena) + Len(RunAt(arena, start)) + 2 <= ArenaCap

\* Survivors move left; the run ends early and strands the slots behind it.
RemoveFromRun(arena, start, doomed) ==
    LET run == RunAt(arena, start)
        left == InOrder({k \in 1..Len(run) : run[k] \notin doomed})
    IN IF Len(left) = Len(run) THEN arena
       ELSE [k \in 1..Len(arena) |->
                 IF k \in start..(start + Len(left) - 1) THEN run[left[k - start + 1]]
                 ELSE IF k = start + Len(left) THEN Terminator
                 ELSE arena[k]]

-----------------------------------------------------------------------------
(* Attributes: entries (name, value id) with ids of their own, found by a    *)
(* numeric order; names below NameBase are standard, the others are symbols. *)
NameBase == MaxString + 1
PairKey(pair) == pair[1] * (LocalCap + 1) + pair[2]
PairKeys(entries) == [i \in 1..Len(entries) |-> PairKey(entries[i])]
EntryKeys(a) == [i \in 1..Len(a.sorted) |-> PairKey(a.entries[a.sorted[i]])]

FindEntry(a, pair) ==
    IF Hit(EntryKeys(a), PairKey(pair)) THEN a.sorted[Bisect(EntryKeys(a), PairKey(pair))]
    ELSE None

EntryInsert(a, name, value) ==
    LET v == TableInsert(a.values, value)
        pair == <<name, v.id>>
        at == Bisect(EntryKeys(a), PairKey(pair))
    IN IF FindEntry(a, pair) # None
       THEN [attrs |-> [a EXCEPT !.values = v.table], id |-> FindEntry(a, pair)]
       ELSE [attrs |-> [a EXCEPT !.values = v.table, !.entries = Append(@, pair),
                                 !.sorted = InsertAt(@, at, Len(a.entries) + 1)],
             id |-> Len(a.entries) + 1]

-----------------------------------------------------------------------------
(* Custom tag names: the first VocabCap get a byte of their own, the others  *)
(* share one and are told apart by a side map from node to name.             *)
NoExtTags == [vocab |-> <<>>, overflow |-> <<>>]
OverflowByte == <<"over", 0>>

EncodeTag(ext, sym, node) ==
    IF sym \in ToSet(ext.vocab)
    THEN [ext |-> ext, byte |-> <<"ext", IndexIn(ext.vocab, sym)>>]
    ELSE IF Len(ext.vocab) < VocabCap
    THEN [ext |-> [ext EXCEPT !.vocab = Append(@, sym)],
          byte |-> <<"ext", Len(ext.vocab) + 1>>]
    ELSE [ext |-> [ext EXCEPT !.overflow = Append(@, <<node, sym>>)],
          byte |-> OverflowByte]

OverflowNodes(ext) == [i \in 1..Len(ext.overflow) |-> ext.overflow[i][1]]

TagSym(ext, node, byte) ==
    IF byte = OverflowByte THEN ext.overflow[Bisect(OverflowNodes(ext), node)][2]
    ELSE ext.vocab[byte[2]]

IsExt(byte) == byte[1] \in {"ext", "over"}

-----------------------------------------------------------------------------
(* Stores in which no id points nowhere and nothing is there twice.          *)
Strings == 0..MaxString

Distinct(s) == \A i, j \in 1..Len(s) : s[i] = s[j] => i = j

IsHeap(heap) == heap \in Seq(Strings) /\ Distinct(heap) /\ Len(heap) <= LocalCap

\* A standard name, or one of so many symbols; a value is one of so many.
IsEntries(entries, symbols, values) ==
    /\ entries \in Seq((0..(MaxString + symbols + 1)) \X (1..values)) /\ Distinct(entries)
    /\ \A i \in 1..Len(entries) : entries[i][1] # NameBase

IsRuns(arena, ids) ==
    /\ arena \in Seq((1..ids) \union {Terminator})
    /\ arena # <<>> => Last(arena) = Terminator

IsExtTags(ext, tags, symbols) ==
    /\ ext.vocab \in Seq(1..symbols) /\ ext.overflow \in Seq(Nat \X (1..symbols))
    /\ \A j, k \in 1..Len(ext.overflow) : j < k => ext.overflow[j][1] < ext.overflow[k][1]
    /\ \A i \in 1..Len(tags) :
          /\ tags[i][1] = "ext" => tags[i][2] \in 1..Len(ext.vocab)
          /\ tags[i][1] = "over" =>
                tags[i] = OverflowByte /\ \E k \in 1..Len(ext.overflow) : ext.overflow[k][1] = i
=============================================================================
