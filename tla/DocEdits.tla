------------------------------ MODULE DocEdits ------------------------------
(* A parsed document under edits (htmlarc-dom): attributes_mut, classes_mut,  *)
(* append_child, remove_children, repackage, and the width of its records    *)
(* when it is stored and loaded again.  Names and values go into the         *)
(* document's tables for good; runs move when they grow; a repackage copies  *)
(* what live nodes still reach and numbers it anew.                          *)
EXTENDS DocBuilder

CONSTANTS
    Docs,         \* finished builders to start from
    Attributes,   \* <<name, value>> pairs to append
    ClassNames,   \* classes to append or remove
    ChildNames,   \* standard tags of new elements
    NarrowNodes,  \* nodes a record of two-byte links can name (0xFFFF)
    Margin,       \* the largest document stored with such records (58981)
    MaxEdits      \* calls of a session

ASSUME DocEditsAssumption == Margin <= NarrowNodes /\ NarrowNodes <= MaxNodes

(* Documents the parser accepts, and calls a caller can make.                *)
ASSUME CallsAssumption ==
    /\ \A b \in Docs : IsWhole(b)
    /\ Attributes \subseteq ({"std", "ext"} \X Strings) \X Strings
    /\ ClassNames \subseteq Strings /\ ChildNames \subseteq STRING

VARIABLES
    dom,       \* the arena, its slots, the tables, runs and custom names
    ident,     \* who each slot of the arena is, a history
    edits,     \* calls so far
    state      \* "open", or "panicked" once a capacity was met

vars == <<dom, ident, edits, state>>

-----------------------------------------------------------------------------
(* The document                                                              *)
SortedPairs(entries) == Ranked(PairKeys(entries))

\* DomBuilder::build gives every table its order.
Built(b) ==
    [nodes |-> b.nodes, slots |-> b.slots, symbols |-> Table(b.symbols),
     attrs |-> [entries |-> b.entries, sorted |-> SortedPairs(b.entries),
                values |-> Table(b.values)],
     lists |-> b.lists, classes |-> b.classes, ext |-> b.ext, wide |-> TRUE]

SymbolName(d, sym) == <<"ext", d.symbols.heap[sym]>>

NodeName(d, i) ==
    LET byte == d.nodes[i].tag
    IN IF IsExt(byte) THEN SymbolName(d, TagSym(d.ext, i, byte)) ELSE byte

AttributeAt(d, id) ==
    LET pair == d.attrs.entries[id]
    IN << IF pair[1] < NameBase THEN Std(pair[1]) ELSE SymbolName(d, pair[1] - NameBase),
          d.attrs.values.heap[pair[2]] >>

AttributesOf(d, i) ==
    [k \in 1..Len(RunAt(d.lists, d.slots[i].attr)) |->
        AttributeAt(d, RunAt(d.lists, d.slots[i].attr)[k])]

ClassesOf(d, i) ==
    [k \in 1..Len(RunAt(d.classes, d.slots[i].cls)) |->
        d.symbols.heap[RunAt(d.classes, d.slots[i].cls)[k]]]

\* The elements a caller can hold: in the tree, and not the root.
Elements == Live(dom.nodes) \ {Root}

-----------------------------------------------------------------------------
(* Live edits                                                                *)
Calls == state = "open" /\ edits < MaxEdits /\ edits' = edits + 1

Panic(fits) == ~fits /\ state' = "panicked" /\ UNCHANGED <<dom, ident>>

NameTable(d, name) == IF name[1] = "std" THEN d.symbols ELSE TableInsert(d.symbols, name[2]).table

NameSymbol(d, name) ==
    IF name[1] = "std" THEN name[2] ELSE TableInsert(d.symbols, name[2]).id + NameBase

\* A node without a run gets one of its own, at the end of the arena.
RunWith(arena, start, id) ==
    IF start = None THEN [arena |-> NewRun(arena, id), start |-> NewRunStart(arena)]
    ELSE AppendRun(arena, start, id)

RunWithFits(arena, start, id) ==
    IF start = None THEN NewRunFits(arena) ELSE AppendRunFits(arena, start, id)

AppendEntry(d, i, e, symbols) ==
    LET r == RunWith(d.lists, d.slots[i].attr, e.id)
    IN [d EXCEPT !.symbols = symbols, !.attrs = e.attrs, !.lists = r.arena,
                 !.slots[i].attr = r.start]

AppendAttribute(i, a) ==
    LET e == EntryInsert(dom.attrs, NameSymbol(dom, a[1]), a[2])
        fits == /\ a[1][1] = "ext" => ~TableIsFull(dom.symbols, a[1][2])
                /\ ~TableIsFull(dom.attrs.values, a[2])
                /\ RunWithFits(dom.lists, dom.slots[i].attr, e.id)
    IN /\ Calls
       /\ \/ Panic(fits)
          \/ /\ fits
             /\ dom' = AppendEntry(dom, i, e, NameTable(dom, a[1]))
             /\ UNCHANGED <<ident, state>>

AppendClassSymbol(d, i, s) ==
    LET r == RunWith(d.classes, d.slots[i].cls, s.id)
    IN [d EXCEPT !.symbols = s.table, !.classes = r.arena, !.slots[i].cls = r.start]

AppendClass(i, c) ==
    LET s == TableInsert(dom.symbols, c)
        fits == ~TableIsFull(dom.symbols, c) /\ RunWithFits(dom.classes, dom.slots[i].cls, s.id)
    IN /\ Calls
       /\ \/ Panic(fits)
          \/ /\ fits
             /\ dom' = AppendClassSymbol(dom, i, s)
             /\ UNCHANGED <<ident, state>>

\* An emptied run is not represented: the node forgets it.
Kept(arena, start) == IF start = None \/ arena[start] = Terminator THEN None ELSE start

RemoveIds(arena, start, doomed) ==
    IF start = None THEN arena ELSE RemoveFromRun(arena, start, doomed)

RemoveAttributes(i, name) ==
    LET start == dom.slots[i].attr
        doomed == {id \in ToSet(RunAt(dom.lists, start)) : AttributeAt(dom, id)[1] = name}
        lists == RemoveIds(dom.lists, start, doomed)
    IN /\ Calls
       /\ dom' = [dom EXCEPT !.lists = lists, !.slots[i].attr = Kept(lists, start)]
       /\ UNCHANGED <<ident, state>>

RemoveClass(i, c) ==
    LET start == dom.slots[i].cls
        doomed == {id \in ToSet(RunAt(dom.classes, start)) : dom.symbols.heap[id] = c}
        classes == RemoveIds(dom.classes, start, doomed)
    IN /\ Calls
       /\ dom' = [dom EXCEPT !.classes = classes, !.slots[i].cls = Kept(classes, start)]
       /\ UNCHANGED <<ident, state>>

NodesFit(d) == Len(d.nodes) < IF d.wide THEN MaxNodes ELSE NarrowNodes

\* The new element is one the history has not seen.
AppendChild(i, tag) ==
    /\ Calls
    /\ \/ Panic(NodesFit(dom))
       \/ /\ NodesFit(dom)
          /\ dom' = [dom EXCEPT !.nodes = AddLastChild(@, i, Std(tag), <<>>),
                                !.slots = Append(@, NoRuns)]
          /\ ident' = Append(ident, 100 + edits)
          /\ UNCHANGED state

DropChildren(i) ==
    /\ Calls
    /\ dom' = [dom EXCEPT !.nodes = RemoveChildren(@, i)]
    /\ UNCHANGED <<ident, state>>

-----------------------------------------------------------------------------
(* Repackaging.  What is used keeps its order and gets the next free number. *)
RunsFrom(d, order, slot) == {d.slots[order[k]][slot] : k \in 2..Len(order)} \ {None}
UsedIn(arena, starts) == UNION {ToSet(RunAt(arena, s)) : s \in starts}

\* The live runs, in the order of the old arena, and behind one another.
LiveRuns(arena, starts) ==
    [k \in 1..Cardinality(starts) |-> RunAt(arena, InOrder(starts)[k]) \o <<Terminator>>]

Renumbered(id, used) == IF id = Terminator THEN Terminator ELSE Dense(used, id)

Compacted(arena, starts, used) ==
    LET laid == Joined(LiveRuns(arena, starts))
    IN [k \in 1..Len(laid) |-> Renumbered(laid[k], used)]

\* Where a run starts in the new arena; a run nobody marked is forgotten.
Moved(arena, starts, start) ==
    IF start \notin starts THEN None
    ELSE Len(Joined(SubSeq(LiveRuns(arena, starts), 1, Dense(starts, start) - 1))) + 1

CompactOrder(sorted, used) ==
    LET kept == InOrder({k \in 1..Len(sorted) : sorted[k] \in used})
    IN [k \in 1..Len(kept) |-> Dense(used, sorted[kept[k]])]

CompactTable(t, used) ==
    [heap |-> [k \in 1..Cardinality(used) |-> t.heap[InOrder(used)[k]]],
     sorted |-> CompactOrder(t.sorted, used)]

RenamedEntry(pair, syms, values) ==
    << IF pair[1] < NameBase THEN pair[1] ELSE Dense(syms, pair[1] - NameBase) + NameBase,
       Dense(values, pair[2]) >>

\* Mutant of UsedValues: no value is ever dropped.
EveryValue(a, used) == 1..Len(a.values.heap)

UsedValues(a, used) == {a.entries[id][2] : id \in used}

CompactAttrs(a, used, syms) ==
    LET values == UsedValues(a, used)
    IN [entries |-> [k \in 1..Cardinality(used) |->
                        RenamedEntry(a.entries[InOrder(used)[k]], syms, values)],
        sorted |-> CompactOrder(a.sorted, used),
        values |-> CompactTable(a.values, values)]

ExtSyms(d, order) ==
    {TagSym(d.ext, i, d.nodes[i].tag) : i \in {j \in ToSet(order) : IsExt(d.nodes[j].tag)}}

EntrySyms(a, used) ==
    {a.entries[id][1] - NameBase : id \in {x \in used : a.entries[x][1] >= NameBase}}

\* Class tokens, names of custom elements and names of attributes share a table.
UsedSyms(d, order) ==
    UsedIn(d.classes, RunsFrom(d, order, "cls")) \union ExtSyms(d, order)
    \union EntrySyms(d.attrs, UsedIn(d.lists, RunsFrom(d, order, "attr")))

NewIndex(order, i) == IF i \in ToSet(order) THEN IndexIn(order, i) ELSE NoNode

\* The tag of the k-th node, encoded into a vocabulary of its own.
ReEncoded(d, order, syms) ==
    LET upto[k \in 0..Len(order)] ==
            LET byte == d.nodes[order[k]].tag
                acc == upto[k - 1]
                e == EncodeTag(acc.ext, Dense(syms, TagSym(d.ext, order[k], byte)), k)
            IN IF k = 0 THEN [ext |-> NoExtTags, bytes |-> <<>>]
               ELSE IF IsExt(byte) THEN [ext |-> e.ext, bytes |-> Append(acc.bytes, e.byte)]
               ELSE [ext |-> acc.ext, bytes |-> Append(acc.bytes, byte)]
    IN upto[Len(order)]

MovedNode(n, order, byte) ==
    [n EXCEPT !.tag = byte, !.parent = NewIndex(order, @), !.prev = NewIndex(order, @),
              !.next = NewIndex(order, @), !.first = NewIndex(order, @),
              !.last = NewIndex(order, @)]

MovedSlots(d, order, slot) ==
    [attr |-> Moved(d.lists, RunsFrom(d, order, "attr"), slot.attr),
     cls |-> Moved(d.classes, RunsFrom(d, order, "cls"), slot.cls)]

RebuiltWith(d, order, syms, entries, tags) ==
    [nodes |-> [k \in 1..Len(order) |-> MovedNode(d.nodes[order[k]], order, tags.bytes[k])],
     slots |-> [k \in 1..Len(order) |-> MovedSlots(d, order, d.slots[order[k]])],
     symbols |-> CompactTable(d.symbols, syms),
     attrs |-> CompactAttrs(d.attrs, entries, syms),
     lists |-> Compacted(d.lists, RunsFrom(d, order, "attr"), entries),
     classes |-> Compacted(d.classes, RunsFrom(d, order, "cls"), syms),
     ext |-> tags.ext, wide |-> TRUE]

Order(d) == <<Root>> \o Descendants(d.nodes, Root)

Rebuilt(d, order) ==
    RebuiltWith(d, order, UsedSyms(d, order), UsedIn(d.lists, RunsFrom(d, order, "attr")),
                ReEncoded(d, order, UsedSyms(d, order)))

Who(indexes) == [k \in 1..Len(indexes) |-> ident[indexes[k]]]

Repackage ==
    /\ Calls
    /\ dom' = Rebuilt(dom, Order(dom))
    /\ ident' = Who(Order(dom))
    /\ UNCHANGED state

\* An entry stores a small document with short links; loading keeps them.
Packed(d) == [d EXCEPT !.wide = @ /\ Len(d.nodes) > Margin]

StoreAndLoad ==
    /\ Calls
    /\ dom' = Packed(Rebuilt(dom, Order(dom)))
    /\ ident' = Who(Order(dom))
    /\ UNCHANGED state

Init ==
    /\ dom \in {Built(b) : b \in {x \in Docs : ~x.overflow}}
    /\ ident = [i \in 1..Len(dom.nodes) |-> i]
    /\ edits = 0 /\ state = "open"

Next ==
    \/ \E i \in Elements :
          \/ \E a \in Attributes : AppendAttribute(i, a) \/ RemoveAttributes(i, a[1])
          \/ \E c \in ClassNames : AppendClass(i, c) \/ RemoveClass(i, c)
          \/ \E tag \in ChildNames : AppendChild(i, tag)
          \/ DropChildren(i)
    \/ Repackage
    \/ StoreAndLoad

Spec == Init /\ [][Next]_vars

-----------------------------------------------------------------------------
(* Properties                                                                *)
ContentOf(i) ==
    [name |-> NodeName(dom, i), attrs |-> AttributesOf(dom, i), classes |-> ClassesOf(dom, i),
     children |-> Who(Children(dom.nodes, i))]

Content == [who \in {ident[i] : i \in Live(dom.nodes)} |-> ContentOf(IndexIn(ident, who))]

StandardNames == {Std(tag) : tag \in ChildNames}
Abstract == INSTANCE DocContent WITH content <- Content, ChildNames <- StandardNames

\* Every edit changes what it was asked to change of the element it was asked
\* for, and nothing else; a repackage and a round trip change nothing at all.
ImplementsContent == Abstract!Spec

\* Binary search finds each string and each pair at the id it has: what a
\* selector or a further edit relies on to recognise a name it has seen.
Findable ==
    /\ \A t \in {dom.symbols, dom.attrs.values} :
          \A id \in 1..Len(t.heap) : Find(t, t.heap[id]) = id
    /\ \A id \in 1..Len(dom.attrs.entries) : FindEntry(dom.attrs, dom.attrs.entries[id]) = id

\* After a repackage no name, value, pair, run or slot is left that no node
\* uses, and no name shares the overflow byte while the vocabulary has room.
Compact(d) ==
    LET entries == UsedIn(d.lists, RunsFrom(d, Order(d), "attr")) IN
    /\ Order(d) = [i \in 1..Len(d.nodes) |-> i]
    /\ UsedSyms(d, Order(d)) = 1..Len(d.symbols.heap)
    /\ entries = 1..Len(d.attrs.entries)
    /\ {d.attrs.entries[id][2] : id \in entries} = 1..Len(d.attrs.values.heap)
    /\ d.lists = Compacted(d.lists, RunsFrom(d, Order(d), "attr"), entries)
    /\ d.classes = Compacted(d.classes, RunsFrom(d, Order(d), "cls"), UsedSyms(d, Order(d)))
    /\ d.ext.overflow # <<>> => Len(d.ext.vocab) = VocabCap

RebuildCompact == [][Repackage => Compact(dom')]_vars
=============================================================================
