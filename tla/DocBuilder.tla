----------------------------- MODULE DocBuilder -----------------------------
(* DomBuilderCursor (htmlarc-dom, parser/builder.rs) under DomStack          *)
(* (parser/dom.rs): the stack of open elements, the arena with a slot of two *)
(* runs for each node, and the stores as they are while a document is        *)
(* parsed.  A document over a capacity is poisoned and built on all the same. *)
EXTENDS NodeTree, DocStores

CONSTANTS
    MaxDepth,   \* nesting the builder accepts (8192)
    MaxNodes    \* nodes it accepts (0xFFFFFF)

ASSUME DocBuilderAssumption == MaxDepth \in Nat \ {0} /\ MaxNodes \in Nat \ {0}

-----------------------------------------------------------------------------
(* What the parser and the edits ask of a tag (html/html_tag.rs and the      *)
(* raw-text elements of parser/tokenizer.rs).  Any name that is not in these *)
(* tables behaves as `div` does; a custom name is "extended".                *)
Void == {"area", "base", "br", "col", "embed", "hr", "img", "input", "link",
         "meta", "param", "source", "track", "wbr"}

Foreign == {"svg", "math"}

RawText == {"title", "textarea", "script", "style"}

\* Whom the end tag of an enclosing element may close implicitly.
ParentsOf ==
    [option |-> {"select", "optgroup", "datalist"}, li |-> {"ol", "ul", "menu"},
     dd |-> {"dl"}, rt |-> {"ruby"}, rp |-> {"ruby"}, optgroup |-> {"select"},
     tbody |-> {"table"}, tfoot |-> {"table"}, tr |-> {"table", "thead", "tbody"},
     td |-> {"tr"}, th |-> {"tr"}]

\* Whose start tag ends an open element implicitly.
NextOf ==
    [li |-> {"li"}, dt |-> {"dt", "dd"}, dd |-> {"dt", "dd"}, rt |-> {"rt", "rp"},
     rp |-> {"rt", "rp"}, optgroup |-> {"optgroup", "hr"}, option |-> {"option", "hr"},
     colgroup |-> {"colgroup"}, thead |-> {"tbody", "thead"}, tbody |-> {"tbody", "tfoot"},
     tr |-> {"tr"}, td |-> {"td", "th"}, th |-> {"td", "th"}]

AutoCloseWhenParent(tag, parent) == tag \in DOMAIN ParentsOf /\ parent \in ParentsOf[tag]

AutoCloseWhenNext(tag, next) == tag \in DOMAIN NextOf /\ next \in NextOf[tag]

Std(tag) == <<"std", tag>>
Kind(name) == IF name[1] = "std" THEN name[2] ELSE "extended"

-----------------------------------------------------------------------------
(* The builder: two stacks, the arena with a slot of runs a node, the stores *)
NoRuns == [attr |-> None, cls |-> None]

NewBuilder ==
    [tags |-> <<>>, indexes |-> <<>>, nodes |-> <<Node(Std("root"), <<>>, 0, 0, 0)>>,
     slots |-> <<NoRuns>>, run |-> None, symbols |-> <<>>, values |-> <<>>,
     entries |-> <<>>, lists |-> <<>>, classes |-> <<>>, ext |-> NoExtTags,
     overflow |-> FALSE]

Index(b) == IF b.indexes = <<>> THEN Root ELSE Last(b.indexes)
LastTag(b) == IF b.tags = <<>> THEN Std("root") ELSE Last(b.tags)
Poisoned(b) == [b EXCEPT !.overflow = TRUE]

\* A custom name is interned before it is looked for on the stack.
Named(b, name) ==
    IF name[1] = "std" THEN b
    ELSE LET i == Intern(b.symbols, name[2])
         IN [b EXCEPT !.symbols = i.heap, !.overflow = @ \/ i.full]

MakeTag(b, name) ==
    IF name[1] = "std" THEN name ELSE <<"sym", Intern(b.symbols, name[2]).id>>

PopTag(b) ==
    IF b.tags = <<>> THEN [b EXCEPT !.run = None]
    ELSE [b EXCEPT !.tags = Front(@), !.indexes = Front(@), !.run = None]

Encoded(b, tag) ==
    IF tag[1] = "std" THEN [ext |-> b.ext, byte |-> tag]
    ELSE EncodeTag(b.ext, tag[2], Len(b.nodes) + 1)

\* Mutant of PushOpen: the tag is pushed before the node is refused.
PushOpenEarly(b, tag) ==
    IF Len(b.nodes) >= MaxNodes THEN Poisoned(b)
    ELSE IF Len(b.tags) >= MaxDepth THEN [Poisoned(b) EXCEPT !.tags = Append(@, tag)]
    ELSE [b EXCEPT !.tags = Append(@, tag), !.indexes = Append(@, Len(b.nodes) + 1),
                   !.nodes = AddLastChild(@, Index(b), Encoded(b, tag).byte, <<>>),
                   !.slots = Append(@, NoRuns), !.ext = Encoded(b, tag).ext,
                   !.run = None]

\* A tag that does not fit leaves both stacks alone.
PushOpen(b, tag) ==
    IF Len(b.tags) >= MaxDepth \/ Len(b.nodes) >= MaxNodes THEN Poisoned(b)
    ELSE [b EXCEPT !.tags = Append(@, tag), !.indexes = Append(@, Len(b.nodes) + 1),
                   !.nodes = AddLastChild(@, Index(b), Encoded(b, tag).byte, <<>>),
                   !.slots = Append(@, NoRuns), !.ext = Encoded(b, tag).ext,
                   !.run = None]

PushTag(b, name) ==
    LET tag == MakeTag(b, name)
        c == Named(b, name)
    IN PushOpen(IF AutoCloseWhenNext(Kind(LastTag(c)), Kind(tag)) THEN PopTag(c) ELSE c, tag)

\* Pops up to and with the innermost `tag`.
PopThrough(b, tag) ==
    LET at == CHOOSE j \in 1..Len(b.tags) :
                  b.tags[j] = tag /\ \A k \in (j + 1)..Len(b.tags) : b.tags[k] # tag
    IN [b EXCEPT !.tags = SubSeq(@, 1, at - 1), !.indexes = SubSeq(@, 1, at - 1),
                 !.run = None]

CloseOpen(b, tag) ==
    IF LastTag(b) = tag THEN PopTag(b)
    ELSE IF tag \notin ToSet(b.tags) THEN b
    ELSE IF /\ LastTag(PopTag(b)) = tag
            /\ AutoCloseWhenParent(Kind(LastTag(b)), Kind(tag))
    THEN PopTag(b)
    ELSE PopThrough(PopTag(b), tag)

PopNamed(b, name) ==
    IF name[1] = "std" /\ name[2] \in Void THEN b
    ELSE CloseOpen(Named(b, name), MakeTag(b, name))

AddText(b, tag, text) ==
    IF Len(b.nodes) >= MaxNodes THEN Poisoned(b)
    ELSE [b EXCEPT !.nodes = AddLastChild(@, Index(b), Std(tag), text),
                   !.slots = Append(@, NoRuns), !.run = None]

\* A `class` attribute starts a run of its own; a second one replaces it.
AddClass(acc, s) ==
    LET b == acc.b
        i == Intern(b.symbols, s)
        x == ExtendLast(b.classes, acc.start, i.id)
    IN IF ~acc.open THEN acc
       ELSE [acc EXCEPT !.b = [b EXCEPT !.symbols = i.heap, !.classes = x.arena,
                                        !.overflow = @ \/ i.full \/ x.full],
                        !.open = ~x.full]

AddClasses(b, names) ==
    LET first == IF names = <<>> THEN 0 ELSE Head(names)
        i == Intern(b.symbols, first)
        start == IF NewRunFits(b.classes) THEN NewRunStart(b.classes) ELSE Poison
        c == [b EXCEPT !.symbols = i.heap, !.overflow = @ \/ i.full,
                       !.slots[Index(b)].cls = start]
        fresh == [b |-> [c EXCEPT !.classes = NewRun(@, i.id)], start |-> start, open |-> TRUE]
        added[k \in 1..(Len(names) + 1)] == IF k = 1 THEN fresh ELSE AddClass(added[k - 1], names[k])
    IN IF ~NewRunFits(b.classes) THEN Poisoned(c)
       ELSE IF names = <<>> THEN fresh.b ELSE added[Len(names)].b

NameSym(b, name) ==
    IF name[1] = "std" THEN name[2] ELSE Intern(b.symbols, name[2]).id + NameBase

EntryId(b, pair) ==
    IF pair \in ToSet(b.entries) THEN IndexIn(b.entries, pair)
    ELSE IF Len(b.entries) >= LocalCap THEN Poison ELSE Len(b.entries) + 1

\* The value is interned, then the pair of name and value.
Entered(b, name, value) ==
    LET v == Intern(b.values, value)
        pair == <<NameSym(b, name), v.id>>
        c == [Named(b, name) EXCEPT !.values = v.heap]
    IN IF v.full THEN [b |-> Poisoned(c), id |-> Poison]
       ELSE IF pair \in ToSet(b.entries) THEN [b |-> c, id |-> EntryId(b, pair)]
       ELSE IF Len(b.entries) >= LocalCap THEN [b |-> Poisoned(c), id |-> Poison]
       ELSE [b |-> [c EXCEPT !.entries = Append(@, pair)], id |-> EntryId(b, pair)]

ListAttribute(b, id) ==
    IF b.run # None
    THEN LET x == ExtendLast(b.lists, b.run, id)
         IN [b EXCEPT !.lists = x.arena, !.overflow = @ \/ x.full]
    ELSE IF NewRunFits(b.lists)
    THEN [b EXCEPT !.lists = NewRun(@, id), !.run = NewRunStart(b.lists),
                   !.slots[Index(b)].attr = NewRunStart(b.lists)]
    ELSE [Poisoned(b) EXCEPT !.run = Poison, !.slots[Index(b)].attr = Poison]

AddAttribute(b, name, value) ==
    IF name[1] = "class" THEN AddClasses(b, value)
    ELSE LET e == Entered(b, name, value) IN ListAttribute(e.b, e.id)

-----------------------------------------------------------------------------
\* A builder, or a document, in which nothing points nowhere.
Tags(nodes) == [i \in 1..Len(nodes) |-> nodes[i].tag]

Byte == ({"std"} \X STRING) \union ({"ext", "over"} \X Nat)

IsNodes(nodes) ==
    /\ nodes \in Seq([tag : Byte, text : Seq(Nat), parent : 0..Len(nodes), prev : 0..Len(nodes),
                      next : 0..Len(nodes), first : 0..Len(nodes), last : 0..Len(nodes)])
    /\ nodes # <<>>

IsSlots(slots, nodes, lists, classes) ==
    slots \in Seq([attr : 0..lists, cls : 0..classes]) /\ Len(slots) = nodes

IsWhole(b) ==
    /\ IsHeap(b.symbols) /\ IsHeap(b.values)
    /\ IsEntries(b.entries, Len(b.symbols), Len(b.values))
    /\ IsRuns(b.lists, Len(b.entries)) /\ IsRuns(b.classes, Len(b.symbols))
    /\ IsNodes(b.nodes)
    /\ IsSlots(b.slots, Len(b.nodes), Len(b.lists), Len(b.classes))
    /\ IsExtTags(b.ext, Tags(b.nodes), Len(b.symbols))
=============================================================================
