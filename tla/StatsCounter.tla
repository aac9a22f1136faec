---------------------------- MODULE StatsCounter ----------------------------
(* The counting pass of `stats` (htmlarc-convert, stats/counter.rs): the     *)
(* same tokenizer's events, tallied without a tree, to tell what capacities  *)
(* documents need.  It has a tokenizer of its own, without the emitter that  *)
(* knows raw text and foreign content; what it counts is compared where the  *)
(* two read a source alike, so it takes each event with the driver.          *)
EXTENDS TreeBuilder

CONSTANTS
  Searched,       (* attribute names whose values are symbols: id, lang, rel, type, role, name *)
  Reserved        (* names spelled as the system's tags: text, comment, doctype, extended, ... *)

\* HtmlTag has variants of that spelling, but they are no tags of a document.
ASSUME ReservedAssumption == Reserved \subseteq ({"ext"} \X Strings)

VARIABLE counter

NewCounter ==
    [nodes |-> 0, depth |-> 0, max_depth |-> 0, list_entries |-> 0, symbols |-> {},
     ext_tags |-> {}, pairs |-> {}, cur_attr |-> Nothing, cur_tag_void |-> FALSE]

Spelling(name) == <<"ext", name[2]>>
NamedBy(s) == <<"ext", s>>

\* `class` is a list of symbols; any other attribute is one pair.
FlushPending(c, value) ==
    LET name == c.cur_attr
        done == [c EXCEPT !.cur_attr = Nothing]
    IN IF name = Nothing THEN c
       ELSE IF name[1] = "class"
       THEN [done EXCEPT !.symbols = @ \union {NamedBy(s) : s \in ToSet(value)},
                         !.list_entries = @ + Len(value)]
       ELSE [done EXCEPT !.list_entries = @ + 1, !.pairs = @ \union {<<name, value>>},
                         !.symbols = @ \union (IF name[1] = "std" THEN {} ELSE {Spelling(name)})
                                       \union (IF name \in Searched THEN {NamedBy(value)} ELSE {})]

FlushBare(c) == FlushPending(c, IF c.cur_attr[1] = "class" THEN <<>> ELSE 0)

\* HtmlTag::try_from, which knows the reserved spellings too; the parser goes by
\* from_tag_name, which does not, and stores them as custom names.
IsTag(name) == name[1] = "std" \/ name \in Reserved

CountTag(c, name) ==
    [FlushBare(c) EXCEPT !.nodes = @ + 1, !.cur_tag_void = IsTag(name) /\ Kind(name) \in Void,
        !.ext_tags = @ \union (IF IsTag(name) THEN {} ELSE {name}),
        !.symbols = @ \union (IF IsTag(name) THEN {} ELSE {Spelling(name)})]

\* Mutant of CountName: an attribute without a value is overwritten.
CountNameOver(c, name) == [c EXCEPT !.cur_attr = name]

CountName(c, name) == [FlushBare(c) EXCEPT !.cur_attr = name]

\* The nesting is of the tags as they stand, none implied and none matched.
CountClose(c, slash) ==
    LET f == FlushBare(c)
        deeper == f.depth + 1
    IN IF slash \/ f.cur_tag_void THEN f
       ELSE [f EXCEPT !.depth = deeper, !.max_depth = IF @ < deeper THEN deeper ELSE @]

CountEnd(c) ==
    LET f == FlushBare(c) IN [f EXCEPT !.depth = IF @ = 0 THEN 0 ELSE @ - 1]

Tallied(c, event) ==
    CASE event.kind = "OpenStartTag" -> CountTag(c, event.name)
      [] event.kind = "AttributeName" -> CountName(c, event.name)
      [] event.kind = "AttributeValue" -> FlushPending(c, event.value)
      [] event.kind = "CloseStartTag" -> CountClose(c, event.slash)
      [] event.kind = "EndTag" -> CountEnd(c)
      [] OTHER -> [c EXCEPT !.nodes = @ + 1]

CountedInit == Init /\ counter = NewCounter

CountedNext ==
    /\ Next
    /\ counter' = IF events = <<>> THEN counter ELSE Tallied(counter, Head(events))

CountedSpec == CountedInit /\ [][CountedNext]_<<vars, counter>>

-----------------------------------------------------------------------------
\* Where the counter's tokenizer reads as the parser's does.
ReadAlike ==
    \A k \in 1..Len(src) :
        src[k].kind # "cdata" /\ (src[k].kind = "start" => Kind(src[k].name) \notin RawText)

Tokened(kind) == {k \in 1..Len(src) : src[k].kind = kind}
EmptyClasses(rows) == {i \in 1..Len(rows) : 0 \in ToSet(rows[i].classes)}
Listed(rows) == FoldLeft(LAMBDA n, row : n + Len(row.attrs) + Len(row.classes), 0, rows)

\* What `stats` counts of a document is what the parser stores of it: as many
\* nodes, the same custom elements, and no pair, symbol or list entry less;
\* apart from a doctype's attribute, an empty class and the names of custom
\* end tags, which the stores hold and the counter leaves out, and from start
\* tags of a reserved spelling, which are custom elements to the parser alone.
CountsCover ==
    result = "accepted" /\ ReadAlike =>
        \E rows \in {Document(builder)} :
            /\ counter.nodes = Len(rows) - 1
            /\ counter.ext_tags =
                  {n \in {rows[i].name : i \in 1..Len(rows)} : n[1] = "ext"} \ Reserved
            /\ counter.list_entries + Cardinality(Tokened("doctype"))
                  + Cardinality(EmptyClasses(rows)) >= Listed(rows)
            /\ {AttributeOf(builder, p) : p \in ToSet(builder.entries)}
                  \subseteq counter.pairs \union {<<Std(0), 0>>}
            /\ {NamedBy(s) : s \in ToSet(builder.symbols)} \subseteq
                  counter.symbols \union {NamedBy(0)} \union {src[k].name : k \in Tokened("end")}
                     \union ({src[k].name : k \in Tokened("start")} \intersect Reserved)
=============================================================================
