---------------------------- MODULE TreeBuilder ----------------------------
(* How a document is parsed (htmlarc-dom, parser/): html5gum turns the       *)
(* source into events, the driver of tokenizer.rs turns events into calls of *)
(* DomStack, and DomBuilderCursor builds the arena and the stores.  The      *)
(* tokenizer keeps text back: text before a start tag arrives after the tag  *)
(* was opened, so the driver defers the tag.  A document over a capacity is  *)
(* poisoned and read to its end all the same.                                *)
EXTENDS DocBuilder

CONSTANTS
    Tokens,     \* the source tokens to choose from
    MaxTokens   \* tokens of a source

ASSUME TreeBuilderAssumption == MaxTokens \in Nat

(* A token is a start tag (name, attrs, slash), an end tag, text, a comment, *)
(* CDATA or a doctype; an attribute is <<name, value>>, or <<name>> if it    *)
(* has none; a class attribute has a list of names; "junk" is any name that  *)
(* does not begin with a letter or a digit.                                  *)
TagNames == ({"std"} \X STRING) \union ({"ext"} \X Strings)
ClassName == <<"class", 0>>
OtherNames == ({"std", "ext"} \X Strings) \union {<<"junk", 0>>}

Attributes ==
    {<<name>> : name \in OtherNames \union {ClassName}}
    \union (OtherNames \X Strings) \union ({ClassName} \X Seq(Strings))

IsToken(tok) ==
    /\ tok.kind \in {"start", "end", "text", "cdata", "comment", "doctype"}
    /\ tok.kind \in {"start", "end"} => tok.name \in TagNames
    /\ tok.kind = "start" => tok.attrs \in Seq(Attributes) /\ tok.slash \in BOOLEAN

ASSUME TokensAssumption == \A tok \in Tokens : IsToken(tok)

VARIABLES
    src,        \* the source so far, a history
    held,       \* the tokens of the text html5gum has not sent yet
    raw,        \* the raw-text element it is in, or "none"
    foreign,    \* svg and math elements open, by the emitter's count
    events,     \* sent and not handled yet
    driver,     \* start: the deferred tag; attr: the pending name; current; depth
    builder,
    result      \* of HtmlDoc::parse: "none", "ending", "accepted" or "refused"

tokenizer == <<src, held, raw, foreign>>
vars == <<tokenizer, events, driver, builder, result>>

Nothing == <<"none", "none">>      \* no start tag, no attribute, no element

-----------------------------------------------------------------------------
(* html5gum and its emitter.                                                 *)
Text(tok) ==
    IF raw # "none" THEN ~(tok.kind = "end" /\ tok.name = Std(raw))
    ELSE tok.kind = "text" \/ (tok.kind = "cdata" /\ foreign > 0)

Flushed == IF held = <<>> THEN <<>> ELSE <<[kind |-> "String", text |-> held]>>

AttributeEvents(a) ==
    <<[kind |-> "AttributeName", name |-> a[1]]>>
    \o IF Len(a) = 1 THEN <<>> ELSE <<[kind |-> "AttributeValue", value |-> a[2]]>>

Emitted(tok) ==
    CASE tok.kind = "start" ->
           <<[kind |-> "OpenStartTag", name |-> tok.name]>> \o Flushed
           \o Joined([k \in 1..Len(tok.attrs) |-> AttributeEvents(tok.attrs[k])])
           \o <<[kind |-> "CloseStartTag", slash |-> tok.slash]>>
      [] tok.kind = "end" -> Flushed \o <<[kind |-> "EndTag", name |-> tok.name]>>
      [] tok.kind = "doctype" -> Flushed \o <<[kind |-> "Doctype"]>>
      [] OTHER -> Flushed \o <<[kind |-> "Comment", text |-> <<Len(src) + 1>>]>>

\* The emitter counts foreign roots and picks the tokenizer's next state.
ForeignAfter(tok) ==
    IF ~(tok.kind \in {"start", "end"} /\ Kind(tok.name) \in Foreign) THEN foreign
    ELSE IF tok.kind = "end" THEN IF foreign = 0 THEN 0 ELSE foreign - 1
    ELSE IF tok.slash THEN foreign ELSE foreign + 1

RawAfter(tok) ==
    IF /\ tok.kind = "start" /\ Kind(tok.name) \in RawText
       /\ ForeignAfter(tok) = 0
    THEN Kind(tok.name) ELSE "none"

Read(tok) ==
    /\ events = <<>> /\ result = "none" /\ Len(src) < MaxTokens
    /\ src' = Append(src, tok)
    /\ IF Text(tok)
       THEN held' = Append(held, Len(src) + 1) /\ UNCHANGED <<raw, foreign, events>>
       ELSE /\ held' = <<>>
            /\ events' = Emitted(tok)
            /\ foreign' = ForeignAfter(tok)
            /\ raw' = RawAfter(tok)
    /\ UNCHANGED <<driver, builder, result>>

-----------------------------------------------------------------------------
(* The driver                                                                *)
Committed(d, b) == IF d.start = Nothing THEN b ELSE PushTag(b, d.start)
CurrentAfter(d) == IF d.start = Nothing THEN d.current ELSE <<"std", Kind(d.start)>>
FlushAttr(d, b, value) == IF d.attr = Nothing THEN b ELSE AddAttribute(b, d.attr, value)
BareValue(d) == IF d.attr[1] = "class" THEN <<>> ELSE 0

Handle(kind) ==
    /\ events # <<>> /\ Head(events).kind = kind
    /\ events' = Tail(events)
    /\ UNCHANGED <<tokenizer, result>>

OpenStartTag ==
    /\ Handle("OpenStartTag")
    /\ driver' = [driver EXCEPT !.start = Head(events).name]
    /\ UNCHANGED builder

\* A name that does not begin with a letter or a digit is dropped.
AttributeName ==
    /\ Handle("AttributeName")
    /\ builder' = FlushAttr(driver, Committed(driver, builder), BareValue(driver))
    /\ driver' = [driver EXCEPT !.start = Nothing, !.current = CurrentAfter(driver),
                                !.attr = IF Head(events).name[1] = "junk" THEN Nothing
                                         ELSE Head(events).name]

AttributeValue ==
    /\ Handle("AttributeValue")
    /\ builder' = FlushAttr(driver, builder, Head(events).value)
    /\ driver' = [driver EXCEPT !.attr = Nothing]

(* A void element, and a foreign one with a slash, is closed at once: the    *)
(* top of the stack is popped, whatever it is.                               *)
CloseStartTag ==
    LET tag == CurrentAfter(driver)[2]
        slash == Head(events).slash
        b == FlushAttr(driver, Committed(driver, builder), BareValue(driver))
        childless == tag \in Void \/ (slash /\ (tag \in Foreign \/ driver.depth > 0))
    IN /\ Handle("CloseStartTag")
       /\ builder' = IF childless THEN PopTag(b) ELSE b
       /\ driver' = [driver EXCEPT !.start = Nothing, !.attr = Nothing, !.current = Nothing,
                                   !.depth = IF ~childless /\ tag \in Foreign THEN @ + 1 ELSE @]

EndTag ==
    LET name == Head(events).name
        left == Kind(name) \in Foreign /\ driver.depth > 0
    IN /\ Handle("EndTag")
       /\ builder' = PopNamed(builder, name)
       /\ driver' = [driver EXCEPT !.depth = IF left THEN @ - 1 ELSE @]

\* Mutant of String: the deferred tag is pushed before the text.
StringCommits ==
    /\ Handle("String")
    /\ builder' = AddText(Committed(driver, builder), "text", Head(events).text)
    /\ driver' = [driver EXCEPT !.start = Nothing, !.current = CurrentAfter(driver)]

\* A deferred tag stays deferred: the text was before it.
String ==
    /\ Handle("String")
    /\ builder' = AddText(builder, "text", Head(events).text)
    /\ UNCHANGED driver

Comment ==
    /\ Handle("Comment")
    /\ builder' = AddText(builder, "comment", Head(events).text)
    /\ UNCHANGED driver

Doctype ==
    /\ Handle("Doctype")
    /\ builder' = PopTag(AddAttribute(PushTag(builder, Std("doctype")), <<"std", 0>>, 0))
    /\ UNCHANGED driver

\* The end of the source: what was kept back, then the verdict.
EndOfSource ==
    /\ events = <<>> /\ result = "none"
    /\ events' = Flushed
    /\ held' = <<>>
    /\ result' = "ending"
    /\ UNCHANGED <<src, raw, foreign, driver, builder>>

Finish ==
    /\ events = <<>> /\ result = "ending"
    /\ result' = IF builder.overflow THEN "refused" ELSE "accepted"
    /\ UNCHANGED <<tokenizer, events, driver, builder>>

Init ==
    /\ src = <<>> /\ held = <<>> /\ raw = "none" /\ foreign = 0
    /\ events = <<>> /\ builder = NewBuilder /\ result = "none"
    /\ driver = [start |-> Nothing, attr |-> Nothing, current |-> Nothing, depth |-> 0]

Next ==
    \/ \E tok \in Tokens : Read(tok)
    \/ OpenStartTag \/ AttributeName \/ AttributeValue \/ CloseStartTag
    \/ EndTag \/ String \/ Comment \/ Doctype
    \/ EndOfSource \/ Finish

Spec == Init /\ [][Next]_vars

-----------------------------------------------------------------------------
(* What parsing promises: an accepted document is the tree its source        *)
(* describes, read token by token with names instead of ids, no deferral, no *)
(* stores and no capacities.                                                 *)

(* The arena and the stores read back: one row a node, in index order.       *)
SymbolName(b, id) == <<"ext", b.symbols[id]>>

NodeName(b, i) ==
    LET byte == b.nodes[i].tag
    IN IF IsExt(byte) THEN SymbolName(b, TagSym(b.ext, i, byte)) ELSE byte

AttributeOf(b, pair) ==
    << IF pair[1] < NameBase THEN Std(pair[1]) ELSE SymbolName(b, pair[1] - NameBase),
       b.values[pair[2]] >>

RowOf(b, i) ==
    [parent |-> b.nodes[i].parent, name |-> NodeName(b, i), text |-> b.nodes[i].text,
     attrs |-> [k \in 1..Len(RunAt(b.lists, b.slots[i].attr)) |->
                    AttributeOf(b, b.entries[RunAt(b.lists, b.slots[i].attr)[k]])],
     classes |-> [k \in 1..Len(RunAt(b.classes, b.slots[i].cls)) |->
                      b.symbols[RunAt(b.classes, b.slots[i].cls)[k]]]]

Document(b) == [i \in 1..Len(b.nodes) |-> RowOf(b, i)]

-----------------------------------------------------------------------------
(* The reference.  `open` is the path of open elements, `joining` says that  *)
(* the last row is text the next text belongs to.                            *)
Row(parent, name, text) ==
    [parent |-> parent, name |-> name, text |-> text, attrs |-> <<>>, classes |-> <<>>]

NewDocument ==
    [rows |-> <<Row(0, Std("root"), <<>>)>>, open |-> <<1>>, raw |-> "none",
     foreign |-> 0, joining |-> FALSE]

OpenName(doc) == doc.rows[Last(doc.open)].name
NameAt(doc, j) == doc.rows[doc.open[j]].name
Once(s) == FoldLeft(LAMBDA so, x : IF x \in ToSet(so) THEN so ELSE Append(so, x), <<>>, s)

WithRow(doc, row) == [doc EXCEPT !.rows = Append(@, row), !.joining = FALSE]

IsText(doc, tok) ==
    IF doc.raw # "none" THEN ~(tok.kind = "end" /\ tok.name = Std(doc.raw))
    ELSE tok.kind = "text" \/ (tok.kind = "cdata" /\ doc.foreign > 0)

TextIn(doc, k) ==
    IF doc.joining THEN [doc EXCEPT !.rows[Len(doc.rows)].text = Append(@, k)]
    ELSE [WithRow(doc, Row(Last(doc.open), Std("text"), <<k>>)) EXCEPT !.joining = TRUE]

Plain(attrs) == SelectSeq(attrs, LAMBDA a : a[1][1] \notin {"class", "junk"})
Classes(attrs) == SelectSeq(attrs, LAMBDA a : a[1][1] = "class")
ValueOf(a) == IF Len(a) = 1 THEN 0 ELSE a[2]
NamesOf(a) == IF Len(a) = 1 \/ a[2] = <<>> THEN <<0>> ELSE a[2]

ElementRow(doc, tok) ==
    [Row(Last(doc.open), tok.name, <<>>) EXCEPT
        !.attrs = Once([k \in 1..Len(Plain(tok.attrs)) |->
                           <<Plain(tok.attrs)[k][1], ValueOf(Plain(tok.attrs)[k])>>]),
        !.classes = IF Classes(tok.attrs) = <<>> THEN <<>>
                    ELSE Once(NamesOf(Last(Classes(tok.attrs))))]

EndImplied(doc, tok) ==
    IF AutoCloseWhenNext(Kind(OpenName(doc)), Kind(tok.name))
    THEN [doc EXCEPT !.open = Front(@)] ELSE doc

IsChildless(doc, tok) ==
    \/ Kind(tok.name) \in Void
    \/ tok.slash /\ (Kind(tok.name) \in Foreign \/ doc.foreign > 0)

Opened(doc, tok) ==
    LET so == WithRow(doc, ElementRow(doc, tok)) IN
    IF IsChildless(doc, tok) THEN so
    ELSE [so EXCEPT !.open = Append(@, Len(so.rows)),
                    !.foreign = IF Kind(tok.name) \in Foreign THEN @ + 1 ELSE @,
                    !.raw = IF Kind(tok.name) \in RawText /\ doc.foreign = 0
                            THEN Kind(tok.name) ELSE "none"]

(* An end tag closes the innermost open element of its name, with all that   *)
(* is open inside; if only a child whose end tag may be omitted is open, it  *)
(* closes that child alone; with no such element it is ignored.              *)
Matching(doc, tok) == {j \in 2..Len(doc.open) : NameAt(doc, j) = tok.name}
Innermost(doc, tok) == CHOOSE j \in Matching(doc, tok) : \A k \in Matching(doc, tok) : k <= j

Closed(doc, tok) ==
    IF Kind(tok.name) \in Void \/ Matching(doc, tok) = {} THEN doc
    ELSE IF /\ Innermost(doc, tok) = Len(doc.open) - 1
            /\ AutoCloseWhenParent(Kind(OpenName(doc)), Kind(tok.name))
    THEN [doc EXCEPT !.open = Front(@)]
    ELSE [doc EXCEPT !.open = SubSeq(@, 1, Innermost(doc, tok) - 1)]

EndIn(doc, tok) ==
    [Closed(doc, tok) EXCEPT
        !.raw = "none", !.joining = FALSE,
        !.foreign = IF Kind(tok.name) \in Foreign /\ @ > 0 THEN @ - 1 ELSE @]

Grown(doc, k) ==
    LET tok == src[k] IN
    IF IsText(doc, tok) THEN TextIn(doc, k)
    ELSE CASE tok.kind = "start" -> Opened(EndImplied(doc, tok), tok)
           [] tok.kind = "end" -> EndIn(doc, tok)
           [] tok.kind = "doctype" ->
                WithRow(doc, [Row(Last(doc.open), Std("doctype"), <<>>) EXCEPT
                                 !.attrs = <<<<Std(0), 0>>>>])
           [] OTHER -> WithRow(doc, Row(Last(doc.open), Std("comment"), <<k>>))

Described == FoldLeft(Grown, NewDocument, [k \in 1..Len(src) |-> k])

\* An accepted document reads back as what its source describes: no text
\* moved by the deferred tags, no name, class or attribute changed by the
\* stores, nothing lost to a capacity.
AcceptedIsWhole == result = "accepted" => Document(builder) = Described.rows

\* The two stacks are one path of the tree, from the root down its last
\* children, with the names its elements have; whatever was refused, the
\* arena stays in document order, so that every subtree is a range.
OpenPath ==
    LET t == builder.nodes IN
    /\ Len(builder.tags) = Len(builder.indexes)
    /\ \A j \in 1..Len(builder.indexes) :
          LET i == builder.indexes[j]
              tag == builder.tags[j]
          IN /\ t[i].parent = (IF j = 1 THEN Root ELSE builder.indexes[j - 1])
             /\ t[t[i].parent].last = i
             /\ NodeName(builder, i) = (IF tag[1] = "std" THEN tag
                                        ELSE SymbolName(builder, tag[2]))
    /\ \A i \in 1..Len(t) :
          Descendants(t, i) = [k \in 1..(SubtreeEnd(t, i) - i - 1) |-> i + k]

OpenElements(b, name) == {j \in 1..Len(b.indexes) : NodeName(b, b.indexes[j]) = name}

\* parser/dom.rs:109-125: "a `</parent>` may close a still-open child", and the
\* elements above a match are "now closed by their ancestor": when an element
\* of its name is open, an end tag leaves one open element of this name less.
EndTagCloses ==
    [][EndTag => \A name \in {Head(events).name} :
          \/ OpenElements(builder, name) = {}
          \/ OpenElements(builder', name) # OpenElements(builder, name)]_vars
=============================================================================
