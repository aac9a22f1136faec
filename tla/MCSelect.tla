------------------------------ MODULE MCSelect ------------------------------
(* Four documents: siblings with shared classes, an id and texts, the last    *)
(* with nothing but a text; nested elements; custom names one of which has no *)
(* byte of its own; and two elements of one custom name.  A list for each     *)
(* kind of part, and names that only an edit brings in.                       *)
EXTENDS SelectWalk

Flat ==
    LET outer == AddAttribute(AddAttribute(PushTag(NewBuilder, Std("div")), Std(1), 1),
                              <<"class", 0>>, <<1>>)
        one == PopTag(AddAttribute(PushTag(outer, Std("p")), <<"class", 0>>, <<1, 0>>))
        two == PopTag(PushTag(AddText(one, "text", <<1>>), Std("p")))
    IN AddText(PushTag(two, Std("b")), "text", <<1>>)

Deep ==
    LET inner == PopTag(PushTag(PushTag(PushTag(NewBuilder, Std("div")), Std("div")), Std("p")))
    IN AddText(PushTag(PopTag(inner), Std("p")), "comment", <<1>>)

Custom ==
    LET inner == PopTag(PushTag(PushTag(NewBuilder, <<"ext", 1>>), <<"ext", 2>>))
    IN AddAttribute(PushTag(inner, <<"ext", 1>>), <<"ext", 2>>, 0)

Twins ==
    LET one == PopTag(PushTag(PushTag(NewBuilder, Std("div")), <<"ext", 1>>))
    IN PushTag(PopTag(PushTag(one, Std("p"))), <<"ext", 1>>)

MCDocs == {Flat, Deep, Custom, Twins}
MCAttributes == {<<Std(1), 2>>, <<<<"ext", 0>>, 1>>}
MCClassNames == {1, 2}
MCChildNames == {"p"}

Tag(name) == [Universal EXCEPT !.element = Std(name)]
Ext(s) == [Universal EXCEPT !.ext = s]
Class(s) == [Universal EXCEPT !.classes = <<s>>]
Id(s) == [Universal EXCEPT !.id = s]
Attr(name, value) == [Universal EXCEPT !.attributes = <<[name |-> name, value |-> value]>>]
Having(c, p) == [c EXCEPT !.pseudos = Append(@, p)]
Pseudo(kind) == [kind |-> kind]
Count(kind, last, typed) == [kind |-> kind, last |-> last, typed |-> typed]
Nth(last, typed, o) == [kind |-> "nth", last |-> last, typed |-> typed, ordinal |-> o]
Listed(kind, list) == [kind |-> kind, list |-> list]
Rel(combinator, c) == [combinator |-> combinator, compound |-> c]
Chained(first, relatives) == [first |-> first, relatives |-> relatives]
One(c) == Chained(c, <<>>)

MCSelectors == <<
    << Chained(Tag("div"), <<Rel(" ", Tag("p"))>>), One(Tag("b")) >>,
    << Chained(Tag("div"), <<Rel(">", Tag("div")), Rel(" ", Tag("p"))>>) >>,
    << Chained(Class(1), <<Rel("+", Universal), Rel("~", Tag("b"))>>) >>,
    << One(Having(Universal, Listed("not", <<One(Class(2)), One(Tag("div"))>>))) >>,
    << Chained(Id(1), <<Rel(">", Having(Universal, Nth(FALSE, FALSE, Formula(FALSE, 2, 1))))>>),
       One(Id(2)) >>,
    << Chained(Ext(1), <<Rel(">", Ext(2))>>), One(Having(Ext(1), Pseudo("empty"))) >>,
    << One(Having(Universal, Listed("has", << <<Rel(">", Class(1)), Rel("+", Tag("p"))>>,
                                              <<Rel("~", Ext(1))>>, <<Rel("+", Tag("b"))>> >>))) >>,
    << One(Having(Having(Universal, Listed("is", <<One(Ext(2)), One(Tag("p"))>>)),
                  Nth(TRUE, TRUE, Formula(TRUE, 1, 1)))) >>,
    << One(Attr(<<"ext", 2>>, Some)), One(Attr(<<"ext", 0>>, In({1}))),
       One([Universal EXCEPT !.lists = <<In({<<1, 0>>, <<2>>})>>]) >>,
    << One([Universal EXCEPT !.text = In({<<1>>})]), One(Having(Tag("div"), Pseudo("root"))),
       One([Tag("p") EXCEPT !.text = Some, !.lists = <<Some>>]) >>,
    << One(Having(Having(Universal, Count("first", FALSE, TRUE)), Count("only", FALSE, TRUE))),
       One(Having(Tag("p"), Count("first", TRUE, FALSE))) >>,
    << One(Having(Tag("p"), Nth(TRUE, FALSE, Formula(FALSE, 2, 0)))),
       One(Having(Tag("b"), Pseudo("empty"))) >> >>

\* Three combinators, the middle compound on two nested elements.
ChainSelectors ==
    << << Chained(Tag("ul"), <<Rel(">", Tag("p")), Rel(">", Tag("div")), Rel(" ", Tag("b"))>>) >> >>

Nest ==
    LET outer == PushTag(PushTag(PushTag(NewBuilder, Std("ul")), Std("p")), Std("div"))
    IN PushTag(PushTag(outer, Std("div")), Std("b"))

ChainDocs == {Nest}
=============================================================================
