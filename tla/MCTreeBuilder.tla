--------------------------- MODULE MCTreeBuilder ---------------------------
(* Sources over a small alphabet: custom names, classes, repeated and dropped *)
(* attributes, implied ends, foreign content and raw text.  Custom name 1 is  *)
(* also a class, 2 is spelled as a tag of the system; a doctype has the       *)
(* attribute 0.                                                              *)
EXTENDS StatsCounter

StartTag(name, attrs, slash) == [kind |-> "start", name |-> name, attrs |-> attrs, slash |-> slash]
EndOf(name) == [kind |-> "end", name |-> name]
Other(kind) == [kind |-> kind]

MCSearched == {Std(1)}
MCReserved == {<<"ext", 2>>}

MCTokens == {
    StartTag(Std("ul"), <<>>, FALSE), EndOf(Std("ul")),
    StartTag(Std("li"), <<<<<<"class", 0>>, <<2, 1, 2>>>>, <<Std(1), 1>>>>, FALSE),
    StartTag(Std("li"), <<<<<<"ext", 1>>>>, <<<<"ext", 1>>>>, <<<<"junk", 0>>, 1>>, <<<<"ext", 1>>, 1>>>>, FALSE),
    StartTag(<<"ext", 1>>, <<<<<<"class", 0>>>>>>, TRUE), EndOf(<<"ext", 1>>),
    StartTag(<<"ext", 2>>, <<>>, FALSE),
    StartTag(Std("svg"), <<>>, FALSE), StartTag(Std("svg"), <<>>, TRUE), EndOf(Std("svg")),
    StartTag(Std("title"), <<>>, TRUE), EndOf(Std("title")),
    StartTag(Std("br"), <<>>, FALSE),
    Other("text"), Other("cdata"), Other("comment"), Other("doctype")}
=============================================================================
