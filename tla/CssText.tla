------------------------------ MODULE CssText ------------------------------
(* The text of selectors (htmlarc-dom, css/): how a list is read and how it   *)
(* is written again.  A text is a sequence of tokens <<kind, value>>: a name, *)
(* a number, a quoted string as it stands between its quotes, or a sign with *)
(* the value "".  Reading is by recursive descent: each reader is given a position and returns a result,  *)
(* with the position it has come to, nothing, or a failure.  What an error    *)
(* says is left out.                                                          *)
EXTENDS Integers, SequencesExt

Sign(kind) == <<kind, "">>
Space == Sign(" ")
End == Sign("end")

At(x, i) == IF i <= Len(x) THEN x[i] ELSE End
Is(x, i, kind) == At(x, i)[1] = kind

Ok(ast, at) == [is |-> "ok", ast |-> ast, at |-> at]
Nothing(at) == [is |-> "none", ast |-> <<>>, at |-> at]
Fail == [is |-> "fail", ast |-> <<>>, at |-> 0]

\* What a reader read is handed on; a failure stays one.
Then(r, next(_, _)) == IF r.is = "ok" THEN next(r.ast, r.at) ELSE r

SkipSpaces(x, i) == CHOOSE j \in i..(Len(x) + 1) : ~Is(x, j, " ") /\ \A k \in i..(j - 1) : Is(x, k, " ")

-----------------------------------------------------------------------------
(* The leaves                                                                *)
NoTag == "*"
NoId == "no id"
NoValue == [op |-> "none", value |-> "", decoded |-> FALSE, case |-> "none"]

\* The entities of a string, decoded once: &amp;lt; is the text &lt;.
Decoded(s) == CASE s = "&amp;lt;" -> "&lt;" [] s = "&lt;" -> "<" [] OTHER -> s

Compound0 ==
    [tag |-> NoTag, id |-> NoId, classes |-> <<>>, attributes |-> <<>>,
     lists |-> <<>>, texts |-> <<>>, pseudos |-> <<>>]

\* A leading name, if there is one; anything that cannot start one fails.
ParseTag(x, i) ==
    IF At(x, i)[1] \in {"end", "[", "#", ":", ".", " "} THEN Ok(NoTag, i)
    ELSE IF Is(x, i, "name") THEN Ok(At(x, i)[2], i + 1)
    ELSE Fail

\* The name behind `.` or `#`.
ParseName(x, i) == IF Is(x, i + 1, "name") THEN Ok(At(x, i + 1)[2], i + 2) ELSE Fail

ParseCombinator(x, i) ==
    LET j == SkipSpaces(x, i) IN
    IF At(x, j)[1] \in {">", "~", "+"} THEN Ok(At(x, j)[1], SkipSpaces(x, j + 1))
    ELSE IF Is(x, j, "end") \/ j = i THEN Nothing(j)
    ELSE Ok(" ", j)

\* A space and one of the two flags.
ParseCase(x, i) ==
    IF ~Is(x, i, " ") THEN Ok("none", i)
    ELSE IF At(x, i + 1) \in {<<"name", "i">>, <<"name", "s">>} THEN Ok(At(x, i + 1)[2], i + 2)
    ELSE Fail

\* Operator, quoted string, flag: no space before the string.
Value(op, raw, flag) == [op |-> op, value |-> Decoded(raw), decoded |-> Decoded(raw) # raw, case |-> flag]

ParseValue(x, i) ==
    IF At(x, i)[1] \in {"]", "end"} THEN Ok(NoValue, i)
    ELSE IF ~Is(x, i, "op") \/ ~Is(x, i + 1, "string") THEN Fail
    ELSE Then(ParseCase(x, i + 2),
              LAMBDA flag, at : Ok(Value(At(x, i)[2], At(x, i + 1)[2], flag), at))

ParsePattern(x, i) ==
    IF ~Is(x, i, "name") THEN Fail
    ELSE Then(ParseValue(x, i + 1), LAMBDA v, at : Ok([name |-> At(x, i)[2], value |-> v], at))

ParseAttribute(x, i) ==
    Then(ParsePattern(x, i + 1), LAMBDA p, at : IF Is(x, at, "]") THEN Ok(p, at + 1) ELSE Fail)

\* [class~="v"] is .v, unless a flag or the value says otherwise, or an entity
\* was decoded (a class is a piece of the text itself).
AsClass(p) ==
    /\ ~p.value.decoded
    /\ p.name = "class" /\ p.value.op = "~=" /\ p.value.case # "i"
    /\ p.value.value \notin {"", "a b"}

\* From here on a decoded value is a value like any other.
Kept(p) == [p EXCEPT !.value.decoded = FALSE]

\* Mutant of WithAttribute: the class takes the place of those before it.
WithAttributeOnly(c, p) ==
    IF AsClass(p) THEN [c EXCEPT !.classes = <<p.value.value>>]
    ELSE IF p.name = "class" THEN [c EXCEPT !.lists = Append(@, Kept(p))]
    ELSE IF p.name = "text" THEN [c EXCEPT !.texts = <<Kept(p)>>]
    ELSE [c EXCEPT !.attributes = Append(@, Kept(p))]

\* A pattern on [text] takes the place of the one before it.
WithAttribute(c, p) ==
    IF AsClass(p) THEN [c EXCEPT !.classes = Append(@, p.value.value)]
    ELSE IF p.name = "class" THEN [c EXCEPT !.lists = Append(@, Kept(p))]
    ELSE IF p.name = "text" THEN [c EXCEPT !.texts = <<Kept(p)>>]
    ELSE [c EXCEPT !.attributes = Append(@, Kept(p))]

-----------------------------------------------------------------------------
(* The formula of :nth-child and its kin                                     *)
Formula(backward, a, b) == [kind |-> "formula", backward |-> backward, a |-> a, b |-> b]
NoOffset == -1

\* Behind the n: the end, or a plus sign and a number.
ParseOffset(x, i, backward, a) ==
    IF At(x, i)[1] \in {")", "end"}
    THEN IF backward THEN Fail ELSE Ok(Formula(backward, a, NoOffset), i)
    ELSE IF Is(x, i, "+") /\ Is(x, i + 1, "number")
    THEN Ok(Formula(backward, a, At(x, i + 1)[2]), i + 2)
    ELSE Fail

ParseStep(x, i, backward) ==
    LET given == Is(x, i, "number")
        j == IF given THEN i + 1 ELSE i
    IN IF At(x, j) = <<"name", "n">>
       THEN ParseOffset(x, j + 1, backward, IF given THEN At(x, i)[2] ELSE 1)
       ELSE IF At(x, j)[1] \in {")", "end"} /\ given /\ ~backward
       THEN Ok([kind |-> "n", at |-> At(x, i)[2]], j)
       ELSE Fail

ParseOrdinal(x, i) ==
    IF At(x, i)[1] \in {")", "end"} THEN Fail
    ELSE IF At(x, i) \in {<<"name", "odd">>, <<"name", "even">>} THEN Ok([kind |-> At(x, i)[2]], i + 1)
    ELSE IF Is(x, i, "name") /\ At(x, i)[2] # "n" THEN Fail
    ELSE IF Is(x, i, "-") THEN ParseStep(x, i + 1, TRUE)
    ELSE ParseStep(x, i, FALSE)

-----------------------------------------------------------------------------
(* Compounds, and what pseudo-classes hold in parentheses                    *)
Plain == {"root", "empty", "first-child", "last-child", "only-child",
          "first-of-type", "last-of-type", "only-of-type"}
Counted == {"nth-child", "nth-last-child", "nth-of-type", "nth-last-of-type"}

RECURSIVE ParseSelectors(_, _, _, _), ParseParts(_, _, _), ParseRelatives(_, _, _)

ParseList(x, i) == ParseSelectors(x, i, <<>>, FALSE)
ParseRelativeList(x, i) == ParseSelectors(x, i, <<>>, TRUE)

\* What stands between parentheses must be there.
Parenthesized(x, name, i) ==
    IF ~Is(x, i, "(") THEN Fail
    ELSE Then(CASE name \in Counted -> ParseOrdinal(x, i + 1)
                [] name \in {"not", "is"} -> ParseList(x, i + 1)
                [] name = "has" -> ParseRelativeList(x, i + 1)
                [] OTHER -> Fail,
              LAMBDA of, at : IF Is(x, at, ")") THEN Ok([name |-> name, of |-> of], at + 1) ELSE Fail)

ParsePseudo(x, i) ==
    IF ~Is(x, i + 1, "name") THEN Fail
    ELSE IF At(x, i + 1)[2] \in Plain THEN Ok([name |-> At(x, i + 1)[2]], i + 2)
    ELSE Parenthesized(x, At(x, i + 1)[2], i + 2)

\* Two ids must be the same one.
ParsePart(x, i, c) ==
    CASE Is(x, i, ".") -> Then(ParseName(x, i), LAMBDA n, at : Ok([c EXCEPT !.classes = Append(@, n)], at))
      [] Is(x, i, "#") -> Then(ParseName(x, i), LAMBDA n, at :
                              IF c.id \in {NoId, n} THEN Ok([c EXCEPT !.id = n], at) ELSE Fail)
      [] Is(x, i, "[") -> Then(ParseAttribute(x, i), LAMBDA p, at : Ok(WithAttribute(c, p), at))
      [] Is(x, i, ":") -> Then(ParsePseudo(x, i), LAMBDA p, at : Ok([c EXCEPT !.pseudos = Append(@, p)], at))
      [] OTHER -> Fail

ParseParts(x, i, c) ==
    IF At(x, i)[1] \notin {".", "#", "[", ":", "name", "*"} THEN Ok(c, i)
    ELSE Then(ParsePart(x, i, c), LAMBDA d, at : ParseParts(x, at, d))

ParseCompound(x, i) ==
    IF At(x, i)[1] \in {"end", ",", ")"} THEN Nothing(i)
    ELSE Then(IF Is(x, i, "*") THEN Ok(NoTag, i + 1) ELSE ParseTag(x, i),
              LAMBDA tag, at : ParseParts(x, at, [Compound0 EXCEPT !.tag = tag]))

\* A combinator calls for a compound behind it.
Joined(x, by, c) ==
    IF c.is = "ok"
    THEN Ok([by |-> IF by.is = "ok" THEN by.ast ELSE " ", compound |-> c.ast], SkipSpaces(x, c.at))
    ELSE IF c.is = "fail" \/ by.is = "ok" THEN Fail
    ELSE Nothing(by.at)

ParseRelative(x, i) ==
    LET Behind(by) == Joined(x, by, ParseCompound(x, by.at)) IN Behind(ParseCombinator(x, i))

ParseRelatives(x, i, so) ==
    LET Go(r) == IF r.is = "none" THEN Ok(so, r.at)
                 ELSE Then(r, LAMBDA relative, at : ParseRelatives(x, at, Append(so, relative)))
    IN Go(ParseRelative(x, i))

ParseComplex(x, i) ==
    Then(ParseCompound(x, SkipSpaces(x, i)), LAMBDA first, at :
        Then(ParseRelatives(x, at, <<>>), LAMBDA rest, end :
            Ok([first |-> first, relatives |-> rest], end)))

\* In :has the chain of relatives may be empty.
ParseComplexRelative(x, i) == IF Is(x, i, "end") THEN Nothing(i) ELSE ParseRelatives(x, i, <<>>)

\* Both lists: after a comma a selector must come.
ParseSelectors(x, i, so, relative) ==
    LET Go(r, j) ==
            IF r.is # "ok" THEN Fail
            ELSE IF Is(x, j, ",")
            THEN ParseSelectors(x, SkipSpaces(x, j + 1), Append(so, r.ast), relative)
            ELSE Ok(Append(so, r.ast), j)
        Come(r) == Go(r, SkipSpaces(x, r.at))
    IN Come(IF relative THEN ParseComplexRelative(x, i) ELSE ParseComplex(x, i))

\* What follows the list is not looked at.
ParseCss(x) == ParseList(x, 1)

-----------------------------------------------------------------------------
(* Writing                                                                   *)
Name(s) == <<"name", s>>
Each(so, show(_)) == FlattenSeq([k \in 1..Len(so) |-> show(so[k])])

\* The tokens of a value between apostrophes, and of one without quotes: an
\* apostrophe in it ends the string, a dot the name.
Quoted(s) == IF s = "it's" THEN <<<<"string", "it">>, Name("s"), Sign("'")>> ELSE <<<<"string", s>>>>
Bare(s) ==
    CASE s = "a.b" -> <<Name("a"), Sign("."), Name("b")>>
      [] s = "<" -> <<Sign("<")>>
      [] OTHER -> <<Name(s)>>

ShowValue(v) ==
    IF v.op = "none" THEN <<>>
    ELSE <<<<"op", v.op>>>> \o Quoted(v.value)
         \o IF v.case = "none" THEN <<>> ELSE <<Space, Name(v.case)>>

ShowAttribute(p) == <<Sign("["), Name(p.name)>> \o ShowValue(p.value) \o <<Sign("]")>>
ShowClass(s) == <<Sign(".")>> \o Bare(s)

ShowOrdinal(o) ==
    IF o.kind \in {"odd", "even"} THEN <<Name(o.kind)>>
    ELSE IF o.kind = "n" THEN <<<<"number", o.at>>>>
    ELSE (IF o.backward THEN <<Sign("-")>> ELSE <<>>)
         \o (IF o.a > 1 THEN <<<<"number", o.a>>>> ELSE <<>>) \o <<Name("n")>>
         \o IF o.b = NoOffset THEN <<>> ELSE <<Sign("+"), <<"number", o.b>>>>

RECURSIVE ShowList(_), ShowRelativeList(_)

ShowPseudo(p) ==
    <<Sign(":"), Name(p.name)>>
    \o IF p.name \in Plain THEN <<>>
       ELSE <<Sign("(")>>
            \o (CASE p.name \in Counted -> ShowOrdinal(p.of)
                  [] p.name = "has" -> ShowRelativeList(p.of)
                  [] OTHER -> ShowList(p.of))
            \o <<Sign(")")>>

\* Mutant of ShowCompound: the patterns on the class list are left out.
ShowCompoundShort(c) ==
    IF c = Compound0 THEN <<Sign("*")>>
    ELSE (IF c.tag = NoTag THEN <<>> ELSE <<Name(c.tag)>>)
         \o (IF c.id = NoId THEN <<>> ELSE <<Sign("#"), Name(c.id)>>)
         \o Each(c.attributes, ShowAttribute) \o Each(c.texts, ShowAttribute)
         \o Each(c.pseudos, ShowPseudo) \o Each(c.classes, ShowClass)

ShowCompound(c) ==
    IF c = Compound0 THEN <<Sign("*")>>
    ELSE (IF c.tag = NoTag THEN <<>> ELSE <<Name(c.tag)>>)
         \o (IF c.id = NoId THEN <<>> ELSE <<Sign("#"), Name(c.id)>>)
         \o Each(c.attributes, ShowAttribute) \o Each(c.texts, ShowAttribute)
         \o Each(c.lists, ShowAttribute) \o Each(c.pseudos, ShowPseudo)
         \o Each(c.classes, ShowClass)

\* A combinator is written with the space behind it.
ShowCombinator(by) == IF by = " " THEN <<Space>> ELSE <<Sign(by), Space>>

ShowRelative(r) ==
    (IF r.by = " " THEN <<>> ELSE <<Space>>) \o ShowCombinator(r.by) \o ShowCompound(r.compound)

ShowComplex(c) == ShowCompound(c.first) \o Each(c.relatives, ShowRelative)

\* Of the relatives of :has, the first that a space joins goes without it.
ShowHas(relatives) ==
    LET spaced == {k \in DOMAIN relatives : relatives[k].by = " "}
        first == CHOOSE k \in spaced \union {0} : \A j \in spaced : spaced # {} => k # 0 /\ k <= j
    IN FlattenSeq([k \in DOMAIN relatives |->
           (IF k = first THEN <<>>
            ELSE IF relatives[k].by = " " THEN <<Space>>
            ELSE <<Space>> \o ShowCombinator(relatives[k].by) \o <<Space>>)
           \o ShowCompound(relatives[k].compound)])

Commas(so) == FlattenSeq([k \in 1..Len(so) |-> IF k = 1 THEN so[k] ELSE <<Sign(","), Space>> \o so[k]])

ShowList(list) == Commas([k \in 1..Len(list) |-> ShowComplex(list[k])])
ShowRelativeList(list) == Commas([k \in 1..Len(list) |-> ShowHas(list[k])])

-----------------------------------------------------------------------------
(* Every text that can be put together from some pieces, and what must hold  *)
(* of reading it.                                                            *)

CONSTANTS
    Pieces,      \* sequences of tokens
    MaxPieces    \* pieces of a text

VARIABLES text, pieces

vars == <<text, pieces>>

Init == text = <<>> /\ pieces = 0

Type ==
    \E p \in Pieces :
        /\ pieces < MaxPieces
        /\ text' = text \o p /\ pieces' = pieces + 1

Spec == Init /\ [][Type]_vars

-----------------------------------------------------------------------------
\* Not written as it was: in :has, the first space that joins behind another sign.
LateSpace(chain) ==
    \E k \in 2..Len(chain) : chain[k].by = " " /\ \A j \in 1..(k - 1) : chain[j].by # " "
LateIn(c) ==
    \E k \in DOMAIN c.pseudos :
        c.pseudos[k].name = "has" /\ \E j \in DOMAIN c.pseudos[k].of : LateSpace(c.pseudos[k].of[j])
Late(list) ==
    \E k \in DOMAIN list :
        LateIn(list[k].first) \/ \E j \in DOMAIN list[k].relatives : LateIn(list[k].relatives[j].compound)

\* A string that is not written as it is read: it holds an apostrophe, or an
\* entity once it is decoded, or became a class and is not spelt like one.
Misspelt(x, i) ==
    LET v == Decoded(x[i][2]) IN
    /\ x[i][1] = "string"
    /\ \/ Quoted(v) # <<<<"string", v>>>> \/ Decoded(v) # v
       \/ x[i - 2] = Name("class") /\ Bare(v) # <<Name(v)>>

\* The step of 0n, which is written n.
ZeroStep(x, i) == x[i] = <<"number", 0>> /\ At(x, i + 1) = Name("n")

\* A list that is written out and read again is the same list: what an owned
\* selector shows of itself selects what the selector does.  Set apart are the
\* texts the writers are known to get wrong: a string that is Misspelt, a step
\* of zero, and a chain of :has with a late space.
RoundTrip ==
    LET Same(r, shown) == ParseCss(shown) = Ok(r.ast, Len(shown) + 1)
        Odd == \E i \in DOMAIN text : Misspelt(text, i) \/ ZeroStep(text, i)
        Again(r) == r.is = "ok" => Odd \/ Late(r.ast) \/ Same(r, ShowList(r.ast))
    IN Again(ParseCss(text))

Count(x, kinds) == Cardinality({i \in DOMAIN x : x[i][1] \in kinds})
Depth(x) == Count(x, {"(", "["}) - Count(x, {")", "]"})
Balanced == \A n \in 0..Len(text) : Depth(SubSeq(text, 1, n)) >= 0

\* Position j is behind i in the same compound.
Beside(x, i, j) ==
    /\ i < j /\ Depth(SubSeq(x, i, j - 1)) = 0
    /\ \A k \in i..(j - 1) :
          /\ Depth(SubSeq(x, i, k)) >= 0
          /\ Depth(SubSeq(x, i, k)) = 0 => x[k][1] \notin {" ", ">", "~", "+", ","}

\* The part that begins at i gives way to one behind it: a second [text], whatever
\* the first one said, and an id that is given twice.
GivesWay(x, i) ==
    \E j \in DOMAIN x :
        /\ Beside(x, i, j)
        /\ \/ x[i] = Sign("[") /\ x[j] = Sign("[") /\ x[i + 1] = Name("text") /\ x[j + 1] = Name("text")
           \/ x[i] = Sign("#") /\ x[j] = Sign("#")

\* Whether the token at k belongs to the part that begins at i.
PartOf(x, i, k) ==
    \/ x[i] = Sign("#") /\ k = i + 1
    \/ x[i] = Sign("[") /\ i < k /\ \A j \in i..(k - 1) : x[j] # Sign("]")

\* What must be left of the token at k: nothing of a part that gives way, nor of
\* a step of 0 or 1.
Left(x, k) ==
    CASE \E i \in DOMAIN x : PartOf(x, i, k) /\ GivesWay(x, i) -> <<>>
      [] x[k][1] = "number" /\ x[k][2] \in {0, 1} /\ At(x, k + 1) = Name("n") -> <<>>
      [] x[k][1] = "string" /\ x[k - 2] = Name("class") -> Bare(x[k][2])
      [] x[k][1] = "string" -> Quoted(Decoded(x[k][2]))
      [] OTHER -> <<x[k]>>

\* The names, strings and numbers of a text, each with how often it is there; a
\* class is a name wherever it stood.
WordOf(t) == IF t[1] = "number" THEN t ELSE <<"word", t[2]>>
Words(x) ==
    LET told == SelectSeq(x, LAMBDA t : t[1] \in {"name", "string", "number"} /\ t # Name("class"))
    IN [k \in 1..Len(told) |-> WordOf(told[k])]

Times(w, so) == Cardinality({k \in DOMAIN so : so[k] = w})
AsOften(so, others) == \A w \in ToSet(so) : Times(w, so) <= Times(w, others)

\* What is read of a balanced text accounts for each of its names, strings and
\* numbers, as often as it is there: no reader passes over a part of a selector,
\* but for the parts that give way and the steps that are not written.
NothingLost ==
    LET Said == [k \in 1..Len(text) |-> Left(text, k)]
        All(r) == (r.is = "ok" /\ Balanced) => AsOften(Words(FlattenSeq(Said)), Words(ShowList(r.ast)))
    IN All(ParseCss(text))

SpaceBeforeComma(x) == {i \in 2..Len(x) : x[i][1] = "," /\ x[i - 1] = Space}
WithoutSpaceAt(x, i) == SubSeq(x, 1, i - 2) \o SubSeq(x, i, Len(x))

\* Spaces before a comma make no difference.
CommasApart ==
    \A i \in SpaceBeforeComma(text) : ParseCss(WithoutSpaceAt(text, i)).is = ParseCss(text).is
=============================================================================
