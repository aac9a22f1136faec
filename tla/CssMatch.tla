------------------------------ MODULE CssMatch ------------------------------
(* Matching of CSS selectors against one node (htmlarc-dom, css/selectors,   *)
(* dom/dom_view.rs).  A selector list is a sequence of complex selectors,    *)
(* each a first compound and a sequence of relatives (a combinator and a     *)
(* compound).  What an operator makes of a value is in CssValues: here a     *)
(* pattern is the set of values it accepts.  Once bound to a document a list *)
(* compares ids; unbound, it compares strings.                               *)
EXTENDS DocEdits

IdName == 1                  \* the number of the attribute `id`
AnyTag == Std("*")
NoName == -1

Some == [kind |-> "some", of |-> {}]            \* [name]
In(values) == [kind |-> "in", of |-> values]    \* [name op value]
NoText == [kind |-> "none", of |-> {}]
Accepts(pattern, x) == pattern.kind = "some" \/ x \in pattern.of

Universal ==
    [element |-> AnyTag, ext |-> NoName, id |-> NoName, classes |-> <<>>,
     attributes |-> <<>>, lists |-> <<>>, pseudos |-> <<>>, text |-> NoText]

-----------------------------------------------------------------------------
(* Binding: each name is looked up in the document's tables once.            *)
Absent == <<"absent", 0>>

BoundTag(d, sym) ==
    IF sym = None THEN Absent
    ELSE IF sym \in ToSet(d.ext.vocab) THEN <<"ext", IndexIn(d.ext.vocab, sym)>>
    ELSE IF d.ext.overflow = <<>> THEN Absent
    ELSE <<"over", sym>>

BoundId(d, value) == IF value = None THEN None ELSE FindEntry(d.attrs, <<IdName, value>>)

Binding(d) ==
    [on |-> TRUE, syms |-> [s \in Strings |-> Find(d.symbols, s)],
     tags |-> [s \in Strings |-> BoundTag(d, Find(d.symbols, s))],
     ids |-> [s \in Strings |-> BoundId(d, Find(d.attrs.values, s))]]

Unbound == [on |-> FALSE, syms |-> <<>>, tags |-> <<>>, ids |-> <<>>]

-----------------------------------------------------------------------------
(* What a matcher reads of a node                                            *)
NotElements == {Std("root"), Std("text"), Std("comment"), Std("doctype")}
IsElement(d, i) == d.nodes[i].tag \notin NotElements

\* Element navigation shows the root and hides text, comments and the doctype.
Shown(d, so) == SelectSeq(so, LAMBDA n : n = Root \/ IsElement(d, n))

Before(d, i) == Shown(d, Chain(d.nodes, d.nodes[i].prev, "prev"))
Behind(d, i) == Shown(d, Chain(d.nodes, d.nodes[i].next, "next"))
Above(d, i) == Ancestors(d.nodes, i)
Below(d, i) == Shown(d, Children(d.nodes, i))
Under(d, i) == Shown(d, Descendants(d.nodes, i))
First(so) == IF so = <<>> THEN <<>> ELSE <<Head(so)>>

\* Every custom element carries the one tag `extended`.
TagOf(d, i) == IF IsExt(d.nodes[i].tag) THEN Std("extended") ELSE d.nodes[i].tag
SameTag(d, so, i) == SelectSeq(so, LAMBDA n : TagOf(d, n) = TagOf(d, i))

\* The characters of a subtree end at the first text node that is empty.
Prose(d, i) ==
    LET texts == SelectSeq(Descendants(d.nodes, i), LAMBDA n : d.nodes[n].tag = Std("text"))
        blank == {k \in 1..Len(texts) : d.nodes[texts[k]].text = <<>>}
        read == IF blank = {} THEN texts
                ELSE SubSeq(texts, 1, (CHOOSE k \in blank : \A j \in blank : k <= j) - 1)
    IN FlattenSeq([k \in 1..Len(read) |-> d.nodes[read[k]].text])

MatchesText(d, i, p) == IF p.kind = "some" THEN Prose(d, i) # <<>> ELSE Accepts(p, Prose(d, i))

MatchesExtTag(d, b, i, s) ==
    LET byte == d.nodes[i].tag IN
    IF ~b.on THEN IsExt(byte) /\ NodeName(d, i) = <<"ext", s>>
    ELSE \/ b.tags[s][1] = "ext" /\ byte = b.tags[s]
         \/ /\ b.tags[s][1] = "over" /\ byte = OverflowByte
            /\ TagSym(d.ext, i, byte) = b.tags[s][2]

HasId(d, b, i, s) ==
    IF b.on THEN b.ids[s] \in ToSet(RunAt(d.lists, d.slots[i].attr))
    ELSE <<Std(IdName), s>> \in ToSet(AttributesOf(d, i))

\* A name that was not in the document when the list was bound never matches.
NameBound(b, name) == b.on /\ name[1] = "ext" => b.syms[name[2]] # None

HasAttribute(d, b, i, p) ==
    /\ NameBound(b, p.name)
    /\ \E a \in ToSet(AttributesOf(d, i)) : a[1] = p.name /\ Accepts(p.value, a[2])

HasClass(d, b, i, s) ==
    IF b.on THEN b.syms[s] \in ToSet(RunAt(d.classes, d.slots[i].cls))
    ELSE s \in ToSet(ClassesOf(d, i))

HasClassList(d, i, p) == d.slots[i].cls # None /\ Accepts(p, ClassesOf(d, i))

-----------------------------------------------------------------------------
(* The formula an+b, or -an+b.  A step of 0 divides by zero and is not used. *)
Formula(backward, a, b) == [backward |-> backward, a |-> a, b |-> b]

MatchesOrdinal(o, position) ==
    LET steps == IF o.backward THEN o.b - position ELSE position - o.b
    IN steps % o.a = 0 /\ steps \div o.a >= 0

\* Counted over the siblings on one side, all of them or those of its tag.
Counted(d, i, p) ==
    LET side == IF p.last THEN Behind(d, i) ELSE Before(d, i)
    IN 1 + Len(IF p.typed THEN SameTag(d, side, i) ELSE side)

Only(d, i, typed) ==
    \A last \in BOOLEAN : Counted(d, i, [last |-> last, typed |-> typed]) = 1

(* A compound matches when all its parts do.  `has` searches forward from    *)
(* the element, one relative after another.                                  *)
RECURSIVE MatchesCompound(_, _, _, _), MatchesList(_, _, _, _),
          VerifyRelative(_, _, _, _, _), Verify(_, _, _, _, _)

MatchesPseudo(d, b, i, p) ==
    CASE p.kind = "root" -> d.nodes[i].parent = Root /\ IsElement(d, i)
      [] p.kind = "empty" -> Below(d, i) = <<>>
      [] p.kind = "nth" -> MatchesOrdinal(p.ordinal, Counted(d, i, p))
      [] p.kind = "first" -> Counted(d, i, p) = 1
      [] p.kind = "only" -> Only(d, i, p.typed)
      [] p.kind = "is" -> MatchesList(d, b, i, p.list)
      [] p.kind = "not" -> ~MatchesList(d, b, i, p.list)
      [] p.kind = "has" -> \E k \in DOMAIN p.list : VerifyRelative(d, b, i, p.list[k], 1)

MatchesCompound(d, b, i, c) ==
    /\ c.element # AnyTag => d.nodes[i].tag = c.element
    /\ c.ext # NoName => MatchesExtTag(d, b, i, c.ext)
    /\ c.id # NoName => HasId(d, b, i, c.id)
    /\ c.element = AnyTag => IsElement(d, i)
    /\ c.text # NoText => MatchesText(d, i, c.text)
    /\ \A k \in DOMAIN c.pseudos : MatchesPseudo(d, b, i, c.pseudos[k])
    /\ \A k \in DOMAIN c.attributes : HasAttribute(d, b, i, c.attributes[k])
    /\ \A k \in DOMAIN c.classes : HasClass(d, b, i, c.classes[k])
    /\ \A k \in DOMAIN c.lists : HasClassList(d, i, c.lists[k])

\* Where a relative of `has` looks for the next element.
Ahead(d, i, combinator) ==
    CASE combinator = " " -> Under(d, i)
      [] combinator = ">" -> Below(d, i)
      [] combinator = "~" -> Behind(d, i)
      [] combinator = "+" -> First(Behind(d, i))

VerifyRelative(d, b, i, relatives, k) ==
    \/ k > Len(relatives)
    \/ \E n \in ToSet(Ahead(d, i, relatives[k].combinator)) :
          /\ MatchesCompound(d, b, n, relatives[k].compound)
          /\ VerifyRelative(d, b, n, relatives, k + 1)

\* Where the element on the left of a combinator is looked for.
Back(d, i, combinator) ==
    CASE combinator = " " -> Above(d, i)
      [] combinator = ">" -> First(Above(d, i))
      [] combinator = "~" -> Before(d, i)
      [] combinator = "+" -> First(Before(d, i))
      [] combinator = "" -> <<i>>

(* Right to left.  All attempts draw their compounds from one iterator over  *)
(* the relatives: what a failed attempt has taken is not there for the next. *)
Taken(c, used) ==
    IF used = Len(c.relatives) THEN [used |-> used, compound |-> c.first, next |-> " ", last |-> TRUE]
    ELSE LET r == c.relatives[Len(c.relatives) - used]
         IN [used |-> used + 1, compound |-> r.compound, next |-> r.combinator, last |-> FALSE]

\* Mutant of Verify: only the nearest candidate is tried.
VerifyNearest(x, c, used, i, combinator) ==
    LET step == Taken(c, used)
        found == SelectSeq(First(Back(x.d, i, combinator)),
                           LAMBDA n : MatchesCompound(x.d, x.b, n, step.compound))
    IN IF step.last \/ found = <<>> THEN [ok |-> found # <<>>, used |-> step.used]
       ELSE Verify(x, c, step.used, Head(found), step.next)

Verify(x, c, used, i, combinator) ==
    LET step == Taken(c, used)
        found == SelectSeq(Back(x.d, i, combinator),
                           LAMBDA n : MatchesCompound(x.d, x.b, n, step.compound))
    IN IF step.last \/ found = <<>> THEN [ok |-> found # <<>>, used |-> step.used]
       ELSE FoldLeft(LAMBDA acc, n : IF acc.ok THEN acc
                                     ELSE Verify(x, c, acc.used, n, step.next),
                     [ok |-> FALSE, used |-> step.used], found)

MatchesComplex(d, b, i, c) ==
    IF c.relatives = <<>> THEN MatchesCompound(d, b, i, c.first)
    ELSE Verify([d |-> d, b |-> b], c, 0, i, "").ok

MatchesList(d, b, i, list) == \E k \in DOMAIN list : MatchesComplex(d, b, i, list[k])

-----------------------------------------------------------------------------
(* The tags a node must carry to reach the matcher, where every subject      *)
(* names a standard one.                                                     *)
Subject(c) == IF c.relatives = <<>> THEN c.first ELSE Last(c.relatives).compound

\* Mutant of Subjects: the first compound is taken for the subject.
SubjectsFirst(list) == {list[k].first.element : k \in DOMAIN list}

Subjects(list) == {Subject(list[k]).element : k \in DOMAIN list}

Screened(d, i, tags) == d.nodes[i].tag # Std("text") /\ (AnyTag \in tags \/ d.nodes[i].tag \in tags)
=============================================================================
