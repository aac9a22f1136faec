----------------------------- MODULE SelectWalk -----------------------------
(* select (htmlarc-dom, iters/match_iter.rs): one selector list lent to walk *)
(* after walk.  A walk binds the list to the document, yields what matches   *)
(* and resets the list when it is dropped.  A document that cannot change is *)
(* swept by index against one view; a DomRefCell is walked by its links and  *)
(* may be edited between two yields (additions only: DomEdit has the walks   *)
(* over removals).                                                           *)
EXTENDS CssMatch

CONSTANT Selectors     \* a sequence of selector lists

VARIABLES
    which,     \* the list in use
    bound,     \* what its names are bound to
    backing,   \* "inner", which cannot change, or "cell"
    walk       \* the MatchIter, if there is one

walkVars == <<which, bound, backing, walk>>
allVars == <<vars, walkVars>>

List == Selectors[which]
NoWalk == [on |-> FALSE, kind |-> "none", start |-> NoNode, cursor |-> NoNode,
           tags |-> {}, done |-> FALSE]

\* Mutant of Sweep: the node after the cursor is passed over.
SweepFar(from, upto) == [k \in 1..(upto - from - 1) |-> from + k + 1]

\* Nodes stand in document order, so an index is a position.
Sweep(from, upto) == [k \in 1..(upto - from) |-> from + k]

\* The nodes the walk has still to come to.
Rest(w) ==
    CASE w.kind = "forward" /\ backing = "inner" -> Sweep(w.cursor, Len(dom.nodes))
      [] w.kind = "forward" /\ backing = "cell" -> WalkFrom(dom.nodes, Root, w.cursor)
      [] w.kind = "child" ->
            IF w.cursor = w.start THEN Children(dom.nodes, w.start)
            ELSE Chain(dom.nodes, dom.nodes[w.cursor].next, "next")

\* Only the bound walk screens by tag: an element's own check skips text.
Select(i, kind) ==
    /\ ~walk.on
    /\ bound' = Binding(dom)
    /\ walk' = [on |-> TRUE, kind |-> kind, start |-> i, cursor |-> i, done |-> FALSE,
                tags |-> IF backing = "inner" THEN Subjects(List) ELSE {AnyTag}]
    /\ UNCHANGED <<vars, which, backing>>

Found(w) ==
    SelectSeq(Rest(w), LAMBDA n : Screened(dom, n, w.tags) /\ MatchesList(dom, bound, n, List))

\* One call of next: the first match from the cursor on, or the end.
Advance ==
    /\ walk.on /\ ~walk.done
    /\ \E found \in {Found(walk)} :
          walk' = IF found = <<>> THEN [walk EXCEPT !.done = TRUE]
                  ELSE [walk EXCEPT !.cursor = Head(found)]
    /\ UNCHANGED <<vars, which, bound, backing>>

\* Mutant of Reset: the list stays bound to the document.
ResetNot(b) == b

Reset(b) == Unbound

Drop ==
    /\ walk.on
    /\ walk' = NoWalk /\ bound' = Reset(bound)
    /\ UNCHANGED <<vars, which, backing>>

\* Edits are methods of a DomRefCell.
Edit ==
    /\ backing = "cell"
    /\ \E i \in Elements :
          \/ \E a \in Attributes : AppendAttribute(i, a)
          \/ \E c \in ClassNames : AppendClass(i, c) \/ RemoveClass(i, c)
          \/ \E tag \in ChildNames : AppendChild(i, tag)
    /\ UNCHANGED walkVars

\* A repackage numbers everything anew, in a document that cannot change.
Rebuild ==
    /\ ~walk.on /\ backing = "cell"
    /\ dom' = Rebuilt(dom, Order(dom)) /\ ident' = Who(Order(dom))
    /\ backing' = "inner" /\ UNCHANGED <<edits, state, which, bound, walk>>

WalkInit ==
    /\ Init /\ which \in DOMAIN Selectors
    /\ backing \in {"inner", "cell"}
    /\ bound = Unbound /\ walk = NoWalk

WalkNext ==
    \/ \E i \in Live(dom.nodes), kind \in {"forward", "child"} : Select(i, kind)
    \/ Advance
    \/ Drop
    \/ Edit
    \/ Rebuild

WalkSpec == WalkInit /\ [][WalkNext]_allVars

-----------------------------------------------------------------------------
(* What a selector means, stated over the strings and the tree of a document *)
(* and apart from how the matcher goes about it, and the properties of walks *)
(* and of direct matching against that meaning.                              *)

Everyone == {i \in Live(dom.nodes) : IsElement(dom, i)}
Position(i) == IndexIn(Children(dom.nodes, dom.nodes[i].parent), i)
Siblings(i) == {n \in Everyone : dom.nodes[n].parent = dom.nodes[i].parent}

\* x stands on the left of y's combinator.
Related(x, combinator, y) ==
    CASE combinator = " " -> x \in ToSet(Ancestors(dom.nodes, y))
      [] combinator = ">" -> x = dom.nodes[y].parent
      [] combinator = "~" -> x \in Siblings(y) /\ Position(x) < Position(y)
      [] combinator = "+" ->
            /\ x \in Siblings(y) /\ Position(x) < Position(y)
            /\ ~\E z \in Siblings(y) : Position(z) \in (Position(x) + 1)..(Position(y) - 1)

\* Siblings of i it is numbered with: all, or those of its type, which is its name.
Peers(i, typed) == {n \in Siblings(i) : typed => NodeName(dom, n) = NodeName(dom, i)}

Rank(i, p) ==
    Cardinality({n \in Peers(i, p.typed) : IF p.last THEN Position(n) >= Position(i)
                                           ELSE Position(n) <= Position(i)})

InOrdinal(o, position) ==
    \E n \in 0..Len(dom.nodes) : position = o.b + IF o.backward THEN -(n * o.a) ELSE n * o.a

Words(i) ==
    FlattenSeq([k \in 1..Len(dom.nodes) |->
        LET n == Append(Descendants(dom.nodes, i), NoNode)
        IN IF k <= Len(n) - 1 /\ dom.nodes[n[k]].tag = Std("text")
           THEN dom.nodes[n[k]].text ELSE <<>>])

RECURSIVE MeansCompound(_, _), MeansList(_, _)

MeansHas(i, relatives) ==
    \E f \in [DOMAIN relatives -> Everyone] :
        \A k \in DOMAIN relatives :
            /\ Related(IF k = 1 THEN i ELSE f[k - 1], relatives[k].combinator, f[k])
            /\ MeansCompound(f[k], relatives[k].compound)

\* `empty` is of elements: the tests have it so where there is text
\* (css/tests/css3.rs:2155).
MeansPseudo(i, p) ==
    CASE p.kind = "root" -> dom.nodes[i].parent = Root
      [] p.kind = "empty" -> ~\E n \in Everyone : dom.nodes[n].parent = i
      [] p.kind = "nth" -> InOrdinal(p.ordinal, Rank(i, p))
      [] p.kind = "first" -> Rank(i, p) = 1
      [] p.kind = "only" -> Peers(i, p.typed) = {i}
      [] p.kind = "is" -> MeansList(i, p.list)
      [] p.kind = "not" -> ~MeansList(i, p.list)
      [] p.kind = "has" -> \E k \in DOMAIN p.list : MeansHas(i, p.list[k])

MeansCompound(i, c) ==
    /\ c.element # AnyTag => NodeName(dom, i) = c.element
    /\ c.ext # NoName => NodeName(dom, i) = <<"ext", c.ext>>
    /\ c.id # NoName => <<Std(IdName), c.id>> \in ToSet(AttributesOf(dom, i))
    /\ ToSet(c.classes) \subseteq ToSet(ClassesOf(dom, i))
    /\ \A p \in ToSet(c.attributes) :
          \E a \in ToSet(AttributesOf(dom, i)) : a[1] = p.name /\ Accepts(p.value, a[2])
    /\ \A p \in ToSet(c.lists) : dom.slots[i].cls # None /\ Accepts(p, ClassesOf(dom, i))
    /\ c.text.kind = "some" => Words(i) # <<>>
    /\ c.text.kind = "in" => Words(i) \in c.text.of
    /\ \A k \in DOMAIN c.pseudos : MeansPseudo(i, c.pseudos[k])

\* Some choice of elements, one a compound, stands in the relations asked for.
MeansComplex(i, c) ==
    LET n == Len(c.relatives) IN
    \E f \in [0..n -> Everyone] :
        /\ f[n] = i /\ MeansCompound(f[0], c.first)
        /\ \A k \in 1..n :
              /\ Related(f[k - 1], c.relatives[k].combinator, f[k])
              /\ MeansCompound(f[k], c.relatives[k].compound)

MeansList(i, list) == \E k \in DOMAIN list : MeansComplex(i, list[k])

-----------------------------------------------------------------------------
(* Properties                                                                *)

\* Whether a list counts siblings by type, at any depth.
RECURSIVE Typed(_)
Typed(list) ==
    \E k \in DOMAIN list : \E j \in 0..Len(list[k].relatives) :
       LET c == IF j = 0 THEN list[k].first ELSE list[k].relatives[j].compound IN
       \E n \in DOMAIN c.pseudos :
          LET p == c.pseudos[n] IN
          \/ p.kind \in {"nth", "first", "only"} /\ p.typed
          \/ p.kind \in {"is", "not"} /\ Typed(p.list)
          \/ p.kind = "has" /\ Typed([h \in DOMAIN p.list |-> [first |-> Universal, relatives |-> p.list[h]]])

\* Two elements under one parent have custom names, and not the same one.
Mixed ==
    \E i, j \in Everyone :
        /\ dom.nodes[i].parent = dom.nodes[j].parent /\ NodeName(dom, i) # NodeName(dom, j)
        /\ IsExt(dom.nodes[i].tag) /\ IsExt(dom.nodes[j].tag)

\* The code numbers elements of one tag, and has one tag for all custom names.
OneTypeForAll == Typed(List) /\ Mixed

\* An element that is asked directly whether it matches answers as the
\* selector means, whatever documents the list was lent to before, however
\* they were edited and renumbered since.
MatchesMeaning ==
    ~walk.on => \A i \in Everyone : MatchesList(dom, bound, i, List) <=> MeansList(i, List)

\* The same but for a list that counts by type in a document with siblings of
\* different custom names: to the code all custom elements are of one type
\* (element.rs:398), and MatchesMeaning does not hold.
DirectMatches == OneTypeForAll \/ MatchesMeaning

\* The elements after the cursor among those the walk is over.
Ordered(w) ==
    LET order == Descendants(dom.nodes, Root)
        past == IF w.cursor = Root THEN order
                ELSE SubSeq(order, IndexIn(order, w.cursor) + 1, Len(order))
    IN SelectSeq(past, LAMBDA n : /\ IsElement(dom, n)
                                  /\ w.kind = "child" => dom.nodes[n].parent = w.start)

\* Each call of next yields the first element, in document order after the
\* last one, that the selector means, and ends only when there is none: through
\* ids, tag screen, sweep or links, and edits between two calls, as long as no
\* edit brought in a name that was not there when the list was bound, and custom
\* names are not counted by type.
SelectsNext ==
    [][ Advance /\ bound = Binding(dom) /\ ~OneTypeForAll =>
          \E meant \in {SelectSeq(Ordered(walk), LAMBDA n : MeansList(n, List))} :
             IF meant = <<>> THEN walk'.done ELSE walk'.cursor = Head(meant) ]_allVars
=============================================================================
