------------------------------ MODULE NodeTree ------------------------------
(* The node arena of a document (htmlarc-dom, dom/nodes.rs): records linked  *)
(* to their parent, siblings and first and last child by index.  Nodes are   *)
(* never taken out of the arena: a removed node is a dead slot until the     *)
(* document is rebuilt.  Node 1 is the root, 0 is no node.                   *)
EXTENDS Integers, FiniteSets, FiniteSetsExt, SequencesExt, Lists

Root == 1
NoNode == 0
Links == {"parent", "prev", "next", "first", "last"}

\* Writing a link of no node is the branch the code does not take.
Set(t, i, link, to) == IF i = NoNode THEN t ELSE [t EXCEPT ![i][link] = to]

Node(tag, text, parent, prev, next) ==
    [tag |-> tag, text |-> text, parent |-> parent, prev |-> prev,
     next |-> next, first |-> NoNode, last |-> NoNode]

Empty == <<Node("root", "", NoNode, NoNode, NoNode)>>

AddLastChild(t, i, tag, text) ==
    LET new == Len(t) + 1
        prev == t[i].last
        added == Append(t, Node(tag, text, i, prev, NoNode))
        linked == IF prev = NoNode THEN Set(added, i, "first", new)
                  ELSE Set(added, prev, "next", new)
    IN Set(linked, i, "last", new)

AddFirstChild(t, i, tag, text) ==
    LET new == Len(t) + 1
        next == t[i].first
        added == Append(t, Node(tag, text, i, NoNode, next))
        linked == IF next = NoNode THEN Set(added, i, "last", new)
                  ELSE Set(added, next, "prev", new)
    IN Set(linked, i, "first", new)

AddNextSibling(t, i, tag, text) ==
    LET new == Len(t) + 1
        p == t[i].parent
        next == t[i].next
        added == Set(Append(t, Node(tag, text, p, i, next)), i, "next", new)
        linked == Set(added, next, "prev", new)
    IN IF t[p].last = i THEN Set(linked, p, "last", new) ELSE linked

AddPrevSibling(t, i, tag, text) ==
    LET new == Len(t) + 1
        p == t[i].parent
        prev == t[i].prev
        added == Set(Append(t, Node(tag, text, p, prev, i)), i, "prev", new)
        linked == Set(added, prev, "next", new)
    IN IF t[p].first = i THEN Set(linked, p, "first", new) ELSE linked

-----------------------------------------------------------------------------
\* Mutant of Close: the parent's last child is forgotten.
CloseFore(t, p, prev, next) ==
    LET joined == Set(Set(t, prev, "next", next), next, "prev", prev)
    IN IF prev = NoNode THEN Set(joined, p, "first", next) ELSE joined

(* Joins what stood on the two sides of a node, under the parent p, when     *)
(* nothing is put in its place.                                              *)
Close(t, p, prev, next) ==
    LET joined == Set(Set(t, prev, "next", next), next, "prev", prev)
        fore == IF prev = NoNode THEN Set(joined, p, "first", next) ELSE joined
    IN IF next = NoNode THEN Set(fore, p, "last", prev) ELSE fore

\* A removed node loses its parent and keeps its sibling links.
RemoveNode(t, i) ==
    Set(Close(t, t[i].parent, t[i].prev, t[i].next), i, "parent", NoNode)

Extend(so, next, stop) == IF next \in {NoNode, stop} THEN so ELSE Append(so, next)

\* The chain of nodes from i along a link, up to but not including `stop`,
\* in at most Len(t) steps.
ChainTo(t, i, link, stop) ==
    Steps([so \in Seq(1..Len(t)) |->
               Extend(so, IF so = <<>> THEN i ELSE t[Last(so)][link], stop)],
          Len(t))

Chain(t, i, link) == ChainTo(t, i, link, NoNode)

Children(t, i) == Chain(t, t[i].first, "next")
Ancestors(t, i) == Chain(t, t[i].parent, "parent")

\* The node's children take its place; the node keeps no link at all.
Unlinked(t, i) == [t EXCEPT ![i] = Node(t[i].tag, t[i].text, NoNode, NoNode, NoNode)]

Reparent(t, nodes, p) ==
    [k \in 1..Len(t) |-> IF k \in nodes THEN [t[k] EXCEPT !.parent = p] ELSE t[k]]

UnwrapNode(t, i) ==
    LET n == t[i] IN
    IF n.first = NoNode THEN Close(Unlinked(t, i), n.parent, n.prev, n.next)
    ELSE Reparent(Close(Close(Unlinked(t, i), n.parent, n.prev, n.first),
                        n.parent, n.last, n.next),
                  ToSet(Children(t, i)), n.parent)

\* x takes the place of i; i keeps its children.
Place(t, i, x) ==
    LET n == t[i]
        placed == [t EXCEPT ![x].parent = n.parent, ![x].prev = n.prev, ![x].next = n.next]
        linked == Close(Close(placed, n.parent, n.prev, x), n.parent, x, n.next)
    IN [linked EXCEPT ![i].parent = NoNode, ![i].prev = NoNode, ![i].next = NoNode]

\* The siblings of i are read after x has left its own place.
Replace(t, i, x) == Place(Close(t, t[x].parent, t[x].prev, t[x].next), i, x)

RemoveChildren(t, i) == [t EXCEPT ![i].first = NoNode, ![i].last = NoNode]

-----------------------------------------------------------------------------
(* Document order, as the tree walks read it: down to the first child, else  *)
(* to the next sibling of the nearest node that has one, below the start.    *)
Onward(t, up) ==
    LET nexts == {k \in 1..Len(up) : t[up[k]].next # NoNode}
    IN IF nexts = {} THEN NoNode ELSE t[up[Min(nexts)]].next

After(t, top, i) ==
    IF t[i].first # NoNode THEN t[i].first ELSE Onward(t, ChainTo(t, i, "parent", top))

\* The nodes after i in document order, below `top`.
WalkFrom(t, top, i) ==
    Steps([so \in Seq(1..Len(t)) |->
               Extend(so, After(t, top, IF so = <<>> THEN i ELSE Last(so)), NoNode)],
          Len(t))

Descendants(t, top) == WalkFrom(t, top, top)

Live(t) == {Root} \union ToSet(Descendants(t, Root))

IsContiguousDfs(t) == \A i \in 2..Len(t) : t[i].parent \in 1..(i - 1)

\* One past the last descendant of i, from the links of i and its ancestors.
SubtreeEnd(t, i) ==
    LET next == Onward(t, <<i>> \o Ancestors(t, i))
    IN IF next = NoNode THEN Len(t) + 1 ELSE next
=============================================================================
