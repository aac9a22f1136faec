------------------------------- MODULE DomEdit -------------------------------
(* Editing a parsed document (htmlarc-dom, dom/dom_inner.rs behind the       *)
(* elements of html/element.rs): removal, unwrapping and replacement with    *)
(* the pruning of emptied ancestors and the spaces put between inline        *)
(* neighbours, insertion, and the rebuild that compacts the arena.  A loop   *)
(* walks the document and may edit the element it stands on, as callers of   *)
(* `descendants()` do (iters/element_iter.rs, iters/stack.rs).               *)
EXTENDS NodeTree

CONSTANTS Docs,      \* the documents: sequences of <<parent, tag, text>> rows in document order
          MaxEdits,  \* bound: edits of one document
          MaxYields  \* bound: steps of one loop

ASSUME MaxEdits \in Nat /\ MaxYields \in Nat

VARIABLES parsed, \* how many nodes the document was parsed to
          tree,   \* the arena; <<>> once an edit has panicked
          result, \* the node the last edit returned, NoNode if none
          edits,  \* edits made
          last,   \* what the last edit was: the operation and its node
          stack,  \* the loop's stack of visited nodes, <<>> outside a loop
          yielded \* the nodes the loop has yielded, in order

vars == <<parsed, tree, result, edits, last, stack, yielded>>

Panicked == <<>>

\* What the parser builds: every row is the last child of its parent so far.
Parse(doc) == FoldLeft(LAMBDA t, row : AddLastChild(t, row[1], row[2], row[3]), Empty, doc)

-----------------------------------------------------------------------------
(* Text and kinds of nodes.  Texts are a word, a blank, or line breaks.      *)

Inline(t, i) == t[i].tag \in {"b", "br", "text"}
Block(t, i) == t[i].tag = "div"
Whitespace == {" ", "\n"}

Texts(t, order) == SelectSeq(order, LAMBDA n : t[n].tag = "text")

Top(t, i) == Last(Chain(t, i, "parent"))

UpTo(order, i) == SubSeq(order, 1, SelectInSeq(order, LAMBDA n : n = i) - 1)
From(order, i) == SubSeq(order, SelectInSeq(order, LAMBDA n : n = i) + 1, Len(order))

\* The reverse walk from i, without i; from a detached node it still follows
\* the sibling link the node has kept.
TextBefore(t, i) ==
    Texts(t, Reverse(IF t[i].parent # NoNode THEN UpTo(Descendants(t, Top(t, i)), i)
                     ELSE IF t[i].prev = NoNode THEN <<>> ELSE Descendants(t, t[i].prev)))

\* The forward walk from i: its descendants and what follows, without i.
TextAfter(t, i) ==
    Texts(t, From(Descendants(t, Top(t, i)), i))

StartsBlank(t, texts) == texts # <<>> /\ t[Head(texts)].text = " "

EndsWithSpace(t, i) == StartsBlank(t, TextBefore(t, i))
StartsWithSpace(t, i) == StartsBlank(t, TextAfter(t, i))

\* Panics when `prev` is not in a tree, as its parent is unwrapped.
InsertSpaceIfNeeded(t, prev, next) ==
    IF \/ t = Panicked \/ prev = NoNode \/ next = NoNode
    THEN t
    ELSE IF \/ ~Inline(t, prev) \/ ~Inline(t, next)
            \/ EndsWithSpace(t, next) \/ StartsWithSpace(t, next)
         THEN t
         ELSE IF t[prev].parent = NoNode THEN Panicked
              ELSE AddNextSibling(t, prev, "text", " ")

\* Mutant of OnlyWhitespace: one blank text is enough.
SomeWhitespace(t, i) ==
    \/ Descendants(t, i) = <<>>
    \/ \E n \in ToSet(Descendants(t, i)) : t[n].text \in Whitespace

OnlyWhitespace(t, i) ==
    \A n \in ToSet(Texts(t, Descendants(t, i))) : t[n].text \in Whitespace

Prunable(t, i) ==
    CASE t[i].tag \in {"div", "body"} -> OnlyWhitespace(t, i)
      [] t[i].tag = "br" -> FALSE
      [] OTHER -> t[i].first = NoNode

Reposition(prev, next, parent) ==
    IF prev # NoNode THEN prev ELSE IF next # NoNode THEN next ELSE parent

\* Removes i; the inline neighbours of a block get a space between them.
RemoveSpaced(t, i) ==
    IF Block(t, i) THEN InsertSpaceIfNeeded(RemoveNode(t, i), t[i].prev, t[i].next)
    ELSE RemoveNode(t, i)

\* Removes i and then every ancestor this leaves empty.  `at` is the node
\* the pruning stops at, `cur` the cursor it has moved.
RECURSIVE Prune(_, _, _)
Prune(t, cur, i) ==
    LET n == t[i] IN
    IF n.parent = NoNode \/ ~Prunable(t, i) THEN [tree |-> t, cur |-> cur, at |-> i]
    ELSE Prune(RemoveSpaced(t, i), Reposition(n.prev, n.next, n.parent), n.parent)

-----------------------------------------------------------------------------
(* The edits: the new arena and the node that is returned.                   *)

RemoveElement(t, i) ==
    LET n == t[i]
    IN Prune(RemoveSpaced(t, i), Reposition(n.prev, n.next, n.parent), n.parent)

Bare(t, i) ==
    FoldLeft(RemoveNode, t, SelectSeq(Children(t, i), LAMBDA c : t[c].tag = "summary"))

\* Mutant of UnwrapElement: the first child is the one read before the summaries left.
UnwrapToStale(t, i) ==
    [tree |-> UnwrapNode(Bare(t, i), i),
     cur |-> IF t[i].first = NoNode THEN t[i].parent ELSE t[i].first]

\* A node without children goes, and its parent with it if nothing is left.
UnwrapEmpty(bare, i, n) ==
    LET pruned == Prune(UnwrapNode(bare, i), i, n.parent)
    IN [tree |-> pruned.tree, cur |-> pruned.at]

\* Where a block stood between prev and next, there are now fore to aft.
Space(t, i, prev, fore, aft, next) ==
    IF Block(t, i) THEN InsertSpaceIfNeeded(InsertSpaceIfNeeded(t, prev, fore), aft, next)
    ELSE t

\* Siblings and children (n) are read before the summaries are removed.
UnwrapBare(bare, i, n) ==
    IF bare[i].first = NoNode THEN UnwrapEmpty(bare, i, n)
    ELSE [tree |-> Space(UnwrapNode(bare, i), i, n.prev, n.first, n.last, n.next),
          cur |-> bare[i].first]

UnwrapElement(t, i) == UnwrapBare(Bare(t, i), i, t[i])

\* Siblings are read before x leaves its place.
ReplaceWith(t, i, x) ==
    LET pruned == Prune(Replace(t, i, x), i, t[x].parent)
    IN [tree |-> IF Inline(t, x) THEN Space(pruned.tree, i, t[i].prev, x, x, t[i].next)
                 ELSE pruned.tree,
        cur |-> x]

RemoveFormatting(t) ==
    LET formatting == SelectSeq(Descendants(t, Root),
            LAMBDA n : t[n].tag \in {"text", "comment"} /\ t[n].text \in {"", "\n"})
    IN FoldLeft(RemoveNode, t, formatting)

\* Mutant of Rebuild: every slot of the arena, dead ones too.
RebuildSlots(t) == t

\* A compacted arena: the walk's nodes only, in the walk's order.
Compact(t, order) ==
    LET New(i) == IF i \in ToSet(order) THEN SelectInSeq(order, LAMBDA n : n = i)
                  ELSE NoNode
    IN [k \in 1..Len(order) |->
           [link \in DOMAIN t[order[k]] |->
               IF link \in Links THEN New(t[order[k]][link]) ELSE t[order[k]][link]]]

Rebuild(t) == Compact(t, <<Root>> \o Descendants(t, Root))

-----------------------------------------------------------------------------
(* Edits from outside a loop, on the elements a caller reaches from the      *)
(* root.                                                                     *)

Elements(t) == {i \in Live(t) \ {Root} : t[i].tag \notin {"text", "comment"}}

Edit(op, i, edited) ==
    /\ edits < MaxEdits
    /\ tree' = edited.tree
    /\ result' = edited.cur
    /\ edits' = edits + 1
    /\ last' = [op |-> op, node |-> i]
    /\ UNCHANGED <<parsed, stack, yielded>>

DoRemove(i) == Edit("remove", i, RemoveElement(tree, i))

DoUnwrap(i) == Edit("unwrap", i, UnwrapElement(tree, i))

\* x must be in the tree; a caller does not put an element inside itself.
DoReplace(i, x) ==
    /\ x \notin ({i, Root} \union ToSet(Ancestors(tree, i)))
    /\ Edit("replace", i, ReplaceWith(tree, i, x))

Insertions(t, i) ==
    {AddNextSibling(t, i, "b", ""), AddPrevSibling(t, i, "b", ""),
     AddFirstChild(t, i, "b", ""), AddLastChild(t, i, "text", "w")}

DoInsert(i) ==
    \E t \in Insertions(tree, i) : Edit("insert", i, [tree |-> t, cur |-> Len(t)])

DoRemoveChildren(i) ==
    Edit("remove_children", i, [tree |-> RemoveChildren(tree, i), cur |-> NoNode])

DoRemoveFormatting ==
    Edit("remove_formatting", Root, [tree |-> RemoveFormatting(tree), cur |-> NoNode])

-----------------------------------------------------------------------------
(* The loop over `descendants()` of the root.  An entry of the stack is a    *)
(* node and its place among its siblings.                                    *)

\* Mutant of NthChild: one place too far.
ChildPast(t, p, n) ==
    LET kids == Children(t, p) IN IF n + 1 < Len(kids) THEN kids[n + 2] ELSE NoNode

NthChild(t, p, n) ==
    LET kids == Children(t, p) IN IF n < Len(kids) THEN kids[n + 1] ELSE NoNode

\* Where the loop stands after an edit: on the same node if its parent is
\* still the one below it on the stack, else on the node that has come to
\* its place, else the same question one level up.
RECURSIVE LastUpdated(_, _)
LastUpdated(t, s) ==
    LET top == s[Len(s)]
        below == s[Len(s) - 1].node
        moved == NthChild(t, below, top.ordinal)
    IN IF Len(s) = 1 \/ t[top.node].parent = below
       THEN [changed |-> FALSE, stack |-> s]
       ELSE IF moved # NoNode
            THEN [changed |-> TRUE, stack |-> [s EXCEPT ![Len(s)].node = moved]]
            ELSE LastUpdated(t, Front(s))

\* The next sibling of the last entry that has one, the entries above it
\* dropped; <<>> at the start of the walk.
RECURSIVE NextUp(_, _)
NextUp(t, s) ==
    LET top == s[Len(s)]
        next == t[top.node].next
    IN IF Len(s) = 1 THEN <<>>
       ELSE IF next = NoNode THEN NextUp(t, Front(s))
       ELSE Append(Front(s), [node |-> next, ordinal |-> top.ordinal + 1])

FindNext(t, s) ==
    LET found == LastUpdated(t, s)
        first == t[Last(found.stack).node].first
    IN IF found.changed THEN found.stack
       ELSE IF first # NoNode THEN Append(found.stack, [node |-> first, ordinal |-> 0])
       ELSE NextUp(t, found.stack)

Start ==
    /\ stack = <<>> /\ yielded = <<>> /\ tree # Panicked
    /\ stack' = <<[node |-> Root, ordinal |-> 0]>>
    /\ UNCHANGED <<parsed, tree, result, edits, last, yielded>>

Yield ==
    /\ stack # <<>> /\ tree # Panicked /\ Len(yielded) < MaxYields
    /\ LET s == FindNext(tree, stack) IN
       /\ stack' = s
       /\ yielded' = IF s = <<>> THEN yielded ELSE Append(yielded, Last(s).node)
    /\ UNCHANGED <<parsed, tree, result, edits, last>>

-----------------------------------------------------------------------------

Init ==
    /\ tree \in {Parse(doc) : doc \in Docs}
    /\ parsed = Len(tree)
    /\ result = NoNode /\ edits = 0 /\ last = [op |-> "parse", node |-> Root]
    /\ stack = <<>> /\ yielded = <<>>

\* In a loop, the element just yielded; outside, any element of the tree.
Handles ==
    IF tree = Panicked THEN {}
    ELSE IF stack = <<>> THEN Elements(tree)
    ELSE {n \in {Last(stack).node} \ {Root} :
             tree[n].parent # NoNode /\ tree[n].tag \notin {"text", "comment"}}

Next ==
    \/ Start
    \/ Yield
    \/ \E i \in Handles : \/ DoRemove(i)
                          \/ DoUnwrap(i)
                          \/ DoInsert(i)
                          \/ DoRemoveChildren(i)
    \/ \E i \in Handles, x \in IF tree = Panicked THEN {} ELSE Live(tree) : DoReplace(i, x)
    \/ stack = <<>> /\ tree # Panicked /\ DoRemoveFormatting

Spec == Init /\ [][Next]_vars

-----------------------------------------------------------------------------
(* Properties *)

\* Whatever the edits, the links of the nodes in the tree agree: a child's
\* parent, a sibling's neighbours, and the first and last child (nodes.rs).
WellLinked ==
    tree # Panicked =>
        \A p \in Live(tree) :
            LET kids == Children(tree, p) IN
            /\ tree[p].last = IF kids = <<>> THEN NoNode ELSE Last(kids)
            /\ \A k \in 1..Len(kids) :
                  /\ tree[kids[k]].parent = p
                  /\ tree[kids[k]].prev = IF k = 1 THEN NoNode ELSE kids[k - 1]

Shape(t) ==
    LET order == Descendants(t, Root)
    IN [k \in 1..Len(order) |-> <<t[order[k]].tag, t[order[k]].text>>]

\* The rebuilt arena is the same document, and one whose index order is its
\* document order: the index ranges that the linear sweep reads are exactly
\* the subtrees that the tree walk visits (rebuilder.rs, linear_iter.rs).
RebuildIsSweepable ==
    tree # Panicked =>
        LET r == Rebuild(tree) IN
        /\ IsContiguousDfs(r)
        /\ Shape(r) = Shape(tree)
        /\ \A i \in 1..Len(r) :
              Descendants(r, i) = [k \in 1..(SubtreeEnd(r, i) - i - 1) |-> i + k]

Words(t) == SelectSeq(Descendants(t, Root), LAMBDA n : t[n].text = "w")

\* The nodes an edit of i is asked to take out of the tree.
Asked(t, op, i) ==
    CASE op \in {"remove", "replace"} -> {i} \union ToSet(Descendants(t, i))
      [] op = "remove_children" -> ToSet(Descendants(t, i))
      [] op = "unwrap" ->
            UNION {ToSet(Descendants(t, c)) : c \in
                      {k \in ToSet(Children(t, i)) : t[k].tag = "summary"}}
      [] OTHER -> {}

\* Pruning takes no words with it: an edit loses none but those of the nodes
\* it was asked to take out, and only a replacement moves any.
WordsKept ==
    [][tree' # Panicked /\ edits' # edits /\ last'.node \in Live(tree) =>
          LET asked == Asked(tree, last'.op, last'.node)
              kept == SelectSeq(Words(tree), LAMBDA n : n \notin asked)
              now == SelectSeq(Words(tree'), LAMBDA n : n <= Len(tree))
          IN /\ ToSet(kept) \subseteq ToSet(now)
             /\ last'.op # "replace" => now = kept]_vars

\* The element a removal or an unwrapping hands back is in the tree, however
\* far up the pruning went (element.rs: remove, unwrap_element).
ReturnsLive ==
    [][(/\ edits' # edits /\ tree' # Panicked
        /\ last'.op \in {"remove", "unwrap"} /\ last'.node \in Live(tree))
          => result' \in Live(tree')]_vars

\* After one edit the loop finds its place again: it meets every node that is
\* still in the tree when it ends (iters/stack.rs, last_updated).
OneEditLoopMeetsAll ==
    [][stack # <<>> /\ stack' = <<>> /\ edits <= 1
          => (Live(tree) \ {Root}) \intersect (1..parsed) \subseteq ToSet(yielded)]_vars

\* dom_wrappers.rs: the tree-walking iterator "skips dead slots and recovers
\* from mutate-while-iterating": a loop that edits the elements it meets
\* misses none of the others.
LoopMeetsAll ==
    [][stack # <<>> /\ stack' = <<>>
          => (Live(tree) \ {Root}) \intersect (1..parsed) \subseteq ToSet(yielded)]_vars

\* dom_inner.rs: replacing panics when the substitute "is the root or is not
\* in the tree"; the edits of the model never ask for that.
ReplaceSucceeds == tree # Panicked
=============================================================================
