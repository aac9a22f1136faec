----------------------------- MODULE DocContent -----------------------------
(* What a document is to the caller who edits it: elements with a name, a    *)
(* list of attributes, a list of classes and their children.  There are no   *)
(* ids, runs, offsets or index orders here, and repackaging changes nothing. *)
EXTENDS Integers, FiniteSets, SequencesExt

CONSTANTS
    Attributes,     \* pairs of a name and a value
    ClassNames,
    ChildNames      \* what a new element can be

VARIABLE content    \* from elements to [name, attrs, classes, children]

AddedTo(s, x) == IF x \in ToSet(s) THEN s ELSE Append(s, x)

WithAttribute(c, e, a) == [c EXCEPT ![e].attrs = AddedTo(@, a)]

WithoutAttribute(c, e, name) ==
    [c EXCEPT ![e].attrs = SelectSeq(@, LAMBDA a : a[1] # name)]

WithClass(c, e, class) == [c EXCEPT ![e].classes = AddedTo(@, class)]

WithoutClass(c, e, class) ==
    [c EXCEPT ![e].classes = SelectSeq(@, LAMBDA k : k # class)]

NewElement(name) == [name |-> name, attrs |-> <<>>, classes |-> <<>>, children |-> <<>>]

WithChild(c, e, new, name) ==
    [x \in DOMAIN c \union {new} |->
        IF x = new THEN NewElement(name)
        ELSE IF x = e THEN [c[e] EXCEPT !.children = Append(@, new)]
        ELSE c[x]]

\* Nothing but e goes with its children but what hangs below it.
WithoutChildren(c, e) ==
    LET below[k \in Nat] ==
            IF k = 0 THEN ToSet(c[e].children)
            ELSE LET upper == below[k - 1]
                 IN upper \union UNION {ToSet(c[x].children) : x \in upper}
    IN [x \in DOMAIN c \ below[Cardinality(DOMAIN c)] |->
            IF x = e THEN [c[e] EXCEPT !.children = <<>>] ELSE c[x]]

\* One call on one element.
Edit(before, after, e) ==
    \/ \E a \in Attributes :
          after \in {WithAttribute(before, e, a), WithoutAttribute(before, e, a[1])}
    \/ \E class \in ClassNames :
          after \in {WithClass(before, e, class), WithoutClass(before, e, class)}
    \/ \E new \in DOMAIN after \ DOMAIN before, name \in ChildNames :
          after = WithChild(before, e, new, name)
    \/ after = WithoutChildren(before, e)

Init == DOMAIN content # {}

Next ==
    \E before \in {content}, after \in {content'} :
        \E e \in DOMAIN before : Edit(before, after, e)

Spec == Init /\ [][Next]_content
=============================================================================
