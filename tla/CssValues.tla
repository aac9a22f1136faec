----------------------------- MODULE CssValues -----------------------------
(* What the operators of an attribute selector say of a value (htmlarc-dom,  *)
(* css/patterns/attribute_operator.rs), and how a [class] pattern is tested  *)
(* against a class list without joining it (attribute_pattern.rs).  Values   *)
(* are sequences of characters; "A" is the capital of "a".                   *)
EXTENDS Integers, SequencesExt

CONSTANTS
    Tokens,       \* the classes an element may have
    Characters,   \* of a pattern
    MaxClasses,
    MaxLength     \* of a pattern

VARIABLES classes, pattern

valueVars == <<classes, pattern>>

Operators == {"=", "|=", "^=", "$=", "*=", "~="}

\* ASCII case is folded where the flag or the attribute asks for it.
Fold(s, ci) == [k \in DOMAIN s |-> IF ci /\ s[k] = "A" THEN "a" ELSE s[k]]

Holds(v, p) == \E k \in 0..(Len(v) - Len(p)) : SubSeq(v, k + 1, k + Len(p)) = p

\* The parts of v between its spaces, the empty ones too.
Parts(v) ==
    LET cuts == SetToSortSeq({0, Len(v) + 1} \union {k \in DOMAIN v : v[k] = " "}, <)
    IN [k \in 1..(Len(cuts) - 1) |-> SubSeq(v, cuts[k] + 1, cuts[k + 1] - 1)]

\* An empty pattern is nowhere in a value.
Matches(op, p, v) ==
    \/ op \in {"=", "|="} /\ v = p
    \/ op = "|=" /\ IsPrefix(Append(p, "-"), v)
    \/ /\ p # <<>>
       /\ \/ op = "^=" /\ IsPrefix(p, v)
          \/ op = "$=" /\ IsSuffix(p, v)
          \/ op = "*=" /\ Holds(v, p)
          \/ op = "~=" /\ p \in ToSet(Parts(v))

ByASpace(so) == FlattenSeq([k \in DOMAIN so |-> IF k = 1 THEN so[k] ELSE <<" ">> \o so[k]])

\* A pattern with a space in it: = compares part by part, the others join.
SpanningMatch(op, p, so) == IF op = "=" THEN so = Parts(p) ELSE Matches(op, p, ByASpace(so))

\* Mutant of InOneClass: = and |= do not ask that it is the only one.
InOneClassFirst(op, p, so) == so # <<>> /\ Matches(op, p, IF op = "$=" THEN Last(so) ELSE Head(so))

\* Without one, a match lies in a single class.
InOneClass(op, p, so) ==
    /\ so # <<>>
    /\ CASE op = "=" -> Matches(op, p, Head(so)) /\ Len(so) = 1
         [] op = "^=" -> Matches(op, p, Head(so))
         [] op = "$=" -> Matches(op, p, Last(so))
         [] op = "|=" -> Matches(op, p, Head(so)) /\ (Len(Head(so)) > Len(p) \/ Len(so) = 1)
         [] op = "*=" -> \E c \in ToSet(so) : Matches(op, p, c)

MatchesClassList(op, p, so) ==
    IF op = "~=" THEN p # <<>> /\ p \in ToSet(so)
    ELSE IF " " \in ToSet(p) THEN SpanningMatch(op, p, so)
    ELSE InOneClass(op, p, so)

-----------------------------------------------------------------------------
(* Every class list and every pattern, one class and one character at a time *)
ValuesInit == classes = <<>> /\ pattern = <<>>

AddClass ==
    /\ Len(classes) < MaxClasses
    /\ \E t \in Tokens : classes' = Append(classes, t)
    /\ UNCHANGED pattern

Extend ==
    /\ Len(pattern) < MaxLength
    /\ \E c \in Characters : pattern' = Append(pattern, c)
    /\ UNCHANGED classes

ValuesNext == AddClass \/ Extend

\* A [class] pattern says of the class list what its operator says of the
\* whole value, the classes joined by single spaces.
ClassListAsOneValue ==
    classes # <<>> =>
        \A op \in Operators, ci \in BOOLEAN :
            LET so == [k \in DOMAIN classes |-> Fold(classes[k], ci)]
                p == Fold(pattern, ci)
            IN MatchesClassList(op, p, so) <=> Matches(op, p, ByASpace(so))
=============================================================================
