----------------------------- MODULE MCDocEdits -----------------------------
(* Three parsed documents: one whose elements share entries and classes and   *)
(* whose second custom name has no byte of its own, one with the overflow     *)
(* name on top of a removed subtree, and one without any run.  Custom name 1  *)
(* is also a class.                                                           *)
EXTENDS DocEdits

Shared ==
    LET outer == AddAttribute(PushTag(NewBuilder, <<"ext", 2>>), <<"class", 0>>, <<1, 2>>)
        inner == AddAttribute(PushTag(AddAttribute(outer, Std(1), 1), <<"ext", 1>>), Std(1), 1)
    IN AddAttribute(inner, <<"class", 0>>, <<2>>)

Nested ==
    LET first == PopTag(AddAttribute(PushTag(NewBuilder, <<"ext", 2>>), <<"ext", 2>>, 0))
        second == PushTag(PushTag(first, Std("ul")), <<"ext", 1>>)
    IN AddAttribute(second, <<"ext", 2>>, 1)

Bare == AddText(PushTag(PushTag(NewBuilder, Std("ul")), Std("br")), "text", <<1>>)

MCDocs == {Shared, Nested, Bare}
MCAttributes == {<<Std(1), 1>>, <<Std(1), 0>>, <<<<"ext", 1>>, 1>>}
MCClassNames == {0, 2}
MCChildNames == {"br"}
=============================================================================
