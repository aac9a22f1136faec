------------------------------- MODULE MCCss --------------------------------
(* Selector texts of pieces with which every reader is reached, alone and     *)
(* inside the others; and, beside them, class lists of classes that are each  *)
(* other's prefix, suffix, dashed form and capital, with patterns of [class]. *)
(* The two have nothing in common: one stays empty while the other grows.     *)
EXTENDS CssText, CssValues

MCPieces ==
    { <<Name("p")>>, <<Sign("*")>>, <<Sign("."), Name("x")>>, <<Sign("#"), Name("y")>>,
      <<Sign("#"), Name("z")>>, <<Space>>, <<Sign(">")>>, <<Sign(",")>>, <<Sign(")")>>,
      <<Sign("["), Name("text"), Sign("]")>>,
      <<Sign("["), Name("text"), <<"op", "=">>, <<"string", "">>, Sign("]")>>,
      <<Sign("["), Name("class"), <<"op", "~=">>, <<"string", "v">>, Sign("]")>>,
      <<Sign("["), Name("class"), <<"op", "~=">>, <<"string", "a b">>, Space, Name("s"), Sign("]")>>,
      <<Sign("["), Name("class"), <<"op", "~=">>, <<"string", "a.b">>, Sign("]")>>,
      <<Sign("["), Name("t"), <<"op", "=">>, <<"string", "&lt;">>, Space, Name("i"), Sign("]")>>,
      <<Sign("["), Name("t"), <<"op", "=">>, <<"string", "&amp;lt;">>, Sign("]")>>,
      <<Sign("["), Name("t"), <<"op", "=">>, <<"string", "it's">>, Sign("]")>>,
      <<Sign(":"), Name("root")>>, <<Sign(":"), Name("not"), Sign("(")>>, <<Sign(":"), Name("has"), Sign("(")>>,
      <<Sign(":"), Name("has"), Sign("("), Sign("~"), Sign("."), Name("w")>>,
      <<Sign(":"), Name("nth-child"), Sign("("), <<"number", 2>>, Name("n")>>,
      <<Sign(":"), Name("nth-child"), Sign("("), <<"number", 0>>, Name("n")>>,
      <<Sign(":"), Name("nth-of-type"), Sign("("), Sign("-"), Name("n")>>,
      <<Sign(":"), Name("nth-child"), Sign("("), <<"number", 3>>>>,
      <<Sign(":"), Name("nth-last-child"), Sign("("), Name("odd")>>,
      <<Sign("+"), <<"number", 1>>>> }

MCTokens == {<<"a">>, <<"A">>, <<"a", "-">>, <<"-", "a">>, <<"b", "a">>}
MCCharacters == {"a", "A", "-", " "}

MCInit == Init /\ ValuesInit

MCNext ==
    \/ ValuesInit /\ Type /\ UNCHANGED valueVars
    \/ Init /\ ValuesNext /\ UNCHANGED vars

MCSpec == MCInit /\ [][MCNext]_<<vars, valueVars>>
=============================================================================
