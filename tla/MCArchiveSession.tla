-------------------------- MODULE MCArchiveSession --------------------------
(* ArchiveSession on three keys whose order by grapheme count is not their *)
(* order as texts, and filters of every kind; a selector finds the texts   *)
(* of even or of odd number.                                               *)
EXTENDS KeyFilter

MCKeys == {<<1, 3>>, <<2, 1>>, <<2, 2>>}

Rules(css, words) == [css |-> css, words |-> words]
No == Rules({}, {})

MCFilters ==
  {[include |-> i, exclude |-> x] :
     i \in {No, Rules({0}, {}), Rules({0}, MCKeys), Rules({}, {<<2, 1>>, <<9, 9>>, <<1, 3>>})},
     x \in {No, Rules({}, {<<2, 2>>, <<1, 3>>}), Rules({1}, {<<2, 1>>})}}

MCSelects(selector, text) == text % 2 = selector

=============================================================================
