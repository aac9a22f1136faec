----------------------------- MODULE MCDomEdit -----------------------------
(* DomEdit on documents with inline neighbours around blocks, nested blocks *)
(* that empty, whitespace and a summary.  Rows are <<parent, tag, text>>.   *)
EXTENDS DomEdit

MCDocs == {
    \* <b>w</b><div><summary>w</summary><b>w</b></div><b></b>
    <<<<1, "b", "">>, <<2, "text", "w">>, <<1, "div", "">>, <<4, "summary", "">>,
      <<5, "text", "w">>, <<4, "b", "">>, <<7, "text", "w">>, <<1, "b", "">>>>,
    \* <b>w</b><div><div></div>\n</div><b>w</b>
    <<<<1, "b", "">>, <<2, "text", "w">>, <<1, "div", "">>, <<4, "div", "">>,
      <<4, "text", "\n">>, <<1, "b", "">>, <<7, "text", "w">>>>,
    \* <b><b>w</b></b><div></div><br>
    <<<<1, "b", "">>, <<2, "b", "">>, <<3, "text", "w">>, <<1, "div", "">>, <<1, "br", "">>>>,
    \* <body><div><!----></div> </body>
    <<<<1, "body", "">>, <<2, "div", "">>, <<3, "comment", "">>, <<2, "text", " ">>>> }

\* <div><div></div><b> </b></div><div>w</div><div>w</div><div>w</div>
LoopDocs == {
    <<<<1, "div", "">>, <<2, "div", "">>, <<2, "b", "">>, <<4, "text", " ">>,
      <<1, "div", "">>, <<6, "text", "w">>, <<1, "div", "">>, <<8, "text", "w">>,
      <<1, "div", "">>, <<10, "text", "w">>>>}
=============================================================================
