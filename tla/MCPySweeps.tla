----------------------------- MODULE MCPySweeps -----------------------------
(* Up to two processes and two sweeps; archives with every outcome.          *)
EXTENDS PySweeps

MCArchives == {<<"hit", "miss", "hit">>, <<"miss", "bad", "panic">>, <<>>}

MCNoValue == 0 - 1
Row(text, attr) == [text |-> text, attr |-> attr]

MCChunks == [rows : {<<Row(1, MCNoValue)>>, <<Row(0, 0), Row(2, 2)>>, <<Row(3, 1)>>, <<Row(6, 1)>>,
                     <<Row(1, 2), Row(0, 1), Row(2, MCNoValue)>>},
             meta : {MCNoValue, 0, 1, 3}]
=============================================================================
