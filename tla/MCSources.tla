------------------------------ MODULE MCSources -----------------------------
(* Inputs of three records, entries or files each.                           *)
EXTENDS Sources

MCKeys == {"a", "b"}
MCNfc(key) == IF key = "b'" THEN "b" ELSE key      \* b' is b, decomposed
MCValue(body) == body \div 2

\* Records by number: files of members of records.
Layouts == { << << <<1, 2>>, <<3>> >> >>,
             << << <<1>>, <<2>> >>, << <<3>> >> >>,
             << << <<1>> >>, << <<>>, <<2, 3>> >> >> }

Contents == [1..3 -> {[key |-> "a", html |-> TRUE], [key |-> "b", html |-> TRUE],
                      [key |-> "a", html |-> FALSE], [key |-> NoKey, html |-> TRUE]}]

\* At most one member is damaged.
Faults == {[file |-> 0, member |-> 0, kind |-> "none"]}
             \union [file : 1..2, member : 1..2, kind : {"member", "record"}]

WarcInput(layout, contents, damage) ==
    [f \in DOMAIN layout |->
       [present |-> TRUE,
        members |-> [m \in DOMAIN layout[f] |->
          [recs |-> [o \in DOMAIN layout[f][m] |->
                       contents[layout[f][m][o]] @@ [body |-> layout[f][m][o]]],
           fault |-> IF damage.file = f /\ damage.member = m THEN damage.kind ELSE "none"]]]]

Titles == {"a", "b'", NoTitle}
Entry(i, title, cluster, body) ==
    [content |-> TRUE, html |-> TRUE, title |-> title, url |-> IF i = 3 THEN "b" ELSE "u", cluster |-> cluster,
     body |-> body]

Dressed(entries) ==
    {entries, [entries EXCEPT ![2].html = FALSE], [entries EXCEPT ![1].content = FALSE, ![1].html = FALSE],
     [entries EXCEPT ![3].body = NoBody]}

MCInit ==
    /\ Start
    /\ \E command \in {"convert", "extract", "stats"}, limit \in {1, 2, NoLimit} :
       \E given \in BOOLEAN, lines \in {{}, {"b'"}} :
         /\ command # "convert" => ~given
         /\ ~given => lines = {}
         /\ command = "extract" => limit = NoLimit
         /\ \E format \in {"warc", "zim", "dir"} :
              settings = [format |-> format, command |-> command, given |-> given, lines |-> lines,
                          limit |-> limit, want |-> "b"]
    /\ \/ /\ Format = "warc"
          /\ \E layout \in Layouts, contents \in Contents, damage \in Faults :
               disk = WarcInput(layout, contents, damage)
       \/ /\ Format = "zim"
          /\ \E titles \in [1..3 -> Titles], clusters \in [1..3 -> {1, 2}], broken \in {{}, {2}} :
             \E entries \in Dressed([i \in 1..3 |-> Entry(i, titles[i], clusters[i], i)]) :
               disk = [entries |-> entries, broken |-> broken]
       \/ /\ Format = "dir"
          /\ disk \in {[i \in 1..n |-> [present |-> TRUE, key |-> <<"a", "b", "b'">>[i], body |-> i]] : n \in 0..3}

Spec == MCInit /\ [][Next]_vars
=============================================================================
