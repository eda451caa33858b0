----------------------------- MODULE MCLineFeed -----------------------------
(* The buffers of the runs, and the documents with tabs. *)
EXTENDS Columns

Char == {"x", "cr", "nl", "nul"}
\* Every buffer of one to three characters: all callers in the sources stop
\* at a read of no bytes and never feed an empty buffer.
ReadBuffers == BoundedSeq(Char, 3) \ {<<>>}

\* A first line that opens blocks, and a second that continues them or not. A
\* marker of an item is always followed by text, so that no line is a rule or
\* an underline.
Spaces(n, m) == UNION {[1 .. k -> SpaceOrTab] : k \in n .. m}
Joined(A, B) == {a \o b : a \in A, b \in B}
Only(token) == {<<token>>}
Gaps   == {<<" ">>, <<"tab">>, <<" ", "tab">>, <<"tab", "tab">>}
Firsts ==
  LET starts == {<<">">>, <<"-">>, <<" ", "-">>, <<">", "tab", "-">>, <<"-", " ", ">">>}
  IN  Joined(Joined(starts, Gaps), {<<"x">>, <<"fence">>, <<"-", "tab", "x">>})
        \cup {<<"tab", "x">>, <<" ", "fence">>}
Seconds ==
  LET marked == Joined(Only(">"), Spaces(0, 2)) \cup Joined(Only("-"), Gaps)
  IN  Joined(Joined(Spaces(0, 2), marked), Only("x"))
        \cup Joined(Spaces(0, 3), {<<"x">>, <<"fence">>, <<>>}) \cup {<<">", " ", "fence">>}
TabDocuments == Joined(Joined(Firsts, Only("nl")), Seconds)

TabLines  == {Append(l, "eol") : l \in Firsts \cup Seconds}
ReadLines == {Append(l, "eol") : l \in BoundedSeq({"x", "repl"}, 6)}
MCColumnOf ==
  [l \in TabLines \cup ReadLines |->
     LET columns[i \in 0 .. Len(l)] == IF i = 0 THEN 0 ELSE NextColumn(columns[i - 1], l[i])
     IN  columns]

\* cmark_parse_document is given a document as a whole, once.
MCCallers ==
  [reads    |-> [buffers |-> ReadBuffers, last |-> BOOLEAN, max |-> 6, enough |-> 6],
   document |-> [buffers |-> TabDocuments, last |-> {TRUE}, max |-> 16, enough |-> 1]]
=============================================================================
