---------------------------- MODULE MCBlockParser ----------------------------
(* The line alphabets of the runs. A document is any sequence of them. *)
EXTENDS BlockParser

\* A line: pairs of spaces and token, then the spaces before its end.
Padded(toks, pad) == [i \in 1 .. Len(toks) + 1 |->
                        IF i > Len(toks) THEN [ind |-> pad, tok |-> "eol"]
                        ELSE [ind |-> toks[i][1], tok |-> toks[i][2]]]
L(toks) == Padded(toks, 0)
a     == "text"
Empty == L(<<>>)
Plain == L(<<<<0, a>>>>)

\* Quotes and bullet lists in each other, lazy lines, blank lines.
ContainerLines ==
  {Empty, Plain, L(<<<<2, a>>>>), L(<<<<0, ">">>>>), L(<<<<0, ">">>, <<1, a>>>>),
   L(<<<<0, "-">>, <<1, a>>>>), L(<<<<2, "-">>, <<1, a>>>>),
   L(<<<<0, "-">>, <<1, ">">>, <<1, a>>>>)}

\* Every leaf block, with its ends, at the top level and in a quote.
LeafLines ==
  {Empty, Plain, L(<<<<4, a>>>>), L(<<<<0, "#">>, <<1, a>>>>), L(<<<<0, "---">>>>),
   L(<<<<0, "===">>>>), L(<<<<0, "***">>>>), L(<<<<0, "ticks3">>>>),
   L(<<<<0, "ticks4">>>>), L(<<<<0, "tildes3">>, <<1, a>>>>),
   L(<<<<0, "<!--">>, <<1, a>>>>), L(<<<<0, a>>, <<1, "-->">>>>),
   L(<<<<0, "<pre>">>, <<1, "</pre>">>>>), L(<<<<0, "<div>">>>>), L(<<<<0, "<a>">>>>),
   L(<<<<0, ">">>, <<1, a>>>>), L(<<<<0, ">">>, <<5, a>>>>), L(<<<<0, ">">>, <<1, "ticks3">>>>),
   L(<<<<0, ">">>, <<1, "===">>>>)}

\* Definitions, which leave no block: alone, in items, in quotes, lazy.
RefLines ==
  {Empty, Plain, L(<<<<0, "ref">>>>), L(<<<<2, "ref">>>>), L(<<<<0, "-">>, <<1, "ref">>>>),
   L(<<<<0, "#">>, <<1, a>>>>), L(<<<<0, ">">>, <<1, "ref">>>>), L(<<<<0, "===">>>>)}

\* Markers and contents at the columns where the rules of items turn.
ItemLines ==
  {Empty, Padded(<<>>, 3), Plain, L(<<<<2, a>>>>), L(<<<<3, a>>>>), L(<<<<6, a>>>>),
   L(<<<<0, "-">>, <<1, "-">>, <<1, a>>>>), L(<<<<0, "-">>, <<0, a>>>>),
   L(<<<<0, "-">>, <<4, a>>>>), L(<<<<0, "-">>, <<5, a>>>>), L(<<<<0, "-">>>>),
   Padded(<<<<0, "-">>>>, 8), L(<<<<1, "-">>, <<1, a>>>>), L(<<<<5, "-">>, <<1, a>>>>),
   L(<<<<1, "1.">>, <<1, a>>>>), L(<<<<2, "2.">>, <<2, a>>>>),
   L(<<<<0, "1)">>, <<1, "+">>, <<3, a>>>>)}

\* Four lines: an item, a blank line, more of the item, and what ends it. Three
\* lines: an item in an item, and a line that belongs to one of them.
Containers == {[lines |-> ContainerLines, max |-> 4], [lines |-> ItemLines, max |-> 3]}

\* Three lines: a leaf opens, goes on or not, and something else follows. Four
\* lines: two definitions in different blocks, and what closes them.
Leaves == {[lines |-> LeafLines, max |-> 3], [lines |-> RefLines, max |-> 4]}

Documents == Containers \cup Leaves

\* A heading of two lines, and a line that closes it.
Headings == {[lines |-> {Plain, L(<<<<0, "===">>>>)}, max |-> 3]}
=============================================================================
