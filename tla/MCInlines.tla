----------------------------- MODULE MCInlines -----------------------------
(***************************************************************************)
(* Instance of Inlines for TLC: the texts that are parsed. Each corpus is  *)
(* for some of the handlers and for what they do to each other's stacks.   *)
(***************************************************************************)
EXTENDS Inlines

CONSTANTS MaxEmph,   \* texts for emphasis
          MaxMixed,  \* texts with several kinds of special character
          MaxRuns,   \* runs of backticks in a text
          MaxLinks,  \* texts with brackets
          MaxDefs    \* definitions of link references

MCFold == [A |-> "a"]
MCWidth == [t \in {"![", "(u)", "<u>"} \cup Ticks |->
              CASE t = "![" -> 2 [] t = "(u)" -> 3 [] t = "<u>" -> 5 [] OTHER -> TickLen[t]]
\* Labels that begin with a and b share a chain; those with a share a hash.
MCHash == [a |-> 2, b |-> 4]

Corpus(pieces, max, defs, smart) ==
  [pieces |-> pieces, max |-> max, defs |-> defs, smart |-> smart]
Each(tokens) == {<<t>> : t \in tokens}
One(text) == Corpus({text}, 1, <<>>, FALSE)

EmphasisCorpora ==
  { Corpus(Each({"a", "*", "_"}), MaxEmph, <<>>, FALSE),
    Corpus(Each({"a", "*", " "}), MaxEmph, <<>>, FALSE),
    Corpus(Each({"a", "*", "_", ".", " "}), MaxMixed, <<>>, FALSE),
    Corpus(Each({"a", "*", "'", " "}), MaxMixed, <<>>, TRUE),
    Corpus(Each({"a", "'", "."}), MaxMixed, <<>>, TRUE),
    \* openers_bottom raised in haste
    One(<<"_", "*", "*", "a", "*", "a", "*", "*">>),
    One(<<"*", "_", "_", ".", "_", ".", "_", "_", "*">>) }

OtherCorpora ==
  { Corpus(Each({"a", "*", " ", "nl", "bs"}), MaxMixed, <<>>, FALSE),
    Corpus({<<t, "a">> : t \in Ticks}, MaxRuns, <<>>, FALSE) }

LinkCorpora ==
  { Corpus({<<"[">>, <<"![">>, <<"]", "(u)">>, <<"]">>}, MaxLinks, <<>>, FALSE),
    Corpus({<<"[">>, <<"]", "(u)">>, <<"*">>, <<"a">>}, MaxLinks, <<>>, FALSE),
    Corpus(Each({"[", "![", "]", "*", "a", "b"}), MaxMixed, <<<<"a">>>>, FALSE),
    Corpus(Each({"[", "]", "a", "b"}), MaxLinks, <<<<"a">>>>, FALSE),
    Corpus(Each({"[", "]", "<u>", "bs", "tick", "a"}), MaxMixed, <<<<"a">>>>, FALSE) }

Labels == {<<"a">>, <<"A">>, <<"b">>, <<"a", " ", " ", "b">>, <<"A", "nl", "b">>, <<"a", "b">>}
RefCorpora ==
  {Corpus({<<"[", "a", " ", "b", "]">>}, 1, d, FALSE) : d \in UNION {[1 .. k -> Labels] : k \in 1 .. MaxDefs}}

MCCorpora == EmphasisCorpora \cup OtherCorpora \cup LinkCorpora \cup RefCorpora
=============================================================================
