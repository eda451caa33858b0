---------------------------- MODULE MCEsisChain -----------------------------
(***************************************************************************)
(* EsisChain for TLC: elements with and without a handler, with the        *)
(* attributes that make a difference, one of them without a value.         *)
(***************************************************************************)
EXTENDS EsisChain

Att(n, v) == [name |-> n, val |-> v]
Elem(gi, atts) == [gi |-> gi, atts |-> atts]
MCTags ==
  {Elem("mark-up", <<Att("mode", "block"), Att("syntax", "z")>>),
   Elem("mark-up", <<Att("mode", ""), Att("syntax", "cmark")>>),
   Elem("em", <<>>), Elem("em", <<Att("mode", ""), Att("label", "v"), Att("mode", "")>>)}
MCTexts == {<<"bs", "nl", "n">>, <<"ctl", "1">>, <<"bs", "1">>}
MCMarked == {<<"a">>, <<"b">>}
=============================================================================
