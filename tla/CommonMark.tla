----------------------------- MODULE CommonMark -----------------------------
(***************************************************************************)
(* The CommonMark renderer (src/src/commonmark.c): the calls that          *)
(* S_render_node makes for each event of the iterator, and which           *)
(* characters outc escapes.                                                *)
(*                                                                         *)
(* A document d is the sequence of its nodes in the order in which they    *)
(* are entered; up is the parent of a node, lit its literal, and tight and *)
(* ordered are those of a list.                                            *)
(***************************************************************************)
EXTENDS Integers, SequencesExt, FiniteSetsExt

Blocks     == {"document", "quote", "list", "item", "paragraph", "heading", "hr", "code", "html"}
LeafKinds  == {"text", "softbreak", "linebreak", "hr", "code", "html"}
Digit      == {"1", "2", "3"}
NodeType   == [kind : Blocks \cup LeafKinds \cup {"emph", "strong"}, up : Nat,
               lit : Seq(STRING), tight : BOOLEAN, ordered : BOOLEAN]
Kids(d, i)   == {j \in DOMAIN d : d[j].up = i}
Earlier(d, i) == {j \in Kids(d, d[i].up) : j < i}
Later(d, i)   == {j \in Kids(d, d[i].up) : j > i}

\* cmark_iter_next: the event after e, with node 0 for the end
NextEvent(d, e) ==
  LET n == e.node IN
  IF e.enter /\ d[n].kind \notin LeafKinds
  THEN IF Kids(d, n) = {} THEN [node |-> n, enter |-> FALSE]
       ELSE [node |-> Min(Kids(d, n)), enter |-> TRUE]
  ELSE IF Later(d, n) # {} THEN [node |-> Min(Later(d, n)), enter |-> TRUE]
  ELSE [node |-> d[n].up, enter |-> FALSE]

\* get_containing_block: a block has no block after its first inline.
ContainingBlock(d, i) == Max({j \in 1 .. i : d[j].kind \in Blocks})
\* in_tight_list_item, when S_render_node sets it
InTightItem(d, i) ==
  LET b == ContainingBlock(d, i)
      tight(j) == j # 0 /\ d[j].kind = "item" /\ d[d[j].up].tight
  IN  tight(b) \/ tight(d[b].up)

-----------------------------------------------------------------------------
(* Calls of the renderer. *)

Spaces(n) == [i \in 1 .. n |-> "sp"]
Quote == <<">", "sp">>
Cr    == [op |-> "cr"]
Blankline == [op |-> "blankline"]
Content   == [op |-> "begin_content"]
NoBreaks(b) == [op |-> "no_linebreaks", to |-> b]
Push(s) == [op |-> "push", text |-> s]
Pop(n)  == [op |-> "pop", n |-> n]
\* The last field is what the characters are for; it is not in the code.
Out(s, wrap, escape, by) ==
  [op |-> "out", text |-> s, wrap |-> wrap, escape |-> escape, by |-> by]
Lit(s) == Out(s, FALSE, "LITERAL", "markup")

\* The marker of a list item, and its width.
Marker(d, i) ==
  IF d[d[i].up].ordered
  THEN <<<<"1", "2", "3">>[Cardinality(Earlier(d, i)) + 1], ".", "sp", "sp">>
  ELSE <<"sp", "sp", "-", "sp">>

FirstInItem(d, i) == Earlier(d, i) = {} /\ d[d[i].up].kind = "item"
\* "use indented form if no info, and code doesn't begin or end with a blank line"
Indented(d, i) ==
  LET lit == d[i].lit
      space(j) == lit[j] \in {"sp", "nl"}
  IN  /\ ~FirstInItem(d, i) /\ Len(lit) > 2
      /\ ~space(1) /\ ~(space(Len(lit)) /\ space(Len(lit) - 1))

CodeCalls(d, i) ==
  LET fence == <<Lit(<<"tick">>), Lit(<<"tick">>), Lit(<<"tick">>)>>
      code  == Out(d[i].lit, FALSE, "LITERAL", "text")
  IN  (IF FirstInItem(d, i) THEN <<>> ELSE <<Blankline>>)
      \o (IF Indented(d, i) THEN <<Lit(Spaces(4)), Push(Spaces(4)), code, Pop(4)>>
          ELSE fence \o <<Lit(<<"sp">>), Lit(<<>>), Cr, code, Cr>> \o fence)
      \o <<Blankline>>

\* "If we have EMPH(EMPH(x)), we need to use *_x_*"
EmphDelim(d, i) ==
  IF d[d[i].up].kind = "emph" /\ Kids(d, d[i].up) = {i} THEN "under" ELSE "*"

\* S_render_node; noLB is renderer->no_linebreaks.
Calls(d, e, width, option, noLB) ==
  LET i    == e.node
      k    == d[i].kind
      wrap == width > 0 /\ option = "none"
  IN  CASE k = "quote" ->
             IF e.enter THEN <<Out(Quote, FALSE, "LITERAL", "bullet"), Content, Push(Quote)>>
             ELSE <<Pop(2), Blankline>>
        [] k = "list" ->
             IF ~e.enter /\ Later(d, i) # {} /\ d[Min(Later(d, i))].kind \in {"code", "list"}
             THEN <<Cr, Lit(<<"<", "!", "-", "-", ">">>), Blankline>> ELSE <<>>
        [] k = "item" ->
             IF e.enter THEN <<Out(Marker(d, i), FALSE, "LITERAL", "bullet"), Content,
                               Push(Spaces(Len(Marker(d, i))))>>
             ELSE <<Pop(Len(Marker(d, i))), Cr>>
        [] k = "heading" ->
             IF e.enter THEN <<Lit(<<"#">>), Lit(<<"sp">>), Content, NoBreaks(TRUE)>>
             ELSE <<NoBreaks(FALSE), Blankline>>
        [] k = "code" -> CodeCalls(d, i)
        [] k = "hr" -> <<Blankline, Lit(<<"-", "-", "-", "-", "-">>), Blankline>>
        [] k = "paragraph" -> IF e.enter THEN <<>> ELSE <<Blankline>>
        [] k = "text" -> <<Out(d[i].lit, wrap, "NORMAL", "text")>>
        [] k = "linebreak" ->
             (IF option = "hardbreaks" THEN <<>> ELSE <<Lit(<<"sp", "sp">>)>>) \o <<Cr>>
        [] k = "softbreak" ->
             IF option = "hardbreaks" THEN <<Lit(<<"sp", "sp">>), Cr>>
             ELSE IF ~noLB /\ width = 0 /\ option # "nobreaks" THEN <<Cr>>
             ELSE <<Out(<<"sp">>, wrap, "LITERAL", "text")>>
        [] k = "html" -> <<Blankline, Out(d[i].lit, FALSE, "LITERAL", "text"), Blankline>>
        [] k = "emph" -> <<Lit(<<EmphDelim(d, i)>>)>>
        [] k = "strong" -> <<Lit(<<"*", "*">>)>>
        [] OTHER -> <<>>

\* outc: the character needs a backslash in NORMAL text.
NeedsEscaping(c, nextc, beginContent, followsDigit) ==
  \/ c \in {"*", "tick", ">", "#"}
  \/ beginContent /\ c = "-" /\ ~followsDigit
  \/ beginContent /\ c = "." /\ followsDigit /\ nextc \in {"eof", "sp", "nl"}
=============================================================================
