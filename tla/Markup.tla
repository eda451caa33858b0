------------------------------- MODULE Markup -------------------------------
(***************************************************************************)
(* The HTML and XML renderers (src/src/html.c, src/src/xml.c): what their  *)
(* S_render_node writes for each event of the iterator. They share nothing *)
(* and run here side by side over the same tree, which comes into being as *)
(* the iterator walks it: every tree of the given size is one behavior.    *)
(*                                                                         *)
(* A renderer may be called for any node, so that the root may have        *)
(* ancestors: open holds those too. Nodes are numbered as they are entered. *)
(*                                                                         *)
(* A definition named like one after it with something added, such as      *)
(* BackAtAnyImage, is not the code: it is a plausible mistake.             *)
(***************************************************************************)
EXTENDS Integers, SequencesExt, FiniteSetsExt

CONSTANTS MaxNodes,  \* bound: the number of nodes
          Options    \* "none", "hardbreaks", "nobreaks"

Leaf   == {"hr", "code_block", "html_block", "text", "code", "softbreak", "linebreak", "html_inline"}
Block  == {"document", "block_quote", "list", "item", "paragraph", "heading", "hr",
           "code_block", "html_block", "custom_block"}
\* "emph" stands for strong too.
Inline == {"text", "code", "softbreak", "linebreak", "html_inline", "emph", "link", "image",
           "custom_inline"}
\* The children of a node in a document of the parser or one built with the API
Inside(k) == CASE k = "list" -> {"item"}
               [] k \in {"document", "block_quote", "item", "custom_block"} -> Block \ {"document", "item"}
               [] k \in {"paragraph", "heading"} \cup Inline -> Inline

VARIABLES
  open,    \* the ancestors of the next node: their type and number, tight of a list,
           \* whether there are children, and whether one of them was entered
  last,    \* the number of the last node
  root,    \* how many of open are not above the root
  option,
  html, plain,  \* html.c: what was written, and state->plain, 0 for NULL
  xml, indent,  \* xml.c: what was written, and state->indent
  texts    \* the nodes with text so far
vars == <<open, last, root, option, html, plain, xml, indent, texts>>

Node(k, n, t, c) == [kind |-> k, id |-> n, tight |-> t, children |-> c, entered |-> FALSE]
Above == {<<>>} \cup {<<Node("list", 0, t, TRUE), Node("item", 0, FALSE, TRUE)>> : t \in BOOLEAN}
Init == /\ open \in Above /\ last = 0 /\ root = Len(open) /\ option \in Options
        /\ html = <<>> /\ plain = 0 /\ xml = <<>> /\ indent = 0 /\ texts = <<>>

-----------------------------------------------------------------------------
(* What is written. Text is that of a node, escaped; Raw is HTML as it is. *)

Token(t, s) == [t |-> t, of |-> s]
Open(tag)  == Token("open", tag)
Close(tag) == Token("close", tag)
Void(tag)  == Token("void", tag)
Text(n)    == Token("text", n)
Raw(n)     == Token("raw", n)
AltBegin   == Token("alt", "")
AltEnd     == Token("end", "")
Blank      == Token("blank", "")
Nl         == Token("nl", "")

AtLineStart(h) == h = <<>> \/ Last(h) = Nl
Cr(h) == IF AtLineStart(h) THEN h ELSE Append(h, Nl)

\* Whether n is a paragraph in a tight list; above are the ancestors.
Tight(above) == LET p == Len(above) IN p > 1 /\ above[p - 1].kind = "list" /\ above[p - 1].tight

\* What h, the HTML so far, becomes with a leaf or with the begin or end of a node
PlainHtmlOfText(h, k, n) == IF k = "text" THEN Append(h, Text(n)) ELSE h
PlainHtml(h, k, n) == CASE k \in {"text", "code", "html_inline"} -> Append(h, Text(n))
                        [] k \in {"softbreak", "linebreak"} -> Append(h, Blank)
                        [] OTHER -> h

SoftBreak(h) == CASE option = "hardbreaks" -> h \o <<Void("br"), Nl>>
                  [] option = "nobreaks"   -> Append(h, Blank)
                  [] option = "none"       -> Append(h, Nl)

\* Raw HTML may end with a newline.
LeafHtml(h, k, n) ==
  CASE k = "hr"          -> {Cr(h) \o <<Void("hr"), Nl>>}
    [] k = "code_block"  -> {Cr(h) \o <<Open("pre"), Open("code"), Text(n), Close("code"), Close("pre"), Nl>>}
    [] k = "html_block"  -> LET r == Append(Cr(h), Raw(n)) IN {Cr(r), Append(r, Nl)}
    [] k = "text"        -> {Append(h, Text(n))}
    [] k = "linebreak"   -> {h \o <<Void("br"), Nl>>}
    [] k = "softbreak"   -> {SoftBreak(h)}
    [] k = "code"        -> {h \o <<Open("code"), Text(n), Close("code")>>}
    [] k = "html_inline" -> {Append(h, Raw(n))}

EnterHtmlInLine(h, k, n, above) ==
  CASE k = "document"      -> h
    [] k = "block_quote"   -> Cr(h) \o <<Open(k), Nl>>
    [] k = "list"          -> h \o <<Open(k), Nl>>
    [] k \in {"item", "heading"} -> Append(Cr(h), Open(k))
    [] k = "paragraph"     -> IF Tight(above) THEN h ELSE Append(Cr(h), Open(k))
    [] k = "custom_block"  -> Cr(Append(Cr(h), Raw(n)))
    [] k = "custom_inline" -> Append(h, Raw(n))
    [] k = "image"         -> Append(h, AltBegin)
    [] OTHER               -> Append(h, Open(k))
EnterHtml(h, k, n, above) ==
  CASE k = "document"      -> h
    [] k \in {"block_quote", "list"} -> Cr(h) \o <<Open(k), Nl>>
    [] k \in {"item", "heading"} -> Append(Cr(h), Open(k))
    [] k = "paragraph"     -> IF Tight(above) THEN h ELSE Append(Cr(h), Open(k))
    [] k = "custom_block"  -> Cr(Append(Cr(h), Raw(n)))
    [] k = "custom_inline" -> Append(h, Raw(n))
    [] k = "image"         -> Append(h, AltBegin)
    [] OTHER               -> Append(h, Open(k))

ExitHtmlOfParagraphs(h, k, n, above) ==
  CASE k = "document"      -> h
    [] k = "block_quote"   -> Cr(h) \o <<Close(k), Nl>>
    [] k \in {"list", "item", "heading", "paragraph"} -> h \o <<Close(k), Nl>>
    [] k = "custom_block"  -> Cr(Append(Cr(h), Raw(n)))
    [] k = "custom_inline" -> Append(h, Raw(n))
    [] k = "image"         -> Append(h, AltEnd)
    [] OTHER               -> Append(h, Close(k))
ExitHtml(h, k, n, above) ==
  CASE k = "document"      -> h
    [] k = "block_quote"   -> Cr(h) \o <<Close(k), Nl>>
    [] k \in {"list", "item", "heading"} -> h \o <<Close(k), Nl>>
    [] k = "paragraph"     -> IF Tight(above) THEN h ELSE h \o <<Close(k), Nl>>
    [] k = "custom_block"  -> Cr(Append(Cr(h), Raw(n)))
    [] k = "custom_inline" -> Append(h, Raw(n))
    [] k = "image"         -> Append(h, AltEnd)
    [] OTHER               -> Append(h, Close(k))

-----------------------------------------------------------------------------
(* The events. *)

Parent == Last(open)
\* The kinds that a next node can have, and the number of its ancestors
Possible == IF open = <<>> THEN Block
            ELSE IF last = 0 THEN Block \ {"document", "item"}
            ELSE IF Parent.children THEN Inside(Parent.kind) ELSE {}
\* With no node entered, or below a node of the tree
MayEnter == last < MaxNodes /\ (last = 0 \/ Len(open) > root)
Below(o) == IF o = <<>> THEN o ELSE [o EXCEPT ![Len(o)].entered = TRUE]
Element(t, k) == [t |-> t, of |-> k, at |-> indent]

EnterLeaf(k) ==
  /\ MayEnter /\ k \in Possible \cap Leaf
  /\ last' = last + 1 /\ open' = Below(open)
  /\ html' \in IF plain # 0 THEN {PlainHtml(html, k, last')} ELSE LeafHtml(html, k, last')
  /\ xml' = Append(xml, Element("empty", k))
  /\ texts' = IF k \in {"text", "code", "code_block"} THEN Append(texts, last') ELSE texts
  /\ UNCHANGED <<root, option, plain, indent>>

Enter(k) ==
  /\ MayEnter /\ k \in Possible \ Leaf
  /\ last' = last + 1
  /\ \E t, c \in BOOLEAN :
       /\ t => k = "list"
       /\ c => last' < MaxNodes
       /\ open' = Append(Below(open), Node(k, last', t, c))
       /\ xml' = Append(xml, Element(IF c THEN "open" ELSE "empty", k))
       /\ indent' = IF c THEN indent + 2 ELSE indent
  /\ html' = IF plain # 0 THEN html ELSE EnterHtml(html, k, last', open)
  /\ plain' = IF plain = 0 /\ k = "image" THEN last' ELSE plain
  /\ UNCHANGED <<root, option, texts>>

\* "back at original node"
BackAtAnyImage == IF Parent.kind = "image" THEN 0 ELSE plain
Back == IF plain = Parent.id THEN 0 ELSE plain

XmlExitOfAny == /\ indent' = indent - 2
                /\ xml' = Append(xml, [Element("close", Parent.kind) EXCEPT !.at = indent'])
XmlExit ==
  IF Parent.children
  THEN /\ indent' = indent - 2
       /\ xml' = Append(xml, [Element("close", Parent.kind) EXCEPT !.at = indent'])
  ELSE UNCHANGED <<xml, indent>>

Exit ==
  /\ Len(open) > root /\ Parent.children = Parent.entered
  /\ plain' = Back
  /\ html' = IF plain' # 0 THEN html
             ELSE ExitHtml(html, Parent.kind, Parent.id, Front(open))
  /\ XmlExit
  /\ open' = Front(open)
  /\ UNCHANGED <<last, root, option, texts>>

Done == last > 0 /\ Len(open) = root
Next == \/ \E k \in Block \cup Inline : EnterLeaf(k) \/ Enter(k)
        \/ Exit
        \/ Done /\ UNCHANGED vars
Spec == Init /\ [][Next]_vars

-----------------------------------------------------------------------------
(* What should come out. *)

\* How many elements are around the i-th piece of s
Depth(s, i) == Cardinality({j \in 1 .. i - 1 : s[j].t = "open"})
                 - Cardinality({j \in 1 .. i : s[j].t = "close"})
\* The i-th piece of s closes what the j-th opened.
Pairs(s, j, i) == /\ s[j].t = "open" /\ s[j].of = s[i].of /\ Depth(s, j) = Depth(s, i)
                  /\ \A k \in j + 1 .. i - 1 : Depth(s, k) > Depth(s, i)
Nested(s) == \A i \in DOMAIN s : s[i].t = "close" => \E j \in 1 .. i - 1 : Pairs(s, j, i)
AllClosed(s) == Cardinality({i \in DOMAIN s : s[i].t = "open"})
                  = Cardinality({i \in DOMAIN s : s[i].t = "close"})

Places(t) == {i \in DOMAIN html : html[i].t = t}
\* The places between the begin and the end of an alternative text
InAlt == {i \in DOMAIN html : \E b \in Places(AltBegin.t) :
            b < i /\ \A e \in Places(AltEnd.t) : ~(b < e /\ e <= i)}

\* Elements are closed in the order in which they were opened, also around images, whose
\* contents lose their tags, and in tight lists, whose paragraphs have none.
HtmlNests == Nested(html) /\ (Done => AllClosed(html) /\ plain = 0)
\* The alternative text of an image is text: no tag and no raw HTML is between its quotes,
\* whatever is in the image, another image too, and it ends with the image it began with.
AltIsText ==
  /\ \A i \in InAlt : html[i].t \in {"text", "blank"}
  /\ Done => Cardinality(Places(AltBegin.t)) = Cardinality(Places(AltEnd.t))
\* Every text comes out, once and in the order of the tree, in elements or alternative texts.
TextOnce ==
  /\ \A n \in ToSet(texts) : Text(n) \in ToSet(html)
  /\ \A i, j \in Places("text") : i < j => html[i].of < html[j].of
\* A block begins on a line of its own, also after the text of a tight item.
BlocksBeginLines ==
  \A i \in DOMAIN html : html[i].t = "open" /\ html[i].of \in Block \cup {"pre"}
                           => AtLineStart(SubSeq(html, 1, i - 1))
\* The elements of the XML are closed in order, and each is indented by its depth.
XmlNests ==
  /\ Nested(xml) /\ (Done => AllClosed(xml) /\ indent = 0)
  /\ \A i \in DOMAIN xml : xml[i].at = 2 * Depth(xml, i)

\* Both outputs are nested elements, and the blocks of the HTML have lines of their own.
ElementsNest == HtmlNests /\ XmlNests /\ BlocksBeginLines
\* Texts come out once, and as nothing but text where they have to.
TextsOut == AltIsText /\ TextOnce
=============================================================================
