------------------------------- MODULE Writer -------------------------------
(***************************************************************************)
(* The renderers as print_document of src/src/main.c calls them: one of    *)
(* them writes the document, with the options for all and, if it is one    *)
(* that wraps, the width. The HTML and XML renderers are in Markup, which  *)
(* runs both over one tree; the others share the buffer of Renderer.       *)
(* Options are those of both.                                              *)
(***************************************************************************)
EXTENDS Renderer

CONSTANT MaxNodes   \* bound: the number of nodes, for Markup

VARIABLES
  writer,   \* the argument of print_document: "markup" or "wrapping"
  open, last, root, html, plain, xml, indent, texts   \* those of Markup
Tagged == INSTANCE Markup
tree == <<open, last, root, html, plain, xml, indent, texts>>
writerVars == <<writer, vars, tree>>

\* The one that is not called stays as it is, with any document.
AnyDoc == CHOOSE d \in Docs : TRUE
PrintInit ==
  /\ \/ writer = "markup" /\ doc = AnyDoc /\ width = 0
     \/ writer = "wrapping" /\ open = <<>>
  /\ Init /\ Tagged!Init
PrintNext ==
  \/ writer = "markup" /\ Tagged!Next /\ UNCHANGED <<writer, vars>>
  \/ writer = "wrapping" /\ Next /\ UNCHANGED <<writer, tree>>
PrintSpec == PrintInit /\ [][PrintNext]_writerVars

-----------------------------------------------------------------------------
\* What html.c and xml.c write is nested elements, blocks on lines of their own
\* (see Markup).
ElementsNest == Tagged!ElementsNest
\* Every text is written once, and in the alternative text of an image nothing
\* but text (see Markup).
TextsOut == Tagged!TextsOut
=============================================================================
