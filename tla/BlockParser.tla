----------------------------- MODULE BlockParser -----------------------------
(***************************************************************************)
(* Phase 1 of CommonMark parsing: how src/src/blocks.c turns lines into a  *)
(* tree of blocks. A line goes through check_open_blocks (which open       *)
(* blocks does it continue?), open_new_blocks (which blocks does it        *)
(* start?) and add_text_to_container (where does its text go?), and closes *)
(* blocks in each of the three. One action is one turn of one of their     *)
(* loops, so that the states in which the tree is half updated are states  *)
(* of the model.                                                           *)
(*                                                                         *)
(* A line is a sequence of tokens, each with the columns of space before   *)
(* it; the last token is "eol". A token is what one scanner recognises or  *)
(* a piece of text. Columns, tabs and the wording of text are left out.    *)
(*                                                                         *)
(* A definition named like one after it with something added, such as      *)
(* DropListed, is not the code: it is a plausible mistake, and some        *)
(* property must fail when it takes the place of the code's definition.    *)
(***************************************************************************)
EXTENDS Naturals, SequencesExt, FiniteSetsExt

CONSTANTS Corpora,   \* bound: a document has its lines from one of these sets of
                     \* lines, and no more of them than the corpus allows
          MaxBlocks  \* bound: blocks that exist at one time

Lines    == UNION {c.lines : c \in Corpora}
MaxLines == Max({c.max : c \in Corpora})
Document(d) == \E c \in Corpora : Len(d) <= c.max /\ ToSet(d) \subseteq c.lines

ASSUME BoundsAssumption == /\ \A c \in Corpora : c.max \in Nat
                           /\ MaxBlocks \in Nat \ {0}
ASSUME LinesAssumption ==
  \A l \in Lines : /\ l \in Seq([ind : Nat, tok : STRING]) /\ l # <<>>
                  /\ \A i \in DOMAIN l : l[i].tok = "eol" <=> i = Len(l)

VARIABLES
  nodes,      \* block -> its fields, or Unused
  current,    \* parser->current: the block the last line ended in
  refs,       \* lines that became link reference definitions, in order
  lineno,     \* parser->line_number
  rest,       \* what is left of the line from parser->offset on
  pc,         \* where S_process_line is
  container,  \* its local of that name
  matched,    \* last_matched_container
  lazy,       \* maybe_lazy
  adding,     \* the blocks the current line is about to add
  input       \* history: the lines read so far
vars == <<nodes, current, refs, lineno, rest, pc, container, matched, lazy,
          adding, input>>
line == <<lineno, input>>

Id     == 1 .. MaxBlocks
Root   == 1
None   == 0
Unused == [type |-> "unused"]
Live   == {n \in Id : nodes[n] # Unused}

-----------------------------------------------------------------------------
(* Tokens: what the scanners (scanners.re) and parse_list_marker look for. *)

FenceOf == [t \in {"ticks3", "ticks4", "tildes3"} |->
              [char |-> IF t = "tildes3" THEN "tilde" ELSE "tick",
               len  |-> IF t = "ticks4" THEN 4 ELSE 3]]
HtmlStart == [t \in {"<pre>", "<!--", "<div>", "<a>", "</pre>"} |->
                CASE t = "<pre>" -> 1 [] t = "<!--" -> 2
                  [] t = "<div>" -> 6 [] OTHER -> 7]
HtmlEnd(t)  == CASE t = 1 -> {"</pre>"} [] t = 2 -> {"-->"} [] OTHER -> {}
Underline   == {"===", "---", "-"}
Rule        == {"---", "***"}
\* scan_thematic_break reads to the end of the line.
ASSUME RulesAssumption ==
  \A l \in Lines : \A i \in DOMAIN l : l[i].tok \in Rule => l[i + 1].tok = "eol"
Marker == [t \in {"-", "+", "*", "1.", "2.", "1)"} |->
             [kind  |-> IF t \in {"1.", "2."} THEN "." ELSE IF t = "1)" THEN ")" ELSE t,
              start |-> IF t = "2." THEN 2 ELSE 1,
              width |-> IF t \in {"-", "+", "*"} THEN 1 ELSE 2]]

Indent   == Head(rest).ind
Tok      == Head(rest).tok
Blank    == Tok = "eol"
Indented == Indent >= 4
Eol      == <<[ind |-> 0, tok |-> "eol"]>>

\* S_advance_offset over k columns of space, and over all of it
Skip(l, k)  == [l EXCEPT ![1].ind = @ - k]
SkipAll(l)  == Skip(l, l[1].ind)
\* the optional space after a ">"
SkipOne(l)  == IF l[1].ind > 0 THEN Skip(l, 1) ELSE l

-----------------------------------------------------------------------------
(* The tree. *)

Type(n)     == nodes[n].type
Accepts(t)  == t \in {"paragraph", "heading", "code_block"}     \* accepts_lines
CanContain(p, c) == \/ p \in {"document", "block_quote", "item"}
                    \/ p = "list" /\ c = "item"

\* The blocks from n upwards, n first: the loops over ->parent.
Up(ns, n) == LET up[i \in 0 .. MaxBlocks] ==
                   IF i = 0 THEN n
                   ELSE IF up[i - 1] = None THEN None ELSE ns[up[i - 1]].parent
             IN  {up[i] : i \in 0 .. MaxBlocks} \ {None}
TailsShallow(ns, n) == {n}
\* The blocks ends_with_blank_line visits: last children of lists and items.
Tails(ns, n) ==
  LET down[i \in 0 .. MaxBlocks] ==
        IF i = 0 THEN n
        ELSE IF /\ down[i - 1] # None
                /\ ns[down[i - 1]].type \in {"list", "item"}
                /\ ns[down[i - 1]].kids # <<>>
             THEN Last(ns[down[i - 1]].kids) ELSE None
  IN  {down[i] : i \in 0 .. MaxBlocks} \ {None}

LastChild(n) == LET k == nodes[n].kids IN IF k # <<>> THEN Last(k) ELSE None
LastOpenChild(n) == LET k == nodes[n].kids IN
  IF k # <<>> /\ nodes[Last(k)].open THEN Last(k) ELSE None

\* make_block; "as" is the union of cmark_node, for the types that use it
Block(t, as) == [type |-> t, parent |-> None, kids |-> <<>>, open |-> TRUE,
                 blank |-> FALSE, start |-> lineno, end |-> lineno,
                 text |-> <<>>, as |-> as]

\* S_last_line_blank of an item or below it decides; looked at when a list closes
EndsBlank(ns, n) == \E m \in Tails(ns, n) : ns[m].blank
Tight(ns, l) ==
  LET items == ns[l].kids IN
  ~ \E i \in DOMAIN items :
      \/ ns[items[i]].blank /\ i < Len(items)
      \/ LET sub == ns[items[i]].kids IN
         \E j \in DOMAIN sub :
           EndsBlank(ns, sub[j]) /\ (i < Len(items) \/ j < Len(sub))

\* Leading reference definitions of a paragraph: the loop in finalize.
RefCount(text) == LET stop == {i \in DOMAIN text : text[i].what # "ref"}
                  IN  IF stop = {} THEN Len(text) ELSE Min(stop) - 1
RefsOf(ns, n) == IF ns[n].type # "paragraph" THEN <<>>
                 ELSE LET t == SubSeq(ns[n].text, 1, RefCount(ns[n].text))
                      IN  [i \in DOMAIN t |-> t[i].line]
WithoutRefsOneMore(text) == SubSeq(text, RefCount(text) + 2, Len(text))
WithoutRefs(text) == SubSeq(text, RefCount(text) + 1, Len(text))
\* remove_trailing_blank_lines
Trim(text) == LET keep == {i \in DOMAIN text : text[i].what # "blank"}
              IN  SubSeq(text, 1, IF keep = {} THEN 0 ELSE Max(keep))

DropListed(ns, n) == [ns EXCEPT ![n] = Unused]
\* cmark_node_free of a childless block
Drop(ns, n) == [ns EXCEPT ![ns[n].parent].kids = RemoveFirst(@, n), ![n] = Unused]

EndLineNow(b) == lineno
\* The line a block ends on; at the end of input there is no current line.
EndLine(b) == IF \/ pc = "finish"
                 \/ b.type = "document"
                 \/ b.type = "code_block" /\ b.as.char # "none"
                 \/ b.type = "heading" /\ b.as.setext
              THEN lineno ELSE lineno - 1

\* finalize(b), but for the entries in the reference map (RefsOf)
Finalize(ns, n) ==
  LET b == [ns[n] EXCEPT !.open = FALSE, !.end = EndLine(ns[n])] IN
  CASE b.type = "paragraph" ->
         LET text == WithoutRefs(b.text)
         IN  IF text = <<>> THEN Drop(ns, n)
             ELSE [ns EXCEPT ![n] = [b EXCEPT !.text = text]]
    [] b.type = "code_block" /\ b.as.char = "none" ->
         [ns EXCEPT ![n] = [b EXCEPT !.text = Trim(@)]]
    [] b.type = "list" ->
         [ns EXCEPT ![n] = [b EXCEPT !.as.tight = Tight(ns, n)]]
    [] OTHER -> [ns EXCEPT ![n] = b]

ClosePrepending(n) == /\ nodes' = Finalize(nodes, n)
                      /\ refs'  = RefsOf(nodes, n) \o refs
Close(n) == /\ nodes' = Finalize(nodes, n)
            /\ refs'  = refs \o RefsOf(nodes, n)

\* add_line: r, what is left of the line, goes to n. A definition counts only
\* at the very start of a line.
What(r) == CASE r[1].tok = "eol" -> "blank"
             [] r[1] = [ind |-> 0, tok |-> "ref"] -> "ref"
             [] OTHER -> "text"
WithLine(ns, n, r) ==
  [ns EXCEPT ![n].text = Append(@, [line |-> lineno, what |-> What(r)])]

-----------------------------------------------------------------------------
Init == /\ nodes = [n \in Id |->
                      IF n = Root
                      THEN [type |-> "document", parent |-> None, kids |-> <<>>,
                            open |-> TRUE, blank |-> FALSE, start |-> 1, end |-> 1,
                            text |-> <<>>, as |-> <<>>]
                      ELSE Unused]
        /\ current = Root
        /\ refs = <<>>
        /\ lineno = 0
        /\ rest = <<>>
        /\ pc = "idle"
        /\ container = None
        /\ matched = None
        /\ lazy = FALSE
        /\ adding = <<>>
        /\ input = <<>>

\* S_process_line is called with the next line.
ReadLine(l) ==
  /\ pc = "idle"
  /\ Document(Append(input, l))
  /\ lineno' = lineno + 1
  /\ input' = Append(input, l)
  /\ rest' = l
  /\ pc' = "check"
  /\ container' = Root
  /\ UNCHANGED <<nodes, current, refs, matched, lazy, adding>>

EndOfLine == /\ pc' = "idle"
             /\ rest' = <<>>
             /\ container' = None
             /\ matched' = None
             /\ lazy' = FALSE
             /\ adding' = <<>>

-----------------------------------------------------------------------------
(* check_open_blocks: n is the open last child of container. *)

\* The prefix of n matches and leaves r of the line.
Descend(n, r) == /\ container' = n
                 /\ rest' = r
                 /\ UNCHANGED <<nodes, current, refs, pc, matched, lazy, adding, line>>

StopChecking == /\ matched' = container
                /\ lazy' = (Type(current) = "paragraph")
                /\ pc' = "open"
                /\ UNCHANGED <<nodes, current, refs, rest, container, adding, line>>

QuoteGoesOn == Indent <= 3 /\ Tok = ">"
ItemByIndent(n) == Indent >= nodes[n].as.need
ItemByBlank(n)  == Blank /\ nodes[n].kids # <<>>
ClosesFence(n)  == /\ Indent <= 3
                   /\ Tok \in DOMAIN FenceOf
                   /\ FenceOf[Tok].char = nodes[n].as.char
                   /\ FenceOf[Tok].len >= nodes[n].as.len
                   /\ rest[2].tok = "eol"

CheckQuote(n) == /\ Type(n) = "block_quote"
                 /\ QuoteGoesOn
                 /\ Descend(n, SkipOne(Tail(rest)))

CheckItem(n) == /\ Type(n) = "item"
                /\ \/ ItemByIndent(n) /\ Descend(n, Skip(rest, nodes[n].as.need))
                   \/ ~ItemByIndent(n) /\ ItemByBlank(n) /\ Descend(n, SkipAll(rest))

CheckIndentedCode(n) == /\ Type(n) = "code_block" /\ nodes[n].as.char = "none"
                        /\ \/ Indented /\ Descend(n, Skip(rest, 4))
                           \/ ~Indented /\ Blank /\ Descend(n, SkipAll(rest))

CheckFencedCode(n) == /\ Type(n) = "code_block" /\ nodes[n].as.char # "none"
                      /\ ~ClosesFence(n)
                      /\ Descend(n, rest)

\* The closing fence ends the block and the processing of the line.
CloseFence(n) == /\ Type(n) = "code_block" /\ nodes[n].as.char # "none"
                 /\ ClosesFence(n)
                 /\ Close(n)
                 /\ current' = nodes[n].parent
                 /\ EndOfLine
                 /\ UNCHANGED line

CheckHtml(n) == /\ Type(n) = "html_block"
                /\ nodes[n].as.html \in 1 .. 5 \/ ~Blank
                /\ Descend(n, rest)

CheckParagraph(n) == /\ Type(n) = "paragraph"
                     /\ ~Blank
                     /\ Descend(n, rest)

\* Lists have no prefix of their own; a thematic break is let through, too.
CheckOther(n) == /\ Type(n) \in {"list", "thematic_break"}
                 /\ Descend(n, rest)

Mismatch(n) == /\ \/ Type(n) = "block_quote" /\ ~QuoteGoesOn
                  \/ Type(n) = "item" /\ ~ItemByIndent(n) /\ ~ItemByBlank(n)
                  \/ Type(n) = "code_block" /\ nodes[n].as.char = "none"
                       /\ ~Indented /\ ~Blank
                  \/ Type(n) = "html_block" /\ nodes[n].as.html \in {6, 7} /\ Blank
                  \/ Type(n) = "paragraph" /\ Blank
                  \/ Type(n) = "heading"
               /\ StopChecking

CheckOpenBlocks ==
  /\ pc = "check"
  /\ LET n == LastOpenChild(container) IN
     IF n = None THEN StopChecking
     ELSE \/ CheckQuote(n) \/ CheckItem(n) \/ CheckIndentedCode(n)
          \/ CheckFencedCode(n) \/ CloseFence(n) \/ CheckHtml(n)
          \/ CheckParagraph(n) \/ CheckOther(n) \/ Mismatch(n)

-----------------------------------------------------------------------------
(* open_new_blocks: what starts at the current place of the line. *)

StartsQuote == ~Indented /\ Tok = ">"
StartsAtx   == ~Indented /\ Tok = "#" /\ (rest[2].ind > 0 \/ rest[2].tok = "eol")
StartsFence == ~Indented /\ Tok \in DOMAIN FenceOf
StartsHtml  == /\ ~Indented /\ Tok \in DOMAIN HtmlStart
               /\ HtmlStart[Tok] = 7 =>
                    Type(container) # "paragraph" /\ rest[2].tok = "eol"
StartsSetext == /\ ~Indented /\ Type(container) = "paragraph"
                /\ Tok \in Underline /\ rest[2].tok = "eol"
\* The code also asks for all_matched in a paragraph: it always is there, since
\* a paragraph holds no block that could have failed to match.
StartsRule   == ~Indented /\ ~StartsSetext /\ Tok \in Rule
StartsItem ==
  /\ ~StartsSetext
  /\ ~Indented \/ Type(container) = "list"
  /\ Tok \in DOMAIN Marker
  /\ rest[2].ind > 0 \/ rest[2].tok = "eol"
  /\ Type(container) = "paragraph" =>
       rest[2].tok # "eol" /\ Marker[Tok].start = 1
StartsIndentedCode == Indented /\ ~StartsItem /\ ~lazy /\ ~Blank
NothingStarts ==
  \/ Type(container) \in {"code_block", "html_block"}
  \/ ~(\/ StartsQuote \/ StartsAtx \/ StartsFence \/ StartsHtml \/ StartsSetext
       \/ StartsRule \/ StartsItem \/ StartsIndentedCode)

\* The blocks to add, and the rest of the line once their markers are consumed.
Open(blocks, r) == /\ adding' = blocks
                   /\ rest' = r
                   /\ pc' = "add"
                   /\ UNCHANGED <<nodes, current, refs, container, matched, lazy, line>>

OpenQuote == /\ StartsQuote
             /\ Open(<<Block("block_quote", <<>>)>>, SkipOne(Tail(rest)))
OpenAtx == /\ StartsAtx
           /\ Open(<<Block("heading", [setext |-> FALSE])>>, SkipAll(Tail(rest)))
OpenFence == /\ StartsFence
             /\ Open(<<Block("code_block", FenceOf[Tok])>>, Tail(rest))
OpenHtml == /\ StartsHtml
            /\ Open(<<Block("html_block", [html |-> HtmlStart[Tok]])>>, rest)
OpenRule == /\ StartsRule
            /\ Open(<<Block("thematic_break", <<>>)>>, Eol)
OpenIndentedCode == /\ StartsIndentedCode
                    /\ Open(<<Block("code_block", [char |-> "none", len |-> 0])>>,
                            Skip(rest, 4))

\* The underline turns the paragraph it continues into a heading.
TurnSetext ==
  /\ StartsSetext
  /\ nodes' = [nodes EXCEPT ![container].type = "heading",
                            ![container].as = [setext |-> TRUE]]
  /\ rest' = Eol
  /\ pc' = "text"
  /\ UNCHANGED <<current, refs, container, matched, lazy, adding, line>>

\* The content of the item starts after the marker and one to four columns of
\* space; more space, or a line with nothing else, counts as one column.
OneColumn(after) == \/ after[1].ind \notin 1 .. 4
                    \/ after[1].tok = "eol"
Padding(m, after) == m.width + (IF OneColumn(after) THEN 1 ELSE after[1].ind)
NeedUnindented(m, after) == Padding(m, after)
Need(m, after)    == Indent + Padding(m, after)
\* lists_match
JoinsUnindented(m) == /\ Type(container) = "list"
                      /\ nodes[container].as.mark = m.kind
                      /\ Indent = 0
Joins(m) == Type(container) = "list" /\ nodes[container].as.mark = m.kind

OpenItem ==
  /\ StartsItem
  /\ LET m     == Marker[Tok]
         after == Tail(rest)
         item  == Block("item", [mark |-> m.kind, need |-> Need(m, after)])
         list  == Block("list", [mark |-> m.kind, tight |-> FALSE])
     IN  Open(IF Joins(m) THEN <<item>> ELSE <<list, item>>,
              IF OneColumn(after) THEN SkipOne(after) ELSE SkipAll(after))

StopOpeningAgain == UNCHANGED vars
StopOpening == /\ pc' = "text"
               /\ UNCHANGED <<nodes, current, refs, rest, container, matched, lazy,
                              adding, line>>

OpenNewBlocks ==
  /\ pc = "open"
  /\ IF NothingStarts THEN StopOpening
     ELSE \/ OpenQuote \/ OpenAtx \/ OpenFence \/ OpenHtml \/ TurnSetext
          \/ OpenRule \/ OpenItem \/ OpenIndentedCode

-----------------------------------------------------------------------------
(* add_child: climbs from container, closing what cannot hold the block. *)

CloseForChildStays ==
  /\ ~CanContain(Type(container), Head(adding).type)
  /\ Close(container)
  /\ container' = container
  /\ UNCHANGED <<current, rest, pc, matched, lazy, adding, line>>
CloseForChild == /\ ~CanContain(Type(container), Head(adding).type)
                 /\ Close(container)
                 /\ container' = nodes[container].parent
                 /\ UNCHANGED <<current, rest, pc, matched, lazy, adding, line>>

\* A freed block's memory may be handed out again at once.
AddBlock ==
  /\ CanContain(Type(container), Head(adding).type)
  /\ Live # Id
  /\ LET n == Min(Id \ Live)
         b == Head(adding)
     IN  /\ nodes' = [nodes EXCEPT ![n] = [b EXCEPT !.parent = container],
                                   ![container].kids = Append(@, n)]
         /\ container' = n
         /\ adding' = Tail(adding)
         /\ pc' = IF Len(adding) > 1 THEN "add"
                  ELSE IF b.type = "paragraph" THEN "line"
                  ELSE IF Accepts(b.type) THEN "text" ELSE "open"
  /\ lazy' = FALSE
  /\ UNCHANGED <<current, refs, rest, matched, line>>

AddChild == pc = "add" /\ (CloseForChild \/ AddBlock)

-----------------------------------------------------------------------------
(* add_text_to_container *)

LineBlank == /\ Blank
             /\ Type(container) \notin {"block_quote", "heading", "thematic_break"}
             /\ ~(Type(container) = "code_block" /\ nodes[container].as.char # "none")
             /\ ~(/\ Type(container) = "item"
                  /\ nodes[container].kids = <<>>
                  /\ nodes[container].start = lineno)

\* The last-line-blank flags: the last child, the container, all above it.
Flagged ==
  LET kids  == nodes[container].kids
      above == Up(nodes, container) \ {container}
      flag(n) == IF n = container THEN LineBlank
                 ELSE IF n \in above THEN FALSE
                 ELSE IF Blank /\ kids # <<>> /\ n = Last(kids) THEN TRUE
                 ELSE nodes[n].blank
  IN  [n \in Id |-> IF n \in Live THEN [nodes[n] EXCEPT !.blank = flag(n)] ELSE nodes[n]]

IsLazyAnyway == current # matched /\ ~Blank /\ Type(current) = "paragraph"
IsLazy == /\ current # matched
          /\ container = matched
          /\ ~Blank
          /\ Type(current) = "paragraph"

LazyLine == /\ IsLazy
            /\ nodes' = WithLine(Flagged, current, rest)
            /\ EndOfLine
            /\ UNCHANGED <<current, refs, line>>

NotLazy == /\ ~IsLazy
           /\ nodes' = Flagged
           /\ pc' = "close"
           /\ UNCHANGED <<current, refs, rest, container, matched, lazy, adding, line>>

AddText == pc = "text" /\ (LazyLine \/ NotLazy)

\* What was not matched is closed, from current upwards.
CloseUnmatched == /\ pc = "close"
                  /\ current # matched
                  /\ Close(current)
                  /\ current' = nodes[current].parent
                  /\ UNCHANGED <<rest, pc, container, matched, lazy, adding, line>>

TextInto(n, r) == /\ nodes' = WithLine(nodes, n, r)
                  /\ current' = n
                  /\ EndOfLine
                  /\ UNCHANGED <<refs, line>>

\* An HTML block takes the line, and may end with it.
HtmlLine(n) ==
  LET ends == \E i \in DOMAIN rest : rest[i].tok \in HtmlEnd(nodes[n].as.html)
      ns   == WithLine(nodes, n, rest)
  IN  /\ nodes' = IF ends THEN Finalize(ns, n) ELSE ns
      /\ current' = IF ends THEN nodes[n].parent ELSE n
      /\ EndOfLine
      /\ UNCHANGED <<refs, line>>

BlankLine == /\ current' = container
             /\ EndOfLine
             /\ UNCHANGED <<nodes, refs, line>>

NewParagraph == /\ adding' = <<Block("paragraph", <<>>)>>
                /\ pc' = "add"
                /\ UNCHANGED <<nodes, current, refs, rest, container, matched, lazy, line>>

PlaceTextEarly ==
  /\ pc = "close"
  /\ CASE Type(container) = "code_block" -> TextInto(container, rest)
       [] Type(container) = "html_block" -> HtmlLine(container)
       [] Type(container) \notin {"code_block", "html_block"} /\ Blank -> BlankLine
       [] Type(container) \in {"paragraph", "heading"} /\ ~Blank ->
              TextInto(container, SkipAll(rest))
       [] OTHER -> NewParagraph
PlaceText ==
  /\ pc = "close"
  /\ current = matched
  /\ CASE Type(container) = "code_block" -> TextInto(container, rest)
       [] Type(container) = "html_block" -> HtmlLine(container)
       [] Type(container) \notin {"code_block", "html_block"} /\ Blank -> BlankLine
       [] Type(container) \in {"paragraph", "heading"} /\ ~Blank ->
              TextInto(container, SkipAll(rest))
       [] OTHER -> NewParagraph

ParagraphLine == pc = "line" /\ TextInto(container, SkipAll(rest))

-----------------------------------------------------------------------------
(* cmark_parser_finish *)

Finish == /\ pc = "idle"
          /\ pc' = "finish"
          /\ UNCHANGED <<nodes, current, refs, rest, container, matched, lazy, adding, line>>

FinishBlock == /\ pc = "finish"
               /\ Close(current)
               /\ current' = IF current = Root THEN Root ELSE nodes[current].parent
               /\ pc' = IF current = Root THEN "done" ELSE "finish"
               /\ UNCHANGED <<rest, container, matched, lazy, adding, line>>

Work == \/ CheckOpenBlocks \/ OpenNewBlocks \/ AddChild \/ AddText
        \/ CloseUnmatched \/ PlaceText \/ ParagraphLine \/ FinishBlock
Done == pc = "done" /\ UNCHANGED vars
Next == (\E l \in Lines : ReadLine(l)) \/ Finish \/ Work \/ Done
Spec == Init /\ [][Next]_vars
\* Once S_process_line or cmark_parser_finish is called it runs: no step waits.
FairSpec == Spec /\ WF_vars(Work)

-----------------------------------------------------------------------------
Between       == pc \in {"idle", "done"}
Below(n)      == {m \in Live : n \in Up(nodes, m)}
LinesOf(n)    == {nodes[n].text[i].line : i \in DOMAIN nodes[n].text}
Quotes(n)   == {m \in Up(nodes, n) : Type(m) = "block_quote"}
\* the lines n has markers or text on: every block below n starts on one
Extent(n)     == UNION {LinesOf(m) \cup {nodes[m].start} : m \in Below(n)}

(* The tree is a tree, although blocks are removed from it while its       *)
(* pointers are in use: parents and children agree, nobody is listed       *)
(* twice, and everything hangs below the root.                             *)
TreeIntact ==
  /\ \A n \in Live : /\ ToSet(nodes[n].kids) = {m \in Live : nodes[m].parent = n}
                     /\ IsInjective(nodes[n].kids)
  /\ Below(Root) = Live

(* Between two lines the open blocks are those from the root down to       *)
(* parser->current, each the last child of the one above: the walk of      *)
(* check_open_blocks along the open last children meets all of them.       *)
OpenBlocksAreSpine ==
  pc = "idle" =>
    /\ {n \in Live : nodes[n].open} = Up(nodes, current)
    /\ \A n \in Up(nodes, current) \ {Root} :
         n = Last(nodes[nodes[n].parent].kids)

(* The blocks are a tree whose open ones are its right edge.               *)
TreeSound == TreeIntact /\ OpenBlocksAreSpine

(* The assertions of finalize ("shouldn't call finalize on closed blocks") *)
(* and add_line hold at every call, no call climbs past the root, and no   *)
(* block is looked at after it was freed.                                  *)
AssertionsHold ==
  LET opened(n) == n \in Live /\ nodes[n].open IN
  /\ pc = "add" /\ ~CanContain(Type(container), Head(adding).type) =>
       opened(container) /\ container # Root
  /\ pc = "text" /\ IsLazy => opened(current)
  /\ pc = "close" /\ current # matched => opened(current) /\ current # Root
  /\ pc = "close" /\ current = matched /\ Accepts(Type(container)) => opened(container)
  /\ pc \in {"idle", "line", "finish"} =>
       opened(IF pc = "line" THEN container ELSE current)
  /\ pc \in {"check", "open", "add", "text", "close"} => container \in Live

(* No text is lost or taken twice, lazy or not, whatever was closed or     *)
(* freed while the line was placed: the text of a line is in one block, or *)
(* became one link reference definition. And definitions reach the         *)
(* reference map in document order, although it is the closing of their    *)
(* paragraphs that puts them there, so that the first of two for one label *)
(* is the first of the document.                                           *)
HasText(l) == \E i \in DOMAIN l : l[i].tok \in {"text", "ref"}
DefinitionsInOrder == \A i \in 1 .. Len(refs) - 1 : refs[i] < refs[i + 1]
TextKept ==
  /\ Between => \A l \in 1 .. lineno : HasText(input[l]) =>
       Cardinality({n \in Live : l \in LinesOf(n)})
         + Cardinality({i \in DOMAIN refs : refs[i] = l}) = 1
  /\ DefinitionsInOrder

(* What starts in a list item on a later line is indented to the column    *)
(* where the content of the item began, counted from the start of the line *)
(* and not, as the code does, container by container (outside quotes).     *)
Column(l, i) ==
  l[i].ind + FoldLeft(LAMBDA c, t : c + t.ind + Marker[t.tok].width, 0, SubSeq(l, 1, i - 1))
ContentColumn(n) ==
  LET l    == input[nodes[n].start]
      i    == Cardinality({m \in Up(nodes, n) : Type(m) = "item"
                                              /\ nodes[m].start = nodes[n].start})
      next == l[i + 1]
  IN  IF next.tok = "eol" \/ next.ind >= 5
      THEN Column(l, i) + Marker[l[i].tok].width + 1
      ELSE Column(l, i + 1)
ItemContentIndented ==
  Between => \A n \in Live : Type(n) = "item" /\ Quotes(n) = {} =>
    \A m \in Below(n) : nodes[m].start > nodes[n].start =>
      input[nodes[m].start][1].ind >= ContentColumn(n)

(* Lists hold items and nothing else does, none is empty, and items that   *)
(* follow each other with one marker are in one list, in all documents     *)
(* without link reference definitions (which leave no block).              *)
ListsAreMaximal ==
  Between => \A p \in Live : LET k == nodes[p].kids IN
    /\ Type(p) = "list" => k # <<>>
    /\ \A i \in DOMAIN k : Type(p) = "list" <=> Type(k[i]) = "item"
    /\ refs = <<>> => \A i \in 1 .. Len(k) - 1 :
         Type(k[i]) = "list" /\ Type(k[i + 1]) = "list" =>
           nodes[k[i]].as.mark # nodes[k[i + 1]].as.mark

(* Once closed a block is final but for its last-line-blank flag: no later *)
(* line gets into it, and its children, type and lines stay.               *)
ClosedBlocksStay ==
  [][\A n \in Live : ~nodes[n].open =>
       \E b \in BOOLEAN : nodes'[n] = [nodes[n] EXCEPT !.blank = b]]_vars

(* spec.txt: a list is loose "if any of its constituent list items are     *)
(* separated by blank lines, or if any of its constituent list items       *)
(* directly contain two block-level elements with a blank line between     *)
(* them". A blank line inside block quotes has their markers on it. In     *)
(* documents with definitions it depends on what closes the list (README). *)
BlankAt(l, depth) == /\ Len(input[l]) <= depth + 1
                     /\ \A i \in 1 .. Len(input[l]) - 1 : input[l][i].tok = ">"
Separated(x, y) == \E l \in Max(Extent(x)) + 1 .. nodes[y].start - 1 :
                     BlankAt(l, Cardinality(Quotes(nodes[y].parent)))
LooseAsSpecified(l) ==
  LET k == nodes[l].kids IN
  \/ \E i \in 1 .. Len(k) - 1 : Separated(k[i], k[i + 1])
  \/ \E i \in DOMAIN k : LET s == nodes[k[i]].kids IN
       \E j \in 1 .. Len(s) - 1 : Separated(s[j], s[j + 1])
TightAsSpecified ==
  pc = "done" /\ refs = <<>> => \A l \in Live : Type(l) = "list" =>
    nodes[l].as.tight = ~LooseAsSpecified(l)

(* What is a list, what is in its items and whether it is loose are as the *)
(* specification says, from the whole document and not line by line.       *)
ListsAsSpecified == ItemContentIndented /\ ListsAreMaximal /\ TightAsSpecified

(* The tree keeps the order of the document, everything in a block before  *)
(* everything in its next sibling. And in the finished document the end    *)
(* lines, which finalize computes from the type of the block and from who  *)
(* called it, are right: a paragraph, whichever line or end of input       *)
(* closes it and from which of the loops, ends on its last line of text,   *)
(* and no block ends after the block it is part of, except the two types   *)
(* for which finalize takes the current line: a fence or a setext heading  *)
(* that a later line than its own last closes is given that line, which is *)
(* one line beyond the block around it at most.                            *)
InOrder ==
  Between => \A p \in Live : LET k == nodes[p].kids IN
    \A i \in 1 .. Len(k) - 1 : \A x \in Extent(k[i]), y \in Extent(k[i + 1]) : x < y
Fenced(n) == Type(n) = "code_block" /\ nodes[n].as.char # "none"
Setext(n) == Type(n) = "heading" /\ nodes[n].as.setext
EndLinesRight ==
  pc = "done" => \A n \in Live \ {Root} :
    /\ Type(n) = "paragraph" => nodes[n].end = Max(LinesOf(n))
    /\ LET late == IF Fenced(n) \/ Setext(n) THEN 1 ELSE 0
       IN  nodes[n].end <= nodes[nodes[n].parent].end + late
PositionsRight == InOrder /\ EndLinesRight

(* cmark.h on cmark_node_get_end_line: "Returns the line on which 'node'   *)
(* ends." The last line of a setext heading is its underline, the line     *)
(* right after its lines of text. It is the next line that closes the      *)
(* heading, and finalize gives it the number of that one.                  *)
SetextEndsOnUnderline ==
  pc = "done" => \A n \in Live : Setext(n) => nodes[n].end = Max(LinesOf(n)) + 1

(* Every line is dealt with, and the document finished, in finitely many   *)
(* turns of the loops.                                                     *)
LineEnds == pc \notin {"idle", "done"} ~> Between
=============================================================================
