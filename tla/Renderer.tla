------------------------------ MODULE Renderer ------------------------------
(***************************************************************************)
(* The renderer core (src/src/render.c) with the CommonMark renderer as    *)
(* its client. Pending line breaks are remembered until something is       *)
(* written; a line that gets too long is broken afterwards, by rewriting   *)
(* the buffer from the last place where a break was allowed.               *)
(*                                                                         *)
(* An entry of the buffer is a character with what it is there for. A line *)
(* is what is between two newlines.                                        *)
(*                                                                         *)
(* A definition named like one after it with something added, such as      *)
(* AlwaysBreakable, is not the code: it is a plausible mistake, and some   *)
(* property must fail when it takes the place of the code's definition.    *)
(***************************************************************************)
EXTENDS CommonMark

CONSTANTS Docs,      \* bound: the documents
          Widths,    \* bound: the widths, 0 for no wrapping
          Options    \* bound: "none", "nobreaks" and "hardbreaks"
ASSUME WidthsAssumption == Widths \subseteq Nat
ASSUME OptionsAssumption == Options \subseteq {"none", "nobreaks", "hardbreaks"}
\* A tree has a root, and a node is entered after its parent.
ASSUME DocsAssumption ==
  \A d \in Docs : d \in Seq(NodeType) \ {<<>>} /\ \A i \in DOMAIN d : d[i].up < i

VARIABLES
  doc, width, option,
  event,      \* the next event of the iterator
  node,       \* the node of the last event
  calls,      \* the calls that its handler still makes
  source,     \* what S_out has still to write of its argument source
  buffer, prefix, need_cr, column, last_breakable,   \* the fields of cmark_renderer
  begin_line, begin_content, no_linebreaks, in_tight_list_item,
  flaws,      \* history: what went wrong in a way that is known (see the README)
  ended
input == <<doc, width, option>>
walk  == <<event, node, calls>>
line  == <<column, last_breakable, begin_line>>
text  == <<buffer, source, line, begin_content, flaws>>
rest  == <<no_linebreaks, in_tight_list_item, ended>>
vars  == <<input, walk, text, prefix, need_cr, rest>>

Entry(c, by) == [ch |-> c, by |-> by, of |-> node]
Entries(s, by) == [i \in DOMAIN s |-> Entry(s[i], by)]
Writing == source.text # <<>>

-----------------------------------------------------------------------------
(* The walk, and the calls of a handler. *)

\* A turn of the loop of cmark_render
Visit ==
  /\ ~Writing /\ calls = <<>> /\ event.node # 0
  /\ node' = event.node
  /\ event' = NextEvent(doc, event)
  /\ calls' = Calls(doc, event, width, option, no_linebreaks)
  /\ in_tight_list_item' =
       IF doc[event.node].kind = "item" /\ event.enter /\ Earlier(doc, event.node) = {}
       THEN in_tight_list_item
       ELSE InTightItem(doc, event.node)
  /\ UNCHANGED <<input, text, prefix, need_cr, no_linebreaks, ended>>

Calling(op) == ~Writing /\ calls # <<>> /\ Head(calls).op = op /\ calls' = Tail(calls)

\* S_cr and S_blankline
RequestBreak ==
  /\ \/ Calling("cr") /\ need_cr' = Max({need_cr, 1})
     \/ Calling("blankline") /\ need_cr' = Max({need_cr, 2})
  /\ UNCHANGED <<input, event, node, text, prefix, rest>>

\* A container begins or ends: its part of the prefix is added or dropped.
ChangePrefix ==
  /\ \/ Calling("push") /\ prefix' = prefix \o Head(calls).text
     \/ Calling("pop") /\ prefix' = SubSeq(prefix, 1, Len(prefix) - Head(calls).n)
  /\ UNCHANGED <<input, event, node, text, need_cr, rest>>

SetFlag ==
  /\ \/ Calling("begin_content") /\ begin_content' = TRUE /\ UNCHANGED no_linebreaks
     \/ Calling("no_linebreaks") /\ no_linebreaks' = Head(calls).to /\ UNCHANGED begin_content
  /\ UNCHANGED <<input, event, node, buffer, source, line, flaws, prefix, need_cr,
                 in_tight_list_item, ended>>

-----------------------------------------------------------------------------
(* S_out. *)

AtLineEnd(i) == i <= 0 \/ buffer[i].ch = "nl"
\* What the loop for pending line breaks appends; a blank line has the prefix.
BreaksNoPrefix(need) ==
  (IF need = 2 /\ ~AtLineEnd(Len(buffer)) THEN <<Entry("nl", "break")>> ELSE <<>>)
  \o (IF need >= 1 /\ ~AtLineEnd(Len(buffer)) THEN <<Entry("nl", "break")>> ELSE <<>>)
Breaks(need) ==
  LET k == IF need = 2 /\ AtLineEnd(Len(buffer)) THEN Len(buffer) - 1 ELSE Len(buffer) IN
  (IF need = 2 /\ ~AtLineEnd(Len(buffer))
   THEN <<Entry("nl", "break")>> \o Entries(prefix, "prefix") ELSE <<>>)
  \o (IF need >= 1 /\ ~AtLineEnd(k) THEN <<Entry("nl", "break")>> ELSE <<>>)

\* "if (renderer->in_tight_list_item && renderer->need_cr > 1)"
Need == IF in_tight_list_item THEN Min({need_cr, 1}) ELSE need_cr

\* S_out up to its main loop
BeginOut ==
  /\ Calling("out")
  /\ source' = [Head(calls) EXCEPT !.wrap = @ /\ ~no_linebreaks]
  /\ buffer' = buffer \o Breaks(Need)
  /\ need_cr' = 0
  /\ column' = IF need_cr > 0 THEN 0 ELSE column
  /\ begin_line' = (begin_line \/ need_cr > 0)
  /\ begin_content' = (begin_content \/ need_cr > 0)
  /\ UNCHANGED <<input, event, node, last_breakable, flaws, prefix, rest>>

\* The start of a turn: the prefix at the begin of a line.
Started   == IF begin_line THEN buffer \o Entries(prefix, "prefix") ELSE buffer
StartedNoPrefix == IF begin_line THEN 0 ELSE column
StartedAt == IF begin_line THEN Len(prefix) ELSE column
NextChar(s) == IF s = <<>> THEN "eof" ELSE s[1]
SkipsOneMore(s) == IF s # <<>> /\ s[1] = "sp" THEN SubSeq(s, 3, Len(s)) ELSE s
SkipSpaces(s) == LET solid == {i \in DOMAIN s : s[i] # "sp"} IN
                 IF solid = {} THEN <<>> ELSE SubSeq(s, Min(solid), Len(s))

\* The line is broken in the place of the space after the first brk entries.
Rewrap(b, brk) ==
  SubSeq(b, 1, brk) \o <<[b[brk + 1] EXCEPT !.ch = "nl", !.by = "wrap"]>>
    \o Entries(prefix, "prefix") \o SubSeq(b, brk + 2, Len(b))

WrittenKeepBreak(b, col, brk, content) ==
  /\ begin_line' = FALSE
  /\ IF width > 0 /\ col > width /\ brk > 0
     THEN /\ buffer' = Rewrap(b, brk)
          /\ column' = Len(prefix) + Len(b) - (brk + 1)
          /\ last_breakable' = brk
          /\ begin_content' = FALSE
          /\ flaws' = IF \E i \in brk + 2 .. Len(b) : b[i].ch = "nl"
                      THEN flaws \cup {"stale"} ELSE flaws
     ELSE /\ buffer' = b /\ column' = col /\ last_breakable' = brk
          /\ begin_content' = content /\ UNCHANGED flaws

\* The end of a turn: "If adding the character went beyond width".
Written(b, col, brk, content) ==
  /\ begin_line' = FALSE
  /\ IF width > 0 /\ col > width /\ brk > 0
     THEN /\ buffer' = Rewrap(b, brk)
          /\ column' = Len(prefix) + Len(b) - (brk + 1)
          /\ last_breakable' = 0
          /\ begin_content' = FALSE
          /\ flaws' = IF \E i \in brk + 2 .. Len(b) : b[i].ch = "nl"
                      THEN flaws \cup {"stale"} ELSE flaws
     ELSE /\ buffer' = b /\ column' = col /\ last_breakable' = brk
          /\ begin_content' = content /\ UNCHANGED flaws

AlwaysBreakable(after) == TRUE
\* "We don't allow breaks that make a digit the first character"
Breakable(after) == NextChar(after) \notin Digit

\* A space where the line may be broken
WrapSpace ==
  /\ Writing /\ Head(source.text) = "sp" /\ source.wrap /\ ~begin_line
  /\ LET after == SkipSpaces(Tail(source.text)) IN
     /\ source' = [source EXCEPT !.text = after]
     /\ Written(Append(buffer, Entry("sp", IF Breakable(after) THEN "space" ELSE "text")), column + 1,
                IF Breakable(after) THEN Len(buffer) ELSE last_breakable, FALSE)
  /\ UNCHANGED <<input, walk, prefix, need_cr, rest>>

\* A space at the begin of a line is dropped; the next turn begins the line again.
DropSpace ==
  /\ Writing /\ Head(source.text) = "sp" /\ source.wrap /\ begin_line
  /\ source' = [source EXCEPT !.text = Tail(@)]
  /\ buffer' = Started /\ column' = StartedAt
  /\ flaws' = IF prefix = <<>> THEN flaws ELSE flaws \cup {"twice"}
  /\ UNCHANGED <<input, walk, last_breakable, begin_line, begin_content, prefix, need_cr, rest>>

\* A newline in a literal
LiteralNewline ==
  /\ Writing /\ Head(source.text) = "nl"
  /\ source' = [source EXCEPT !.text = Tail(@)]
  /\ buffer' = Append(Started, Entry("nl", source.by))
  /\ column' = 0 /\ begin_line' = TRUE /\ begin_content' = TRUE /\ last_breakable' = 0
  /\ UNCHANGED <<input, walk, flaws, prefix, need_cr, rest>>

\* Any other character
Character ==
  /\ Writing
  /\ LET c == Head(source.text)
         digit   == Started # <<>> /\ Last(Started).ch \in Digit
         escaped == source.escape = "NORMAL"
                    /\ NeedsEscaping(c, NextChar(Tail(source.text)), begin_content, digit)
         out == (IF escaped THEN <<Entry("bs", "markup")>> ELSE <<>>) \o <<Entry(c, source.by)>>
     IN  /\ c # "nl" /\ ~(c = "sp" /\ source.wrap)
         /\ source' = [source EXCEPT !.text = Tail(@)]
         /\ Written(Started \o out, StartedAt + Len(out), last_breakable,
                    begin_content /\ c \in Digit)
  /\ UNCHANGED <<input, walk, prefix, need_cr, rest>>

\* "ensure final newline"; for an empty buffer the code reads the byte before it.
EndRender ==
  /\ ~Writing /\ calls = <<>> /\ event.node = 0 /\ ~ended
  /\ ended' = TRUE
  /\ LET closed == Append(buffer, Entry("nl", "break")) IN
     buffer' \in IF buffer = <<>> THEN {buffer, closed}
                 ELSE IF Last(buffer).ch = "nl" THEN {buffer} ELSE {closed}
  /\ UNCHANGED <<input, walk, source, line, begin_content, flaws, prefix, need_cr,
                 no_linebreaks, in_tight_list_item>>

-----------------------------------------------------------------------------
Done == ended /\ UNCHANGED vars

Init ==
  /\ doc \in Docs /\ option \in Options
  /\ width \in IF option = "hardbreaks" THEN {0} ELSE Widths
  /\ event = [node |-> 1, enter |-> TRUE] /\ node = 0 /\ calls = <<>>
  /\ source = Lit(<<>>)
  /\ buffer = <<>> /\ prefix = <<>> /\ need_cr = 0 /\ column = 0 /\ last_breakable = 0
  /\ begin_line = TRUE /\ begin_content = TRUE
  /\ no_linebreaks = FALSE /\ in_tight_list_item = FALSE
  /\ flaws = {} /\ ended = FALSE
Next ==
  \/ Visit \/ RequestBreak \/ ChangePrefix \/ SetFlag \/ BeginOut
  \/ WrapSpace \/ DropSpace \/ LiteralNewline \/ Character \/ EndRender
  \/ Done
Spec == Init /\ [][Next]_vars

-----------------------------------------------------------------------------
(* Properties. Those of the document hold when the walk has ended. The     *)
(* known flaws are exempt by name: "stale", a break in an earlier line     *)
(* (last_breakable survives the end of its line), and "twice", a prefix    *)
(* that is written again for each space dropped behind it.                 *)

\* The place remembered for a break is in the buffer and is that of a space,
\* although the buffer is rewritten behind it: no other character is ever
\* replaced by a newline.
BreakIsSpace ==
  /\ last_breakable \in 0 .. Len(buffer)
  /\ last_breakable > 0 => /\ last_breakable < Len(buffer)
                           /\ buffer[last_breakable + 1].ch = "sp"

\* The decision to break rests on column: it must be the length of the last
\* line, through prefixes, pending breaks and lines broken afterwards.
ColumnCounts ==
  ~begin_line /\ ~ended /\ flaws = {} =>
    column = Len(buffer) - Max({0} \cup {i \in DOMAIN buffer : buffer[i].ch = "nl"})

\* S_out drops and joins spaces and moves text to another line, but every
\* other character of the document's text is written once and in order.
TextKept ==
  ended =>
    LET Solid(s) == SelectSeq(s, LAMBDA c : c # "sp")
        written == SelectSeq(buffer, LAMBDA e : e.by = "text" /\ e.ch # "sp")
        Add(s, i) == s \o [j \in DOMAIN Solid(doc[i].lit) |-> <<Solid(doc[i].lit)[j], i>>]
    IN  [j \in DOMAIN written |-> <<written[j].ch, written[j].of>>]
          = FoldLeft(Add, <<>>, [i \in DOMAIN doc |-> i])

\* What the lines of block i begin with: one part for each container
Part(i) == CASE doc[i].kind = "quote" -> Quote
             [] doc[i].kind = "item"  -> Spaces(4)
             [] doc[i].kind = "code"  -> IF Indented(doc, i) THEN Spaces(4) ELSE <<>>
             [] OTHER -> <<>>
LineParts == LET parts[i \in 0 .. Len(doc)] ==
                   IF i = 0 THEN <<>> ELSE parts[doc[i].up] \o Part(i)
             IN  parts
Starts == {i \in DOMAIN buffer : AtLineEnd(i - 1)}
LineEnd(i) == Min({j \in i .. Len(buffer) : buffer[j].ch = "nl"})
\* The line from i on begins with s; the marker of an item is as good as spaces.
BeginsWith(i, s) ==
  \A k \in DOMAIN s :
    /\ i + k - 1 \in DOMAIN buffer
    /\ LET e == buffer[i + k - 1] IN
       \/ e.by \in {"prefix", "bullet", "markup"} /\ e.ch = s[k]
       \/ e.by = "bullet" /\ s[k] = "sp"
EndOfBegin(i) == Min({j \in i .. LineEnd(i) : buffer[j].by \notin {"prefix", "bullet"}})
Shows(i) == {j \in i .. LineEnd(i) : buffer[j].by = "text" /\ buffer[j].ch \notin {"sp", "nl"}}

BareBlank(i) == buffer[i].ch = "nl" /\ buffer[i - 1].by = "text"

\* The blocks without blocks in them, and the entries that block b wrote.
LeafBlocks == {i \in DOMAIN doc : doc[i].kind \in Blocks /\ \A j \in Kids(doc, i) : doc[j].kind \notin Blocks}
Wrote(b) == {i \in DOMAIN buffer : /\ buffer[i].by \in {"text", "markup", "bullet"} /\ buffer[i].of # 0
                                   /\ ContainingBlock(doc, buffer[i].of) = b}
Above == LET up[i \in 0 .. Len(doc)] == IF i = 0 THEN {} ELSE up[doc[i].up] \cup {i} IN up
\* Leaf blocks with something to show and none between them
Neighbours(p, q) == /\ p < q /\ \A b \in LeafBlocks : ~(p < b /\ b < q)
                    /\ Wrote(p) # {} /\ Wrote(q) # {}
Newlines(p, q) == Cardinality({i \in Max(Wrote(p)) .. Min(Wrote(q)) : buffer[i].ch = "nl"})

\* A line of text begins with exactly the markers of the containers it is
\* in, also when it was broken off another one; and the lines from one leaf
\* block to the next keep up the containers that both are in, but for the
\* blank line after a literal that ends in a newline, which gets no prefix.
LinesInContainers ==
  ended /\ flaws = {} =>
    /\ \A i \in Starts : \A j \in Shows(i) :
         LET s == LineParts[buffer[j].of] IN
         /\ BeginsWith(i, s)
         /\ doc[buffer[j].of].kind # "code" => EndOfBegin(i) = i + Len(s)
    /\ \A p, q \in LeafBlocks : Neighbours(p, q) =>
         \A i \in Starts : i > Max(Wrote(p)) /\ i < Min(Wrote(q)) /\ ~BareBlank(i)
           => BeginsWith(i, LineParts[Max(Above[p] \cap Above[q])])

\* A line is longer than the width only if it could not be broken.
WidthKept ==
  ended /\ flaws = {} /\ width > 0 =>
    \A i \in Starts : LineEnd(i) - i > width =>
      \A j \in i .. LineEnd(i) : buffer[j].by # "space"

\* Where the code breaks a line of a paragraph at the document's wish, the
\* text that follows is not read back as the marker of a list item (outc
\* escapes it); where it breaks the line for its width, no digit follows
\* unless the space ended the call that wrote it, of which S_out sees no more.
ListMarkerAt(i) ==
  LET c(j) == IF j \in DOMAIN buffer THEN buffer[j].ch ELSE "nl"
      digits == Min({j \in i .. Len(buffer) + 1 : c(j) \notin Digit})
  IN  \/ c(i) = "-" /\ c(i + 1) \in {"sp", "nl"}
      \/ digits > i /\ c(digits) = "." /\ c(digits + 1) \in {"sp", "nl"}
LineStarts ==
  ended /\ flaws = {} =>
    \A i \in Starts :
      LET j == EndOfBegin(i) IN
      /\ buffer[j].by = "text" /\ (i = 1 \/ buffer[i - 1].by # "wrap")
           /\ doc[ContainingBlock(doc, buffer[j].of)].kind = "paragraph"
         => ~ListMarkerAt(j)
      /\ i > 1 /\ buffer[i - 1].by = "wrap" /\ buffer[j].ch \in Digit
         => buffer[j].of # buffer[i - 1].of

\* Between paragraphs of two items of a list there is no blank line if the
\* list is tight, and one at least if it is not, whatever it is nested in;
\* one at least also between any two paragraphs outside of tight lists.
InTight(i) == \E j \in Above[i] : doc[j].kind = "item" /\ doc[doc[j].up].tight
BlankLines ==
  ended /\ flaws = {} =>
    \A p, q \in {b \in LeafBlocks : doc[b].kind = "paragraph"} : Neighbours(p, q) =>
      LET a == doc[p].up
          b == doc[q].up IN
      /\ doc[a].kind = "item" /\ doc[b].kind = "item" /\ a # b /\ doc[a].up = doc[b].up
         => (Newlines(p, q) = 1 <=> doc[doc[a].up].tight)
      /\ ~InTight(p) /\ ~InTight(q) => Newlines(p, q) >= 2

\* What a reader of the output depends on besides text and prefixes: where
\* lines end, what they begin with, and whether blank lines are between them.
ReadsBack == WidthKept /\ LineStarts /\ BlankLines
\* All that, with all of the text, in the containers that the text is in
LinesReadBack == TextKept /\ LinesInContainers /\ ReadsBack
=============================================================================
