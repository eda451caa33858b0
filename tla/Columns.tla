------------------------------ MODULE Columns -------------------------------
(***************************************************************************)
(* The position in the line (src/src/blocks.c): offset counts bytes,       *)
(* column counts columns with a tab stop at every fourth, and a tab may be *)
(* consumed in part. The handlers of S_process_line that move the position *)
(* are here, on lines of blanks, tabs, and the markers of quotes, items    *)
(* and fences; BlockParser has all handlers, but only columns.             *)
(* S_process_line is called by the loop of LineFeed.                       *)
(*                                                                         *)
(* A definition named like one after it with something added, such as      *)
(* RestoreButTab, is not the code: it is a plausible mistake, and some     *)
(* property must fail when it takes the place of the code's definition.    *)
(***************************************************************************)
EXTENDS LineFeed, Integers

\* bound: the lines whose columns are given, and for each of them the column
\* that follows its first i bytes
CONSTANT ColumnOf
TabStop    == 4
CodeIndent == 4
NextColumn(c, byte) == IF byte = "tab" THEN c + (TabStop - (c % TabStop)) ELSE c + 1
ASSUME ColumnsAssumption ==
  \A l \in DOMAIN ColumnOf :
    /\ l \in Seq(STRING)
    /\ ColumnOf[l] \in [0 .. Len(l) -> Nat]
    /\ ColumnOf[l][0] = 0
    /\ \A i \in DOMAIN l : ColumnOf[l][i] = NextColumn(ColumnOf[l][i - 1], l[i])
\* bound: the marker of an item is followed by text and that of a fence by
\* nothing, so that no line is a rule or an underline, no item begins with a
\* blank line, and every fence can be closed as well as opened
ASSUME MarkersAssumption ==
  \A l \in DOMAIN ColumnOf : \A i \in DOMAIN l :
    /\ l[i] = "eol" => i = Len(l)
    /\ l[i] = "-" => \E j \in i + 1 .. Len(l) : l[j] \notin {" ", "tab", "-", "eol"}
    /\ l[i] = "fence" => i + 1 = Len(l)

VARIABLES
  step,      \* where S_process_line is, and in
  where,     \* which of its three parts: "check", "open" or "add"
  line,      \* parser->curline
  offset, column, partial,   \* partially_consumed_tab
  first,     \* first_nonspace and first_nonspace_column, and chars_to_tab
  indent,
  todo,      \* what S_advance_offset has still to do
  open,      \* the open blocks below the document, without lists
  matched,   \* how many of them the line continues
  opened,    \* the blocks that it opens
  saved,     \* the position after a list marker
  skip,      \* how much of the indentation of a fence is still to be skipped
  stored,    \* history: the spaces and the offset that add_line took
  want       \* history: the column where the position would be if every tab
             \* had been replaced by spaces up to the next tab stop
cursor == <<offset, column, partial>>
blocks == <<open, matched>>
colVars == <<step, where, line, cursor, first, indent, todo, blocks, opened, saved, skip, stored, want>>

-----------------------------------------------------------------------------
Peek(i)    == IF i < Len(line) THEN line[i + 1] ELSE "nul"
SpaceOrTab == {" ", "tab"}
Leaf       == {"code", "fence"}   \* blocks that take lines and hold no blocks
Nothing    == [n |-> 0, columns |-> FALSE]

\* Columns in the line with its tabs expanded.
Cols     == ColumnOf[line]
SpaceAt(c) == \E i \in DOMAIN line : line[i] \in SpaceOrTab /\ c \in Cols[i - 1] .. Cols[i] - 1
Nonspace(c) == Min({d \in c .. Cols[Len(line)] : ~SpaceAt(d)})

-----------------------------------------------------------------------------
(* S_advance_offset: a turn of its loop for each byte, or part of a tab. *)

Advance(n, columns) == todo' = [n |-> n, columns |-> columns]
Advancing == todo.n > 0 /\ offset < Len(line)
TabsLeft  == TabStop - (column % TabStop)

AdvanceTurn ==
  /\ step # "idle" /\ Advancing
  /\ LET tab  == line[offset + 1] = "tab"
         part == tab /\ todo.columns /\ TabsLeft > todo.n
         cols == IF ~tab THEN 1 ELSE IF todo.columns THEN Min({todo.n, TabsLeft}) ELSE TabsLeft
     IN  /\ partial' = part
         /\ offset' = IF part THEN offset ELSE offset + 1
         /\ column' = column + cols
         /\ todo' = [todo EXCEPT !.n = @ - IF tab /\ todo.columns THEN cols ELSE 1]
  /\ UNCHANGED <<step, where, line, first, indent, blocks, opened, saved, skip, stored, want>>

At(s) == step = s /\ ~Advancing
Stay  == UNCHANGED <<line, cursor>>

-----------------------------------------------------------------------------
(* S_find_first_nonspace *)

FindFirst ==
  /\ At("find")
  /\ step' = "finding"
  /\ first' = [offset |-> offset, column |-> column, toTab |-> TabsLeft]
  /\ Stay /\ UNCHANGED <<where, indent, todo, blocks, opened, saved, skip, stored, want>>

FindTurn ==
  /\ step = "finding"
  /\ \/ /\ Peek(first.offset) = " "
        /\ first' = [offset |-> first.offset + 1, column |-> first.column + 1,
                     toTab |-> IF first.toTab = 1 THEN TabStop ELSE first.toTab - 1]
     \/ /\ Peek(first.offset) = "tab"
        /\ first' = [offset |-> first.offset + 1, column |-> first.column + first.toTab,
                     toTab |-> TabStop]
  /\ Stay /\ UNCHANGED <<step, where, indent, todo, blocks, opened, saved, skip, stored, want>>

FindEnd ==
  /\ step = "finding" /\ Peek(first.offset) \notin SpaceOrTab
  /\ step' = "decide"
  /\ indent' = first.column - column
  /\ Stay /\ UNCHANGED <<where, first, todo, blocks, opened, saved, skip, stored, want>>

Token    == Peek(first.offset)
Blank    == Token = "eol"
Indented == indent >= CodeIndent

-----------------------------------------------------------------------------
(* check_open_blocks *)

Checking(kind) == step = "decide" /\ where = "check" /\ open[matched + 1].kind = kind
Block == open[matched + 1]

\* The next open block, or what comes after the last.
Matched ==
  /\ matched' = matched + 1
  /\ step' = "find"
  /\ where' = IF matched' < Len(open) THEN "check"
              ELSE IF Last(open).kind \in Leaf THEN "add" ELSE "open"
Checked == Stay /\ UNCHANGED <<first, indent, open, opened, saved, stored>>

\* parse_block_quote_prefix
CheckQuote ==
  /\ Checking("quote") /\ ~Indented /\ Token = ">"
  /\ Advance(indent + 1, TRUE)
  /\ step' = "space"
  /\ want' = Nonspace(want) + 1
  /\ Checked /\ UNCHANGED <<where, matched, skip>>
TakeByte  == Advance(1, FALSE)
TakeSpace == Advance(1, TRUE)
\* "optional following character", for a quote that goes on or begins
OptionalSpace ==
  /\ At("space")
  /\ IF Peek(offset) \in SpaceOrTab THEN TakeSpace ELSE UNCHANGED todo
  /\ want' = IF SpaceAt(want) THEN want + 1 ELSE want
  /\ IF where = "check" THEN Matched ELSE step' = "find" /\ UNCHANGED <<where, matched>>
  /\ Checked /\ UNCHANGED skip

\* parse_node_item_prefix, of an item that is not empty, and
\* parse_code_block_prefix for indented code
CheckItem ==
  /\ Checking("item")
  /\ \/ indent >= Block.width /\ Advance(Block.width, TRUE) /\ want' = want + Block.content
     \/ /\ indent < Block.width /\ Blank
        /\ Advance(first.offset - offset, FALSE) /\ want' = Nonspace(want)
  /\ Matched /\ Checked /\ UNCHANGED skip
CheckCode ==
  /\ Checking("code")
  /\ \/ Indented /\ Advance(CodeIndent, TRUE) /\ want' = want + CodeIndent
     \/ ~Indented /\ Blank /\ Advance(first.offset - offset, FALSE) /\ want' = Nonspace(want)
  /\ Matched /\ Checked /\ UNCHANGED skip

\* parse_code_block_prefix for fenced code
CheckFence ==
  /\ Checking("fence") /\ ~(~Indented /\ Token = "fence")
  /\ skip' = Block.offset
  /\ step' = "skip"
  /\ want' = Min({want + Block.content, Nonspace(want)})
  /\ Checked /\ UNCHANGED <<where, todo, matched>>
SkipFence ==
  /\ At("skip")
  /\ IF skip > 0 /\ Peek(offset) \in SpaceOrTab
     THEN Advance(1, TRUE) /\ skip' = skip - 1 /\ UNCHANGED <<step, where, matched>>
     ELSE Matched /\ UNCHANGED <<todo, skip>>
  /\ Checked /\ UNCHANGED want
CloseFence ==
  /\ Checking("fence") /\ ~Indented /\ Token = "fence"
  /\ Advance(1, FALSE)
  /\ step' = "closed"
  /\ open' = Front(open)
  /\ Stay /\ UNCHANGED <<where, first, indent, matched, opened, saved, skip, stored, want>>
LineClosed ==
  /\ At("closed")
  /\ step' = "idle"
  /\ Stay /\ UNCHANGED <<where, first, indent, todo, blocks, opened, saved, skip, stored, want>>

CheckParagraph == Checking("paragraph") /\ ~Blank /\ Matched /\ Checked /\ UNCHANGED <<todo, skip, want>>

\* "done" with all_matched false
Mismatch ==
  /\ step = "decide" /\ where = "check"
  /\ CASE Block.kind = "quote" -> Indented \/ Token # ">"
       [] Block.kind = "item"  -> indent < Block.width /\ ~Blank
       [] Block.kind = "code"  -> ~Indented /\ ~Blank
       [] Block.kind = "fence" -> FALSE
       [] OTHER -> Blank
  /\ where' = "open" /\ step' = "find"
  /\ Checked /\ UNCHANGED <<todo, matched, skip, want>>

-----------------------------------------------------------------------------
(* open_new_blocks *)

\* The type of container; the parent of an item is a list.
Container ==
  IF opened # <<>> THEN Last(opened).kind
  ELSE IF matched < Len(open) /\ open[matched + 1].kind = "item" THEN "list"
  ELSE IF matched = 0 THEN "document" ELSE open[matched].kind
MaybeLazy == opened = <<>> /\ open # <<>> /\ Last(open).kind = "paragraph"

Opening == step = "decide" /\ where = "open"
Open(b) == /\ opened' = Append(opened, b)
           /\ where' = IF b.kind \in Leaf THEN "add" ELSE "open"
Begun   == Stay /\ UNCHANGED <<first, indent, blocks, skip, stored>>
ToMarkerEnd == Advance(first.offset + 1 - offset, FALSE) /\ want' = Nonspace(want) + 1

OpenQuote ==
  /\ Opening /\ ~Indented /\ Token = ">"
  /\ ToMarkerEnd
  /\ Open([kind |-> "quote"]) /\ step' = "space"
  /\ Begun /\ UNCHANGED saved
\* fence_offset is a number of bytes; content is what it stands for.
OpenFence ==
  /\ Opening /\ ~Indented /\ Token = "fence"
  /\ ToMarkerEnd
  /\ Open([kind |-> "fence", offset |-> first.offset - offset, content |-> Nonspace(want) - want])
  /\ step' = "find"
  /\ Begun /\ UNCHANGED saved
\* parse_list_marker, for a marker of one byte
IsMarker == Token = "-" /\ Peek(first.offset + 1) \in SpaceOrTab /\ (~Indented \/ Container = "list")
OpenItem ==
  /\ Opening /\ IsMarker
  /\ ToMarkerEnd
  /\ saved' = [marker |-> Nonspace(want) - want + 1]
  /\ step' = "mark"
  /\ Begun /\ UNCHANGED <<where, opened>>
SaveCursor ==
  /\ At("mark")
  /\ saved' = [marker |-> saved.marker, offset |-> offset, column |-> column, partial |-> partial]
  /\ step' = "pad"
  /\ Begun /\ UNCHANGED <<where, todo, opened, want>>
PadTurn ==
  /\ At("pad") /\ column - saved.column <= 5 /\ Peek(offset) \in SpaceOrTab
  /\ Advance(1, TRUE)
  /\ Begun /\ UNCHANGED <<step, where, opened, saved, want>>

RestoreButTab == offset' = saved.offset /\ column' = saved.column /\ UNCHANGED partial
Restore == offset' = saved.offset /\ column' = saved.column /\ partial' = saved.partial
\* The padding is what follows the marker, or one if that is too much.
PadEnd ==
  /\ At("pad") /\ ~(column - saved.column <= 5 /\ Peek(offset) \in SpaceOrTab)
  /\ LET i    == column - saved.column
         pad  == Nonspace(want) - want
         some == IF pad \in 1 .. 4 THEN pad ELSE 1
         wide == i >= 5 \/ Peek(offset) = "eol"
     IN  /\ IF wide THEN Restore /\ Advance(1, TRUE) ELSE UNCHANGED <<cursor, todo>>
         /\ Open([kind |-> "item", width |-> indent + 1 + IF wide THEN 1 ELSE i,
                  content |-> saved.marker + some])
         /\ want' = want + some
  /\ step' = "find"
  /\ UNCHANGED <<line, first, indent, blocks, saved, skip, stored>>
OpenCode ==
  /\ Opening /\ Indented /\ ~IsMarker /\ ~MaybeLazy /\ ~Blank
  /\ Advance(CodeIndent, TRUE) /\ want' = want + CodeIndent
  /\ Open([kind |-> "code"]) /\ step' = "find"
  /\ Begun /\ UNCHANGED saved
StopOpening ==
  /\ Opening /\ ~IsMarker
  /\ IF Indented THEN MaybeLazy \/ Blank ELSE Token \notin {">", "fence"}
  /\ where' = "add" /\ step' = "find"
  /\ Begun /\ UNCHANGED <<todo, opened, saved, want>>

-----------------------------------------------------------------------------
(* add_text_to_container *)

\* The blocks that are open after the line, but for a new paragraph.
Remaining ==
  LET kept == SubSeq(open, 1, matched) IN
  IF opened # <<>> /\ kept # <<>> /\ Last(kept).kind = "paragraph" THEN Front(kept) \o opened
  ELSE kept \o opened
InLeaf == Remaining # <<>> /\ Last(Remaining).kind \in Leaf
Lazy   == matched < Len(open) /\ opened = <<>> /\ ~Blank /\ Last(open).kind = "paragraph"
Adding == step = "decide" /\ where = "add"
Placed == Stay /\ UNCHANGED <<where, first, indent, matched, opened, saved, skip, stored>>

LazyLine == /\ Adding /\ Lazy
            /\ step' = "store"
            /\ Placed /\ UNCHANGED <<todo, open, want>>
LeafLine == /\ Adding /\ ~Lazy /\ InLeaf
            /\ open' = Remaining /\ step' = "store"
            /\ Placed /\ UNCHANGED <<todo, want>>
BlankLine == /\ Adding /\ ~Lazy /\ ~InLeaf /\ Blank
             /\ open' = Remaining /\ step' = "idle"
             /\ Placed /\ UNCHANGED <<todo, want>>
TextLine ==
  /\ Adding /\ ~Lazy /\ ~InLeaf /\ ~Blank
  /\ Advance(first.offset - offset, FALSE) /\ want' = Nonspace(want)
  /\ open' = IF Remaining # <<>> /\ Last(Remaining).kind = "paragraph" THEN Remaining
             ELSE Append(Remaining, [kind |-> "paragraph"])
  /\ step' = "store"
  /\ Placed
\* add_line
AddLine ==
  /\ At("store")
  /\ stored' = [spaces |-> IF partial THEN TabsLeft ELSE 0,
                from   |-> IF partial THEN offset + 1 ELSE offset]
  /\ offset' = stored'.from
  /\ step' = "idle"
  /\ UNCHANGED <<line, where, column, partial, first, indent, todo, blocks, opened, saved, skip, want>>

-----------------------------------------------------------------------------
\* The start of S_process_line
BeginLine(text) ==
  /\ line' = Append(text, "eol")
  /\ offset' = 0 /\ column' = 0 /\ partial' = FALSE
  /\ step' = "find"
  /\ where' = IF open = <<>> THEN "open" ELSE "check"
  /\ todo' = Nothing
  /\ matched' = 0 /\ opened' = <<>> /\ want' = 0
  /\ stored' = [spaces |-> 0, from |-> 0]
  /\ UNCHANGED <<first, indent, open, saved, skip>>

ProcessSteps ==
  \/ AdvanceTurn \/ FindFirst \/ FindTurn \/ FindEnd
  \/ CheckQuote \/ OptionalSpace \/ CheckItem \/ CheckCode \/ CheckFence \/ SkipFence
  \/ CloseFence \/ LineClosed \/ CheckParagraph \/ Mismatch
  \/ OpenQuote \/ OpenFence \/ OpenItem \/ SaveCursor \/ PadTurn \/ PadEnd \/ OpenCode \/ StopOpening
  \/ LazyLine \/ LeafLine \/ BlankLine \/ TextLine \/ AddLine

ColumnsInit ==
  /\ Init
  /\ step = "idle" /\ where = "check" /\ line = <<"eol">>
  /\ offset = 0 /\ column = 0 /\ partial = FALSE
  /\ first = [offset |-> 0, column |-> 0, toTab |-> TabStop] /\ indent = 0
  /\ todo = Nothing /\ open = <<>> /\ matched = 0 /\ opened = <<>>
  /\ saved = [marker |-> 0] /\ skip = 0
  /\ stored = [spaces |-> 0, from |-> 0] /\ want = 0
\* A step of the loop that reads lines, or of the processing of one
FeedStep ==
  /\ step = "idle"
  /\ Next
  /\ IF lines' # lines THEN BeginLine(Last(lines')) ELSE UNCHANGED colVars
ColumnsNext == FeedStep \/ (ProcessSteps /\ UNCHANGED vars)
allVars == <<vars, colVars>>
ColumnsSpec == ColumnsInit /\ [][ColumnsNext]_allVars

-----------------------------------------------------------------------------
(* Properties. *)

\* offset and column are two readings of one position: the column after the
\* first offset bytes, or one inside of the tab that follows them. And
\* S_find_first_nonspace, which counts columns up to a tab stop by itself,
\* finds the column of the byte that it stops at.
Agree(o, c, p) ==
  /\ o \in 0 .. Len(line)
  /\ IF p THEN o < Len(line) /\ line[o + 1] = "tab" /\ Cols[o] < c /\ c < Cols[o + 1] ELSE c = Cols[o]
CursorSound ==
  line \in DOMAIN ColumnOf /\ step # "idle" =>
    /\ Agree(offset, column, partial)
    /\ step = "decide" => first.column = Cols[first.offset] /\ indent = first.column - column

\* "In contexts where whitespace helps to define block structure, tabs behave
\* as if they were replaced by spaces with a tab stop of 4 characters."
\* (spec.txt:338) Each handler leaves the position where it would be in the
\* line without tabs, finds the same indentation, and the text that is kept
\* begins in the same column. Fences are exempt that were opened behind a tab
\* whose columns and bytes are not the same (see the README).
LinesGiven == \A i \in DOMAIN lines : Append(lines[i], "eol") \in DOMAIN ColumnOf
FenceBehindTab == \E b \in ToSet(open \o opened) : b.kind = "fence" /\ b.offset # b.content
TabsAsSpaces ==
  LinesGiven /\ ~FenceBehindTab =>
    /\ step = "decide" => column = want /\ indent = Nonspace(want) - want
    /\ step = "idle" /\ stored.from > 0 => want + stored.spaces = Cols[stored.from]
=============================================================================
