# A formal model of cmark

TLA+ specifications of the C library in `src/src/` (libcmark, a CommonMark parser and renderer) and
of the programs around it that exchange ESIS streams (`src/libesis/`, `src/chain/`), with TLC configurations that check them on small
instances and TLAPS proofs for instances of any size. Paths below are relative to the directory that contains `src/` and `tla/`.

    cd tla
    tlc -workers 2 -config MCNodeTree.cfg MCNodeTree      # check a model
    tlapm NodeTreeProofs.tla                              # check the proofs of one component

## 1. The system

A document goes through four stages. `cmark_parser_feed` cuts buffers into lines; the *block
parser* takes a line at a time and keeps a tree of blocks of which the last branch is open; when
the input ends, the *inline parser* parses the text of every paragraph and heading; a *renderer*
walks the tree with an *iterator*. The stages share the node tree, which is also the public
data structure of the library: between parsing and rendering the caller may rearrange it. The
library has no threads. What is hard in it are long sequences of legal steps on linked
structures that are half updated, pointers and flags read after what they describe has
changed, and decisions taken in an order that no test fixes.

| component | source | state it keeps | operations | what makes it correct |
|---|---|---|---|---|
| node tree API | `node.c` | five pointers and a type per node | new, free, unlink, insert before/after, replace, prepend/append child, setters | links agree in both directions, no cycles, nothing dangles, types nest legally, a call moves one subtree and nothing else |
| line feeding | `blocks.c` `S_parser_feed`, `cmark_parser_finish` | `linebuf`, `last_buffer_ended_with_cr` | feed, finish | lines do not depend on where buffers end |
| block parser | `blocks.c` | the tree, `current`, the position in the line (bytes, columns, part of a tab), last-line-blank flags, line counters | process a line, finish | open blocks form the last branch; no text lost or repeated; closed blocks final; lists tight as specified; end lines right; tabs behave as spaces |
| inline parser | `inlines.c` | position, delimiter stack, bracket stack, memo of backtick runs | one handler per special character, `process_emphasis`, `handle_close_bracket` | delimiters matched as specified, stacks consistent with the tree, no inline lost, scans bounded |
| reference map | `references.c` | hash table of chains | create, lookup | first definition of a label wins, labels compare case-folded and collapsed |
| iterator | `iterator.c` | current and next (event, node) | next, reset, consolidate | every node entered once and left once, in order, if changes follow the documented rules |
| string buffer, chunks | `buffer.c`, `chunk.h` | pointer, size, allocation, ownership | put, set, grow, drop, truncate, trim, normalize, unescape, swap, detach; set, trim and own a chunk | size below allocation, terminated, arithmetic does not overflow, one owner for each block, each call changes one string |
| UTF-8 | `utf8.c` | `curline` of the parser | validate a line, decode, encode, fold | output well formed, nothing legal lost, two decoders agree, also after references are replaced |
| escaping | `houdini_*.c` | position in a text | character references, escapes | a reference becomes what it means, the search finds every name |
| renderer core | `render.c` | buffer, prefix, column, pending line breaks, last breakable position | out, cr, blankline | lines start with the prefix, wrapping only at breakable positions |
| renderers | `commonmark.c`, `latex.c`, `man.c`, `html.c`, `xhtml.c`, `xml.c` | HTML: the image whose text is being written; XML: the indentation | one node handler each | output reads back; elements nest; alternative texts are text |
| scanners | `scanners.re`, generated `scanners.c` | none | one per token | (regular expressions) |
| command line | `main.c` | options | read, parse, render | one renderer gets the document |
| ESIS library | `libesis/` | stack of open elements and their attributes | reader, writer | the reader tells what was written; attributes belong to the next start; a closed element uncovers the one around it |
| filter chain | `chain/` | the element being parsed, a parser | start, data and end of an element | only the elements that ask for it are changed; text keeps its order; the output nests |
| cm2doc | `cm2doc/` | replacement definitions | apply them to events | |
| vendored or separate | `expat/`, `picol/`, `wrappers/`, `tools/`, `test/` | | | not part of the library |

How they interact: `S_parser_feed` calls `S_process_line` for each line and `cmark_parser_finish`
for what is left in `linebuf`; `finalize` in the block parser frees nodes with
`cmark_node_free`, and hands the start of each closed paragraph to
`cmark_parse_reference_inline`, which adds to the reference map; the inline parser looks labels up
in the finished map and appends nodes to the tree; renderers, `process_inlines` and
`cmark_consolidate_text_nodes` drive the iterator while they change nodes. The programs of `chain/` are connected by text streams
only: `txtin` or `xmlin` writes events, `cmark_filter` reads them, gives the text of some elements to the library and writes the
events of the resulting document in their place, `xmlout` reads the result.

`PROJECT.json` lists every component with its status, and every hazard with the line at which it
bites and the properties that watch it.

## 2. Modules

| module | models | role |
|---|---|---|
| `NodeTree` | `src/src/node.c` | pointer-level node tree |
| `FreeNodes` | `S_free_nodes` | the loop that frees a subtree, on the pointers of `NodeTree` |
| `OrderedTree` | - | what a node tree means: an ordered forest |
| `TreeView` | `cmark_node_next`, `cmark_node_parent` | the children of a node as a sequence; refinement mapping `NodeTree` to `OrderedTree` |
| `MCNodeTree` | - | instance for TLC |
| `Iterator` | `src/src/iterator.c` | walks over `NodeTree` while it changes; consolidation of text |
| `LineFeed` | `S_parser_feed`, `cmark_parser_finish` | buffers to lines |
| `Columns` | the position in the line in `src/src/blocks.c` | processing of the lines of `LineFeed`, with tabs |
| `MCLineFeed` | - | instance for TLC of both |
| `BlockParser` | `src/src/blocks.c` | lines to blocks |
| `MCBlockParser` | - | the sets of lines that documents are made of |
| `RefMap` | `src/src/references.c` | the table of link references |
| `Inlines` | `src/src/inlines.c` | the text of a block to inlines, with the map of `RefMap` |
| `MCInlines` | - | the sets of texts |
| `CommonMark` | `src/src/commonmark.c` | the calls that the CommonMark renderer makes for each node |
| `Renderer` | `src/src/render.c` | the renderer core, driven by the calls of `CommonMark` |
| `Esis` | `src/libesis/` | the writer of an ESIS stream, the reader and its stack |
| `EsisChain` | `src/chain/cmark_filter.c` | writer, filter and the reader of the next program, with `Esis` twice |
| `MCEsisChain` | - | the elements and data of the streams |
| `StrBuf` | `src/src/buffer.c`, `src/src/chunk.h` | buffers and chunks in blocks of memory |
| `Strings` | - | what buffers and chunks mean: strings |
| `StringFunctions` | `src/src/cmark_ctype.c` | classes of bytes, and what rewriting makes of a string |
| `MCStrBuf` | - | the programs that use buffers, and their texts |
| `Utf8Chars` | `src/src/utf8.c` | one character: length, validity, code point, encoding; and what UTF-8 is |
| `Entities` | `src/src/houdini_html_u.c` | character references |
| `LineText` | `cmark_utf8proc_check`, `S_process_line`, `finalize` | a line on its way into `curline`, and from there to an info string, with `Entities` |
| `MCLineText` | - | the lines, and the table of entities |
| `Markup` | `src/src/html.c`, `src/src/xml.c` | two renderers over one walk |
| `Writer` | `print_document` in `src/src/main.c` | the choice between `Renderer` and `Markup` for one document |
| `MCWriter` | - | the documents, widths and options |
| `NodeTreeProofs`, `IteratorProofs`, `BlockParserProofs`, `ColumnsProofs`, `RendererProofs`, `EsisProofs`, `LineTextProofs`, `StrBufProofs` | - | TLAPS proofs about the module of that name (`NodeTreeProofs` also about `FreeNodes` and `TreeView`, `ColumnsProofs` about `LineFeed`, `RendererProofs` about `Writer` and `Markup`, `EsisProofs` about `EsisChain`, `LineTextProofs` about `Entities` and `Utf8Chars`) |

Some definitions in the modules are deliberate mistakes with the name of the definition that
follows them plus a word (`PlaceBeforeStale`, `PlaceBefore`). `PROJECT.json` ("mutants") pairs each property with
such a mistake that it detects.

A variable or conjunct marked `history` is not in the code: it remembers what properties compare with.

### NodeTree

`links` is a record with a function for each pointer field of `struct cmark_node`; `kind` is the
type of each node, or `"free"`. `Detach` is `S_node_unlink`, `Cut` is `cmark_node_unlink`, `Place`
has the stores that the four insertions share, and `PlaceBefore`, ... say where each of them reads the
neighbours: after the moved node was detached, which matters because it may be that
neighbour. Each API function is an action whose guard is the function's test; a call that returns 0
changes nothing and is no step. `S_can_contain` walks up the parents; `Reaches` says what the
walk finds, as membership in the least set closed under the parent pointer, so that no recursion is
needed. `cmark_node_free` is one step here.

`Spec` has the calls with two different nodes. `AnySpec` adds calls with one node in both roles, which the
library does not reject. Payload (literals, URLs, positions) and its setters are left out.

`OrderedTree` has a sequence of children for each node, and operations that move, release, swap or destroy a
subtree. `TreeView` reads the children of a node along `first_child` and `next`; under this mapping
each step of `NodeTree` is a step of `OrderedTree`.

`FreeNodes` has the turns of the loop in `S_free_nodes`, which splices the children of each node into the list that it is
walking. `FreesSubtreeOnce` runs the loop, in every reachable state of `NodeTree`, from every live node, and compares what it
frees, in which order and how often, with the subtree that the one step `Free` removes.

### Iterator

`iter` has `root`, `cur` and `next` of `struct cmark_iter`; `IterNext` is `cmark_iter_next`, with `Following` for the
code under "roll forward to next item", and `IterReset` is `cmark_iter_reset`. `Grow` makes the trees. Then one of two
users begins. A program (`Start`, `Step`) may, after an `EXIT` event or at a leaf, unlink, free or replace the current node, and insert other trees before,
after or below it, with the actions of `NodeTree`; that is the rule of `cmark.h`, together with what it leaves unsaid: the tree
still being walked is not moved below the current node, and a node is not used after it was freed (`held`). It may
skip the contents of a node it entered, as `render.c` does (`Skip`). The other user is `cmark_consolidate_text_nodes`: `Consolidate` begins,
`Visit` is a turn of its outer loop, `Merge` of its inner loop, `EndMerge` what follows that. `lit` has the literals as sequences of the
pieces of text merged into them.

Two history variables say what should happen, computed when the walk begins: `plan`, the events of the walk by recursion on
the tree, and `wish`, the children that each node should have in the end: with each run of text nodes made one below the root, as they are elsewhere (`Joinable`).

### LineFeed and Columns

`buffer` is the text between the pointers `buffer` and `end` of `S_parser_feed`. A turn of its outer loop
takes the text up to the next line end or NUL byte, or to the end of the buffer, and is one
of `LineEnds`, `NulByte`, `BufferEnds`. `eof` is the argument of that name: set for the whole document (`cmark_parse_document`) and for a
short read (`cmark_parse_file`). `Callers` says what each caller may feed. `lines` stands for the calls of `S_process_line`. `LinesOf` defines the lines of a text from
the definition of a line ending in `spec.txt`, independently of the loop.

`Columns` composes with it: whenever the loop adds a line, `FeedStep` begins the processing of that line, and the loop goes on when
the processing is over. A line is its bytes: blanks, tabs, the markers `>` and `-`, a fence, other text. The state is the position
(`offset`, `column`, `partial` for `partially_consumed_tab`), what `S_find_first_nonspace` found, and the open blocks. The loops of
`S_advance_offset` (`AdvanceTurn`), `S_find_first_nonspace` (`FindTurn`), of the indentation of a fence (`SkipFence`) and of the
padding of an item (`PadTurn`) take a step per turn; `SaveCursor` and `Restore` are the lines of `open_new_blocks` that
remember the position behind a list marker and go back to it. `AddLine` is `add_line`, which turns what is left of a tab into spaces. The history
`want` is the column at which the position would be if every tab had been replaced by spaces beforehand; it is moved by what the handlers
mean, in columns only (`Nonspace` reads them off the whole line). List markers are followed by text (`MarkersAssumption`), so that no line is a rule or an underline and no item begins with a blank line; those are in `BlockParser`.

`Columns` and `BlockParser` are two views of the same handlers. `Columns` has few kinds of blocks and every byte of white space. `BlockParser` has every
kind of block, and tokens with columns in front of them; that a column is all that a handler needs to know is what `TabsAsSpaces` says.

`Columns` was compared with the program: for 7,504 documents of two lines with tabs, the open blocks and the text
of code blocks are those that the program prints.

### BlockParser

A line is a sequence of tokens, each with the columns of white space before it. A token is what one of the
scanners accepts at that place (`">"`, a list marker, an underline, a fence, an HTML start, a link reference definition), or other
text. The state has the fields of `cmark_parser` and the local variables of `S_process_line` that live
across loops: `container`, `matched` (`last_matched_container`), `lazy` (`maybe_lazy`). `pc` names the place:

| `pc` | code | actions |
|---|---|---|
| `idle` | between calls | `ReadLine`, `Finish` |
| `check` | loop of `check_open_blocks` | `CheckQuote`, `CheckItem`, `CheckIndentedCode`, `CheckFencedCode`, `CloseFence`, `CheckHtml`, `CheckParagraph`, `CheckOther`, `Mismatch` |
| `open` | loop of `open_new_blocks` | `OpenQuote`, `OpenAtx`, `OpenFence`, `OpenHtml`, `TurnSetext`, `OpenRule`, `OpenItem`, `OpenIndentedCode`, `StopOpening` |
| `add` | loop of `add_child` | `CloseForChild`, `AddBlock` |
| `text` | start of `add_text_to_container` | `LazyLine`, `NotLazy` |
| `close` | its loop that closes what did not match, and its end | `CloseUnmatched`, `PlaceText` |
| `line` | the line of a new paragraph | `ParagraphLine` |
| `finish` | `finalize_document` | `FinishBlock` |

`Finalize` is `finalize`, with `RefsOf` for what it adds to the reference map. A paragraph of definitions only is freed in
the middle of a line, as in the code, and its identity may be reused at once.

Not modelled: the wording of text, closing `#` of headings, the info string, end columns, fences longer than four characters, HTML start
conditions 3 to 5 (they differ from 2 in the words the scanners look for only), and inline parsing.
A definition is recognised at the start of a line only, takes one line, and never
ends in the middle of a paragraph's line.

The model was compared with the program: for the 31,403 documents that the run `blocks` enumerates, the types of the
blocks, their nesting, their start and end lines and the tightness of the lists are those of the XML
the program prints.

### RefMap and Inlines

`RefMap` has the hash table of `references.c` as chains of labels; `Normalize` trims, folds and collapses a label, `CreateReference` adds it in front
of its chain unless the chain has it, `Lookup` searches the chain. The table has two buckets, so that chains have several members; hashes are given
by the first letter, so that some labels share one.

`Inlines` first puts the definitions of a document into the map (`Define`), then parses one text. A token is a character, a run of backticks,
an autolink, or the tail `(u)` of an inline link. `nodes` are the inlines made, each with its children and the tokens it was made from.
Each handler of `parse_inline` is an action: `PlainText`, `Newline`, `Backslash`, `Period`, `Autolink`, `Backticks`, `Delim`, `OpenBracket`; `LiteralBracket`
and `CloseLink` are the two outcomes of `handle_close_bracket`; `EndText` is the end of `cmark_parse_inlines`. `delims` and `brackets` are the two stacks; `emph` has the
locals of `process_emphasis`, whose loop takes a step per turn: `NotCloser`, `InsertEmph`, `MatchQuotes`, `NoOpener`, and `EndEmphasis` at its end. `memo` and `scanned` are the memory of
`scan_to_closing_backticks`.

Not modelled: `handle_entity`, hyphens, double quotes and raw HTML (each appends one node and touches no stack, or shares the code of a handler that
is here), and how a destination and a title are parsed (one token stands for them). `MaxLabel` and `MaxBackticks` are 3 for 1000.

The model was compared with the program: for 41,458 texts of these kinds the inlines that the program prints are those of
the model's tree.

### CommonMark and Renderer

A document is its nodes in document order, each with the number of its parent. `Calls` is `S_render_node` of `commonmark.c`: the sequence of calls it
makes on the core for an event, from `cr` and `blankline` over changes of the prefix to texts that are written literally or
escaped. `Renderer` is `cmark_render` and `S_out`: `Visit` takes the next event, `RequestBreak`, `ChangePrefix` and `SetFlag` take the calls that only change
fields, `BeginOut` starts a text with the pending line breaks, and a turn of the loop of `S_out` is one of `WrapSpace`, `DropSpace`, `LiteralNewline` and `Character`, each
with the line broken afterwards if it has become too long (`Rewrap`). `NeedsEscaping` is `outc`. An entry of `buffer` is a character with what
it was written for, and the node; only the character is in the code.

Not modelled: links, images, code spans, inline HTML, custom nodes, info strings, headings of more than one level; lists have at most three items.
At the end `EndRender` adds a newline unless one is there; for an empty buffer, where the code reads the byte before
it, both outcomes are taken.

The model was compared with the program: 30,415 renderings, of documents that some CommonMark text is parsed to, are those that the
program prints.

### Esis and EsisChain

`Esis` has the writer's escapes and lines, and the reader of `esisrd.c` with its stack: a reader is a record of the cells of the stack `S`, the frame of the
innermost element and the number of pending attributes. A frame records how many cells are below it and where the name of its
element is. `EsisChain` runs a writer (`SayStart`, `SayData`, `SayEnd`: the calls that `txtin` and `xmlin` make), then `cmark_filter` on what was
written, then the reader of the next program on what the filter wrote. The programs share nothing but the streams and never read ahead, so running one after the
other shows every behaviour. Each line of a stream is one step of `ParseLoop`, with the handler that it calls (`Markup`, or `Tell` for elements passed on).
A parsed document is a paragraph with all the text it was given, or nothing.

`flaws` names what is known to go wrong (see the end of section 4), so that properties can exempt exactly those behaviours: `lost`, `late`, `raw`,
`unclosed`, and the phase `crashed`.

Not modelled: the XML writer, processing instructions, unknown and empty lines, character references, lack of memory, and `xmlout`'s output.

The model was compared with the program: for 36,190 streams the real `cmark_filter` prints what the model's filter
writes, and crashes exactly where the model says `crashed`.

### StrBuf and Strings

`room` is the size of each block that the allocator has given out, `bytes` what was written to it, up to the NUL. `buf` has the fields `ptr`, `asize` and `size`
of each `cmark_strbuf`, `chunk` those of each `cmark_chunk`. `GrowAndWrite` is `cmark_strbuf_grow` with the write that follows it: nothing to do,
`abort`, or a block of `NewSize`, which `realloc` may place anywhere (`Wrap` is two's complement; the sum that `S_strbuf_grow_by` passes on may be negative).
The loops of `cmark_strbuf_normalize_whitespace` and `cmark_strbuf_unescape` take a step per turn, with the indices `r` and `w` in `job`; the functions that scan from an end of the string
and move it once are one step.

`Strings` has a string for each buffer and chunk and no memory. `IsStrings` is the refinement: in the middle of a loop, the string of a buffer is what was written of
it and what the rest will become (`Pending`).

`Calls` are the functions on some of the buffers and chunks. `Next` is any call of any of them; `MCStrBuf` runs three programs that use a part of them each
(`Programs`), with a bound on the lengths.

Left out: the functions that only read. A chunk that owns nothing points into text that somebody else keeps; how long it is kept is not modelled.

### Utf8Chars, Entities and LineText

`CharLength` and `Valid` return what `utf8proc_charlen` and `utf8proc_valid` return, with the sign; `WellFormed` is the table of well-formed sequences of RFC 3629, which they
are compared with. `Iterate` and `CharLen` stand for the two decoders; `Encode` is `cmark_utf8proc_encode_char`.

`Entities` is a service: `Unescape` is a call of `houdini_unescape_html_f` with a text. `Text` goes to the next ampersand, `BeginEnt`, `DigitTurn`, `EndDigits`, `NameTurn`, `Lookup` are
`houdini_unescape_ent`, and each call of the recursive `S_lookup` is a step (`Found`,
`GoLower`, `GoHigher`, `NotFound`). `Expected` says what a text means, from the grammar in `test/spec.txt`, without a position. The table is a constant, in the order of `TableAssumption`; the
2,125 names of `entities.inc` were found to be in that order, without repetition, and what they stand for to be UTF-8 (`CharactersAssumption` of `LineText`).

`LineText` composes the two. It has the loops of `cmark_utf8proc_check` (`KeepChar`, `ReplaceChar`, `EndCheck`) on the line that `S_process_line` was given, and what it does
after them (`EndLine`, `Finished`). `curline.mem` is every byte ever written behind `curline.ptr`, also by longer lines before: `NeedsNewline` looks there. Then the line is the info string
of a fence (`TakeInfo`), whose references `finalize` replaces (`UnescapeInfo`, the steps of `Entities`); the fence characters in front of it are left out. So `Entities` gets
every line that passes validation, and lines that were never validated.

Not modelled: `cmark_utf8proc_case_fold`, `cmark_utf8proc_is_space` and `cmark_utf8proc_is_punctuation` beyond what `RefMap` and `Inlines` use.

### Markup

The tree comes into being as the iterator walks it, so that every tree is a behaviour: `EnterLeaf`, `Enter` and `Exit` are the events, each with what `S_render_node` of `html.c` and of `xml.c` do with it. The
two share nothing. `html` is a sequence of tokens: a tag, escaped text, raw HTML, a newline; `Cr` is `cr`, where it is called. `plain` is `state->plain`, `indent` the
field of that name. The root may be below a list and its item, since a renderer may be called for any node and looks at the grandparent of a paragraph.

Not modelled: attributes, `CMARK_OPT_SAFE` and the wording of tags; `strong` is as `emph`.

### Writer

As in `print_document`, `writer` says which of the renderers gets the document; `PrintNext` takes the steps of that one, `Renderer` or `Markup`, and the variables of the other stay as they are. What is proved of
`Renderer` holds for it, since its steps are those of `Renderer` or leave its variables alone (`PrintingIsRendering`).

## 3. Runs

| run | configuration | shows | size |
|---|---|---|---|
| `node_tree` | `MCNodeTree.cfg` | links, acyclicity, no dangling pointers, grammar, both directions of a sibling list, refinement of `OrderedTree`, the freeing loop | 4 nodes, 5 types, symmetry; 1,120 states |
| `insert_itself` | `MCNodeTreeSame.cfg` | *violation*: `insert_before(a, a)` succeeds and breaks the tree | 2 nodes |
| `line_feed` | `MCLineFeed.cfg` | lines are independent of buffers; nothing that ended is withheld; bytes and columns agree; tabs behave as spaces | 6 characters, buffers of 1 to 3; 7,504 documents with tabs; 595,880 states |
| `iterator` | `MCIterator.cfg` | the events are those of the tree at the start, the next node is never a freed one, consolidation merges below its root, loses nothing and leaves the rest alone, walks end | 4 nodes, 3 types; 43,525 states |
| `blocks` | `MCBlocks.cfg` | spine, tree intact, assertions, order and end lines, tightness, indentation and extent of lists, text and definitions kept in order, closed blocks final, progress | 4 lines out of 8, or 3 out of 17, or 3 out of 19, or 4 out of 8; 269,099 states |
| `setext_end` | `MCBlocksEnd.cfg` | *violation*: a setext heading does not end on its underline | 3 lines |
| `inlines` | `MCInlines.cfg` | text kept, stacks agree with the tree, lower bounds and memo hide nothing, first definition wins, nesting, progress | 45,826 texts; 421,839 states |
| `renderers` | `MCWriter.cfg` | CommonMark: text kept, breaks and columns right, lines begin with the markers of their containers, blank lines where they separate. HTML and XML nest, XML is indented by depth, blocks begin lines, alternative texts are text, every text comes out once | 30,758 documents, widths and options, and all trees of 4 nodes; 1,190,949 states |
| `esis_chain` | `MCEsisChain.cfg` | stack sound, elements found again, what is read is what was written, the filter changes only its own | 8 events, 3 deep, 2 data; 1,000,117 states |
| `line_text` | `MCLineText.cfg` | validated lines are UTF-8 and keep their characters, also when references are replaced; decoders agree; references become what they mean; the search is sound; loops end | 26,300 lines of up to 13 bytes, and pairs of lines; 491,455 states |
| `line_without_end` | `MCLineTextStale.cfg` | *violation*: a line that got shorter has no newline | 2 lines |
| `strbuf` | `MCStrBuf.cfg` | what is written fits, whatever the sizes wrap to; a NUL behind each string; one owner for each block; refinement of `Strings` | sizes: 1 buffer, lengths to 31; owners: 2 buffers, 2 chunks; text: 1 buffer, 4 bytes of 5 kinds; 5 blocks, symmetry; 51,239 states |

Each takes two and a half minutes or less on two cores. A passing run asks one question of a component, and its properties are the parts of the answer; most of these are conjunctions of named
parts, each with its own comment in the module (`TreeSound`, `ListsAsSpecified` and `PositionsRight` of `BlockParser`, `TextIsUtf8` and `SaysTheSame` of `LineText`, ...).

The bounds. Four nodes suffice for a parent with a node between two siblings and for moving a
node past its neighbour or between two trees; the five types have a rule of `S_can_contain` each (two kinds of
block container, a leaf that takes inlines, the document that nothing takes, the custom block that takes everything).
Inline types behave as the rule for paragraphs, and are covered by the proofs, which hold for any
set of types. For the iterator four nodes give a container with a run of three text nodes, a run of two beside
another leaf or inside a second container, and walks that begin in the middle of a tree or insert a new node into it; the same
configuration with five nodes (936,361 states, two minutes) finds nothing more.

Three characters per buffer and six in all give every pair of adjacent line ends and NUL bytes on each side of a buffer
boundary, with text before and after, and lines that span three buffers. The documents with tabs are fed whole: a first line that opens a quote, an
item, an item behind a tab in a quote, a quote in an item, a fence or indented code in one of them, with gaps of up to two tabs, and a second
line with up to three blanks and tabs, a marker or none, and text, a fence or nothing. With tab stops at
every fourth column two tabs reach past every rule (1, 4 and 5 columns), and a tab is split by a marker, by the
optional space behind it, by the width of an item, by the four columns of code, and by a fence.

For blocks, four lines are: a container, a blank or lazy line, more of the container, something
that ends it. Items need three: an item with an item in it, and a line that belongs to one of them. The 17 lines for
items have contents at the columns where the rules turn (no space, one, four, five, nothing else). `MaxBlocks` is
never reached: a step that needed one more block would be reported as a deadlock.

`TightAsSpecified` is checked for documents without definitions, and no document has a thematic break or a
fence in an item; beyond these limits it fails (see section 4). The part `EndLinesRight` of `PositionsRight` lets fences and setext headings end one line after the block around them, as they do. `ListsAreMaximal` excludes documents with definitions, which may leave nothing visible between two lists.

For inlines, seven characters of text, `*` and `_` hold two emphases in each other or overlapping, with runs that are split, and the rule of three; five
mix in punctuation, blanks, quotes, line ends and backslashes. Six runs of backticks of lengths one to four (one too long) hold two
spans, and a scan that fails in between. Six pieces with brackets hold a link in an image in a link, and emphasis that crosses them. Three definitions out of
six labels, of which some share a chain, some a hash and some are equal only after normalisation, are as many as a chain needs for a middle.

For the renderer the widths 5 and 8 are passed after one and after two of the words; the paragraphs have every text of four characters out of `a`, a digit, a
period, a hyphen and a space, alone and in a quote, and breaks with two characters on each side. The pairs of blocks have each kind of leaf in each kind of container, tight, loose and
ordered lists, and empty containers, before a block of each kind.

For ESIS, eight events are three elements in each other with data in two places, or four one after another; the elements are handled and parsed, handled and not parsed,
and passed on, with no attribute, several, one twice, and one without a value; the data has every character that is escaped, and what looks like an escape.

For UTF-8, the 14 bytes are the first and last at which a rule turns: of the ASCII range, of continuations, of the second byte behind E0, ED, F0 and F4, and of each length. Three of them, and four behind a
byte that begins a sequence, give every sequence of every length, whole, broken at each place or cut by the end of the line; longer lines put characters of three and four bytes around them. Two lines in a row are in `curline` one after
the other, the second shorter or longer. For references, the seven names begin each other in pairs and triples and the limit of 32 bytes is 5; the digits are the code points on either side of each
limit, and eight and nine digits; some lines have bytes that are no character before and after a reference. Each line is taken with and without validation.

For buffers, `MaxInt` is 31: sizes are multiples of eight, and four growths lead from nothing to `abort`. `TextsAssumption` bounds the length of a piece by what is left between the largest block and
`MaxInt`; in 32 bits this is half a gigabyte, and longer pieces are outside the model. The program `sizes` goes through them; in `owners`, two buffers and two chunks with a block each, and a fifth for a move, have every exchange of owners. The blocks are
symmetric: no definition names one. In `text`, four bytes hold two escapes, or two runs of white space with something between.

For trees of nodes, four are a list with an item, a paragraph and its text, or a paragraph and the block behind it, or an image with another in it and text inside and behind the inner one.

Fairness. `FairSpec` of `BlockParser` has weak fairness of `Work`, all steps but
`ReadLine` and `Finish`: `S_process_line` and `finalize_document` are sequential code without waiting, so a
step that is possible is taken. Nothing is assumed of the caller. `FairSpec` of `Inlines` has weak fairness of all steps, for the
same reason; its text is given from the start; and so has `FairLineSpec` of `LineText`, of `Reading`, which contains the loops of `Entities`. `FairIterSpec` has
weak fairness of `Loops`, the calls of `cmark_iter_next` in the loops of its users: every caller in the sources goes on until
`CMARK_EVENT_DONE`, and so does the loop that `cmark.h` shows. Modifications and skips need not happen.

Deadlock is checked in every run; `Done` is the loop of a finished parser, renderer, loop or chain, `Over` that of the finished walk, `Aborted` that of a program that gave up.

## 4. Findings

Three runs find the code in disagreement with what the repository says of it; `PROJECT.json` has the quotations. All were reproduced with the program.

* `insert_itself`: `cmark_node_insert_before(a, a)` (also `insert_after`, `replace`) on a node with a parent returns 1 and makes the node its own sibling.
* `setext_end`: a setext heading that is followed by another line ends on that line, since `finalize` (`blocks.c:245`) gives it the number of the current line and it is the next line that closes it: of
  `> a`, `> ===`, `b`, the heading ends on line 3 and the quote around it on line 2.
* `line_without_end`: with `CMARK_OPT_VALIDATE_UTF8`, a line that validation makes shorter by two bytes or more gets no newline if an earlier line left one in the byte that is looked at
  (`blocks.c:1157`): the lines `1234567`, twice `F0 80 80 80`, and `b` make a paragraph in which `b` is glued to the replacement characters. For the first line of a fence
  `finalize` then searches past its text (`assert(pos < node_content->size)`).

Also seen while modelling. Each is outside of a property by an exemption that names it, or by the choice of the inputs. Unless it says otherwise each was reproduced with the program.

Lines. Feeding an empty buffer between `\r` and `\n` makes an extra empty line, since `last_buffer_ended_with_cr` is forgotten (`blocks.c:537`); no caller in the sources feeds an empty buffer, and `Callers` has
none. A sequence that the end of the line cuts short takes everything to the end of the line with it, legal characters included (`utf8.c:56`, `CutShort`).
`&#xFFFF;` and `&#xFFFE;` become the bytes FF and FE, which are in no UTF-8 (`utf8.c:202`): `StaysWellFormed` names these two, and the lines of the run have no such number.

Iterator. `cmark_consolidate_text_nodes`, called for a text node, also takes the text of the text nodes that follow it under the same parent, and frees them, although they are
not part of the tree it was given (`iterator.c:107`): among the siblings `x`, `a`, `b`, `c` a call for `a` leaves `x` and `abc`. `Joinable` names this case.

Buffers. `cmark_strbuf_init` with a size leaves memory without a NUL (`buffer.c:31`), which the comment above it rules out (by reading). Users in the library write before they read, and `EndsWithNul`
speaks of buffers that were written to.

Blocks. An HTML block that ends on the line it starts on has an end line before its start line. `- a`, blank line, `  [r]: /u` is a tight list at the end of input and a loose one
before a heading. A thematic
break ends after the blank lines that follow it; a fenced code block that is closed together with its block quote or item ends one line after
it; items separated by a blank line after a thematic break make a tight list; the comment in `parse_node_item_prefix` about items
without children does not hold for an item whose only paragraph became a definition. The indentation of a fence is kept in bytes
(`blocks.c:915`): behind a partly consumed tab it is not the number of columns, and `>` tab fence, `>` tab, two spaces, `code` keeps three
spaces where spaces instead of the tab would give two (`FenceBehindTab`).

Inlines. The memo of backticks is set back by a later successful scan (`inlines.c:272`), so that a code span after it may be missed (`lowered`).
`odd_match` is that of the last opener looked at (`inlines.c:514`), so that `openers_bottom` is raised past an opener that would match later: `_**a*a**` (`hasty`).
An autolink in the text of a link does not stop the link: `[a <http://b> c](d)` gives a link in a link.

CommonMark renderer. `last_breakable` survives the end of its line (`stale`): at width 12, `foo bar` and a quoted long word after it breaks the first
paragraph in the quote's line. A space that is dropped at the start of a line writes the prefix again (`twice`). A line may be broken before a digit that
begins a call, or before `=` or `-`, which are then read as a list marker or an underline. A blank line after a code block in a quote has no
prefix and ends the quote. A text that begins with an encoded space and a hyphen is written as a list item. For an empty document the byte before the buffer is read.
`shortest_unused_backtick_sequence` shifts by more than the width of its word for runs of 32 and more (by reading).

ESIS. The escape of data by `put_cdata` leaves backslashes alone (`raw`), a newline in an attribute value is written as it is,
an octal escape of less than three digits takes the next character; closing an element cuts the stack one frame too high, so that it grows with each sibling. An empty container is
never ended (`unclosed`), text of an outer element is lost when an inner one is parsed (`lost`), elements passed on overtake text that waits to be parsed (`late`), and
`cmark_filter` crashes when an element to be parsed ends right after one inside of it (`crashed`). The tables of names in `cmark_filter` and `xmlout` are older than
the node types: paragraphs come out as `header`.

## 5. Proofs

A theorem holds for every value of the constants that satisfies the assumptions, for any number of nodes, any
lines, documents or streams, and without the bounds of the runs. Each inductive invariant was first checked by TLC on the runs.

`NodeTreeProofs`, for every set `Node` and every `Kind` that is a subset of the node types, from `NullAssumption` and
`KindAssumption`:

* `TypeCorrect`, `AlwaysLinked`, `AlwaysAcyclic`, `NeverDangling`, `AlwaysGrammar`: the invariants of the run `node_tree` of these names;
* `Invariance`: the inductive invariant `IInv`, their conjunction.

None of the five is inductive alone. Detaching a node keeps links consistent only if they were; that the neighbours of
an insertion point are where the pointers say needs `Linked`; that inserting creates no cycle needs that the test of
`S_can_contain` sees all ancestors, and that removing a subtree cuts every way into it (`NoDangling`) needs that the subtree
is closed under children, hence `Linked` again; `Grammar` needs that the parent read from a
node is the one that was tested. The proof follows the structure of the code: lemmas about `Reaches` (reflexive, transitive, through the
parent), about `Detach` and `Cut`, about `Place` for any position with consistent neighbours, and one step per action in the invariance
theorem that reduces each insertion to `Cut` followed by `Place`.

With `NodeAssumption` too, that `Node` is finite (a list in the memory of a machine ends):

* `PointersImplementForest`: every step of `NodeTree` is a step of `OrderedTree`, under the mapping of `TreeView`;
* `SubtreesFreedOnce`: `FreesSubtreeOnce`, that the loop of `S_free_nodes` frees the subtree, each node once, parents first.

`Kin(t, p, s)` says that `s` is the sequence that the pointers below `p` stand for: it begins at `first_child`, ends at `last_child`, goes along
`next` and has each child once. `Shape`, that there is one for each node, is inductive with `IInv`: taking a node out or putting it in is the same on pointers and on
sequences (`CutKids`, `PlaceKids`), and the chain that `TreeView` follows is this sequence (`ChainIs`). So each insertion is a move of `OrderedTree`
(`MoveKids`), and `Subtree`, which looks up from the nodes, is the least set closed under children, which is what `OrderedTree` destroys.
The invariant of the freeing loop (`FreeInv`) says that the list from the current node on has exactly the nodes that are not freed yet and whose parent is, or which are
the first, and that each waits behind its left sibling; it ends because no node is freed twice.

`IteratorProofs`, from the assumptions of `NodeTreeProofs`:

* `WalksAreSound`: `WalkSound`, for programs that keep to the rule of `cmark.h` (as `Modify` has it) and for `cmark_consolidate_text_nodes`;
* `TextsConsolidated`: `Consolidated`, what the latter makes of any tree, and that it leaves the children of nodes outside of the tree alone, but for the text behind a root that is a text.

The inductive invariant says what the rest of a walk is like, from the pointers as they are now: a `Route` is a sequence of different events, each followed by
the one `cmark_iter_next` computes, that ends where the root is left, and in which everything an event leads to is still to come: below a node that was entered all
children and its exit, behind a node that is left its next sibling, above it the exit of its parent. The node the program holds was
either just entered, and its exit is ahead (that is why `Skip` finds it), or left for good (`Aside`). Then no node on the way
points to it: its left sibling and its children were left before it, and its parent only has its exit ahead (`Neighbours`). So unlinking or freeing it, or putting
a tree beside or below it, changes no pointer that will be read (`Unnoticed`, `RouteStays`); that nothing on the way is among the freed nodes needs that what is above a node
on the way is on the way too, up to the root and beyond (`Above`), and that the tree being walked is not moved (`StillAside`). For the inner loop of `cmark_consolidate_text_nodes` the event after
a text node is that of its next sibling, so that advancing and freeing stay in step (`Merging`). The walk is a `Route` at first: `WalkWhole`, from the leaves up, over the size of the subtrees;
walks over siblings can be put one behind the other because no node is below two siblings (`Siblings`, `PartStep`, `PartWhole`).

`Consolidated` compares with a fold over the children as they were at the start. Its invariant `TextInv` says that the fold over the children as they are now gives the same for every node, the node that is being filled
counted with what is in the buffer (`Kept`), joining texts in the same places (`PlacesStay`: below the root everywhere, elsewhere only behind the root), and that a text node which the walk has entered is not followed by another (`Passed`). The fold of the library is a recursion on sets of places; unfolded one turn at a time
(`FoldExists`, `RunsTurns`), it gives the same when two text nodes that stand side by side are made one (`RunsJoin`), which is what a turn of the inner loop does, and leaves alone what has no two of them (`NoRuns`). That a walk enters every node below
its root (`EntersAll`) and no other (`RouteBelow`) makes `Passed` say enough when the walk has ended.

`BlockParserProofs`, from the assumptions on the lines alone (`LinesAssumption`; `RulesAssumption`: `scan_thematic_break` takes a line to its end), for any number of blocks:

* `TreeStaysSound`: the two link directions of the blocks agree, all hang on the root, and between two lines the open ones are the right edge down to `parser->current`;
* `AssertionsAlwaysHold`: no call of `finalize` or `add_line` on a closed block, no climb past the root;
* `ClosedBlocksAreFinal`: the action property `ClosedBlocksStay`;
* `PositionsStayRight`: the source positions of the blocks fit the lines whose text they hold, with the exceptions of section 4;
* `TextAlwaysKept`: the text of every line is in one block or became one definition, once.

`TreeSound` speaks of the time between two lines. The inductive invariant has to describe the tree in the middle of one, when two branches are open (`BranchesOpen`): the new one, down to
`container`, and the unmatched one, from below `last_matched_container` down to `parser->current`. Nothing was appended below an unmatched block, and if the line turns out to be a
lazy continuation nothing was appended anywhere, so that the old branch is the right edge again. That needs `NewStaysOpen`: a block that the line has opened is not
closed again by `add_child`, since only containers that can hold the next block are opened before it. `Tree` has the shape: the parents of all blocks lead to the root, said by a rank that falls along them,
so that removing a paragraph that was only definitions, or turning it into a heading, keeps everything else connected.

`PositionsRight` speaks of the time between two lines, too. In the middle of a line, blocks have been closed, freed and appended, and a lazy continuation may still give the line to a block that does not match; `PInv` says what
holds all the same, for the line that was placed last (`Placed`): no block holds a line from before its start or from where a later sibling starts (`Ordered`), what is closed ends with or before its parent, or at the last line when the
line under way closed the parent but not yet the block (`Ended`), and a paragraph has text up to the last line, or up to its end (`Written`). Positions are only given by the line under way, so that everything before it stays in order; the blocks it
added are one branch (`Fresh`), and the last of them can hold what comes next (`NewHolds`), without which `add_child` would close a block before the line that it starts with.

`TextKept` needs to know that nothing is lost between the tokens of a line and the block they go to. `TInv` says that what is left of the line (`Remains`) has text if the line had, and of the lines before (`Stored`) that each with text
is in a block or among the definitions, in no two of them, and that what `finalize` cuts off the end of an indented block has none (`BlanksBlank`). The definitions come in order because at most one paragraph is
open, and its lines are behind all definitions there are. When a block is closed its lines fall into definitions, the text it keeps and blank lines (`ClosedLines`).

`ColumnsProofs`, from `CallersAssumption` (no buffer but a whole document is empty), `ColumnsAssumption` (which says that `ColumnOf` is the columns of each line, byte by byte), and, for the last
theorem, `MarkersAssumption` (each list marker is followed by text in its line, which is what the model of the handlers covers: a line of markers only can be a rule or an underline):

* `LinesDoNotDependOnBuffers`, `LinesDoNotDependOnHandlers`: `LinesAsFed` of the run `line_feed`, for any text and any way of cutting it, with and without the handlers of a line between the turns of the loop;
* `AlwaysCursorSound`: the invariant `CursorSound` of the same run;
* `TabsBehaveAsSpaces`: the invariant `TabsAsSpaces` of the same run, which compares with the line without tabs, for any number of lines of any length and blocks nested to any depth.

For the lines the invariant `FeedInv` names the text that was taken so far, which is what was fed less what is left of the buffer: the lines that were processed are those that have ended
in it, `linebuf` is the rest, and `last_buffer_ended_with_cr` is set exactly if a newline would still belong to the last of them. A turn of the loop takes one more piece; what that does to the lines of a text is said by lemmas about
texts alone.

`CursorSound` is inductive with the types of the position and of the open blocks (`Types`, `Walk`: an item has a width, and the loop over
open blocks has a block to look at), with what the loop of `S_find_first_nonspace` has found so far (`FoundSoFar`: its own count of
columns to the next tab stop is right), with the soundness of the saved position while the padding of an item is measured, and with the fact that nothing is left to advance
over while the position is read. The arithmetic is three lemmas: within a tab the next tab stop is the end of the tab (`TabEnd`),
one column further it is one column nearer or the next but one (`NextInTab`), and what `S_advance_offset` takes of a tab stays in it (`InTab`).

`TabsAsSpaces` speaks of the places where the position is read, but most steps are turns of a loop on the way there. The inductive invariant `TabsInv` says at each step where the position will be when the advance that has begun is done
(`Heads`: at `want`), for an advance that counts columns and one that counts bytes; it is kept by a turn (`TurnHeads`), and each handler has to begin an advance that leads to where it would be without tabs
(`AheadByColumns`, `AheadToFirst`, `AheadOfMarker`). The loops after a list marker (`Padding`) and before a line of a fence (`Skipping`) have invariants of their own. What one line leaves to the next is in `Shape`: the width of each open
item is that of the line without tabs (`PaddingRight`; this is where a partly consumed tab, saved and restored, has to be right), and nothing but the last open block is a leaf, so that a fence opened behind a tab
exempts only the lines that it takes itself. What is said of columns is read off the bytes with `SpaceAtIs`, `NonspaceRange` and `NonspaceIs`. `LinesGiven` keeps to lines for which `ColumnOf` has columns.

`RendererProofs`, from `WidthsAssumption`, `DocsAssumption` (a document has a root, and parents come before their children) and `OptionsAssumption`:

* `AlwaysBreakIsSpace`: `last_breakable` is always the place of a space that is still in the buffer;
* `AlwaysColumnCounts`: `column` is the length of the last line, until one of the two flaws has occurred;
* `PrintingIsRendering`: `Writer` implements `Renderer`, so that both hold for it;
* `ElementsAlwaysNest`, `TextsAlwaysOut`: the invariants `ElementsNest` and `TextsOut` of the run `renderers`, for trees of any size and depth.

The first two need that the calls and texts waiting to be written are well typed (`CallsType` goes through `S_render_node`). The first needs what `Rewrap` does to the
buffer: that everything before the broken place stays, and that the new place is none. The second needs that the buffer ends a line
whenever `begin_line` is set, which `BeginOut` has to re-establish through pending breaks, and the length of the
line that was broken off, prefix included.

The last two share the invariant `MarkupInv`. It reads the output as a stack: `Stack(s, st)` says that `s` is nested and that the elements `st` are open behind it, which counts of begins and ends (`Depth`, `Level`) make a
property that appending one piece keeps or changes by one element (`StackOpen`, `StackClose`, `StackOther`). `Trail` says which elements that has to be: those of the nodes that are open, without the ones that have no
tag. For the XML these are the open nodes with children (`Indents`). For the HTML (`Writes`) it depends on `plain`: while it is set no more than text is added to what was open at the image it names, all nodes below that image are inlines,
which is why no block is met there, and their numbers are larger, which is why `Back` is not taken at one of them; while it is not set no image is open. `Good` gathers what is said of the HTML alone,
and each piece of it has a lemma of what one token does to it. `EnterGood`, `ExitGood`, `LeafGood` and `PlainGood` are the cases of `S_render_node`.

`EsisProofs`, for all elements, data and streams, without assumptions on the bounds:

* `AlwaysStackSound`: `StackSound`: each offset that a reader has stored leads to a frame, further down the stack than the frame it is stored in, or is zero. That it is the frame of the
  enclosing element is part of `ReadersSound`, which is only model-checked.

The invariant `ReaderInv` says of each cell that it is a string or a frame whose links lead further down and to frames. It is kept by each
operation of the reader (`PushStr`, `PushFrameInv`, `PopFrameInv`, `AttributeInv`, `OpenElementInv`, `CloseElementInv`), and by the handler that stores into a
frame (`UserDataInv`).

`LineTextProofs`, from `TableAssumption`, `TextsAssumption`, `DocumentsAssumption` and `CharactersAssumption`:

* `AlwaysSearchSound`: `S_lookup` stays in the table and never drops the half that has the name, whatever texts it is called for; `SearchesAreSound`: also for the info strings of lines.
* `TextsAreUtf8`: what validation lets through is UTF-8, replacing character references keeps it so, and the two decoders agree.

`SearchSound` is inductive together with the fact that the name is within the text. What is left out by a half is on the wrong side of a name that was compared, by the order of the table
(`ZeroIsPrefix`, `ExactIsEqual`: what a comparison that stops at a length says), and the halves stay within their bounds (`Halves`).

`TextIsUtf8` rests on two facts about single characters and one about texts. The tests of the validator on the first two bytes and those of `cmark_utf8proc_iterate` on the code point refuse the same
sequences (`RefusedAlike`, by the arithmetic of `PointOfThree` and `PointOfFour`), and what is not refused is in a row of the table of RFC 3629 (`CompleteIsRow`), which the encoder gives
back (`EncodesBack`). What it writes for a number is a character too (`EncodeIsChar`). A text is `Fine` if each of its bytes is in a character: that is kept when texts are joined
(`FineConcat`) and when one is cut at an ASCII byte, as no longer character has one in it (`AsciiAlone`, `FineCut`). The invariant `LineInv` says so of `curline`, of the
characters that the inner loop has passed, of what is left of the info string and of what has been written (`Replacing`): the ampersand, the semicolon and the line end are where texts are cut. It
also has the bounds of `pos` and `org`, and that the number read so far is capped (`Counted`).

`StrBufProofs`, from `SizeAssumption`, `TextsAssumption`, `BytesAssumption` and `NamesAssumption`:

* `AlwaysOneOwner`, `AlwaysBlocksSound`: the invariants of the run `strbuf`.

They are proved together. That a write stays in its block needs that `asize` is the size of the block and that the size of a buffer is below it (`BufInv`); that the sum of two lengths does
not wrap needs that no block is larger than `NewSize(Half)` (`Sizes`); a move by `realloc` keeps a NUL behind the string only if there was one (`Moved`, `Growing`); the loops in place never
write beyond what they have read (`JobInv`, `Copying`); and freeing one owner's block leaves the others' alone only with `OneOwner`.

Recursive functions (chains, lines of a text, turns of a loop) are reasoned about by a least index at which a claim fails: a set of natural numbers that is not empty has a least element (`Least`, `LeastNat`), which is a statement
of first order, and so is what follows from it.

Model-checked only. Liveness under fairness, which is out of the prover's reach. What compares with a result that is defined by recursion or by folding over a whole
text, stream or tree: `ListsAsSpecified` of `BlockParser`, which compares every list with the lines of the whole document; `LinesReadBack` of `Renderer`; `ReadersSound` and `FilterKeeps` of `EsisChain`; the
strings of `Strings`; `SaysTheSame` of `LineText`. Everything of `Inlines`, whose definitions use recursive operators, which the prover cannot be given. Two operations
are assumed by the form of the model of the tree: that an allocator returns memory that is not in use, and that a caller passes live nodes.

## 6. Not modelled

* Case folding (`cmark_utf8proc_case_fold`, a generated switch) and the escaping of HTML and URLs (`houdini_html_e.c`, `houdini_href_e.c`): tables that map a byte or a character to a text, without
  state. `RefMap` and `Markup` take folded and escaped text as it is.
* Scanners (`scanners.re` and the generated `scanners.c`, of which the repository has three copies): regular expressions. A token of `BlockParser` is what one of them accepts. They are
  98,500 of some 117,000 lines of C, with `expat/` (a vendored XML parser) and `picol/` (a Tcl interpreter taken over from elsewhere).
* The other renderers: `latex.c` and `man.c` have the shape of `commonmark.c` over the same core; `xhtml.c` is an older copy of `html.c` that only the VC12 project compiles.
* Setters and getters of nodes: each stores or reads one field.
* `main.c` but for `print_document`, `cm2doc/`: option parsing, reading of definition files, and replacement of text.
* The length of a fence is stored in eight bits and capped at 255 (`blocks.c:914`): the model's fences have up to four characters. The byte after a carriage return is read although it may be
  behind the end of the buffer (`blocks.c:587`); whatever it is, the loop is over. For an empty document the byte before the buffer is read (`render.c:174`): `EndRender` takes both outcomes.

In modelled files, the parts left out are named at the end of each section above.
