----------------------------- MODULE EsisChain ------------------------------
(***************************************************************************)
(* A chain of three programs with ESIS streams between them: any writer of *)
(* ESIS (txtin, xmlin), cmark_filter, and the reader of another program    *)
(* (xmlout). The filter has its own elements handled, and parses the text  *)
(* of those that say syntax=cmark; it passes on all the others.            *)
(*                                                                         *)
(* The programs share nothing but the two streams and never look ahead, so *)
(* one is run after the other. A document has one paragraph with all the   *)
(* text it was given, or nothing: what the parser makes of a text is in    *)
(* the other modules.                                                      *)
(***************************************************************************)
EXTENDS Esis

CONSTANTS Tags,       \* bound: the names of elements with their attributes
          Texts,      \* bound: the data for elements that are not parsed
          Marked,     \* bound: the data for elements that are parsed
          MaxEvents,  \* bound: the events of a stream
          MaxDepth,   \* bound: the open elements
          MaxData     \* bound: the data events
ASSUME BoundsAssumption == {MaxEvents, MaxDepth, MaxData} \subseteq Nat

VARIABLES
  phase,          \* "write", "filter", "read" or "done", or "crashed"
  opened,         \* the elements the writer has open
  stream, output, \* the filter's input and output
  filter, sink,   \* the readers
  parser,         \* UserData.parser of cmark_filter: whether it is, and its text
  said,           \* history: the events written, with the attributes that have a value
  heard,          \* history: the events that ParseLoop told of in the filter
  sent,           \* history: the events it wrote, those of a document with doc set
  got,            \* history: the events the last reader's handler was called for
  flaws           \* history: what went wrong in a way that is known (see the README)
vars == <<phase, opened, stream, output, filter, sink, parser, said, heard, sent, got, flaws>>

-----------------------------------------------------------------------------
(* cmark_filter. *)

Handled == {"mark-up"}
\* markup: "ours" is whether the element asks for this program.
Ours(atts) == \E k \in DOMAIN atts : atts[k].name = "syntax" /\ atts[k].val = "cmark"

\* The names of the node types are taken by number from a table that is
\* older than the types custom_block and custom_inline.
GI == <<"none", "document", "block_quote", "list", "item", "code_block", "block_html",
        "paragraph", "header", "hrule", "text", "softbreak", "linebreak">>
Paragraph == GI[8 + 1]
TextNode  == GI[11 + 1]

\* cmark_render_esis: a node without children is not ended.
Render(text) ==
  <<StartOf("document", <<>>)>>
    \o (IF text = <<>> THEN <<>>
        ELSE <<StartOf(Paragraph, <<>>), StartOf(TextNode, <<>>), DataOf(TextNode, text),
               EndOf(TextNode), EndOf(Paragraph), EndOf("document")>>)

NoParser == [on |-> FALSE, text |-> <<>>]
Rendered == IF parser.on THEN Render(parser.text) ELSE <<>>
Mark(es, doc) == [i \in DOMAIN es |-> [event |-> es[i], doc |-> doc]]

MarkupNoFlush(e, ours) ==
  CASE ours /\ e.what = "start" -> [parser |-> [on |-> TRUE, text |-> <<>>], out |-> <<>>]
    [] ours /\ e.what = "data"  -> [parser |-> [on |-> TRUE, text |-> parser.text \o e.text], out |-> <<>>]
    [] ours /\ e.what = "end"   -> [parser |-> NoParser, out |-> Mark(Rendered, TRUE)]
    [] OTHER -> [parser |-> NoParser, out |-> Mark(<<e>>, FALSE)]
\* The handler markup: what it does to the parser, and what it writes. An
\* element that is not ours ends the document that is being collected.
Markup(e, ours) ==
  CASE ours /\ e.what = "start" -> [parser |-> [on |-> TRUE, text |-> <<>>], out |-> <<>>]
    [] ours /\ e.what = "data"  -> [parser |-> [on |-> TRUE, text |-> parser.text \o e.text], out |-> <<>>]
    [] ours /\ e.what = "end"   -> [parser |-> NoParser, out |-> Mark(Rendered, TRUE)]
    [] OTHER -> [parser |-> NoParser, out |-> Mark(Rendered, TRUE) \o Mark(<<e>>, FALSE)]

\* The known flaws of telling e in reader r
FlawsOf(r, e, out) ==
  (IF r.frame.handler /\ r.frame.userData /\ e.what = "start" /\ parser.text # <<>> THEN {"lost"} ELSE {})
  \cup (IF ~r.frame.handler /\ parser.on THEN {"late"} ELSE {})
  \cup (IF ~r.frame.handler /\ "bs" \in Range(e.text) THEN {"raw"} ELSE {})
  \cup (IF \E i \in DOMAIN out : out[i].doc /\ parser.text = <<>> THEN {"unclosed"} ELSE {})

\* An event in the filter, told to the handler or passed on; the reader is r then.
Tell(r, e) ==
  /\ heard' = Append(heard, e)
  /\ IF r.frame.handler /\ e.what = "end" /\ r.frame.userData /\ ~parser.on
     THEN \* cmark_parser_finish(NULL)
          phase' = "crashed" /\ UNCHANGED <<parser, sent, output, flaws>>
     ELSE LET mine == r.frame.handler /\ (e.what = "data" => e.text # <<>>)
              told == Markup(e, r.frame.userData)
              out  == IF mine THEN told.out ELSE Mark(<<e>>, FALSE)
              lines == FoldLeft(LAMBDA s, x : s \o Written(x.event), <<>>, out)
          IN  /\ parser' = IF mine THEN told.parser ELSE parser
              /\ sent' = sent \o out
              /\ output' = output \o (IF mine THEN lines ELSE Passed(e))
              /\ flaws' = flaws \cup FlawsOf(r, e, out)
              /\ UNCHANGED phase

-----------------------------------------------------------------------------
(* The writer. *)

Say(e) ==
  /\ phase = "write"
  /\ stream' = stream \o Written(e)
  /\ said' = Append(said, [e EXCEPT !.atts = SelectSeq(@, LAMBDA a : a.val # "")])
  /\ UNCHANGED <<phase, output, filter, sink, parser, heard, sent, got, flaws>>

SayStart ==
  \E t \in Tags :
    /\ Len(said) + Len(opened) + 2 <= MaxEvents /\ Len(opened) < MaxDepth
    /\ opened' = Append(opened, t)
    /\ Say(StartOf(t.gi, t.atts))
SayData ==
  /\ opened # <<>> /\ Len(said) + Len(opened) + 1 <= MaxEvents
  /\ Cardinality({i \in DOMAIN said : said[i].what = "data"}) < MaxData
  /\ LET t == Last(opened) IN
     \E x \in IF t.gi \in Handled /\ Ours(t.atts) THEN Marked ELSE Texts : Say(DataOf(t.gi, x))
  /\ UNCHANGED opened
SayEnd ==
  /\ opened # <<>>
  /\ opened' = Front(opened)
  /\ Say(EndOf(Last(opened).gi))
EndOfStream ==
  /\ phase = "write" /\ opened = <<>>
  /\ phase' = "filter"
  /\ UNCHANGED <<opened, stream, output, filter, sink, parser, said, heard, sent, got, flaws>>

-----------------------------------------------------------------------------
(* Reading a stream p: the turns of ParseLoop. *)

Line(p) == SubSeq(p, 2, Min({i \in DOMAIN p : p[i] = "eol"}) - 1)
AfterLine(p) == SubSeq(p, Len(Line(p)) + 3, Len(p))
ReadAt(where, p, c) == phase = where /\ p # <<>> /\ Head(p) = c

FilterAttribute ==
  /\ ReadAt("filter", stream, "A")
  /\ filter' = Attribute(filter, Line(stream))
  /\ stream' = AfterLine(stream)
  /\ UNCHANGED <<phase, opened, output, sink, parser, said, heard, sent, got, flaws>>

FilterStart ==
  /\ ReadAt("filter", stream, "(")
  /\ LET gi   == Line(stream)[1]
         r    == OpenElement(filter, gi, gi \in Handled)
         told == [r EXCEPT !.frame.userData = gi \in Handled /\ Ours(Atts(r))]
     IN  /\ filter' = told
         /\ Tell(told, StartOf(gi, Atts(r)))
  /\ stream' = AfterLine(stream)
  /\ UNCHANGED <<opened, sink, said, got>>

FilterData ==
  /\ ReadAt("filter", stream, "-")
  /\ LET data == Stored(stream, 2) IN
     /\ stream' = SubSeq(stream, data.next, Len(stream))
     /\ Tell(filter, DataOf(ElemGI(filter), data.text))
  /\ UNCHANGED <<opened, filter, sink, said, got>>

FilterEnd ==
  /\ ReadAt("filter", stream, ")")
  /\ Tell(filter, EndOf(ElemGI(filter)))
  /\ filter' = CloseElement(filter)
  /\ stream' = AfterLine(stream)
  /\ UNCHANGED <<opened, sink, said, got>>

EndOfFilter ==
  /\ phase = "filter" /\ stream = <<>>
  /\ phase' = "read"
  /\ UNCHANGED <<opened, stream, output, filter, sink, parser, said, heard, sent, got, flaws>>

\* The last program has a handler for every element.
SinkLine(c) ==
  /\ ReadAt("read", output, c)
  /\ output' = AfterLine(output)
  /\ UNCHANGED <<phase, opened, stream, filter, parser, said, heard, sent, flaws>>
SinkAttribute ==
  SinkLine("A") /\ sink' = Attribute(sink, Line(output)) /\ UNCHANGED got
SinkStart ==
  /\ SinkLine("(")
  /\ sink' = OpenElement(sink, Line(output)[1], TRUE)
  /\ got' = Append(got, StartOf(ElemGI(sink'), Atts(sink')))
SinkEnd ==
  /\ SinkLine(")")
  /\ sink' = CloseElement(sink)
  /\ got' = IF sink.frame.handler THEN Append(got, EndOf(ElemGI(sink))) ELSE got
SinkData ==
  /\ ReadAt("read", output, "-")
  /\ LET data == Stored(output, 2) IN
     /\ output' = SubSeq(output, data.next, Len(output))
     /\ got' = IF sink.frame.handler /\ data.text # <<>>
               THEN Append(got, DataOf(ElemGI(sink), data.text)) ELSE got
  /\ UNCHANGED <<phase, opened, stream, filter, sink, parser, said, heard, sent, flaws>>
EndOfChain ==
  /\ phase = "read" /\ output = <<>>
  /\ phase' = "done"
  /\ UNCHANGED <<opened, stream, output, filter, sink, parser, said, heard, sent, got, flaws>>

Done == phase \in {"done", "crashed"} /\ UNCHANGED vars

Init ==
  /\ phase = "write" /\ opened = <<>> /\ stream = <<>> /\ output = <<>>
  /\ filter = NewReader /\ sink = NewReader /\ parser = NoParser
  /\ said = <<>> /\ heard = <<>> /\ sent = <<>> /\ got = <<>> /\ flaws = {}
Next ==
  \/ SayStart \/ SayData \/ SayEnd \/ EndOfStream
  \/ FilterAttribute \/ FilterStart \/ FilterData \/ FilterEnd \/ EndOfFilter
  \/ SinkAttribute \/ SinkStart \/ SinkData \/ SinkEnd \/ EndOfChain \/ Done
Spec == Init /\ [][Next]_vars

-----------------------------------------------------------------------------
(* Properties. The known flaws are exempt by name: "lost", the text of an  *)
(* element of ours before another one within it; "late", an element        *)
(* without a handler within one of ours, which overtakes its text; "raw",  *)
(* a backslash that the filter passes on; "unclosed", an empty document;   *)
(* and the crash when an element of ours ends right after one within it.   *)

\* The reader follows offsets into its stack that were stored long before:
\* each leads to a frame (the assertion CHECK_STACK), and below the one it is
\* stored in, so that the way back to the outermost element ends. Lines the
\* reader refuses and frames it leaves behind do not change that.
IsFrame(c) == "token" \in DOMAIN c
ReaderSound(r) ==
  LET Leads(n) == n > 0 => IsFrame(r.S[n]) IN
  /\ r.frame.token = "frame" /\ r.frame.r_att \in 0 .. Len(r.S) /\ Leads(r.frame.r_att)
  /\ \A i \in DOMAIN r.S : IsFrame(r.S[i]) => r.S[i].r_att \in 0 .. i - 1 /\ Leads(r.S[i].r_att)
StackSound == ReaderSound(filter) /\ ReaderSound(sink)

\* A reader finds its way back: the frames that each element links to are
\* real frames (CHECK_STACK), they are those of the elements of the stream
\* that are open, and each has still what its handler stored in it.
OpenIn(es) == FoldLeft(LAMBDA s, e : CASE e.what = "start" -> Append(s, <<e.gi, e.gi \in Handled /\ Ours(e.atts)>>)
                                       [] e.what = "end" -> Front(s) [] OTHER -> s, <<>>, es)
Framed(r) ==
  LET mine(f) == IF f.r_gi = 0 THEN <<>> ELSE <<<<r.S[f.r_gi].str, f.userData>>>>
      below[n \in 0 .. Len(r.S)] ==
        IF n = 0 THEN <<>>
        ELSE IF "token" \notin DOMAIN r.S[n] THEN <<"not a frame">>
        ELSE below[r.S[n].r_att] \o mine(r.S[n])
  IN  below[r.frame.r_att] \o mine(r.frame)
OpenElements ==
  /\ phase # "crashed" => Framed(filter) = OpenIn(heard)
  /\ flaws = {} => LET gis(s) == [i \in DOMAIN s |-> s[i][1]] IN gis(Framed(sink)) = gis(OpenIn(got))

\* The filter's reader tells exactly what was written, each event with the
\* element it belongs to and each element with its own attributes; and what
\* the filter wrote, through two different writers, is what is read.
ReadAsWritten ==
  /\ phase \in {"filter", "read", "done", "crashed"} => IsPrefix(heard, said)
  /\ phase \in {"read", "done"} => heard = said
  /\ phase = "done" /\ flaws \cap {"raw", "unclosed"} = {} =>
       got = SelectSeq([i \in DOMAIN sent |-> sent[i].event], LAMBDA e : e.what # "data" \/ e.text # <<>>)

\* What a reader tells of the stream, and where in it the reader stands
ReadersSound == OpenElements /\ ReadAsWritten

\* All the text comes through the chain, in its order, whoever handled it.
TextIn(es) == FoldLeft(LAMBDA s, e : s \o e.text, <<>>, es)
TextKept ==
  phase = "done" /\ flaws \cap {"lost", "late", "raw"} = {} => TextIn(got) = TextIn(said)

\* Outside of the elements that ask for cmark nothing is changed or moved.
OthersUntouched ==
  phase = "done" =>
    LET opens(i) == OpenIn(SubSeq(said, 1, IF said[i].what = "end" THEN i - 1 ELSE i))
        others == SelectSeq([i \in DOMAIN said |-> <<Last(opens(i))[2], said[i]>>], LAMBDA x : ~x[1])
        passed == SelectSeq(sent, LAMBDA x : ~x.doc)
    IN  [i \in DOMAIN passed |-> passed[i].event] = [i \in DOMAIN others |-> others[i][2]]

\* What arrives is well nested, and every element of it is ended.
Balanced ==
  phase = "done" /\ flaws \cap {"unclosed", "raw"} = {} =>
    FoldLeft(LAMBDA s, e : CASE e.what = "start" -> Append(s, e.gi)
                             [] e.what = "end" /\ s # <<>> /\ Last(s) = e.gi -> Front(s)
                             [] e.what = "end" -> Append(s, "unbalanced")
                             [] OTHER -> s, <<>>, got) = <<>>

\* The filter changes what it is asked to and nothing else.
FilterKeeps == TextKept /\ OthersUntouched /\ Balanced
=============================================================================
