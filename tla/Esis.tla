-------------------------------- MODULE Esis --------------------------------
(***************************************************************************)
(* The ESIS library (libesis): what the writer puts on the stream for each *)
(* of its calls, and the stack on which the reader keeps the attributes,   *)
(* the names and the frames of the open elements.                          *)
(*                                                                         *)
(* A stream is a sequence of characters; a name, a value and a blank count *)
(* as one character, and "eol" is the end of a line. A reader r holds its  *)
(* stack S, of which a frame or a string takes one cell, the frame of the  *)
(* innermost open element, and n_att.                                      *)
(*                                                                         *)
(* A definition named like one after it with something added is not the    *)
(* code: it is a plausible mistake, and some property must fail when it    *)
(* takes the place of the code's definition.                               *)
(***************************************************************************)
EXTENDS Integers, SequencesExt, FiniteSetsExt

Event(what, gi, atts, text) == [what |-> what, gi |-> gi, atts |-> atts, text |-> text]
StartOf(gi, atts) == Event("start", gi, atts, <<>>)
DataOf(gi, text)  == Event("data", gi, <<>>, text)
EndOf(gi)         == Event("end", gi, <<>>, <<>>)

-----------------------------------------------------------------------------
(* Writing. *)

\* put_cdata, for the data that a filter passes on: a backslash is not escaped.
PutEscape(c) == CASE c = "nl"  -> <<"bs", "0", "1", "2", "bs", "n">>
                  [] c = "ctl" -> <<"bs", "0", "0", "1">>
                  [] OTHER     -> <<c>>
\* EsisDataWriter
Escape(c) == IF c = "bs" THEN <<"bs", "bs">> ELSE PutEscape(c)
Escaped(text)    == FoldLeft(LAMBDA s, c : s \o Escape(c), <<>>, text)
PutEscaped(text) == FoldLeft(LAMBDA s, c : s \o PutEscape(c), <<>>, text)

\* A line for an attribute; one without a value is what other programs write.
AttrLine(a) ==
  IF a.val = "" THEN <<"A", a.name, " ", "IMPLIED", "eol">>
  ELSE <<"A", a.name, " ", "CDATA", " ", a.val, "eol">>
Tag(e) == FoldLeft(LAMBDA s, a : s \o AttrLine(a), <<>>, e.atts) \o <<"(", e.gi, "eol">>
DataLine(data) == <<"-">> \o data \o <<"eol">>

\* ESIS_Attr and ESIS_Start, ESIS_Cdata, ESIS_End
Written(e) ==
  CASE e.what = "start" -> Tag(e)
    [] e.what = "data"  -> IF e.text = <<>> THEN <<>> ELSE DataLine(Escaped(e.text))
    [] e.what = "end"   -> <<")", e.gi, "eol">>
\* What ParseLoop writes for an element without a handler
Passed(e) == IF e.what = "data" THEN DataLine(PutEscaped(e.text)) ELSE Written(e)

-----------------------------------------------------------------------------
(* Reading data: store_cdata. *)

Octal == {"0", "1", "2"}
Value(c) == CHOOSE v \in 0 .. 2 : c = <<"0", "1", "2">>[v + 1]
\* The characters of an octal escape; RS is ignored.
Byte(ds) == LET num == FoldLeft(LAMBDA n, c : 8 * n + Value(c), 0, ds) IN
            CASE num = 10 -> <<>> [] num = 1 -> <<"ctl">> [] OTHER -> <<"byte">>

At(p, j) == IF j \in DOMAIN p THEN p[j] ELSE "EOF"
DigitsGreedy(p, j) == Max({k \in 0 .. 4 : \A m \in 0 .. k - 1 : At(p, j + m) \in Octal})
\* The number of octal digits at place j, three at most
Digits(p, j) == Max({k \in 0 .. 3 : \A m \in 0 .. k - 1 : At(p, j + m) \in Octal})

\* The data that begins at place i of the stream p, and the place after it.
\* The character that ends an octal escape of less than three digits is
\* swallowed, even if it is the end of the line.
Stored(p, i) ==
  LET then(text, rest) == [text |-> text \o rest.text, next |-> rest.next]
      from[j \in i .. Len(p) + 4] ==
        CASE At(p, j) \in {"eol", "EOF"} -> [text |-> <<>>, next |-> j + 1]
          [] At(p, j) = "bs" /\ At(p, j + 1) \in {"eol", "EOF"} -> [text |-> <<>>, next |-> j + 2]
          [] At(p, j) = "bs" /\ At(p, j + 1) = "n" -> then(<<"nl">>, from[j + 2])
          [] At(p, j) = "bs" /\ At(p, j + 1) \in Octal ->
               LET n == Digits(p, j + 1) IN
               then(Byte(SubSeq(p, j + 1, j + n)), from[j + 1 + n + (IF n < 3 THEN 1 ELSE 0)])
          [] At(p, j) = "bs" -> then(<<At(p, j + 1)>>, from[j + 2])
          [] OTHER -> then(<<At(p, j)>>, from[j + 1])
  IN  from[i]

-----------------------------------------------------------------------------
(* The reader's stack: ParseLoop. *)

NullFrame == [token |-> "frame", n_att |-> 0, r_att |-> 0, r_gi |-> 0,
              handler |-> FALSE, userData |-> FALSE]
NewReader == [S |-> <<>>, frame |-> NullFrame, n_att |-> 0, err |-> FALSE]
Str(s) == [str |-> s]

PushFrameBeyond(r) ==
  [r EXCEPT !.S = Append(@, [r.frame EXCEPT !.token = "stack"]),
            !.frame = [NullFrame EXCEPT !.r_att = Len(r.S) + 2]]
\* The frame of the enclosing element is right below r_att.
PushFrame(r) ==
  [r EXCEPT !.S = Append(@, [r.frame EXCEPT !.token = "stack"]),
            !.frame = [NullFrame EXCEPT !.r_att = Len(r.S) + 1]]
PopFrameReset(r) == [r EXCEPT !.frame = [Last(r.S) EXCEPT !.token = "frame", !.userData = FALSE]]
\* esisStackPop reads the topmost frame and leaves it on the stack.
PopFrame(r) == [r EXCEPT !.frame = [Last(r.S) EXCEPT !.token = "frame"]]
Release(r, n) == [r EXCEPT !.S = SubSeq(@, 1, n)]
\* The first attribute, or the name, of an element
Opening(r) == IF r.n_att = 0 THEN PushFrame(r) ELSE r

\* case 'A', with store_attr, which fails when one of the two blanks is missing
Attribute(r, line) ==
  LET o == Opening(r) IN
  IF Len(line) = 5 THEN [o EXCEPT !.S = @ \o <<Str(line[1]), Str(line[5])>>, !.n_att = @ + 1]
  ELSE IF r.n_att = 0 THEN PopFrame([o EXCEPT !.err = TRUE])
  ELSE [o EXCEPT !.err = TRUE]

\* case '('
OpenElement(r, gi, handled) ==
  LET o == Opening(r) IN
  [o EXCEPT !.S = Append(@, Str(gi)), !.n_att = 0,
            !.frame.n_att = o.n_att, !.frame.r_gi = Len(o.S) + 1, !.frame.handler = handled]

\* case ')', after the handler's call
CloseElement(r) ==
  LET s == Release(r, r.frame.r_att) IN
  IF r.frame.r_att >= 1 THEN PopFrame(s) ELSE [s EXCEPT !.frame = NullFrame]

ElemGI(r) == IF r.frame.r_gi = 0 THEN "" ELSE r.S[r.frame.r_gi].str
\* ESIS_Atts_
Atts(r) == [k \in 1 .. r.frame.n_att |->
             [name |-> r.S[r.frame.r_att + 2 * k - 1].str, val |-> r.S[r.frame.r_att + 2 * k].str]]
=============================================================================
