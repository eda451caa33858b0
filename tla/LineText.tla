------------------------------ MODULE LineText ------------------------------
(***************************************************************************)
(* A line on its way to a text of the tree: cmark_utf8proc_check           *)
(* (src/src/utf8.c) and the lines of S_process_line (src/src/blocks.c)     *)
(* that put it into parser->curline with invalid sequences replaced and a  *)
(* newline at its end, and finalize, which makes the info string of a      *)
(* fence of it (the fence itself is left out) by replacing its character   *)
(* references (Entities). finalize does so when the block is closed, after *)
(* lines that change nothing of this one.                                  *)
(*                                                                         *)
(* The memory behind curline keeps what earlier lines left in it; nothing  *)
(* is known of a byte that was never written.                              *)
(***************************************************************************)
EXTENDS Entities

CONSTANTS Documents,  \* bound: sequences of lines without their line ends
          Validates   \* bound: whether CMARK_OPT_VALIDATE_UTF8 is set
ASSUME DocumentsAssumption ==
  /\ \A d \in Documents : d \in Seq(Seq(Byte \ {0, 10, 13}))
  /\ Validates \subseteq BOOLEAN

VARIABLES
  lines,      \* the lines that S_process_line has still to be called for
  line,       \* its arguments buffer and bytes
  validate,
  curline,    \* the bytes at its ptr that were ever written, and its size
  pos, org,   \* the locals of cmark_utf8proc_check
  stage       \* where the line is; "text" until its references are replaced
lineVars == <<lines, line, validate, curline, pos, org>>

-----------------------------------------------------------------------------
(* The line. *)

\* cmark_strbuf_put, which ends the string with a NUL
Put(b, s) ==
  LET n == b.size + Len(s) IN
  IF s = <<>> THEN b
  ELSE [size |-> n,
        mem  |-> [j \in 1 .. Max({Len(b.mem), n + 1}) |->
                    IF j \in b.size + 1 .. n THEN s[j - b.size]
                    ELSE IF j = n + 1 THEN 0 ELSE b.mem[j]]]
\* cmark_strbuf_clear, whose buffer was allocated when the parser was made
Clear(b) == [size |-> 0, mem |-> IF b.mem = <<>> THEN <<0>> ELSE [b.mem EXCEPT ![1] = 0]]
Held(b) == SubSeq(b.mem, 1, b.size)

LineInit ==
  /\ Init /\ lines \in Documents /\ validate \in Validates
  /\ line = <<>> /\ curline = [mem |-> <<>>, size |-> 0]
  /\ pos = 0 /\ org = 0 /\ stage = "idle"

BeginLine ==
  /\ stage = "idle" /\ lines # <<>>
  /\ line' = Head(lines) /\ lines' = Tail(lines)
  /\ pos' = 0 /\ org' = 0
  /\ \/ validate /\ stage' = "check" /\ UNCHANGED curline
     \/ ~validate /\ stage' = "end" /\ curline' = Put(curline, line')
  /\ UNCHANGED <<vars, validate>>

Suffix == SubSeq(line, pos + 1, Len(line))
\* A turn of the inner loop at a valid character
KeepChar ==
  /\ stage = "check" /\ pos < Len(line) /\ CharLen(Suffix) >= 0
  /\ pos' = pos + CharLen(Suffix)
  /\ UNCHANGED <<vars, lines, line, validate, curline, org, stage>>

\* A turn of the outer loop that ends at an invalid one
ReplaceChar ==
  /\ stage = "check" /\ pos < Len(line) /\ CharLen(Suffix) < 0
  /\ curline' = Put(Put(curline, SubSeq(line, org + 1, pos)), Unknown)
  /\ pos' = pos - CharLen(Suffix) /\ org' = pos'
  /\ UNCHANGED <<vars, lines, line, validate, stage>>

\* The last one
EndCheck ==
  /\ stage = "check" /\ pos = Len(line)
  /\ curline' = Put(curline, SubSeq(line, org + 1, pos))
  /\ stage' = "end"
  /\ UNCHANGED <<vars, lines, line, validate, pos, org>>

\* "ensure line ends with a newline", by the byte at the length before the check
NeedsNewline ==
  IF Len(line) = 0 THEN {TRUE}
  ELSE IF Len(line) > Len(curline.mem) THEN BOOLEAN
  ELSE {curline.mem[Len(line)] \notin {10, 13}}
EndLine ==
  /\ stage = "end"
  /\ \E needed \in NeedsNewline : curline' = IF needed THEN Put(curline, <<10>>) ELSE curline
  /\ stage' = "blocks"
  /\ UNCHANGED <<vars, lines, line, validate, pos, org>>

\* What finalize takes: up to the first line end. It asserts that there is one; without
\* assertions, and with no line behind, it is everything.
IsLineEnd(b) == b \in {10, 13}
InfoString ==
  LET s == Held(curline)
      ends == {n \in DOMAIN s : IsLineEnd(s[n])}
  IN  IF ends = {} THEN s ELSE SubSeq(s, 1, Min(ends) - 1)
TakeInfo ==
  /\ stage = "blocks" /\ Unescape(InfoString)
  /\ stage' = "text"
  /\ UNCHANGED lineVars
UnescapeInfo == stage = "text" /\ Work /\ UNCHANGED <<lineVars, stage>>

\* The label finished of S_process_line
Finished ==
  /\ stage = "text" /\ pc = "done"
  /\ curline' = Clear(curline) /\ stage' = "idle"
  /\ UNCHANGED <<vars, lines, line, validate, pos, org>>

AllRead == stage = "idle" /\ lines = <<>>
Reading == \/ BeginLine \/ KeepChar \/ ReplaceChar \/ EndCheck \/ EndLine
           \/ TakeInfo \/ UnescapeInfo \/ Finished
LineNext == Reading \/ (AllRead /\ UNCHANGED <<vars, lineVars, stage>>)
LineSpec == LineInit /\ [][LineNext]_<<vars, lineVars, stage>>
\* The loops wait for nothing.
FairLineSpec == LineSpec /\ WF_<<vars, lineVars, stage>>(Reading)

-----------------------------------------------------------------------------
(* What the lines should be. *)

\* The characters of s as <<first, last>>; what is between them is not UTF-8.
Chars(s) == {c \in (DOMAIN s) \X (DOMAIN s) :
               c[1] <= c[2] /\ c[2] - c[1] < 4 /\ IsChar(SubSeq(s, c[1], c[2]))}
Covered(s) == UNION {c[1] .. c[2] : c \in Chars(s)}
\* The table of src/src/entities.inc holds UTF-8.
ASSUME CharactersAssumption ==
  \A e \in DOMAIN Table : Covered(Table[e].bytes) = DOMAIN Table[e].bytes
\* The characters in order, with one replacement for each gap
Kept(r) == SelectSeq(r, LAMBDA u : u # <<>>)
Read(s) ==
  LET gaps == DOMAIN s \ Covered(s)
      unit(j) == IF j \in gaps THEN IF j - 1 \in gaps THEN <<>> ELSE Unknown
                 ELSE IF \E c \in Chars(s) : c[1] = j
                      THEN SubSeq(s, j, (CHOOSE c \in Chars(s) : c[1] = j)[2]) ELSE <<>>
  IN  Kept([j \in DOMAIN s |-> unit(j)])
\* Without a replacement after a replacement
Collapsed(r) == Kept([j \in DOMAIN r |-> IF j > 1 /\ r[j] = Unknown /\ r[j - 1] = Unknown
                                         THEN <<>> ELSE r[j]])
\* A sequence cut by the end of the line takes along what follows its first byte.
CutShort == \E j, m \in DOMAIN line :
  j < m /\ Class(line[j]) > Len(line) - j + 1 /\ ~Continues(line[m])

\* A validated line is UTF-8 throughout, whatever bytes it was made of: no overlong form,
\* surrogate, stray or missing continuation passes cmark_utf8proc_check, also where two of
\* them meet.
OutputWellFormed ==
  validate /\ stage = "end" => Covered(Held(curline)) = 1 .. curline.size
\* And it stays so when its character references are replaced: what a number stands for is
\* encoded as UTF-8, and no reference takes a part of a character with it. The exception
\* are the bytes 254 and 255 that cmark_utf8proc_encode_char makes of U+FFFE and U+FFFF.
StaysWellFormed ==
  validate /\ stage = "text" /\ pc = "done"
    => \A j \in DOMAIN ob \ Covered(ob) : ob[j] \in {254, 255}
\* Every character of the line is kept, in order, and what is between characters becomes at
\* least one replacement character: cmark_utf8proc_check never skips the start of a
\* character, except behind a sequence that the end of the line cuts short.
CharactersKept ==
  validate /\ stage = "end" /\ ~CutShort
    => Collapsed(Read(Held(curline))) = Collapsed(Read(line))
\* What comes of a line says what the line says: its characters are kept, and then each
\* character reference becomes what it means and everything else stays.
SaysTheSame == CharactersKept /\ MeansWhatItSays
\* The decoder of the inline parser and of case folding (cmark_utf8proc_iterate) takes
\* exactly the sequences that the validator takes and that UTF-8 has, and the code point
\* it returns is encoded in the same bytes, noncharacters U+FFFE and U+FFFF excepted.
DecodersAgree ==
  stage = "check" /\ pos < Len(line) =>
    LET d == Iterate(Suffix) IN
    /\ d.len > 0 <=> CharLen(Suffix) > 0
    /\ d.len > 0 => /\ d.len = CharLen(Suffix)
                    /\ IsChar(SubSeq(Suffix, 1, d.len))
                    /\ d.uc \notin {65534, 65535} => Encode(d.uc) = SubSeq(Suffix, 1, d.len)
\* Nothing that is not UTF-8 comes into the tree, and what comes there is read as it was.
TextIsUtf8 == OutputWellFormed /\ StaysWellFormed /\ DecodersAgree
\* The comment in S_process_line: "ensure line ends with a newline", which finalize
\* asserts. Fails for a line that got shorter: the byte looked at is one that an earlier
\* line left behind.
LineEndsWithNewline ==
  stage = "blocks" => curline.size > 0 /\ curline.mem[curline.size] = 10
\* Every line is checked, and its references replaced, to its end.
LinesProcessed == <>AllRead
=============================================================================
