------------------------------ MODULE LineFeed ------------------------------
(***************************************************************************)
(* How src/src/blocks.c makes lines out of the buffers it is fed: the loop *)
(* of S_parser_feed, and cmark_parser_finish for the text left over. A     *)
(* buffer may end anywhere: within a line, between a carriage return and   *)
(* its newline, before or after a NUL byte.                                *)
(*                                                                         *)
(* A definition named like one after it with something added, such as      *)
(* FeedAll, is not the code: it is a plausible mistake, and some           *)
(* property must fail when it takes the place of the code's definition.    *)
(***************************************************************************)
EXTENDS Naturals, SequencesExt, FiniteSetsExt

CONSTANT Callers  \* bound: for each caller the buffers it may feed, and which of them
                  \* may be the last; the greatest number of characters in all, and
                  \* when it stops because that is enough

\* Any byte that is neither a line end nor NUL is taken as it is; "repl" is U+FFFD.
\* An empty buffer is fed as a whole document only: all who feed several stop at a
\* read of no bytes, and S_parser_feed looks at the first byte.
ASSUME CallersAssumption ==
  \A c \in DOMAIN Callers : /\ Callers[c].buffers \subseteq Seq(STRING) /\ Callers[c].last \subseteq BOOLEAN
                            /\ <<>> \in Callers[c].buffers => Callers[c].last = {TRUE}
                            /\ Callers[c].max \in Nat /\ Callers[c].enough \in Nat

VARIABLES
  pc,       \* between calls, in the loop of S_parser_feed, or finished
  buffer,   \* from the pointer of that name to the end of what was fed
  eof,      \* the caller says that no other buffer follows
  linebuf,  \* parser->linebuf: the start of a line that has not ended yet
  endedCr,  \* parser->last_buffer_ended_with_cr
  lines,    \* the lines given to S_process_line, in order
  caller,   \* who feeds
  fed       \* history: all text fed so far
vars == <<pc, buffer, eof, linebuf, endedCr, lines, caller, fed>>

-----------------------------------------------------------------------------
(* The loop. Each turn takes the text up to the first byte that stops the  *)
(* inner loop, and that byte with it.                                      *)

IsLineEnd(c) == c \in {"cr", "nl"}
Stops(b) == {i \in DOMAIN b : IsLineEnd(b[i]) \/ b[i] = "nul"}
ChunkLen(b) == IF Stops(b) = {} THEN Len(b) ELSE Min(Stops(b)) - 1
Chunk == SubSeq(buffer, 1, ChunkLen(buffer))
After == SubSeq(buffer, ChunkLen(buffer) + 1, Len(buffer))

ProcessLine(text) == /\ lines' = Append(lines, text)
                     /\ linebuf' = <<>>
Keep(text) == /\ linebuf' = linebuf \o text
              /\ UNCHANGED lines

\* The newline belongs to the carriage return before it. At the end of the
\* buffer the code reads one byte too far; whatever it finds, the loop ends.
SkipLineEnd(b) == IF Head(b) = "cr" /\ Len(b) > 1 /\ b[2] = "nl"
                  THEN SubSeq(b, 3, Len(b)) ELSE Tail(b)

LineEnds == /\ After # <<>> /\ IsLineEnd(Head(After))
            /\ ProcessLine(linebuf \o Chunk)
            /\ buffer' = SkipLineEnd(After)
            /\ endedCr' = (After = <<"cr">>)

NulByte == /\ After # <<>> /\ Head(After) = "nul"
           /\ Keep(Chunk \o <<"repl">>)
           /\ buffer' = Tail(After)
           /\ UNCHANGED endedCr

BufferEnds == /\ After = <<>>
              /\ IF eof THEN ProcessLine(linebuf \o Chunk) ELSE Keep(Chunk)
              /\ buffer' = <<>>
              /\ UNCHANGED endedCr

Turn == /\ pc = "feed" /\ buffer # <<>>
        /\ LineEnds \/ NulByte \/ BufferEnds
        /\ UNCHANGED <<pc, eof, caller, fed>>

Return == /\ pc = "feed" /\ buffer = <<>>
          /\ pc' = "idle"
          /\ UNCHANGED <<buffer, eof, linebuf, endedCr, lines, caller, fed>>

-----------------------------------------------------------------------------
Init == /\ pc = "idle"
        /\ buffer = <<>> /\ linebuf = <<>> /\ lines = <<>> /\ fed = <<>>
        /\ eof = FALSE /\ endedCr = FALSE
        /\ caller \in DOMAIN Callers

FeedAll(b, last) == /\ pc = "idle" /\ ~eof
                    /\ Len(fed) + Len(b) <= Callers[caller].max
                    /\ pc' = "feed"
                    /\ buffer' = b
                    /\ eof' = last
                    /\ endedCr' = FALSE
                    /\ fed' = fed \o b
                    /\ UNCHANGED <<linebuf, lines, caller>>

\* S_parser_feed: the newline of a line that the last buffer ended is skipped.
\* last: the whole document, or the short read at the end of a file.
Feed(b, last) == /\ pc = "idle" /\ ~eof
                 /\ Len(fed) + Len(b) <= Callers[caller].max
                 /\ pc' = "feed"
                 /\ buffer' = IF endedCr /\ b # <<>> /\ Head(b) = "nl"
                              THEN Tail(b) ELSE b
                 /\ eof' = last
                 /\ endedCr' = FALSE
                 /\ fed' = fed \o b
                 /\ UNCHANGED <<linebuf, lines, caller>>

\* cmark_parser_finish
FinishWithout == /\ pc = "idle"
                 /\ pc' = "done"
                 /\ UNCHANGED <<buffer, eof, linebuf, endedCr, lines, caller, fed>>
Finish == /\ pc = "idle"
          /\ pc' = "done"
          /\ IF linebuf # <<>> THEN ProcessLine(linebuf) ELSE UNCHANGED <<linebuf, lines>>
          /\ UNCHANGED <<buffer, eof, endedCr, caller, fed>>

Done == pc = "done" /\ UNCHANGED vars
Next == \/ /\ Len(fed) < Callers[caller].enough
           /\ \E b \in Callers[caller].buffers, last \in Callers[caller].last : Feed(b, last)
        \/ Turn \/ Return \/ Finish \/ Done
Spec == Init /\ [][Next]_vars

-----------------------------------------------------------------------------
(* spec.txt: "A line ending is a newline (U+000A), a carriage return       *)
(* (U+000D) not followed by a newline, or a carriage return and a          *)
(* following newline." The lines of a text, from its line endings alone.   *)
Endings(t) == {i \in DOMAIN t : \/ t[i] = "nl"
                                \/ t[i] = "cr" /\ (i = Len(t) \/ t[i + 1] # "nl")}
\* U+FFFD for each NUL
Wording(s)   == [i \in DOMAIN s |-> IF s[i] = "nul" THEN "repl" ELSE s[i]]
From(t, i)   == Max({0} \cup {j \in Endings(t) : j < i}) + 1
\* The line whose line ending ends at i, without that
LineAt(t, i) == LET crlf == t[i] = "nl" /\ i > 1 /\ t[i - 1] = "cr"
                IN  Wording(SubSeq(t, From(t, i), IF crlf THEN i - 2 ELSE i - 1))
Ended(t)     == LET ends == Endings(t)
                    upto[i \in 0 .. Len(t)] ==
                      IF i = 0 THEN <<>>
                      ELSE IF i \in ends THEN Append(upto[i - 1], LineAt(t, i))
                      ELSE upto[i - 1]
                IN  upto[Len(t)]
Unended(t)   == Wording(SubSeq(t, From(t, Len(t) + 1), Len(t)))
LinesOf(t)   == IF Unended(t) = <<>> THEN Ended(t) ELSE Append(Ended(t), Unended(t))

(* The lines a document is parsed as depend on its text alone and not on   *)
(* where the buffers ended: they are the lines of the text, with U+FFFD    *)
(* for each NUL, and the last one need not end.                            *)
LinesOfText == pc = "done" => lines = LinesOf(fed)

(* Between two calls every line that has ended was processed, even if it   *)
(* ended with the buffer, and the one that has not is in linebuf.          *)
NothingWithheld == pc = "idle" /\ ~eof => /\ lines = Ended(fed)
                                          /\ linebuf = Unended(fed)

(* The two together: at the end and between any two calls, the lines that  *)
(* were processed are those of the text fed so far, however it was cut.    *)
LinesAsFed == LinesOfText /\ NothingWithheld
=============================================================================
