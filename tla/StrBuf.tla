------------------------------- MODULE StrBuf -------------------------------
(***************************************************************************)
(* String buffers (src/src/buffer.c) and the chunks that own a string      *)
(* (src/src/chunk.h): blocks of memory with their sizes, the growth of a   *)
(* buffer in integers of fixed width, and the loops that rewrite a buffer  *)
(* in place. The module Strings says what comes of it.                     *)
(*                                                                         *)
(* Of a block, the bytes that were written last are kept, up to the NUL;   *)
(* nothing is assumed of the ones behind it.                               *)
(*                                                                         *)
(* A definition named like one after it with something added, such as      *)
(* FitsExactly, is not the code: it is a plausible mistake.                *)
(***************************************************************************)
EXTENDS StringFunctions

CONSTANTS Bufs, Chunks,
          Texts,    \* the strings the operations are given
          Blocks,   \* bound: the blocks that the allocator has
          MaxInt    \* INT32_MAX

Initbuf == "cmark_strbuf__initbuf"
None == "NULL"
Static == "static"

Nul == 0
Half == MaxInt \div 2
\* Two's complement
Wrap(n) == IF n > MaxInt THEN n - 2 * (MaxInt + 1) ELSE n
\* "Oversize the buffer by 50%"
NewSize(t) == LET n == Wrap(t + t \div 2 + 1) IN (Wrap(n + 7) \div 8) * 8

ASSUME SizeAssumption == MaxInt \in Nat /\ MaxInt >= 31
\* A buffer that has all it can get, and a text more, is still counted without wrapping.
ASSUME TextsAssumption ==
  \A s \in Texts : s \in Seq(Nat \ {Nul}) /\ Len(s) <= MaxInt - NewSize(Half) + 1
ASSUME BytesAssumption == {Space, Newline, Backslash, Mark} \subseteq Nat \ {Nul}
ASSUME NamesAssumption == None \notin Bufs /\ {Initbuf, None, Static} \cap Blocks = {}

VARIABLES
  room,   \* the size of each block, 0 when it is free
  bytes,  \* what it holds
  buf,    \* each cmark_strbuf
  chunk,  \* each cmark_chunk; fixed is the text of one that owns none
  job,    \* the locals r, w and last_char_was_space of a loop over buffer b
  asked,  \* the function called last
  pc
vars == <<room, bytes, buf, chunk, job, asked, pc>>

Empty == [ptr |-> Initbuf, asize |-> 0, size |-> 0]
NoText == [data |-> None, len |-> 0, alloc |-> FALSE, fixed |-> <<>>]
Idle == [b |-> None, r |-> 0, w |-> 0, last |-> FALSE]
\* The blocks that a buffer and a chunk have to free
Holds(b) == IF buf[b].asize > 0 THEN {buf[b].ptr} ELSE {}
Owned(c) == IF chunk[c].alloc THEN {chunk[c].data} ELSE {}
Contents(b) == IF buf[b].size = 0 THEN <<>> ELSE SubSeq(bytes[buf[b].ptr], 1, buf[b].size)
Said(c) == IF chunk[c].alloc THEN SubSeq(bytes[chunk[c].data], 1, chunk[c].len) ELSE chunk[c].fixed
Free == {a \in Blocks : room[a] = 0}

Init == /\ room = [a \in Blocks |-> 0] /\ bytes = [a \in Blocks |-> <<>>]
        /\ buf = [b \in Bufs |-> Empty] /\ chunk = [c \in Chunks |-> NoText]
        /\ job = Idle /\ asked = "init" /\ pc = "idle"

Called(f) == pc = "idle" /\ asked' = f

-----------------------------------------------------------------------------
(* Growth. *)

FitsExactly(t, asize) == t <= asize
Fits(t, asize) == t < asize
TooMuchForAll(t) == FALSE
TooMuch(t) == t > Half
Abort == pc' = "aborted" /\ UNCHANGED <<room, bytes, buf, chunk, job, asked>>

\* cmark_strbuf_grow(b, t), which may move the buffer, and then s is what is written to its
\* start, a NUL included
GrowAndWrite(f, b, t, s, n) ==
  \/ /\ Fits(t, buf[b].asize) /\ Called(f)
     /\ bytes' = IF buf[b].asize = 0 THEN bytes ELSE [bytes EXCEPT ![buf[b].ptr] = s]
     /\ buf' = [buf EXCEPT ![b].size = n]
     /\ UNCHANGED <<room, chunk, job, pc>>
  \/ pc = "idle" /\ ~Fits(t, buf[b].asize) /\ TooMuch(t) /\ Abort
  \/ /\ ~Fits(t, buf[b].asize) /\ ~TooMuch(t) /\ Called(f)
     /\ \E a \in Free \cup Holds(b) :
          /\ room'  = [x \in Blocks |-> IF x = a THEN NewSize(t)
                                        ELSE IF x \in Holds(b) THEN 0 ELSE room[x]]
          /\ bytes' = [x \in Blocks |-> IF x = a THEN s
                                        ELSE IF x \in Holds(b) THEN <<>> ELSE bytes[x]]
          /\ buf'   = [buf EXCEPT ![b] = [ptr |-> a, asize |-> NewSize(t), size |-> n]]
     /\ UNCHANGED <<chunk, job, pc>>

\* What a buffer holds, as far as it was ever written
Written(b) == IF buf[b].asize = 0 THEN <<>> ELSE bytes[buf[b].ptr]
\* cmark_strbuf_grow, and cmark_strbuf_init with a size
Grow(b, t) == t > 0 /\ GrowAndWrite("grow", b, t, Written(b), buf[b].size)

\* cmark_strbuf_put, puts and putc
Put(b, s) ==
  /\ s # <<>>
  /\ GrowAndWrite("put", b, Wrap(buf[b].size + Len(s)), Contents(b) \o s \o <<Nul>>,
                  buf[b].size + Len(s))

\* A write that needs no more room
Rewrite(f, b, s) ==
  /\ Called(f)
  /\ buf' = [buf EXCEPT ![b].size = Len(s)]
  /\ bytes' = IF buf[b].asize = 0 THEN bytes ELSE [bytes EXCEPT ![buf[b].ptr] = s \o <<Nul>>]
  /\ UNCHANGED <<room, chunk, job, pc>>
Leave(f) == Called(f) /\ UNCHANGED <<room, bytes, buf, chunk, job, pc>>

\* cmark_strbuf_set of bytes of another owner; the test "len >= buf->asize" is made by
\* cmark_strbuf_grow too.
Set(b, s) == IF s = <<>> THEN Rewrite("set", b, <<>>)
             ELSE GrowAndWrite("set", b, Len(s), s \o <<Nul>>, Len(s))
Clear(b) == Rewrite("clear", b, <<>>)

-----------------------------------------------------------------------------
(* Shortening. *)

\* All before m and from n on is white space, and what is between has none at its ends.
Between(s, m, n) ==
  /\ m <= n /\ \A k \in 1 .. m : IsSpace(s[k])
  /\ \A k \in n + 1 .. Len(s) : IsSpace(s[k])
  /\ IF m = n THEN n = Len(s) ELSE ~IsSpace(s[m + 1]) /\ ~IsSpace(s[n])

Truncate(b, n) == IF n < buf[b].size THEN Rewrite("truncate", b, SubSeq(Contents(b), 1, n))
                  ELSE Leave("truncate")
Drop(b, n) == IF n > 0 THEN Rewrite("drop", b, SubSeq(Contents(b), n + 1, buf[b].size))
              ELSE Leave("drop")
\* cmark_strbuf_trim: a drop, and then cmark_strbuf_rtrim
Trim(b) == IF buf[b].size = 0 THEN Leave("trim")
           ELSE \E m, n \in 0 .. buf[b].size :
                  /\ Between(Contents(b), m, n)
                  /\ Rewrite("trim", b, SubSeq(Contents(b), m + 1, n))

-----------------------------------------------------------------------------
(* The loops in place: a turn is an action. *)

\* A loop begins.
Begin(f, b) == /\ Called(f) /\ pc' = f
               /\ job' = [b |-> b, r |-> 0, w |-> 0, last |-> FALSE]
               /\ UNCHANGED <<room, bytes, buf, chunk>>
At(n) == bytes[buf[job.b].ptr][n + 1]
\* ptr[w++] = x, and the next turn is at r
Copy(x, r, last) ==
  /\ bytes' = [bytes EXCEPT ![buf[job.b].ptr][job.w + 1] = x]
  /\ job' = [b |-> job.b, r |-> r, w |-> job.w + 1, last |-> last]
  /\ UNCHANGED <<room, buf, chunk, asked, pc>>
Skip == /\ job' = [job EXCEPT !.r = @ + 1]
        /\ UNCHANGED <<room, bytes, buf, chunk, asked, pc>>
Turn(f) == pc = f /\ job.r < buf[job.b].size

NormalizeTurnForgetful ==
  /\ Turn("normalize")
  /\ IF ~IsSpace(At(job.r)) THEN Copy(At(job.r), job.r + 1, job.last)
     ELSE IF job.last THEN Skip ELSE Copy(Space, job.r + 1, TRUE)
NormalizeTurn ==
  /\ Turn("normalize")
  /\ IF ~IsSpace(At(job.r)) THEN Copy(At(job.r), job.r + 1, FALSE)
     ELSE IF job.last THEN Skip ELSE Copy(Space, job.r + 1, TRUE)
\* The byte after the last one is the NUL.
UnescapeTurn ==
  /\ Turn("unescape")
  /\ LET r == IF At(job.r) = Backslash /\ IsPunct(At(job.r + 1)) THEN job.r + 1 ELSE job.r
     IN  Copy(At(r), r + 1, FALSE)
\* cmark_strbuf_truncate(buf, w)
EndUnterminated ==
  /\ pc \in {"normalize", "unescape"} /\ job.r >= buf[job.b].size
  /\ buf' = [buf EXCEPT ![job.b].size = job.w]
  /\ job' = Idle /\ pc' = "idle"
  /\ UNCHANGED <<room, bytes, chunk, asked>>
End ==
  /\ pc \in {"normalize", "unescape"} /\ job.r >= buf[job.b].size
  /\ buf' = [buf EXCEPT ![job.b].size = job.w]
  /\ bytes' = IF job.w < buf[job.b].size
              THEN [bytes EXCEPT ![buf[job.b].ptr] = SubSeq(@, 1, job.w) \o <<Nul>>] ELSE bytes
  /\ job' = Idle /\ pc' = "idle"
  /\ UNCHANGED <<room, chunk, asked>>

-----------------------------------------------------------------------------
(* Owners. *)

Swap(a, b) == /\ a # b /\ Called("swap")
              /\ buf' = [buf EXCEPT ![a] = buf[b], ![b] = buf[a]]
              /\ UNCHANGED <<room, bytes, chunk, job, pc>>
\* mem->free; freeing NULL does nothing.
Release(A) == /\ room'  = [x \in Blocks |-> IF x \in A THEN 0 ELSE room[x]]
              /\ bytes' = [x \in Blocks |-> IF x \in A THEN <<>> ELSE bytes[x]]
FreeBuf(b) == /\ Called("free") /\ Release({buf[b].ptr})
              /\ buf' = [buf EXCEPT ![b] = Empty]
              /\ UNCHANGED <<chunk, job, pc>>

\* calloc for a string, where A is given back afterwards
Store(c, s, A) ==
  \E a \in Free :
    /\ room'  = [x \in Blocks |-> IF x = a THEN Len(s) + 1 ELSE IF x \in A THEN 0 ELSE room[x]]
    /\ bytes' = [x \in Blocks |-> IF x = a THEN s \o <<Nul>> ELSE IF x \in A THEN <<>> ELSE bytes[x]]
    /\ chunk' = [chunk EXCEPT ![c] = [data |-> a, len |-> Len(s), alloc |-> TRUE, fixed |-> <<>>]]
    /\ UNCHANGED <<buf, job, pc>>

\* cmark_chunk_buf_detach, into a chunk that owns nothing. No caller detaches a buffer that
\* it grew and never wrote to.
Detach(b, c) ==
  /\ ~chunk[c].alloc /\ Called("detach")
  /\ \/ buf[b].asize = 0 /\ Store(c, <<>>, {})
     \/ /\ buf[b].asize > 0 /\ Written(b) # <<>>
        /\ chunk' = [chunk EXCEPT ![c] = [data |-> buf[b].ptr, len |-> buf[b].size,
                                          alloc |-> TRUE, fixed |-> <<>>]]
        /\ buf' = [buf EXCEPT ![b] = Empty]
        /\ UNCHANGED <<room, bytes, job, pc>>

\* A chunk that owns nothing gets a text that no chunk owns.
Literal(c, s) == /\ ~chunk[c].alloc /\ Called("literal")
                 /\ chunk' = [chunk EXCEPT ![c] = [data |-> Static, len |-> Len(s), alloc |-> FALSE,
                                                   fixed |-> s]]
                 /\ UNCHANGED <<room, bytes, buf, job, pc>>
\* cmark_chunk_trim and its parts, which are for chunks that own nothing
ChunkTrim(c) == /\ ~chunk[c].alloc /\ Called("chunk_trim")
                /\ \E m, n \in 0 .. Len(chunk[c].fixed) :
                     /\ Between(chunk[c].fixed, m, n)
                     /\ chunk' = [chunk EXCEPT ![c].len = n - m,
                                              ![c].fixed = SubSeq(@, m + 1, n)]
                /\ UNCHANGED <<room, bytes, buf, job, pc>>
ToCstr(c) == \/ chunk[c].alloc /\ Leave("to_cstr")
             \/ ~chunk[c].alloc /\ Called("to_cstr") /\ Store(c, chunk[c].fixed, {})
\* cmark_chunk_set_cstr of a text, which may be the chunk's own ("set_own")
SetCstrLeaking(f, c, s) == Called(f) /\ Store(c, s, {})
SetCstrFreeingFirst(f, c, s) ==
  Called(f) /\ Store(c, IF f = "set_own" /\ chunk[c].alloc THEN <<>> ELSE s, Owned(c))
SetCstr(f, c, s) == Called(f) /\ Store(c, s, Owned(c))
\* of NULL, and cmark_chunk_free
FreeChunk(f, c) == /\ Called(f) /\ Release(Owned(c))
                   /\ chunk' = [chunk EXCEPT ![c] = NoText]
                   /\ UNCHANGED <<buf, job, pc>>

Aborted == pc = "aborted" /\ UNCHANGED vars

\* The functions on some buffers B and chunks C, with texts of T; longest is a bound on what
\* grow, put and set are asked for.
Calls(B, C, T, longest) ==
  \/ \E b \in B :
       \/ \E n \in 1 .. longest : Grow(b, n)
       \/ \E s \in T : buf[b].size + Len(s) <= longest /\ Put(b, s)
       \/ \E s \in T : Len(s) <= longest /\ Set(b, s)
       \/ Clear(b) \/ Trim(b) \/ Begin("normalize", b) \/ Begin("unescape", b) \/ FreeBuf(b)
       \/ \E n \in 0 .. buf[b].size : Truncate(b, n) \/ Drop(b, n)
       \/ \E a \in B : Swap(a, b)
       \/ \E c \in C : Detach(b, c)
  \/ NormalizeTurn \/ UnescapeTurn \/ End \/ Aborted
  \/ \E c \in C :
       \/ \E s \in T : Literal(c, s) \/ SetCstr("set_cstr", c, s)
       \/ SetCstr("set_own", c, Said(c))
       \/ ChunkTrim(c) \/ ToCstr(c) \/ FreeChunk("set_cstr", c) \/ FreeChunk("chunk_free", c)
Next == \E longest \in Nat : Calls(Bufs, Chunks, Texts, longest)
Spec == Init /\ [][Next]_vars

-----------------------------------------------------------------------------
(* What should hold. *)

\* What is still to come of a buffer that a loop is rewriting
Pending(b) ==
  LET s    == Written(b)
      rest == SubSeq(s, job.r + 1, buf[b].size)
  IN  IF job.b # b THEN Contents(b)
      ELSE SubSeq(s, 1, job.w) \o
           (CASE pc = "unescape" -> Unescaped(rest)
              [] pc = "normalize" /\ job.last -> Tail(Normalized(<<Space>> \o rest))
              [] OTHER -> Normalized(rest))
S == INSTANCE Strings WITH val <- [b \in Bufs |-> Pending(b)],
                           text <- [c \in Chunks |-> Said(c)]
\* Every function does to its string what Strings says and to no other string anything:
\* the loops that overwrite what they have still to read lose nothing, what realloc moves
\* is kept, and a chunk can be set to its own text.
IsStrings == S!Spec

\* Each block has one owner: none is lost, freed twice or used after it was freed, whatever
\* is detached, swapped, set, moved by realloc and freed.
OneOwner ==
  /\ \A a \in Blocks : room[a] > 0 <=>
       (\E b \in Bufs : a \in Holds(b)) \/ (\E c \in Chunks : a \in Owned(c))
  /\ \A b, d \in Bufs : Holds(b) \cap Holds(d) # {} => b = d
  /\ \A c, d \in Chunks : Owned(c) \cap Owned(d) # {} => c = d
  /\ \A b \in Bufs, c \in Chunks : Holds(b) \cap Owned(c) = {}
\* The bytes written stay within the block, with room for a NUL behind the string, however
\* large a buffer becomes: no sum of sizes wraps around before cmark_strbuf_grow gives up.
FitsInBlock ==
  /\ \A a \in Blocks : Len(bytes[a]) <= room[a]
  /\ \A b \in Bufs : IF buf[b].asize = 0 THEN buf[b].ptr = Initbuf /\ buf[b].size = 0
                     ELSE buf[b].size < buf[b].asize /\ buf[b].asize = room[buf[b].ptr]
  /\ \A c \in Chunks : chunk[c].alloc => chunk[c].len < room[chunk[c].data]
\* Behind the string of a buffer that was written to, and behind the text that a chunk
\* owns, is the NUL that cmark_strbuf_unescape and the users of a C string run up to.
EndsWithNul ==
  /\ \A b \in Bufs : LET s == Written(b) IN
       s # <<>> => Len(s) > buf[b].size /\ s[buf[b].size + 1] = Nul
  /\ \A c \in Chunks : chunk[c].alloc => bytes[chunk[c].data][chunk[c].len + 1] = Nul
\* What a block holds is within it, and ends where its readers stop.
BlocksSound == FitsInBlock /\ EndsWithNul
============================================================
