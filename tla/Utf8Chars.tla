----------------------------- MODULE Utf8Chars -----------------------------
(***************************************************************************)
(* The functions of src/src/utf8.c that look at one character, and what    *)
(* UTF-8 is, independently of them. Bytes are numbers, and s is a          *)
(* sequence of bytes from the one that is looked at to the last one.       *)
(*                                                                         *)
(* A definition named like one after it with something added, such as      *)
(* RefusedNoSurrogate, is not the code: it is a plausible mistake.         *)
(***************************************************************************)
EXTENDS Integers, SequencesExt, FiniteSetsExt

Byte == 0 .. 255

\* utf8proc_utf8class
Class(b) == CASE b < 128 -> 1
              [] b \in 192 .. 223 -> 2
              [] b \in 224 .. 239 -> 3
              [] b \in 240 .. 247 -> 4
              [] OTHER -> 0
Continues(b) == b \in 128 .. 191

Overlong(s, n)  == \/ n = 2 /\ s[1] < 194
                   \/ n = 3 /\ s[1] = 224 /\ s[2] < 160
                   \/ n = 4 /\ s[1] = 240 /\ s[2] < 144
Surrogate(s, n) == n = 3 /\ s[1] = 237 /\ s[2] >= 160
TooLarge(s, n)  == n = 4 /\ (s[1] > 244 \/ (s[1] = 244 /\ s[2] >= 144))
RefusedNoSurrogate(s, n) == Overlong(s, n) \/ TooLarge(s, n)
Refused(s, n) == Overlong(s, n) \/ Surrogate(s, n) \/ TooLarge(s, n)

\* What ends a sequence of n bytes too early
Broken(s, n) == {k \in 2 .. n : ~Continues(s[k])}

\* utf8proc_charlen: the length, or minus the bytes to skip
CharLength(s) ==
  LET n == Class(s[1]) IN
  CASE n = 0      -> -1
    [] n > Len(s) -> -Len(s)
    [] OTHER      -> IF Broken(s, n) = {} THEN n ELSE 1 - Min(Broken(s, n))
\* utf8proc_valid, which makes the same tests in the same order and then one more
Valid(s) == LET n == CharLength(s) IN IF n > 0 /\ Refused(s, n) THEN -n ELSE n

\* The turn of the inner loop of cmark_utf8proc_check that stands before s
CharLenSkippingAll(s) ==
  IF s[1] < 128 THEN 1
  ELSE IF Valid(s) < -1 \/ (Valid(s) = -1 /\ Class(s[1]) > 0) THEN -Min({Class(s[1]), Len(s)}) ELSE Valid(s)
CharLenStuck(s) == IF s[1] < 128 THEN 1 ELSE IF Class(s[1]) > Len(s) THEN 0 ELSE Valid(s)
CharLen(s) == IF s[1] = 0 THEN -1 ELSE IF s[1] < 128 THEN 1 ELSE Valid(s)

\* cmark_utf8proc_iterate: the length and the code point, or -1 for both
Low(b) == b % 64
CodePoint(s, n) ==
  CASE n = 1 -> s[1]
    [] n = 2 -> (s[1] % 32) * 64 + Low(s[2])
    [] n = 3 -> (s[1] % 16) * 4096 + Low(s[2]) * 64 + Low(s[3])
    [] n = 4 -> (s[1] % 8) * 262144 + Low(s[2]) * 4096 + Low(s[3]) * 64 + Low(s[4])
InvalidPointButMax(uc, n) == \/ n = 2 /\ uc < 128
                             \/ n = 3 /\ (uc < 2048 \/ uc \in 55296 .. 57343)
                             \/ n = 4 /\ uc < 65536
InvalidPoint(uc, n) == \/ n = 2 /\ uc < 128
                       \/ n = 3 /\ (uc < 2048 \/ uc \in 55296 .. 57343)
                       \/ n = 4 /\ (uc < 65536 \/ uc >= 1114112)
Iterate(s) ==
  LET n == CharLength(s) IN
  IF n < 0 \/ InvalidPoint(CodePoint(s, n), n) THEN [len |-> -1, uc |-> -1]
  ELSE [len |-> n, uc |-> CodePoint(s, n)]

\* encode_unknown
Unknown == <<239, 191, 189>>
\* cmark_utf8proc_encode_char
Encode(uc) ==
  LET last(x) == 128 + Low(x) IN
  IF uc < 128 THEN <<uc>>
  ELSE IF uc < 2048 THEN <<192 + uc \div 64, last(uc)>>
  ELSE IF uc = 65535 THEN <<255>>
  ELSE IF uc = 65534 THEN <<254>>
  ELSE IF uc < 65536 THEN <<224 + uc \div 4096, last(uc \div 64), last(uc)>>
  ELSE IF uc < 1114112
       THEN <<240 + uc \div 262144, last(uc \div 4096), last(uc \div 64), last(uc)>>
  ELSE Unknown

-----------------------------------------------------------------------------
(* What UTF-8 is, from the table of well-formed byte sequences (RFC 3629). *)

WellFormed ==
  {<<1 .. 127>>, <<194 .. 223, 128 .. 191>>,
   <<{224}, 160 .. 191, 128 .. 191>>, <<225 .. 236, 128 .. 191, 128 .. 191>>,
   <<{237}, 128 .. 159, 128 .. 191>>, <<238 .. 239, 128 .. 191, 128 .. 191>>,
   <<{240}, 144 .. 191, 128 .. 191, 128 .. 191>>,
   <<241 .. 243, 128 .. 191, 128 .. 191, 128 .. 191>>,
   <<{244}, 128 .. 143, 128 .. 191, 128 .. 191>>}
IsChar(s) == \E f \in WellFormed : Len(f) = Len(s) /\ \A k \in DOMAIN f : s[k] \in f[k]
=============================================================================
