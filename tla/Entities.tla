------------------------------ MODULE Entities ------------------------------
(***************************************************************************)
(* Character references (src/src/houdini_html_u.c): the loop over a text,  *)
(* numeric references, and the binary search for a name in the table of    *)
(* entities. A text is a sequence of bytes; offsets count from 0.          *)
(*                                                                         *)
(* A definition named like one after it with something added, such as      *)
(* LowerHalfStuck, is not the code: it is a plausible mistake.             *)
(***************************************************************************)
EXTENDS Utf8Chars

CONSTANTS Texts,    \* bound: the texts
          Table,    \* cmark_entities: names and the bytes they stand for, sorted
          MaxLength \* CMARK_ENTITY_MAX_LENGTH

Amp == 38
Hash == 35
Semicolon == 59
Space == 32
IsDigit(c) == c \in 48 .. 57
IsXDigit(c) == IsDigit(c) \/ c \in 65 .. 70 \/ c \in 97 .. 102

\* strncmp of the bytes s, as many as there are, with a string e
Differ(s, e) == {k \in DOMAIN s : k > Len(e) \/ s[k] # e[k]}
Compare(s, e) ==
  IF Differ(s, e) = {} THEN 0
  ELSE LET k == CHOOSE k \in Differ(s, e) : \A j \in Differ(s, e) : k <= j
       IN  IF k <= Len(e) /\ s[k] < e[k] THEN -1 ELSE 1
Exactly(s, e) == Compare(s, e) = 0 /\ Len(e) = Len(s)

Name(k) == Table[k + 1].name
Entries == 0 .. Len(Table) - 1
\* The order in which the table was generated
ASSUME TableAssumption ==
  /\ Table \in Seq([name : Seq(Byte \ {0}), bytes : Seq(Byte)]) /\ Len(Table) > 0
  /\ \A j, k \in Entries : j < k =>
       /\ Compare(Name(k), Name(j)) > 0
       /\ Compare(Name(j), Name(k)) <= 0 /\ ~Exactly(Name(j), Name(k))
ASSUME TextsAssumption == Texts \subseteq Seq(Byte \ {0}) /\ MaxLength \in Nat

VARIABLES
  src, i,        \* the text, and the position of the loop of houdini_unescape_html
  ob,            \* the bytes written
  k, codepoint,  \* the locals i and codepoint of houdini_unescape_ent
  at, low, hi,   \* the arguments of S_lookup
  pc
search == <<at, low, hi>>
vars == <<src, i, ob, k, codepoint, search, pc>>

\* The argument src of houdini_unescape_ent
Rest == SubSeq(src, i + 1, Len(src))
Ch(n) == Rest[n + 1]
Size == Len(Rest)
\* For names: "if (size > CMARK_ENTITY_MAX_LENGTH)"
NameSize == IF Size > MaxLength THEN MaxLength ELSE Size
Key == SubSeq(Rest, 1, k)

Init == /\ src = <<>> /\ i = 0 /\ ob = <<>> /\ k = 0 /\ codepoint = 0
        /\ at = 0 /\ low = 0 /\ hi = 0 /\ pc = "done"

\* houdini_unescape_html_f is called for the text s, with an empty buffer.
Unescape(s) == /\ pc = "done" /\ src' = s /\ i' = 0 /\ ob' = <<>> /\ pc' = "text"
               /\ k' = 0 /\ codepoint' = 0 /\ at' = 0 /\ low' = 0 /\ hi' = 0

\* A turn of houdini_unescape_html up to the ampersand. A text without one is taken as
\* it is, here or by the caller.
Text ==
  /\ pc = "text"
  /\ \/ /\ \A n \in i .. Len(src) - 1 : src[n + 1] # Amp
        /\ ob' = ob \o Rest /\ i' = Len(src) /\ pc' = "done"
     \/ \E n \in i .. Len(src) - 1 :
          /\ src[n + 1] = Amp /\ \A m \in i .. n - 1 : src[m + 1] # Amp
          /\ ob' = ob \o SubSeq(src, i + 1, n) /\ i' = n + 1 /\ pc' = "ent"
  /\ UNCHANGED <<src, k, codepoint, search>>

\* houdini_unescape_ent returns n, having written s, and the loop goes on.
Return(n, s) ==
  /\ ob' = ob \o (IF n = 0 THEN <<Amp>> ELSE s)
  /\ i' = i + n /\ pc' = "text"
  /\ UNCHANGED <<src, k, codepoint, search>>

IsNumeric == Size >= 3 /\ Ch(0) = Hash
\* The first byte of the digits; 0 for neither kind
Base == IF IsNumeric /\ IsDigit(Ch(1)) THEN 10
        ELSE IF IsNumeric /\ Ch(1) \in {88, 120} THEN 16 ELSE 0
First == IF Base = 16 THEN 2 ELSE 1
BeginEnt ==
  /\ pc = "ent"
  /\ \/ IsNumeric /\ Base # 0 /\ k' = First /\ codepoint' = 0 /\ pc' = "digits"
     \/ ~IsNumeric /\ k' = 2 /\ pc' = "name" /\ UNCHANGED codepoint
  /\ UNCHANGED <<src, i, ob, search>>
NoDigits == pc = "ent" /\ IsNumeric /\ Base = 0 /\ Return(0, <<>>)

\* c | 32, for a digit or a letter
Lower(c) == IF c \in 65 .. 90 THEN c + 32 ELSE c
Value(c) == IF Base = 10 THEN c - 48 ELSE (Lower(c) % 39) - 9
MoreDigits == k < Size /\ (IF Base = 10 THEN IsDigit(Ch(k)) ELSE IsXDigit(Ch(k)))
\* "Keep counting digits but avoid integer overflow."
Capped(n) == Min({n, 1114112})
DigitTurnStaying ==
  /\ pc = "digits" /\ MoreDigits
  /\ codepoint' = Capped(codepoint * Base + Value(Ch(k)))
  /\ UNCHANGED <<src, i, ob, k, search, pc>>
DigitTurn ==
  /\ pc = "digits" /\ MoreDigits
  /\ codepoint' = Capped(codepoint * Base + Value(Ch(k))) /\ k' = k + 1
  /\ UNCHANGED <<src, i, ob, search, pc>>
NotACharacterButZero == codepoint \in 55296 .. 57343 \/ codepoint >= 1114112
NotACharacter == codepoint = 0 \/ codepoint \in 55296 .. 57343 \/ codepoint >= 1114112
EndDigits ==
  /\ pc = "digits" /\ ~MoreDigits
  /\ IF k - First \in 1 .. 8 /\ k < Size /\ Ch(k) = Semicolon
     THEN Return(k + 1, Encode(IF NotACharacter THEN 65533 ELSE codepoint))
     ELSE Return(0, <<>>)

\* The loop for the semicolon
NameTurn ==
  /\ pc = "name" /\ k < NameSize /\ Ch(k) \notin {Space, Semicolon}
  /\ k' = k + 1
  /\ UNCHANGED <<src, i, ob, codepoint, search, pc>>
NoName == pc = "name" /\ ~(k < NameSize /\ Ch(k) # Space) /\ Return(0, <<>>)
Lookup ==
  /\ pc = "name" /\ k < NameSize /\ Ch(k) = Semicolon
  /\ at' = Len(Table) \div 2 /\ low' = 0 /\ hi' = Len(Table) - 1
  /\ pc' = "search"
  /\ UNCHANGED <<src, i, ob, k, codepoint>>

-----------------------------------------------------------------------------
(* S_lookup: a turn is a call. *)

Found == pc = "search" /\ Exactly(Key, Name(at)) /\ Return(k + 1, Table[at + 1].bytes)
LowerHalfStuck == at - (at - low) \div 2
LowerHalf == LET j == at - (at - low) \div 2 IN IF j = at THEN j - 1 ELSE j
UpperHalf == LET j == at + (hi - at) \div 2 IN IF j = at THEN j + 1 ELSE j
IsLower == Compare(Key, Name(at)) <= 0 /\ at > low
IsHigher == Compare(Key, Name(at)) > 0 /\ at < hi
GoLower ==
  /\ pc = "search" /\ ~Exactly(Key, Name(at)) /\ IsLower
  /\ at' = LowerHalf /\ hi' = at - 1
  /\ UNCHANGED <<src, i, ob, k, codepoint, low, pc>>
GoHigher ==
  /\ pc = "search" /\ IsHigher
  /\ at' = UpperHalf /\ low' = at + 1
  /\ UNCHANGED <<src, i, ob, k, codepoint, hi, pc>>
NotFound ==
  /\ pc = "search" /\ ~Exactly(Key, Name(at)) /\ ~IsLower /\ ~IsHigher
  /\ Return(0, <<>>)

Work == \/ Text \/ BeginEnt \/ NoDigits \/ DigitTurn \/ EndDigits
        \/ NameTurn \/ NoName \/ Lookup \/ Found \/ GoLower \/ GoHigher \/ NotFound
Next == Work \/ \E s \in Texts : Unescape(s)
Spec == Init /\ [][Next]_vars

-----------------------------------------------------------------------------
(* What a text means, from the grammar of references in test/spec.txt. *)

Utf8Of(cp) ==
  LET last(n) == [j \in 1 .. n |-> 128 + Low(cp \div (64 ^ (n - j)))] IN
  CASE cp < 128 -> <<cp>>
    [] cp \in 128 .. 2047 -> <<192 + cp \div 64>> \o last(1)
    [] cp \in 2048 .. 65535 -> <<224 + cp \div 4096>> \o last(2)
    [] OTHER -> <<240 + cp \div 262144>> \o last(3)

HexDigits == <<48, 49, 50, 51, 52, 53, 54, 55, 56, 57, 97, 98, 99, 100, 101, 102>>
DigitValue(c) == CHOOSE v \in 0 .. 15 : HexDigits[v + 1] = Lower(c)
\* The number that digits stand for, or one that is too large
Number(base, ds) ==
  LET from == {n \in DOMAIN ds : ds[n] # 48}
      sig  == IF from = {} THEN <<>> ELSE SubSeq(ds, Min(from), Len(ds))
  IN  IF Len(sig) > 7 \/ (base = 16 /\ Len(sig) > 6) THEN 1114112
      ELSE FoldLeft(LAMBDA n, c : n * base + DigitValue(c), 0, sig)
Character(cp) ==
  IF cp = 0 \/ cp \in 55296 .. 57343 \/ cp > 1114111 THEN Unknown ELSE Utf8Of(cp)

AllIn(s, from, P(_)) == \A n \in from .. Len(s) : P(s[n])
IsDecimal(s) == Len(s) \in 2 .. 9 /\ s[1] = Hash /\ AllIn(s, 2, IsDigit)
IsHex(s) == Len(s) \in 3 .. 10 /\ s[1] = Hash /\ s[2] \in {88, 120} /\ AllIn(s, 3, IsXDigit)
IsName(s) == \E e \in Entries : Name(e) = s
\* The text between an ampersand at n and the next semicolon, <<>> for none
Body(n) == LET ends == {m \in n + 1 .. Len(src) : src[m] = Semicolon} IN
           IF ends = {} THEN <<>> ELSE SubSeq(src, n + 1, Min(ends) - 1)
IsReference(n) == src[n] = Amp /\ (IsDecimal(Body(n)) \/ IsHex(Body(n)) \/ IsName(Body(n)))
Meaning(n) ==
  LET s == Body(n) IN
  IF IsDecimal(s) THEN Character(Number(10, SubSeq(s, 2, Len(s))))
  ELSE IF IsHex(s) THEN Character(Number(16, SubSeq(s, 3, Len(s))))
  ELSE Table[(CHOOSE e \in Entries : Name(e) = s) + 1].bytes
Expected ==
  LET inside(n) == \E m \in 1 .. n - 1 : IsReference(m) /\ n <= m + Len(Body(m)) + 1
      piece(n)  == IF inside(n) THEN <<>> ELSE IF IsReference(n) THEN Meaning(n) ELSE <<src[n]>>
  IN  FlattenSeq([n \in DOMAIN src |-> piece(n)])

\* Every reference of a text becomes the character it means, whatever stands around it and
\* however many digits it has, and everything else stays as it is: the search of
\* houdini_unescape_ent neither runs past the semicolon nor stops before it, and S_lookup
\* finds every name, also one that begins another. Fails for U+FFFE and U+FFFF.
MeansWhatItSays == pc = "done" => ob = Expected
\* The entry that S_lookup is looking for is never left out by the halves it drops, and it
\* never looks at a place outside of the rest of the table, or of the table itself.
SearchSound ==
  pc = "search" =>
    /\ low \in Entries /\ hi \in Entries /\ at \in low .. hi
    /\ \A e \in Entries : Exactly(Key, Name(e)) => e \in low .. hi
========================================
