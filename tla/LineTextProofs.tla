--------------------------- MODULE LineTextProofs ---------------------------
(***************************************************************************)
(* S_lookup never drops the half of the table in which the name is, for    *)
(* every sorted table and every text. What the validator lets through is   *)
(* UTF-8, for all lines, and replacing the character references keeps it   *)
(* so; what cmark_utf8proc_iterate takes is what the validator takes.      *)
(***************************************************************************)
EXTENDS LineText, SequenceTheorems, WellFoundedInduction, TLAPS

Bytes == Seq(Byte \ {0})

-----------------------------------------------------------------------------
(* The search. *)

\* The name is within the rest of the text, and the search is sound.
IInv ==
  /\ src \in Bytes /\ i \in 0 .. Len(src) /\ k \in Nat
  /\ pc = "search" => k < Size
  /\ SearchSound

LEMMA Element ==
  ASSUME NEW S, NEW s \in Seq(S), NEW n \in 1 .. Len(s)
  PROVE  s[n] \in S
OBVIOUS

LEMMA TableNames == \A e \in Entries : Name(e) \in Bytes
<1> SUFFICES ASSUME NEW e \in Entries PROVE Name(e) \in Bytes
  OBVIOUS
<1>1. Table \in Seq([name : Bytes, bytes : Seq(Byte)])
  BY TableAssumption DEF Bytes
<1>2. e + 1 \in 1 .. Len(Table)
  BY <1>1 DEF Entries
<1>3. Table[e + 1] \in [name : Bytes, bytes : Seq(Byte)]
  BY <1>1, <1>2, Element
<1> QED
  BY <1>3 DEF Name

\* Compare says 0 only of a string that begins with all of s.
LEMMA ZeroIsPrefix ==
  ASSUME NEW s \in Bytes, NEW e \in Bytes, Compare(s, e) = 0
  PROVE  Len(s) <= Len(e) /\ \A n \in 1 .. Len(s) : s[n] = e[n]
<1>1. Differ(s, e) = {}
  BY DEF Compare
<1>2. \A n \in 1 .. Len(s) : n <= Len(e) /\ s[n] = e[n]
  BY <1>1 DEF Differ, Bytes
<1> QED
  BY <1>2 DEF Bytes

LEMMA ExactIsEqual ==
  ASSUME NEW s \in Bytes, NEW e \in Bytes, Exactly(s, e)
  PROVE  s = e
<1>1. Len(s) = Len(e) /\ \A n \in 1 .. Len(s) : s[n] = e[n]
  BY ZeroIsPrefix DEF Exactly
<1> QED
  BY <1>1 DEF Bytes

LEMMA KeyType ==
  ASSUME src \in Bytes, i \in 0 .. Len(src), k \in Nat, k < Size
  PROVE  Key \in Bytes
<1>1. Rest \in Bytes
  BY DEF Rest, Bytes
<1> QED
  BY <1>1 DEF Key, Size, Bytes

\* Where a name in the table is, by one comparison
LEMMA Halves ==
  ASSUME NEW j \in Entries, NEW e \in Entries, NEW s \in Bytes, Exactly(s, Name(e))
  PROVE  /\ Compare(s, Name(j)) > 0 => e > j
         /\ Compare(s, Name(j)) <= 0 /\ ~Exactly(s, Name(j)) => e < j
<1>1. s = Name(e)
  BY TableNames, ExactIsEqual
<1>2. e = j => Compare(s, Name(j)) = 0 /\ Exactly(s, Name(j))
  BY DEF Exactly
<1>3. e < j => Compare(s, Name(j)) <= 0
  BY <1>1, TableAssumption
<1>4. e > j => Compare(s, Name(j)) > 0
  BY <1>1, TableAssumption
<1>5. e \in Int /\ j \in Int
  BY DEF Entries
<1>6. \A m \in {-1, 0, 1} : ~(m > 0 /\ m <= 0)
  OBVIOUS
<1>7. Compare(s, Name(j)) \in {-1, 0, 1}
  BY DEF Compare
<1> QED
  BY <1>2, <1>3, <1>4, <1>5, <1>6, <1>7

LEMMA Start == Init => IInv
BY TextsAssumption DEF Init, IInv, SearchSound, Bytes

\* What Return leaves, wherever it is called from
LEMMA Returned ==
  ASSUME IInv, NEW n \in Nat, i + n <= Len(src), NEW s, Return(n, s)
  PROVE  IInv'
BY DEF IInv, SearchSound, Return, search, Bytes

LEMMA Step == IInv /\ [Next]_vars => IInv'
<1> SUFFICES ASSUME IInv, [Next]_vars PROVE IInv'
  OBVIOUS
<1>s. Len(src) \in Nat /\ Size = Len(src) - i
  BY DEF IInv, Size, Rest, Bytes
<1>1. CASE Text
  BY <1>1 DEF IInv, SearchSound, Text, Bytes
<1>2. CASE BeginEnt
  BY <1>2 DEF IInv, SearchSound, BeginEnt, search, First
<1>3. CASE NoDigits
  BY <1>3, <1>s, Returned DEF NoDigits, IInv
<1>4. CASE DigitTurn
  BY <1>4 DEF IInv, SearchSound, DigitTurn, search
<1>5. CASE EndDigits
  <2>1. CASE Return(0, <<>>)
    BY <2>1, <1>s, Returned DEF IInv
  <2>2. ASSUME NEW s, Return(k + 1, s), k < Size PROVE IInv'
    BY <2>2, <1>s, Returned DEF IInv
  <2> QED
    BY <1>5, <2>1, <2>2 DEF EndDigits
<1>6. CASE NameTurn
  BY <1>6 DEF IInv, SearchSound, NameTurn, search
<1>7. CASE NoName
  BY <1>7, <1>s, Returned DEF NoName, IInv
<1>8. CASE Lookup
  <2>1. k < Size
    BY <1>8, <1>s, TextsAssumption DEF Lookup, NameSize, IInv
  <2>2. Len(Table) \in Nat /\ Len(Table) > 0
    BY TableAssumption
  <2>3. at' \in 0 .. Len(Table) - 1 /\ low' = 0 /\ hi' = Len(Table) - 1
    BY <1>8, <2>2 DEF Lookup
  <2>4. Size' = Size
    BY <1>8 DEF Lookup, Size, Rest
  <2> QED
    BY <1>8, <2>1, <2>2, <2>3, <2>4 DEF Lookup, IInv, SearchSound, Entries
<1>9. CASE Found
  BY <1>9, <1>s, Returned DEF Found, IInv
<1>10. CASE NotFound
  BY <1>10, <1>s, Returned DEF NotFound, IInv
<1>11. CASE GoLower \/ GoHigher
  <2>1. Key' = Key /\ Size' = Size /\ pc' = pc /\ pc = "search"
    BY <1>11 DEF GoLower, GoHigher, Key, Size, Rest
  <2>2. Key \in Bytes
    BY <2>1, KeyType DEF IInv
  <2>3. low \in Int /\ hi \in Int /\ at \in Int /\ low <= at /\ at <= hi
        /\ low \in Entries /\ hi \in Entries /\ at \in Entries
    BY <2>1, TableAssumption DEF IInv, SearchSound, Entries
  <2>4. CASE GoLower
    <3>1. at > low /\ at' = LowerHalf /\ hi' = at - 1 /\ low' = low
      BY <2>4 DEF GoLower, IsLower
    <3>2. at' \in low' .. hi'
      BY <3>1, <2>3 DEF LowerHalf
    <3>3. \A e \in Entries : Exactly(Key, Name(e)) => e \in low .. hi /\ e < at
      BY <2>1, <2>2, <2>3, <2>4, Halves DEF IInv, SearchSound, GoLower, IsLower
    <3>4. \A e \in Entries : Exactly(Key', Name(e)) => e \in low' .. hi'
      BY <3>1, <3>3, <2>1, <2>3
    <3>5. hi' \in Entries
      BY <3>1, <2>3 DEF Entries
    <3> QED
      BY <3>1, <3>2, <3>4, <3>5, <2>1, <2>3, <2>4 DEF GoLower, IInv, SearchSound, search
  <2>5. CASE GoHigher
    <3>1. at < hi /\ at' = UpperHalf /\ low' = at + 1 /\ hi' = hi
      BY <2>5 DEF GoHigher, IsHigher
    <3>2. at' \in low' .. hi'
      BY <3>1, <2>3 DEF UpperHalf
    <3>3. \A e \in Entries : Exactly(Key, Name(e)) => e \in low .. hi /\ e > at
      BY <2>1, <2>2, <2>3, <2>5, Halves DEF IInv, SearchSound, GoHigher, IsHigher
    <3>4. \A e \in Entries : Exactly(Key', Name(e)) => e \in low' .. hi'
      BY <3>1, <3>3, <2>1, <2>3
    <3>5. low' \in Entries
      BY <3>1, <2>3, TableAssumption DEF Entries
    <3> QED
      BY <3>1, <3>2, <3>4, <3>5, <2>1, <2>3, <2>5 DEF GoHigher, IInv, SearchSound, search
  <2> QED
    BY <1>11, <2>4, <2>5
<1>12. CASE UNCHANGED vars
  BY <1>12 DEF vars, search, IInv, SearchSound, Size, Rest, Key
<1>13. ASSUME NEW s \in Texts, Unescape(s) PROVE IInv'
  BY <1>13, TextsAssumption DEF Unescape, IInv, SearchSound, Bytes
<1> QED
  BY <1>1, <1>2, <1>3, <1>4, <1>5, <1>6, <1>7, <1>8, <1>9, <1>10, <1>11, <1>12, <1>13
  DEF Next, Work

\* For every sorted table and every text, the binary search of S_lookup stays within the
\* table, and an entry with the name looked for is never in the half it drops.
THEOREM AlwaysSearchSound == Spec => []SearchSound
<1>1. IInv => SearchSound
  BY DEF IInv
<1> QED
  BY Start, Step, <1>1, PTL DEF Spec
-----------------------------------------------------------------------------
(* One character. *)

LEMMA MinIs ==
  ASSUME NEW S, S \subseteq 2 .. 4, S # {}
  PROVE  Min(S) \in S
<1>1. \E x \in S : \A y \in S : x <= y
  <2>1. CASE 2 \in S
    BY <2>1
  <2>2. CASE 2 \notin S /\ 3 \in S
    BY <2>2
  <2>3. CASE 2 \notin S /\ 3 \notin S
    <3>1. \A x \in S : x = 4
      <4>1. \A x \in 2 .. 4 : x = 2 \/ x = 3 \/ x = 4
        OBVIOUS
      <4> QED BY <2>3, <4>1
    <3>2. PICK x \in S : TRUE
      OBVIOUS
    <3>3. \A y \in S : x <= y
      BY <3>1, <3>2
    <3> QED BY <3>2, <3>3
  <2> QED BY <2>1, <2>2, <2>3
<1> QED BY <1>1 DEF Min

\* The rows of the table of well-formed sequences
LEMMA IsCharIs ==
  ASSUME NEW t \in Seq(Byte)
  PROVE  IsChar(t) <=>
    \/ Len(t) = 1 /\ t[1] \in 1 .. 127
    \/ Len(t) = 2 /\ t[1] \in 194 .. 223 /\ t[2] \in 128 .. 191
    \/ Len(t) = 3 /\ t[1] = 224 /\ t[2] \in 160 .. 191 /\ t[3] \in 128 .. 191
    \/ Len(t) = 3 /\ t[1] \in 225 .. 236 /\ t[2] \in 128 .. 191 /\ t[3] \in 128 .. 191
    \/ Len(t) = 3 /\ t[1] = 237 /\ t[2] \in 128 .. 159 /\ t[3] \in 128 .. 191
    \/ Len(t) = 3 /\ t[1] \in 238 .. 239 /\ t[2] \in 128 .. 191 /\ t[3] \in 128 .. 191
    \/ Len(t) = 4 /\ t[1] = 240 /\ t[2] \in 144 .. 191 /\ t[3] \in 128 .. 191 /\ t[4] \in 128 .. 191
    \/ Len(t) = 4 /\ t[1] \in 241 .. 243 /\ t[2] \in 128 .. 191 /\ t[3] \in 128 .. 191 /\ t[4] \in 128 .. 191
    \/ Len(t) = 4 /\ t[1] = 244 /\ t[2] \in 128 .. 143 /\ t[3] \in 128 .. 191 /\ t[4] \in 128 .. 191
<1> DEFINE Row(f) == Len(f) = Len(t) /\ \A n \in DOMAIN f : t[n] \in f[n]
<1>1. IsChar(t) <=> \E f \in WellFormed : Row(f)
  BY DEF IsChar
<1>2. \A A : Row(<<A>>) <=> Len(t) = 1 /\ t[1] \in A
  <2> SUFFICES ASSUME NEW A
               PROVE  Row(<<A>>) <=> Len(t) = 1 /\ t[1] \in A
    OBVIOUS
  <2>1. Len(<<A>>) = 1 /\ DOMAIN <<A>> = {1} /\ <<A>>[1] = A
    OBVIOUS
  <2> QED BY <2>1
<1>3. \A A, B : Row(<<A, B>>) <=> Len(t) = 2 /\ t[1] \in A /\ t[2] \in B
  <2> SUFFICES ASSUME NEW A, NEW B
               PROVE  Row(<<A, B>>) <=> Len(t) = 2 /\ t[1] \in A /\ t[2] \in B
    OBVIOUS
  <2>1. Len(<<A, B>>) = 2 /\ DOMAIN <<A, B>> = {1, 2} /\ <<A, B>>[1] = A /\ <<A, B>>[2] = B
    OBVIOUS
  <2> QED BY <2>1
<1>4. \A A, B, C : Row(<<A, B, C>>) <=> Len(t) = 3 /\ t[1] \in A /\ t[2] \in B /\ t[3] \in C
  <2> SUFFICES ASSUME NEW A, NEW B, NEW C
               PROVE  Row(<<A, B, C>>) <=> Len(t) = 3 /\ t[1] \in A /\ t[2] \in B /\ t[3] \in C
    OBVIOUS
  <2>1. /\ Len(<<A, B, C>>) = 3 /\ DOMAIN <<A, B, C>> = {1, 2, 3}
        /\ <<A, B, C>>[1] = A /\ <<A, B, C>>[2] = B /\ <<A, B, C>>[3] = C
    OBVIOUS
  <2> QED BY <2>1
<1>5. \A A, B, C, D : Row(<<A, B, C, D>>) <=>
                        Len(t) = 4 /\ t[1] \in A /\ t[2] \in B /\ t[3] \in C /\ t[4] \in D
  <2> SUFFICES ASSUME NEW A, NEW B, NEW C, NEW D
               PROVE  Row(<<A, B, C, D>>) <=>
                        Len(t) = 4 /\ t[1] \in A /\ t[2] \in B /\ t[3] \in C /\ t[4] \in D
    OBVIOUS
  <2>1. /\ Len(<<A, B, C, D>>) = 4 /\ DOMAIN <<A, B, C, D>> = {1, 2, 3, 4}
        /\ <<A, B, C, D>>[1] = A /\ <<A, B, C, D>>[2] = B /\ <<A, B, C, D>>[3] = C
        /\ <<A, B, C, D>>[4] = D
    OBVIOUS
  <2> QED BY <2>1
<1> HIDE DEF Row
<1> DEFINE r1 == <<1 .. 127>>
           r2 == <<194 .. 223, 128 .. 191>>
           r3 == <<{224}, 160 .. 191, 128 .. 191>>
           r4 == <<225 .. 236, 128 .. 191, 128 .. 191>>
           r5 == <<{237}, 128 .. 159, 128 .. 191>>
           r6 == <<238 .. 239, 128 .. 191, 128 .. 191>>
           r7 == <<{240}, 144 .. 191, 128 .. 191, 128 .. 191>>
           r8 == <<241 .. 243, 128 .. 191, 128 .. 191, 128 .. 191>>
           r9 == <<{244}, 128 .. 143, 128 .. 191, 128 .. 191>>
<1>6. WellFormed = {r1, r2, r3, r4, r5, r6, r7, r8, r9}
  BY Zenon DEF WellFormed
<1>7. Row(r1) <=> Len(t) = 1 /\ t[1] \in 1 .. 127
  BY <1>2
<1>8. Row(r2) <=> Len(t) = 2 /\ t[1] \in 194 .. 223 /\ t[2] \in 128 .. 191
  BY <1>3
<1>9. Row(r3) <=> Len(t) = 3 /\ t[1] = 224 /\ t[2] \in 160 .. 191 /\ t[3] \in 128 .. 191
  BY <1>4
<1>10. Row(r4) <=> Len(t) = 3 /\ t[1] \in 225 .. 236 /\ t[2] \in 128 .. 191 /\ t[3] \in 128 .. 191
  BY <1>4
<1>11. Row(r5) <=> Len(t) = 3 /\ t[1] = 237 /\ t[2] \in 128 .. 159 /\ t[3] \in 128 .. 191
  BY <1>4
<1>12. Row(r6) <=> Len(t) = 3 /\ t[1] \in 238 .. 239 /\ t[2] \in 128 .. 191 /\ t[3] \in 128 .. 191
  BY <1>4
<1>13. Row(r7) <=> Len(t) = 4 /\ t[1] = 240 /\ t[2] \in 144 .. 191 /\ t[3] \in 128 .. 191 /\ t[4] \in 128 .. 191
  BY <1>5
<1>14. Row(r8) <=> Len(t) = 4 /\ t[1] \in 241 .. 243 /\ t[2] \in 128 .. 191 /\ t[3] \in 128 .. 191 /\ t[4] \in 128 .. 191
  BY <1>5
<1>15. Row(r9) <=> Len(t) = 4 /\ t[1] = 244 /\ t[2] \in 128 .. 143 /\ t[3] \in 128 .. 191 /\ t[4] \in 128 .. 191
  BY <1>5
<1> HIDE DEF r1, r2, r3, r4, r5, r6, r7, r8, r9
<1>16. IsChar(t) <=> \/ Row(r1) \/ Row(r2) \/ Row(r3) \/ Row(r4) \/ Row(r5) \/ Row(r6) \/ Row(r7)
                     \/ Row(r8) \/ Row(r9)
  BY <1>1, <1>6
<1> QED BY <1>7, <1>8, <1>9, <1>10, <1>11, <1>12, <1>13, <1>14, <1>15, <1>16

\* What the two functions for one character return
LEMMA ClassIs ==
  ASSUME NEW b \in Byte
  PROVE  /\ Class(b) \in 0 .. 4
         /\ Class(b) = 1 <=> b < 128
         /\ Class(b) = 2 <=> b \in 192 .. 223
         /\ Class(b) = 3 <=> b \in 224 .. 239
         /\ Class(b) = 4 <=> b \in 240 .. 247
BY DEF Class, Byte

LEMMA CharLengthIs ==
  ASSUME NEW s \in Bytes, s # <<>>
  PROVE  LET n == Class(s[1]) IN
         /\ n \in 0 .. 4 /\ CharLength(s) \in Int /\ CharLength(s) # 0
         /\ CharLength(s) > 0 <=> n # 0 /\ n <= Len(s) /\ \A j \in 2 .. n : Continues(s[j])
         /\ CharLength(s) > 0 => CharLength(s) = n
         /\ CharLength(s) < 0 => -CharLength(s) <= Len(s)
<1> DEFINE n == Class(s[1])
<1>1. s[1] \in Byte \ {0} /\ Len(s) \in Nat /\ Len(s) > 0
  BY DEF Bytes
<1>2. n \in 0 .. 4
  BY <1>1, ClassIs
<1> HIDE DEF n
<1>3. CASE n = 0
  <2>1. CharLength(s) = -1
    BY <1>3 DEF CharLength, n
  <2> QED BY <1>1, <1>3, <2>1 DEF n
<1>4. CASE n # 0 /\ n > Len(s)
  <2>1. CharLength(s) = -Len(s)
    BY <1>4 DEF CharLength, n
  <2> QED BY <1>1, <1>2, <1>4, <2>1 DEF n
<1>5. CASE n # 0 /\ ~(n > Len(s))
  <2>1. CharLength(s) = IF Broken(s, n) = {} THEN n ELSE 1 - Min(Broken(s, n))
    BY <1>5 DEF CharLength, n
  <2>2. Broken(s, n) = {} <=> \A j \in 2 .. n : Continues(s[j])
    BY DEF Broken
  <2>3. Broken(s, n) \subseteq 2 .. n /\ 2 .. n \subseteq 2 .. 4
    BY <1>2 DEF Broken
  <2>4. Broken(s, n) # {} => Min(Broken(s, n)) \in 2 .. n
    <3> HIDE DEF n
    <3> QED BY <2>3, MinIs
  <2> DEFINE m == Min(Broken(s, n))
             L == Len(s)
             e == Broken(s, n) = {}
  <2> HIDE DEF m, L, e
  <2>5. CASE e
    BY <1>1, <1>2, <1>5, <2>1, <2>2, <2>5 DEF n, e, L
  <2>6. CASE ~e
    <3>1. CharLength(s) = 1 - m /\ m \in 2 .. n /\ L \in Nat /\ n <= L /\ n \in 1 .. 4
      BY <1>1, <1>2, <1>5, <2>1, <2>4, <2>6 DEF e, m, L
    <3>2. CharLength(s) < 0 /\ CharLength(s) \in Int /\ -CharLength(s) <= L
      BY <3>1
    <3> QED BY <1>2, <2>2, <2>6, <3>2 DEF n, e, L
  <2> QED BY <2>5, <2>6
<1> QED BY <1>2, <1>3, <1>4, <1>5 DEF n

LEMMA CharLenIs ==
  ASSUME NEW s \in Bytes, s # <<>>
  PROVE  /\ CharLen(s) \in Int /\ CharLen(s) # 0
         /\ CharLen(s) > 0 => /\ CharLen(s) = Class(s[1]) /\ CharLen(s) <= Len(s)
                              /\ CharLength(s) = CharLen(s)
                              /\ ~Refused(s, CharLen(s))
         /\ CharLength(s) > 0 => CharLen(s) > 0 \/ Refused(s, CharLength(s))
         /\ CharLen(s) < 0 => -CharLen(s) <= Len(s)
<1> DEFINE n == Class(s[1])
<1>1. s[1] \in Byte \ {0} /\ Len(s) \in Nat /\ Len(s) > 0
  BY DEF Bytes
<1>2. /\ n \in 0 .. 4 /\ CharLength(s) \in Int /\ CharLength(s) # 0
      /\ CharLength(s) > 0 <=> n # 0 /\ n <= Len(s) /\ \A j \in 2 .. n : Continues(s[j])
      /\ CharLength(s) > 0 => CharLength(s) = n
      /\ CharLength(s) < 0 => -CharLength(s) <= Len(s)
  BY CharLengthIs
<1>3. CASE s[1] < 128
  <2>1. CharLen(s) = 1 /\ ~Refused(s, 1)
    BY <1>1, <1>3 DEF CharLen, Refused, Overlong, Surrogate, TooLarge
  <2>2. n = 1
    BY <1>1, <1>3, ClassIs
  <2>3. \A j \in 2 .. 1 : Continues(s[j])
    OBVIOUS
  <2> HIDE DEF n
  <2>4. CharLength(s) = 1
    BY <1>1, <1>2, <2>2, <2>3
  <2> QED BY <1>1, <2>1, <2>2, <2>4 DEF n
<1>4. CASE ~(s[1] < 128)
  <2>1. CharLen(s) = IF CharLength(s) > 0 /\ Refused(s, CharLength(s)) THEN -CharLength(s)
                                                                      ELSE CharLength(s)
    BY <1>1, <1>4 DEF CharLen, Valid
  <2> HIDE DEF n
  <2>2. CASE CharLength(s) > 0 /\ Refused(s, CharLength(s))
    BY <1>1, <1>2, <2>1, <2>2
  <2>3. CASE ~(CharLength(s) > 0 /\ Refused(s, CharLength(s)))
    BY <1>1, <1>2, <2>1, <2>3 DEF n
  <2> QED BY <2>2, <2>3
<1> QED BY <1>3, <1>4

\* Code points by arithmetic
LEMMA CodePointIs ==
  ASSUME NEW s, NEW n
  PROVE  /\ n = 1 => CodePoint(s, n) = s[1]
         /\ n = 2 => CodePoint(s, n) = (s[1] % 32) * 64 + (s[2] % 64)
         /\ n = 3 => CodePoint(s, n) = (s[1] % 16) * 4096 + (s[2] % 64) * 64 + (s[3] % 64)
         /\ n = 4 => CodePoint(s, n) = (s[1] % 8) * 262144 + (s[2] % 64) * 4096 + (s[3] % 64) * 64
                                         + (s[4] % 64)
<1>1. CASE n = 1
  BY <1>1 DEF CodePoint, Low
<1>2. CASE n = 2
  BY <1>2 DEF CodePoint, Low
<1>3. CASE n = 3
  BY <1>3 DEF CodePoint, Low
<1>4. CASE n = 4
  BY <1>4 DEF CodePoint, Low
<1> QED BY <1>1, <1>2, <1>3, <1>4

LEMMA BitsOf ==
  /\ \A b \in 192 .. 223 : b % 32 = b - 192
  /\ \A b \in 224 .. 239 : b % 16 = b - 224
  /\ \A b \in 240 .. 247 : b % 8 = b - 240
  /\ \A b \in 128 .. 191 : b % 64 = b - 128
OBVIOUS

\* A sequence of n bytes that is complete
Complete(s, n) ==
  s \in Bytes /\ s # <<>> /\ n \in 1 .. 4 /\ n = Class(s[1]) /\ n <= Len(s) /\ \A j \in 2 .. n : Continues(s[j])

LEMMA BytesOf ==
  ASSUME NEW s, NEW n, Complete(s, n)
  PROVE  /\ n = 1 => s[1] \in 1 .. 127
         /\ n = 2 => s[1] \in 192 .. 223 /\ s[2] \in 128 .. 191
         /\ n = 3 => s[1] \in 224 .. 239 /\ s[2] \in 128 .. 191 /\ s[3] \in 128 .. 191
         /\ n = 4 => s[1] \in 240 .. 247 /\ s[2] \in 128 .. 191 /\ s[3] \in 128 .. 191
                     /\ s[4] \in 128 .. 191
<1>1. s[1] \in 1 .. 255 /\ s[1] \in Byte
  BY DEF Bytes, Byte, Complete
<1>2. \A j \in 2 .. n : s[j] \in 128 .. 191
  BY DEF Continues, Complete
<1>3. n = 1 => s[1] \in 1 .. 127
  <2>1. n = 1 => s[1] < 128
    BY <1>1, ClassIs DEF Complete
  <2> QED BY <1>1, <2>1
<1>4. (n = 2 => s[1] \in 192 .. 223) /\ (n = 3 => s[1] \in 224 .. 239) /\ (n = 4 => s[1] \in 240 .. 247)
  BY <1>1, ClassIs DEF Complete
<1>5. (n = 2 => 2 \in 2 .. n) /\ (n = 3 => 2 \in 2 .. n /\ 3 \in 2 .. n)
      /\ (n = 4 => 2 \in 2 .. n /\ 3 \in 2 .. n /\ 4 \in 2 .. n)
  OBVIOUS
<1>6. n = 2 => s[2] \in 128 .. 191
  BY <1>2, <1>5
<1>7. n = 3 => s[2] \in 128 .. 191 /\ s[3] \in 128 .. 191
  BY <1>2, <1>5
<1>8. n = 4 => s[2] \in 128 .. 191 /\ s[3] \in 128 .. 191 /\ s[4] \in 128 .. 191
  BY <1>2, <1>5
<1> QED BY <1>3, <1>4, <1>6, <1>7, <1>8

\* The code points of three and four bytes, and those that their decoder refuses; the bytes
\* that the validator refuses
Three(a, b, c) == (a - 224) * 4096 + (b - 128) * 64 + (c - 128)
Four(a, b, c, d) == (a - 240) * 262144 + (b - 128) * 4096 + (c - 128) * 64 + (d - 128)
LeadThree == 224 .. 239
LeadFour == 240 .. 247
Follow == 128 .. 191
BadThree(a, b) == (a = 224 /\ b < 160) \/ (a = 237 /\ b >= 160)
BadFour(a, b) == (a = 240 /\ b < 144) \/ a > 244 \/ (a = 244 /\ b >= 144)
NoThree(u) == u < 2048 \/ u \in 55296 .. 57343
NoFour(u) == u < 65536 \/ u >= 1114112

LEMMA PointOf ==
  ASSUME NEW s, NEW n, Complete(s, n)
  PROVE  /\ n = 1 => CodePoint(s, n) = s[1]
         /\ n = 2 => CodePoint(s, n) = (s[1] - 192) * 64 + (s[2] - 128)
         /\ n = 3 => CodePoint(s, n) = Three(s[1], s[2], s[3])
         /\ n = 4 => CodePoint(s, n) = Four(s[1], s[2], s[3], s[4])
<1>1. CASE n = 1
  BY <1>1, CodePointIs
<1>2. CASE n = 2
  <2>1. s[1] \in 192 .. 223 /\ s[2] \in 128 .. 191
    BY <1>2, BytesOf
  <2>2. s[1] % 32 = s[1] - 192 /\ s[2] % 64 = s[2] - 128
    BY <2>1, BitsOf
  <2>3. CodePoint(s, n) = (s[1] % 32) * 64 + (s[2] % 64)
    BY <1>2, CodePointIs
  <2> QED BY <1>2, <2>2, <2>3
<1>3. CASE n = 3
  <2>1. s[1] \in 224 .. 239 /\ s[2] \in 128 .. 191 /\ s[3] \in 128 .. 191
    BY <1>3, BytesOf
  <2>2. s[1] % 16 = s[1] - 224 /\ s[2] % 64 = s[2] - 128 /\ s[3] % 64 = s[3] - 128
    BY <2>1, BitsOf
  <2>3. CodePoint(s, n) = (s[1] % 16) * 4096 + (s[2] % 64) * 64 + (s[3] % 64)
    BY <1>3, CodePointIs
  <2> QED BY <1>3, <2>2, <2>3 DEF Three
<1>4. CASE n = 4
  <2>1. s[1] \in 240 .. 247 /\ s[2] \in 128 .. 191 /\ s[3] \in 128 .. 191 /\ s[4] \in 128 .. 191
    BY <1>4, BytesOf
  <2>2. s[1] % 8 = s[1] - 240 /\ s[2] % 64 = s[2] - 128 /\ s[3] % 64 = s[3] - 128
        /\ s[4] % 64 = s[4] - 128
    BY <2>1, BitsOf
  <2>3. CodePoint(s, n) = (s[1] % 8) * 262144 + (s[2] % 64) * 4096 + (s[3] % 64) * 64 + (s[4] % 64)
    BY <1>4, CodePointIs
  <2> QED BY <1>4, <2>2, <2>3 DEF Four
<1>5. n \in 1 .. 4
  BY DEF Complete
<1> QED BY <1>1, <1>2, <1>3, <1>4, <1>5

LEMMA PointOfThree ==
  ASSUME NEW a \in LeadThree, NEW b \in Follow, NEW c \in Follow
  PROVE  /\ Three(a, b, c) \in Int
         /\ NoThree(Three(a, b, c)) <=> BadThree(a, b)
<1> USE DEF LeadThree, Follow
<1> DEFINE u == (a - 224) * 4096 + (b - 128) * 64 + (c - 128)
<1>1. u < 2048 <=> (a = 224 /\ b < 160)
  OBVIOUS
<1>2. u >= 55296 <=> (a > 237 \/ (a = 237 /\ b >= 160))
  OBVIOUS
<1>3. u <= 57343 <=> a <= 237
  OBVIOUS
<1>4. u \in Int /\ u = Three(a, b, c)
  BY DEF Three
<1> HIDE DEF u
<1>5. NoThree(u) <=> ((a = 224 /\ b < 160) \/ (a = 237 /\ b >= 160))
  BY SMTT(30), <1>1, <1>2, <1>3, <1>4 DEF NoThree
<1> QED BY SMT, <1>4, <1>5 DEF BadThree

LEMMA PointOfFour ==
  ASSUME NEW a \in LeadFour, NEW b \in Follow, NEW c \in Follow, NEW d \in Follow
  PROVE  /\ Four(a, b, c, d) \in Int
         /\ NoFour(Four(a, b, c, d)) <=> BadFour(a, b)
<1> USE DEF LeadFour, Follow
<1> DEFINE u == (a - 240) * 262144 + (b - 128) * 4096 + (c - 128) * 64 + (d - 128)
<1>1. u < 65536 <=> (a = 240 /\ b < 144)
  OBVIOUS
<1>2. u >= 1114112 <=> (a > 244 \/ (a = 244 /\ b >= 144))
  OBVIOUS
<1>3. u \in Int /\ u = Four(a, b, c, d)
  BY SMT DEF Four
<1> HIDE DEF u
<1>4. NoFour(u) <=> ((a = 240 /\ b < 144) \/ a > 244 \/ (a = 244 /\ b >= 144))
  BY SMT, <1>1, <1>2, <1>3 DEF NoFour
<1> QED BY SMT, <1>3, <1>4 DEF BadFour

\* The code point is an integer, and what the decoder refuses by it is what the validator
\* refuses by the bytes.
LEMMA RefusedAlike ==
  ASSUME NEW s, NEW n, Complete(s, n)
  PROVE  CodePoint(s, n) \in Int /\ (InvalidPoint(CodePoint(s, n), n) <=> Refused(s, n))
<1>1. CASE n = 1
  <2>1. s[1] \in 1 .. 127 /\ CodePoint(s, n) = s[1]
    BY <1>1, BytesOf, PointOf
  <2>2. ~Refused(s, n) /\ ~InvalidPoint(CodePoint(s, n), n)
    BY SMT, <1>1 DEF InvalidPoint, Refused, Overlong, Surrogate, TooLarge
  <2> QED BY <2>1, <2>2
<1>2. CASE n = 2
  <2>1. s[1] \in 192 .. 223 /\ s[2] \in 128 .. 191 /\ CodePoint(s, n) = (s[1] - 192) * 64 + (s[2] - 128)
    BY <1>2, BytesOf, PointOf
  <2> SUFFICES ASSUME NEW u, u = (s[1] - 192) * 64 + (s[2] - 128)
               PROVE  u \in Int /\ (InvalidPoint(u, n) <=> Refused(s, n))
    BY <2>1
  <2>2. InvalidPoint(u, n) <=> u < 128
    BY SMT, <1>2 DEF InvalidPoint
  <2>3. Refused(s, n) <=> s[1] < 194
    BY SMT, <1>2 DEF Refused, Overlong, Surrogate, TooLarge
  <2>4. u \in Int /\ (u < 128 <=> s[1] < 194)
    BY <2>1
  <2> QED BY <2>2, <2>3, <2>4
<1>3. CASE n = 3
  <2>1. s[1] \in LeadThree /\ s[2] \in Follow /\ s[3] \in Follow
    BY <1>3, BytesOf DEF LeadThree, Follow
  <2>2. CodePoint(s, n) = Three(s[1], s[2], s[3])
    BY <1>3, PointOf
  <2> SUFFICES ASSUME NEW u, u = Three(s[1], s[2], s[3])
               PROVE  u \in Int /\ (InvalidPoint(u, n) <=> Refused(s, n))
    BY <2>2
  <2>3. InvalidPoint(u, n) <=> NoThree(u)
    BY SMT, <1>3 DEF InvalidPoint, NoThree
  <2>4. Refused(s, n) <=> BadThree(s[1], s[2])
    BY SMT, <1>3 DEF BadThree, Refused, Overlong, Surrogate, TooLarge
  <2>5. Three(s[1], s[2], s[3]) \in Int /\ (NoThree(Three(s[1], s[2], s[3])) <=> BadThree(s[1], s[2]))
    BY Zenon, <2>1, PointOfThree
  <2> QED BY <2>3, <2>4, <2>5
<1>4. CASE n = 4
  <2>1. s[1] \in LeadFour /\ s[2] \in Follow /\ s[3] \in Follow /\ s[4] \in Follow
    BY <1>4, BytesOf DEF LeadFour, Follow
  <2>2. CodePoint(s, n) = Four(s[1], s[2], s[3], s[4])
    BY <1>4, PointOf
  <2> SUFFICES ASSUME NEW u, u = Four(s[1], s[2], s[3], s[4])
               PROVE  u \in Int /\ (InvalidPoint(u, n) <=> Refused(s, n))
    BY <2>2
  <2>3. InvalidPoint(u, n) <=> NoFour(u)
    BY SMT, <1>4 DEF InvalidPoint, NoFour
  <2>4. Refused(s, n) <=> BadFour(s[1], s[2])
    BY SMT, <1>4 DEF BadFour, Refused, Overlong, Surrogate, TooLarge
  <2>5. Four(s[1], s[2], s[3], s[4]) \in Int /\ (NoFour(Four(s[1], s[2], s[3], s[4])) <=> BadFour(s[1], s[2]))
    BY Zenon, <2>1, PointOfFour
  <2> QED BY <2>3, <2>4, <2>5
<1>5. n \in 1 .. 4
  BY DEF Complete
<1> QED BY <1>1, <1>2, <1>3, <1>4, <1>5

LEMMA PrefixIs ==
  ASSUME NEW T, NEW s \in Seq(T), NEW n \in Nat, n <= Len(s)
  PROVE  /\ SubSeq(s, 1, n) \in Seq(T) /\ Len(SubSeq(s, 1, n)) = n
         /\ \A j \in 1 .. n : SubSeq(s, 1, n)[j] = s[j]
OBVIOUS

LEMMA BytesSeq ==
  ASSUME NEW s \in Bytes
  PROVE  s \in Seq(Byte)
<1>1. s \in Seq(Byte \ {0})
  BY DEF Bytes
<1>2. \A j \in 1 .. Len(s) : s[j] \in Byte
  BY <1>1
<1> QED BY <1>1, <1>2

\* What is looked at is only those n bytes.
LEMMA CompletePart ==
  ASSUME NEW s, NEW n, Complete(s, n)
  PROVE  LET t == SubSeq(s, 1, n) IN
         /\ t \in Seq(Byte) /\ Len(t) = n /\ Complete(t, n)
         /\ Refused(t, n) <=> Refused(s, n)
         /\ CodePoint(t, n) = CodePoint(s, n)
<1> SUFFICES ASSUME NEW t, t = SubSeq(s, 1, n)
             PROVE  /\ t \in Seq(Byte) /\ Len(t) = n /\ Complete(t, n)
                    /\ Refused(t, n) <=> Refused(s, n)
                    /\ CodePoint(t, n) = CodePoint(s, n)
  BY Zenon
<1>1. s \in Bytes /\ n \in 1 .. 4 /\ n \in Nat /\ n = Class(s[1]) /\ n <= Len(s) /\ \A j \in 2 .. n : Continues(s[j])
  BY DEF Complete
<1>2. t \in Seq(Byte \ {0}) /\ Len(t) = n /\ \A j \in 1 .. n : t[j] = s[j]
  BY <1>1, PrefixIs DEF Bytes
<1>3. t \in Bytes /\ t \in Seq(Byte)
  BY <1>2, BytesSeq DEF Bytes
<1>4. t[1] = s[1] /\ (n >= 2 => t[2] = s[2]) /\ (n >= 3 => t[3] = s[3]) /\ (n = 4 => t[4] = s[4])
  BY <1>1, <1>2
<1>5. Complete(t, n)
  <2>1. t # <<>> /\ n = Class(t[1])
    <3>1. Len(t) # 0 /\ Len(<<>>) = 0
      BY <1>1, <1>2
    <3> QED BY <1>1, <1>4, <3>1
  <2>2. \A j \in 2 .. n : Continues(t[j])
    BY <1>1, <1>2
  <2>3. n <= Len(t)
    BY <1>1, <1>2
  <2> QED BY <1>1, <1>3, <2>1, <2>2, <2>3 DEF Complete
<1>6. Refused(t, n) <=> Refused(s, n)
  <2>1. CASE n = 1
    BY <2>1 DEF Refused, Overlong, Surrogate, TooLarge
  <2>2. CASE n >= 2
    <3>1. t[1] = s[1] /\ t[2] = s[2]
      BY <1>4, <2>2
    <3> QED BY <3>1 DEF Refused, Overlong, Surrogate, TooLarge
  <2> QED BY <1>1, <2>1, <2>2
<1>7. CodePoint(t, n) = CodePoint(s, n)
  <2>1. CASE n = 1
    <3>1. t[1] = s[1]
      BY <1>4, <2>1
    <3> QED BY SMT, <2>1, <3>1 DEF CodePoint
  <2>2. CASE n = 2
    <3>1. t[1] = s[1] /\ t[2] = s[2]
      BY <1>4, <2>2
    <3> QED BY SMT, <2>2, <3>1 DEF CodePoint
  <2>3. CASE n = 3
    <3>1. t[1] = s[1] /\ t[2] = s[2] /\ t[3] = s[3]
      BY <1>4, <2>3
    <3> QED BY SMT, <2>3, <3>1 DEF CodePoint
  <2>4. CASE n = 4
    <3>1. t[1] = s[1] /\ t[2] = s[2] /\ t[3] = s[3] /\ t[4] = s[4]
      BY <1>4, <2>4
    <3> QED BY SMT, <2>4, <3>1 DEF CodePoint
  <2> QED BY <1>1, <2>1, <2>2, <2>3, <2>4
<1> QED BY <1>2, <1>3, <1>5, <1>6, <1>7

\* The rows of the table of well-formed sequences, for the first n bytes of s
Row(s, n) ==
  \/ n = 1 /\ s[1] \in 1 .. 127
  \/ n = 2 /\ s[1] \in 194 .. 223 /\ s[2] \in 128 .. 191
  \/ n = 3 /\ s[1] = 224 /\ s[2] \in 160 .. 191 /\ s[3] \in 128 .. 191
  \/ n = 3 /\ s[1] \in 225 .. 236 /\ s[2] \in 128 .. 191 /\ s[3] \in 128 .. 191
  \/ n = 3 /\ s[1] = 237 /\ s[2] \in 128 .. 159 /\ s[3] \in 128 .. 191
  \/ n = 3 /\ s[1] \in 238 .. 239 /\ s[2] \in 128 .. 191 /\ s[3] \in 128 .. 191
  \/ n = 4 /\ s[1] = 240 /\ s[2] \in 144 .. 191 /\ s[3] \in 128 .. 191 /\ s[4] \in 128 .. 191
  \/ n = 4 /\ s[1] \in 241 .. 243 /\ s[2] \in 128 .. 191 /\ s[3] \in 128 .. 191 /\ s[4] \in 128 .. 191
  \/ n = 4 /\ s[1] = 244 /\ s[2] \in 128 .. 143 /\ s[3] \in 128 .. 191 /\ s[4] \in 128 .. 191

LEMMA RowIs ==
  ASSUME NEW t \in Seq(Byte)
  PROVE  IsChar(t) <=> Row(t, Len(t))
BY IsCharIs DEF Row

\* A complete sequence that is not refused is a character.
LEMMA CompleteIsRow ==
  ASSUME NEW s, NEW n, Complete(s, n), ~Refused(s, n)
  PROVE  Row(s, n)
<1>1. n \in 1 .. 4
  BY DEF Complete
<1>3. CASE n = 1
  <2>1. s[1] \in 1 .. 127
    BY <1>3, BytesOf
  <2> QED BY <1>3, <2>1 DEF Row
<1>4. CASE n = 2
  <2>1. s[1] \in 192 .. 223 /\ s[2] \in 128 .. 191
    BY <1>4, BytesOf
  <2>2. ~(s[1] < 194)
    BY <1>4 DEF Refused, Overlong
  <2>3. s[1] \in 194 .. 223
    BY <2>1, <2>2
  <2> QED BY <1>4, <2>1, <2>3 DEF Row
<1>5. CASE n = 3
  <2>1. s[1] \in 224 .. 239 /\ s[2] \in 128 .. 191 /\ s[3] \in 128 .. 191
    BY <1>5, BytesOf
  <2>2. ~(s[1] = 224 /\ s[2] < 160) /\ ~(s[1] = 237 /\ s[2] >= 160)
    BY <1>5 DEF Refused, Overlong, Surrogate
  <2>3. \/ s[1] = 224 /\ s[2] \in 160 .. 191
        \/ s[1] \in 225 .. 236
        \/ s[1] = 237 /\ s[2] \in 128 .. 159
        \/ s[1] \in 238 .. 239
    BY <2>1, <2>2
  <2> QED BY <1>5, <2>1, <2>3 DEF Row
<1>6. CASE n = 4
  <2>1. s[1] \in 240 .. 247 /\ s[2] \in 128 .. 191 /\ s[3] \in 128 .. 191 /\ s[4] \in 128 .. 191
    BY <1>6, BytesOf
  <2>2. ~(s[1] = 240 /\ s[2] < 144) /\ ~(s[1] > 244) /\ ~(s[1] = 244 /\ s[2] >= 144)
    BY <1>6 DEF Refused, Overlong, TooLarge
  <2>3. \/ s[1] = 240 /\ s[2] \in 144 .. 191
        \/ s[1] \in 241 .. 243
        \/ s[1] = 244 /\ s[2] \in 128 .. 143
    BY <2>1, <2>2
  <2> QED BY <1>6, <2>1, <2>3 DEF Row
<1> QED BY <1>1, <1>3, <1>4, <1>5, <1>6

LEMMA CompleteIsChar ==
  ASSUME NEW s, NEW n, Complete(s, n), ~Refused(s, n)
  PROVE  IsChar(SubSeq(s, 1, n))
<1> DEFINE t == SubSeq(s, 1, n)
<1>1. t \in Seq(Byte) /\ Len(t) = n /\ Complete(t, n) /\ ~Refused(t, n)
  BY CompletePart
<1> HIDE DEF t
<1>2. Row(t, n)
  BY <1>1, CompleteIsRow
<1>3. IsChar(t)
  BY <1>1, <1>2, RowIs
<1> QED BY <1>3 DEF t

LEMMA CompleteIs ==
  ASSUME NEW s \in Bytes, s # <<>>
  PROVE  /\ CharLength(s) > 0 => Complete(s, CharLength(s))
         /\ CharLen(s) > 0 <=> CharLength(s) > 0 /\ ~Refused(s, CharLength(s))
         /\ CharLen(s) > 0 => CharLen(s) = CharLength(s)
<1>1. CharLength(s) > 0 => Complete(s, CharLength(s))
  <2> SUFFICES ASSUME CharLength(s) > 0 PROVE Complete(s, CharLength(s))
    OBVIOUS
  <2> DEFINE n == Class(s[1])
  <2>1. n \in 0 .. 4 /\ n # 0 /\ n <= Len(s) /\ CharLength(s) = n /\ \A j \in 2 .. n : Continues(s[j])
    BY CharLengthIs
  <2> QED BY <2>1 DEF Complete
<1>2. CharLen(s) > 0 => CharLen(s) = CharLength(s) /\ ~Refused(s, CharLen(s))
  BY CharLenIs
<1>3. CharLength(s) > 0 => CharLen(s) > 0 \/ Refused(s, CharLength(s))
  BY CharLenIs
<1>4. CharLen(s) > 0 <=> (CharLength(s) > 0 /\ ~Refused(s, CharLength(s)))
  BY <1>2, <1>3
<1> QED BY <1>1, <1>2, <1>4

\* The encoder is the inverse of the decoder.
LeadTwo == 192 .. 223
Two(a, b) == (a - 192) * 64 + (b - 128)
NoTwo(u) == u < 128
Special(u) == u = 65534 \/ u = 65535

LEMMA EncodeTwo ==
  ASSUME NEW a \in LeadTwo, NEW b \in Follow, NEW u \in Int, u = Two(a, b), ~NoTwo(u)
  PROVE  Encode(u) = <<a, b>>
<1>1. a \in 192 .. 223 /\ b \in 128 .. 191
  BY DEF LeadTwo, Follow
<1>2. u >= 128 /\ u < 2048 /\ u \div 64 = a - 192 /\ u % 64 = b - 128
  BY SMT, <1>1 DEF Two, NoTwo
<1>3. Encode(u) = <<192 + u \div 64, 128 + (u % 64)>>
  BY SMT, <1>2 DEF Encode, Low
<1>4. 192 + u \div 64 = a /\ 128 + (u % 64) = b
  BY SMT, <1>1, <1>2
<1> QED BY <1>3, <1>4

LEMMA EncodeThree ==
  ASSUME NEW a \in LeadThree, NEW b \in Follow, NEW c \in Follow, NEW u \in Int, u = Three(a, b, c),
         ~NoThree(u), ~Special(u)
  PROVE  Encode(u) = <<a, b, c>>
<1>1. a \in 224 .. 239 /\ b \in 128 .. 191 /\ c \in 128 .. 191
  BY DEF LeadThree, Follow
<1>2. u = (a - 224) * 4096 + (b - 128) * 64 + (c - 128) /\ u >= 2048
  BY SMT, <1>1 DEF Three, NoThree
<1>3. u >= 2048 /\ u < 65534
  BY SMT, <1>1, <1>2 DEF Special
<1>4. u \div 4096 = a - 224 /\ (u \div 64) = (a - 224) * 64 + (b - 128) /\ u % 64 = c - 128
  BY SMT, <1>1, <1>2
<1>5. (u \div 64) % 64 = b - 128
  <2>1. ((a - 224) * 64 + (b - 128)) % 64 = b - 128
    BY SMT, <1>1
  <2> QED BY SMT, <1>4, <2>1
<1>6. Encode(u) = <<224 + u \div 4096, 128 + ((u \div 64) % 64), 128 + (u % 64)>>
  BY SMT, <1>3 DEF Encode, Low
<1>7. 224 + u \div 4096 = a /\ 128 + ((u \div 64) % 64) = b /\ 128 + (u % 64) = c
  BY SMT, <1>1, <1>4, <1>5
<1> QED BY SMT, <1>6, <1>7

LEMMA EncodeFour ==
  ASSUME NEW a \in LeadFour, NEW b \in Follow, NEW c \in Follow, NEW d \in Follow,
         NEW u \in Int, u = Four(a, b, c, d), ~NoFour(u)
  PROVE  Encode(u) = <<a, b, c, d>>
<1>1. a \in 240 .. 247 /\ b \in 128 .. 191 /\ c \in 128 .. 191 /\ d \in 128 .. 191
  BY DEF LeadFour, Follow
<1>2. u = (a - 240) * 262144 + (b - 128) * 4096 + (c - 128) * 64 + (d - 128)
      /\ u >= 65536 /\ u < 1114112
  BY SMT, <1>1 DEF Four, NoFour
<1>3. u \div 262144 = a - 240 /\ u \div 4096 = (a - 240) * 64 + (b - 128)
  BY SMT, <1>1, <1>2
<1>4. u \div 64 = (a - 240) * 4096 + (b - 128) * 64 + (c - 128) /\ u % 64 = d - 128
  BY SMT, <1>1, <1>2
<1>5. (u \div 4096) % 64 = b - 128
  BY SMT, <1>1, <1>3
<1>6. (u \div 64) % 64 = c - 128
  BY SMT, <1>1, <1>4
<1>7. Encode(u) = <<240 + u \div 262144, 128 + ((u \div 4096) % 64), 128 + ((u \div 64) % 64), 128 + (u % 64)>>
  BY SMT, <1>2 DEF Encode, Low
<1>8. 240 + u \div 262144 = a /\ 128 + ((u \div 4096) % 64) = b /\ 128 + ((u \div 64) % 64) = c
      /\ 128 + (u % 64) = d
  BY SMT, <1>1, <1>3, <1>4, <1>5, <1>6
<1> QED BY SMT, <1>7, <1>8

\* The noncharacters U+FFFE and U+FFFF have a form of their own.
LEMMA EncodesBack ==
  ASSUME NEW s, NEW n, Complete(s, n), ~Refused(s, n), ~Special(CodePoint(s, n))
  PROVE  Encode(CodePoint(s, n)) = SubSeq(s, 1, n)
<1> DEFINE t == SubSeq(s, 1, n)
           u == CodePoint(s, n)
<1>1. t \in Seq(Byte) /\ Len(t) = n /\ Complete(t, n) /\ CodePoint(t, n) = u
  BY CompletePart
<1>2. ~InvalidPoint(u, n) /\ u \in Int
  BY RefusedAlike
<1>3. ~Special(u)
  OBVIOUS
<1>4. n \in 1 .. 4
  BY DEF Complete
<1> HIDE DEF t, u
<1>5. CASE n = 1
  <2>1. t[1] \in 1 .. 127 /\ u = t[1]
    BY <1>1, <1>5, BytesOf, PointOf
  <2>2. Encode(u) = <<u>>
    <3>1. u \in 1 .. 127
      BY Zenon, <2>1
    <3> QED BY SMT, <1>2, <3>1 DEF Encode
  <2>3. t = <<t[1]>>
    BY <1>1, <1>5
  <2>4. Encode(u) = t
    BY <2>1, <2>2, <2>3
  <2> QED BY <2>4 DEF t, u
<1>6. CASE n = 2
  <2>1. t[1] \in LeadTwo /\ t[2] \in Follow /\ u = Two(t[1], t[2])
    BY <1>1, <1>6, BytesOf, PointOf DEF LeadTwo, Follow, Two
  <2>2. ~NoTwo(u)
    BY SMT, <1>2, <1>6 DEF InvalidPoint, NoTwo
  <2>3. Encode(u) = <<t[1], t[2]>>
    BY Zenon, <1>2, <2>1, <2>2, EncodeTwo
  <2>4. t = <<t[1], t[2]>>
    BY <1>1, <1>6
  <2>5. Encode(u) = t
    BY <2>3, <2>4
  <2> QED BY <2>5 DEF t, u
<1>7. CASE n = 3
  <2>1. t[1] \in LeadThree /\ t[2] \in Follow /\ t[3] \in Follow
    BY <1>1, <1>7, BytesOf DEF LeadThree, Follow
  <2>2. u = Three(t[1], t[2], t[3])
    BY <1>1, <1>7, PointOf
  <2>3. ~NoThree(u)
    BY SMT, <1>2, <1>7 DEF InvalidPoint, NoThree
  <2>4. Encode(u) = <<t[1], t[2], t[3]>>
    BY Zenon, <1>2, <1>3, <2>1, <2>2, <2>3, EncodeThree
  <2>5. t = <<t[1], t[2], t[3]>>
    BY <1>1, <1>7
  <2>6. Encode(u) = t
    BY <2>4, <2>5
  <2> QED BY <2>6 DEF t, u
<1>8. CASE n = 4
  <2>1. t[1] \in LeadFour /\ t[2] \in Follow /\ t[3] \in Follow /\ t[4] \in Follow
    BY <1>1, <1>8, BytesOf DEF LeadFour, Follow
  <2>2. u = Four(t[1], t[2], t[3], t[4])
    BY <1>1, <1>8, PointOf
  <2>3. ~NoFour(u)
    BY SMT, <1>2, <1>8 DEF InvalidPoint, NoFour
  <2>4. Encode(u) = <<t[1], t[2], t[3], t[4]>>
    BY ZenonT(40), <1>2, <2>1, <2>2, <2>3, EncodeFour
  <2>5. t = <<t[1], t[2], t[3], t[4]>>
    BY <1>1, <1>8
  <2>6. Encode(u) = t
    BY <2>4, <2>5
  <2> QED BY <2>6 DEF t, u
<1> QED BY <1>4, <1>5, <1>6, <1>7, <1>8

\* The two decoders, at the same place
LEMMA Agreement ==
  ASSUME NEW s \in Bytes, s # <<>>
  PROVE  LET d == Iterate(s) IN
         /\ d.len > 0 <=> CharLen(s) > 0
         /\ d.len > 0 => /\ d.len = CharLen(s)
                         /\ IsChar(SubSeq(s, 1, d.len))
                         /\ ~Special(d.uc) => Encode(d.uc) = SubSeq(s, 1, d.len)
<1> DEFINE n == CharLength(s)
           d == Iterate(s)
<1>1. n \in Int /\ n # 0
  BY CharLengthIs
<1>2. (n > 0 => Complete(s, n)) /\ (CharLen(s) > 0 <=> (n > 0 /\ ~Refused(s, n)))
      /\ (CharLen(s) > 0 => CharLen(s) = n)
  BY CompleteIs
<1>3. d = IF n < 0 \/ InvalidPoint(CodePoint(s, n), n) THEN [len |-> -1, uc |-> -1]
                                                       ELSE [len |-> n, uc |-> CodePoint(s, n)]
  BY Zenon DEF Iterate
<1> HIDE DEF n, d
<1>4. CASE n < 0
  <2>1. d.len = -1
    BY <1>3, <1>4
  <2> QED BY <1>1, <1>2, <1>4, <2>1 DEF d
<1>5. CASE n > 0 /\ Refused(s, n)
  <2>1. InvalidPoint(CodePoint(s, n), n)
    BY <1>2, <1>5, RefusedAlike
  <2>2. d.len = -1
    BY <1>3, <2>1
  <2> QED BY <1>1, <1>2, <1>5, <2>2 DEF d
<1>6. CASE n > 0 /\ ~Refused(s, n)
  <2>1. ~InvalidPoint(CodePoint(s, n), n)
    BY <1>2, <1>6, RefusedAlike
  <2>2. d.len = n /\ d.uc = CodePoint(s, n)
    BY <1>1, <1>3, <1>6, <2>1
  <2>3. IsChar(SubSeq(s, 1, n))
    BY <1>2, <1>6, CompleteIsChar
  <2>4. ~Special(CodePoint(s, n)) => Encode(CodePoint(s, n)) = SubSeq(s, 1, n)
    BY <1>2, <1>6, EncodesBack
  <2> QED BY <1>2, <1>6, <2>2, <2>3, <2>4 DEF d
<1> QED BY <1>1, <1>4, <1>5, <1>6

\* A code point that houdini_unescape_ent encodes
Scalar(u) == u \in Int /\ u > 0 /\ u < 1114112 /\ (u < 55296 \/ u > 57343)

\* What the encoder writes is a character.
IsOne(u) == u < 128
IsTwo(u) == u >= 128 /\ u < 2048
IsThree(u) == u >= 2048 /\ u < 65536
IsFour(u) == u >= 65536
LEMMA EncodeIsChar ==
  ASSUME NEW u, Scalar(u), ~Special(u)
  PROVE  Encode(u) \in Seq(Byte) /\ IsChar(Encode(u))
<1> SUFFICES ASSUME NEW t, t = Encode(u) PROVE t \in Seq(Byte) /\ IsChar(t)
  BY Zenon
<1>1. CASE IsOne(u)
  <2>1. t = <<u>>
    BY SMT, <1>1 DEF Encode, Scalar, IsOne
  <2>2. u \in 1 .. 127
    BY SMT, <1>1 DEF Scalar, IsOne
  <2>3. t \in Seq(Byte) /\ Len(t) = 1 /\ t[1] = u
    BY SMT, <2>1, <2>2 DEF Byte
  <2>4. Row(t, 1)
    BY <2>2, <2>3 DEF Row
  <2> QED BY <2>3, <2>4, RowIs
<1>2. CASE IsTwo(u)
  <2> DEFINE a == 192 + u \div 64
             b == 128 + (u % 64)
  <2>1. t = <<a, b>>
    BY SMT, <1>2 DEF Encode, Low, Scalar, IsTwo
  <2>2. a \in 194 .. 223 /\ b \in 128 .. 191
    BY SMT, <1>2 DEF Scalar, IsTwo
  <2> HIDE DEF a, b
  <2>3. t \in Seq(Byte) /\ Len(t) = 2 /\ t[1] = a /\ t[2] = b
    BY SMT, <2>1, <2>2 DEF Byte
  <2>4. Row(t, 2)
    BY <2>2, <2>3 DEF Row
  <2> QED BY <2>3, <2>4, RowIs
<1>3. CASE IsThree(u)
  <2> DEFINE p == u \div 4096
             q == (u \div 64) % 64
             r == u % 64
             a == 224 + p
             b == 128 + q
             c == 128 + r
  <2>1. t = <<a, b, c>>
    BY SMT, <1>3 DEF Encode, Low, Special, Scalar, IsThree
  <2>2. p \in 0 .. 15 /\ q \in 0 .. 63 /\ r \in 0 .. 63 /\ u = 4096 * p + 64 * q + r
    BY SMT, <1>3 DEF Scalar, IsThree
  <2> HIDE DEF p, q, r
  <2>3. (p = 0 => q >= 32) /\ (p = 13 => q < 32)
    BY SMT, <1>3, <2>2 DEF Scalar, IsThree
  <2>4. /\ b \in 128 .. 191 /\ c \in 128 .. 191
        /\ \/ a = 224 /\ b \in 160 .. 191
           \/ a \in 225 .. 236
           \/ a = 237 /\ b \in 128 .. 159
           \/ a \in 238 .. 239
    BY SMT, <2>2, <2>3
  <2> HIDE DEF a, b, c
  <2>5. a \in Byte /\ b \in Byte /\ c \in Byte
    BY SMT, <2>4 DEF Byte
  <2>6. t \in Seq(Byte) /\ Len(t) = 3 /\ t[1] = a /\ t[2] = b /\ t[3] = c
    BY SMT, <2>1, <2>5
  <2>7. Row(t, 3)
    BY <2>4, <2>6 DEF Row
  <2> QED BY <2>6, <2>7, RowIs
<1>4. CASE IsFour(u)
  <2> DEFINE o == u \div 262144
             p == (u \div 4096) % 64
             q == (u \div 64) % 64
             r == u % 64
             a == 240 + o
             b == 128 + p
             c == 128 + q
             d == 128 + r
  <2>1. t = <<a, b, c, d>>
    BY SMT, <1>4 DEF Encode, Low, Scalar, IsFour
  <2>2. o \in 0 .. 4 /\ p \in 0 .. 63 /\ q \in 0 .. 63 /\ r \in 0 .. 63
        /\ u = 262144 * o + 4096 * p + 64 * q + r
    BY SMT, <1>4 DEF Scalar, IsFour
  <2> HIDE DEF o, p, q, r
  <2>3. (o = 0 => p >= 16) /\ (o = 4 => p < 16)
    BY SMT, <1>4, <2>2 DEF Scalar, IsFour
  <2>4. /\ b \in 128 .. 191 /\ c \in 128 .. 191 /\ d \in 128 .. 191
        /\ \/ a = 240 /\ b \in 144 .. 191
           \/ a \in 241 .. 243
           \/ a = 244 /\ b \in 128 .. 143
    BY SMT, <2>2, <2>3
  <2> HIDE DEF a, b, c, d
  <2>5. a \in Byte /\ b \in Byte /\ c \in Byte /\ d \in Byte
    BY SMT, <2>4 DEF Byte
  <2>6. t \in Seq(Byte) /\ Len(t) = 4 /\ t[1] = a /\ t[2] = b /\ t[3] = c /\ t[4] = d
    BY SMT, <2>1, <2>5
  <2>7. Row(t, 4)
    BY <2>4, <2>6 DEF Row
  <2> QED BY <2>6, <2>7, RowIs
<1>5. IsOne(u) \/ IsTwo(u) \/ IsThree(u) \/ IsFour(u)
  BY SMT DEF Scalar, IsOne, IsTwo, IsThree, IsFour
<1> QED BY <1>1, <1>2, <1>3, <1>4, <1>5

-----------------------------------------------------------------------------
(* Texts. *)

\* The byte at j is part of a character, and so is every byte that is not in X.
At(s, j) == \E a \in 1 .. Len(s) : \E b \in 1 .. Len(s) :
              a <= j /\ j <= b /\ b - a < 4 /\ IsChar(SubSeq(s, a, b))
Fine(s, X) == s \in Seq(Byte) /\ \A j \in 1 .. Len(s) : s[j] \in X \/ At(s, j)

LEMMA CoveredIs ==
  ASSUME NEW s \in Seq(Byte)
  PROVE  Covered(s) = {j \in 1 .. Len(s) : At(s, j)}
<1>1. DOMAIN s = 1 .. Len(s) /\ Len(s) \in Nat
  OBVIOUS
<1>2. ASSUME NEW j \in Covered(s) PROVE j \in 1 .. Len(s) /\ At(s, j)
  <2>1. PICK c \in Chars(s) : j \in c[1] .. c[2]
    BY DEF Covered
  <2>2. /\ c[1] \in 1 .. Len(s) /\ c[2] \in 1 .. Len(s)
        /\ c[2] - c[1] < 4 /\ IsChar(SubSeq(s, c[1], c[2]))
    BY <1>1 DEF Chars
  <2> QED BY <1>1, <2>1, <2>2 DEF At
<1>3. ASSUME NEW j \in 1 .. Len(s), At(s, j) PROVE j \in Covered(s)
  <2>1. PICK a \in 1 .. Len(s) : \E b \in 1 .. Len(s) :
               a <= j /\ j <= b /\ b - a < 4 /\ IsChar(SubSeq(s, a, b))
    BY <1>3 DEF At
  <2>2. PICK b \in 1 .. Len(s) : a <= j /\ j <= b /\ b - a < 4 /\ IsChar(SubSeq(s, a, b))
    BY <2>1
  <2>3. <<a, b>> \in Chars(s)
    BY <1>1, <2>2 DEF Chars
  <2>4. j \in a .. b /\ <<a, b>>[1] = a /\ <<a, b>>[2] = b
    BY <2>2
  <2> QED BY <2>3, <2>4 DEF Covered
<1> QED BY <1>2, <1>3

LEMMA FineIs ==
  ASSUME NEW s \in Seq(Byte), NEW X
  PROVE  Fine(s, X) <=> \A j \in 1 .. Len(s) : s[j] \in X \/ j \in Covered(s)
BY CoveredIs DEF Fine

\* Equal bytes are an equal character.
LEMMA SamePart ==
  ASSUME NEW T, NEW s \in Seq(T), NEW t \in Seq(T), NEW d \in Int,
         NEW a \in 1 .. Len(s), NEW b \in 1 .. Len(s),
         a + d \in 1 .. Len(t), b + d \in 1 .. Len(t), \A j \in a .. b : t[j + d] = s[j]
  PROVE  SubSeq(t, a + d, b + d) = SubSeq(s, a, b)
<1>1. SubSeq(s, a, b) \in Seq(T) /\ SubSeq(t, a + d, b + d) \in Seq(T)
  OBVIOUS
<1>2. Len(SubSeq(s, a, b)) = Len(SubSeq(t, a + d, b + d))
  OBVIOUS
<1>3. \A j \in 1 .. Len(SubSeq(s, a, b)) : SubSeq(s, a, b)[j] = SubSeq(t, a + d, b + d)[j]
  OBVIOUS
<1> QED BY <1>1, <1>2, <1>3

LEMMA AtMoves ==
  ASSUME NEW s \in Seq(Byte), NEW t \in Seq(Byte), NEW d \in Int, NEW j \in 1 .. Len(s), At(s, j),
         \A a \in 1 .. Len(s) : a + d \in 1 .. Len(t) /\ t[a + d] = s[a]
  PROVE  At(t, j + d)
<1>1. PICK a \in 1 .. Len(s) : \E b \in 1 .. Len(s) :
             a <= j /\ j <= b /\ b - a < 4 /\ IsChar(SubSeq(s, a, b))
  BY DEF At
<1>2. PICK b \in 1 .. Len(s) : a <= j /\ j <= b /\ b - a < 4 /\ IsChar(SubSeq(s, a, b))
  BY <1>1
<1>3. \A m \in a .. b : m \in 1 .. Len(s)
  OBVIOUS
<1>6. a + d \in 1 .. Len(t) /\ b + d \in 1 .. Len(t) /\ \A m \in a .. b : t[m + d] = s[m]
  BY <1>3
<1>4. SubSeq(t, a + d, b + d) = SubSeq(s, a, b)
  BY SMT, <1>1, <1>2, <1>6, SamePart
<1>5. a + d <= j + d /\ j + d <= b + d /\ (b + d) - (a + d) < 4
  BY <1>2
<1> QED BY <1>2, <1>4, <1>5 DEF At

LEMMA FineEmpty == \A X : Fine(<<>>, X)
BY DEF Fine

LEMMA FineConcat ==
  ASSUME NEW X, NEW s, NEW t, Fine(s, X), Fine(t, X)
  PROVE  Fine(s \o t, X)
<1>1. s \in Seq(Byte) /\ t \in Seq(Byte)
  BY DEF Fine
<1> DEFINE u == s \o t
<1>2. /\ u \in Seq(Byte) /\ Len(u) = Len(s) + Len(t) /\ Len(s) \in Nat /\ Len(t) \in Nat
      /\ \A j \in 1 .. Len(s) : u[j] = s[j]
      /\ \A j \in 1 .. Len(t) : u[j + Len(s)] = t[j]
  BY <1>1
<1> HIDE DEF u
<1>3. ASSUME NEW j \in 1 .. Len(s) PROVE u[j] \in X \/ At(u, j)
  <2>1. CASE At(s, j)
    <3>1. PICK d \in Int : d = 0
      OBVIOUS
    <3>2. \A a \in 1 .. Len(s) : a + d \in 1 .. Len(u) /\ u[a + d] = s[a]
      BY <1>2, <3>1
    <3>3. At(u, j + d)
      BY Zenon, <1>1, <1>2, <2>1, <3>2, AtMoves
    <3>4. j + d = j
      BY <3>1
    <3> QED BY <3>3, <3>4
  <2> QED BY <1>2, <2>1 DEF Fine
<1>4. ASSUME NEW j \in 1 .. Len(t) PROVE u[j + Len(s)] \in X \/ At(u, j + Len(s))
  <2>1. CASE At(t, j)
    <3>1. \A a \in 1 .. Len(t) : a + Len(s) \in 1 .. Len(u) /\ u[a + Len(s)] = t[a]
      BY <1>2
    <3>2. Len(s) \in Int
      BY <1>2
    <3> QED BY Zenon, <1>1, <1>2, <2>1, <3>1, <3>2, AtMoves
  <2> QED BY <1>2, <2>1 DEF Fine
<1>5. ASSUME NEW j \in 1 .. Len(u), ~(j \in 1 .. Len(s)) PROVE u[j] \in X \/ At(u, j)
  <2>1. j - Len(s) \in 1 .. Len(t) /\ (j - Len(s)) + Len(s) = j
    BY <1>2, <1>5
  <2> QED BY <1>4, <2>1
<1>6. Fine(u, X)
  BY <1>2, <1>3, <1>5 DEF Fine
<1> QED BY <1>6 DEF u

LEMMA FineMore ==
  ASSUME NEW s, Fine(s, {}), NEW X
  PROVE  Fine(s, X)
BY DEF Fine

LEMMA FineChar ==
  ASSUME NEW t \in Seq(Byte), IsChar(t), NEW X
  PROVE  Fine(t, X)
<1>1. Len(t) \in 1 .. 4
  BY RowIs DEF Row
<1>2. SubSeq(t, 1, Len(t)) = t
  OBVIOUS
<1>3. ASSUME NEW j \in 1 .. Len(t) PROVE At(t, j)
  <2>1. 1 \in 1 .. Len(t) /\ Len(t) \in 1 .. Len(t) /\ 1 <= j /\ j <= Len(t) /\ Len(t) - 1 < 4
    <3>1. \A n \in 1 .. 4 : \A m \in 1 .. n : 1 \in 1 .. n /\ n \in 1 .. n /\ 1 <= m /\ m <= n /\ n - 1 < 4
      OBVIOUS
    <3> QED BY <1>1, <3>1
  <2> QED BY <1>2, <2>1 DEF At
<1> QED BY <1>3 DEF Fine

Ascii == 1 .. 127
High == 128 .. 255
LEMMA HighIsNotAscii == \A a \in High : a \notin Ascii
BY DEF High, Ascii

\* No character has an ASCII byte in it but by itself.
LEMMA AsciiAlone ==
  ASSUME NEW t \in Seq(Byte), IsChar(t), NEW m \in 1 .. Len(t), t[m] \in Ascii
  PROVE  Len(t) = 1
<1>1. Row(t, Len(t))
  BY RowIs
<1>2. CASE Len(t) = 2
  <2>1. t[1] \in High /\ t[2] \in High
    BY <1>1, <1>2 DEF Row, High
  <2>2. m = 1 \/ m = 2
    BY <1>2
  <2>3. t[m] \in High
    BY Zenon, <2>1, <2>2
  <2> QED BY Zenon, <2>3, HighIsNotAscii
<1>3. CASE Len(t) = 3
  <2>1. t[1] \in High /\ t[2] \in High /\ t[3] \in High
    BY <1>1, <1>3 DEF Row, High
  <2>2. m = 1 \/ m = 2 \/ m = 3
    BY <1>3
  <2>3. t[m] \in High
    BY Zenon, <2>1, <2>2
  <2> QED BY Zenon, <2>3, HighIsNotAscii
<1>4. CASE Len(t) = 4
  <2>1. t[1] \in High /\ t[2] \in High /\ t[3] \in High /\ t[4] \in High
    BY <1>1, <1>4 DEF Row, High
  <2>2. m = 1 \/ m = 2 \/ m = 3 \/ m = 4
    BY <1>4
  <2>3. t[m] \in High
    BY Zenon, <2>1, <2>2
  <2> QED BY Zenon, <2>3, HighIsNotAscii
<1>5. Len(t) \in {1, 2, 3, 4}
  BY <1>1 DEF Row
<1> QED BY <1>2, <1>3, <1>4, <1>5

LEMMA SameWithin ==
  ASSUME NEW s \in Seq(Byte), NEW p \in Seq(Byte), NEW d \in Int,
         \A m \in 1 .. Len(p) : m + d \in 1 .. Len(s) /\ s[m + d] = p[m],
         NEW a \in 1 .. Len(p), NEW b \in 1 .. Len(p)
  PROVE  SubSeq(s, a + d, b + d) = SubSeq(p, a, b)
<1>1. a + d \in 1 .. Len(s) /\ b + d \in 1 .. Len(s)
  OBVIOUS
<1>2. \A m \in a .. b : m \in 1 .. Len(p)
  OBVIOUS
<1>3. \A m \in a .. b : s[m + d] = p[m]
  BY Zenon, <1>2
<1> QED BY ZenonT(40), <1>1, <1>3, SamePart

\* So a text can be cut there.
LEMMA FineCut ==
  ASSUME NEW X, NEW s, Fine(s, X), NEW n \in 1 .. Len(s), s[n] \in Ascii
  PROVE  Fine(SubSeq(s, 1, n - 1), X) /\ Fine(SubSeq(s, n + 1, Len(s)), X)
<1>1. s \in Seq(Byte) /\ Len(s) \in Nat
  BY DEF Fine
<1>2. ASSUME NEW a \in 1 .. Len(s), NEW b \in 1 .. Len(s), a <= n, n <= b, IsChar(SubSeq(s, a, b))
      PROVE  a = n /\ b = n
  <2> DEFINE t == SubSeq(s, a, b)
  <2>1. t \in Seq(Byte) /\ Len(t) = b - a + 1 /\ n - a + 1 \in 1 .. Len(t) /\ t[n - a + 1] = s[n]
    BY <1>1, <1>2
  <2> HIDE DEF t
  <2>2. IsChar(t)
    BY <1>2 DEF t
  <2>3. t[n - a + 1] \in Ascii
    BY <2>1
  <2>4. Len(t) = 1
    BY Zenon, <2>1, <2>2, <2>3, AsciiAlone
  <2>5. b - a + 1 = 1
    BY <2>1, <2>4
  <2> QED BY <1>1, <1>2, <2>5
<1>3. ASSUME NEW j \in 1 .. Len(s), At(s, j), j # n
      PROVE  \E a \in 1 .. Len(s) : \E b \in 1 .. Len(s) :
               a <= j /\ j <= b /\ b - a < 4 /\ IsChar(SubSeq(s, a, b)) /\ (b < n \/ a > n)
  <2>1. PICK a \in 1 .. Len(s) : \E b \in 1 .. Len(s) :
               a <= j /\ j <= b /\ b - a < 4 /\ IsChar(SubSeq(s, a, b))
    BY <1>3 DEF At
  <2>2. PICK b \in 1 .. Len(s) : a <= j /\ j <= b /\ b - a < 4 /\ IsChar(SubSeq(s, a, b))
    BY <2>1
  <2>3. CASE b < n \/ a > n
    BY <2>2, <2>3
  <2>4. CASE ~(b < n \/ a > n)
    <3>1. a = n /\ b = n
      BY <1>1, <1>2, <2>2, <2>4
    <3> QED BY <1>3, <2>2, <3>1
  <2> QED BY <2>3, <2>4
<1>4. Fine(SubSeq(s, 1, n - 1), X)
  <2> DEFINE p == SubSeq(s, 1, n - 1)
  <2>1. p \in Seq(Byte) /\ Len(p) = n - 1 /\ \A j \in 1 .. n - 1 : p[j] = s[j]
    BY <1>1
  <2> HIDE DEF p
  <2>2. ASSUME NEW j \in 1 .. Len(p), ~(p[j] \in X) PROVE At(p, j)
    <3>1. j \in 1 .. Len(s) /\ j # n /\ j < n /\ At(s, j)
      BY <1>1, <2>1, <2>2 DEF Fine
    <3>2. PICK a \in 1 .. Len(s) : \E b \in 1 .. Len(s) :
                 a <= j /\ j <= b /\ b - a < 4 /\ IsChar(SubSeq(s, a, b)) /\ (b < n \/ a > n)
      BY <1>3, <3>1
    <3>3. PICK b \in 1 .. Len(s) :
                 a <= j /\ j <= b /\ b - a < 4 /\ IsChar(SubSeq(s, a, b)) /\ (b < n \/ a > n)
      BY <3>2
    <3>4. a \in 1 .. Len(p) /\ b \in 1 .. Len(p)
      BY <1>1, <2>1, <3>1, <3>3
    <3>5. SubSeq(p, a, b) = SubSeq(s, a, b)
      <4>1. PICK d \in Int : d = 0
        OBVIOUS
      <4>2. a + d = a /\ b + d = b
        BY <4>1
      <4>3. d \in Int /\ \A m \in 1 .. Len(p) : m + d \in 1 .. Len(s) /\ s[m + d] = p[m]
        BY <1>1, <2>1, <4>1
      <4>4. SubSeq(s, a + d, b + d) = SubSeq(p, a, b)
        BY ZenonT(40), <1>1, <2>1, <3>4, <4>3, SameWithin
      <4> QED BY <4>2, <4>4
    <3> QED BY <3>3, <3>4, <3>5 DEF At
  <2>3. Fine(p, X)
    BY <2>1, <2>2 DEF Fine
  <2> QED BY <2>3 DEF p
<1>5. Fine(SubSeq(s, n + 1, Len(s)), X)
  <2> DEFINE p == SubSeq(s, n + 1, Len(s))
  <2>1. p \in Seq(Byte) /\ Len(p) = Len(s) - n /\ \A j \in 1 .. Len(s) - n : p[j] = s[j + n]
    BY <1>1
  <2> HIDE DEF p
  <2>2. ASSUME NEW j \in 1 .. Len(p), ~(p[j] \in X) PROVE At(p, j)
    <3>1. j + n \in 1 .. Len(s) /\ j + n # n /\ At(s, j + n)
      BY <1>1, <2>1, <2>2 DEF Fine
    <3>2. PICK a \in 1 .. Len(s) : \E b \in 1 .. Len(s) :
                 a <= j + n /\ j + n <= b /\ b - a < 4 /\ IsChar(SubSeq(s, a, b)) /\ (b < n \/ a > n)
      BY <1>3, <3>1
    <3>3. PICK b \in 1 .. Len(s) :
                 a <= j + n /\ j + n <= b /\ b - a < 4 /\ IsChar(SubSeq(s, a, b)) /\ (b < n \/ a > n)
      BY <3>2
    <3>4. PICK e \in 1 .. Len(p) : e + n = a
      <4>1. a - n \in 1 .. Len(p) /\ (a - n) + n = a
        BY <1>1, <2>1, <2>2, <3>3
      <4> QED BY <4>1
    <3>5. PICK f \in 1 .. Len(p) : f + n = b
      <4>1. b - n \in 1 .. Len(p) /\ (b - n) + n = b
        BY <1>1, <2>1, <2>2, <3>3
      <4> QED BY <4>1
    <3>6. n \in Int /\ \A m \in 1 .. Len(p) : m + n \in 1 .. Len(s) /\ s[m + n] = p[m]
      BY SMTT(30), <1>1, <2>1
    <3>7. SubSeq(s, e + n, f + n) = SubSeq(p, e, f)
      BY ZenonT(40), <1>1, <2>1, <3>4, <3>5, <3>6, SameWithin
    <3>8. e <= j /\ j <= f /\ f - e < 4
      BY <2>1, <3>3, <3>4, <3>5
    <3> QED BY <3>3, <3>4, <3>5, <3>7, <3>8 DEF At
  <2>3. Fine(p, X)
    BY <2>1, <2>2 DEF Fine
  <2> QED BY <2>3 DEF p
<1> QED BY <1>4, <1>5

\* The sequences that the texts are put together from
LEMMA FineTail ==
  ASSUME NEW X, NEW b \in Ascii
  PROVE  Fine(<<b>>, X)
<1>1. <<b>> \in Seq(Byte) /\ Len(<<b>>) = 1 /\ <<b>>[1] = b
  BY DEF Ascii, Byte
<1>2. Row(<<b>>, 1)
  BY <1>1 DEF Row, Ascii
<1> QED BY <1>1, <1>2, RowIs, FineChar

LEMMA FineUnknown == \A X : Fine(Unknown, X)
<1>1. Unknown \in Seq(Byte) /\ Len(Unknown) = 3 /\ Unknown[1] = 239 /\ Unknown[2] = 191 /\ Unknown[3] = 189
  BY DEF Unknown, Byte
<1>2. Row(Unknown, 3)
  BY <1>1 DEF Row
<1> QED BY <1>1, <1>2, RowIs, FineChar

Noncharacters == {254, 255}
LEMMA FineEncode ==
  ASSUME NEW u, Scalar(u)
  PROVE  Fine(Encode(u), Noncharacters)
<1>1. CASE Special(u)
  <2>1. \E x \in Noncharacters : Encode(u) = <<x>>
    BY SMT, <1>1 DEF Special, Encode, Noncharacters
  <2>2. PICK x \in Noncharacters : Encode(u) = <<x>>
    BY Zenon, <2>1
  <2>3. <<x>> \in Seq(Byte) /\ Len(<<x>>) = 1 /\ <<x>>[1] = x
    BY <2>2 DEF Noncharacters, Byte
  <2>4. \A j \in 1 .. Len(<<x>>) : <<x>>[j] \in Noncharacters
    BY <2>2, <2>3
  <2>5. Fine(<<x>>, Noncharacters)
    BY <2>3, <2>4 DEF Fine
  <2> QED BY Zenon, <2>2, <2>5
<1>2. CASE ~Special(u)
  <2>1. Encode(u) \in Seq(Byte) /\ IsChar(Encode(u))
    BY <1>2, EncodeIsChar
  <2> QED BY <2>1, FineChar
<1> QED BY <1>1, <1>2

\* The buffer
LEMMA MaxOfTwo ==
  ASSUME NEW a \in Nat, NEW b \in Nat
  PROVE  Max({a, b}) = IF a >= b THEN a ELSE b
<1> DEFINE m == IF a >= b THEN a ELSE b
<1>1. m \in {a, b} /\ \A y \in {a, b} : m >= y
  OBVIOUS
<1>2. \A x \in {a, b} : (\A y \in {a, b} : x >= y) => x = m
  OBVIOUS
<1> HIDE DEF m
<1>3. Max({a, b}) = m
  BY <1>1, <1>2 DEF Max
<1> QED BY <1>3 DEF m

BufferSound(b) == b \in [mem : Seq(Byte), size : Nat] /\ b.size <= Len(b.mem)

LEMMA PutIs ==
  ASSUME NEW b, BufferSound(b), NEW s \in Seq(Byte)
  PROVE  BufferSound(Put(b, s)) /\ Held(Put(b, s)) = Held(b) \o s /\ Held(b) \in Seq(Byte)
<1>1. b.mem \in Seq(Byte) /\ b.size \in Nat /\ b.size <= Len(b.mem) /\ b \in [mem : Seq(Byte), size : Nat]
  BY DEF BufferSound
<1>2. Held(b) \in Seq(Byte) /\ Len(Held(b)) = b.size /\ \A j \in 1 .. b.size : Held(b)[j] = b.mem[j]
  BY <1>1, PrefixIs DEF Held
<1>3. CASE s = <<>>
  <2>1. Put(b, s) = b
    BY <1>3 DEF Put
  <2>2. Held(b) \o <<>> = Held(b)
    BY <1>2
  <2> QED BY <1>2, <1>3, <2>1, <2>2
<1>4. CASE s # <<>>
  <2> DEFINE n == b.size + Len(s)
             L == Max({Len(b.mem), n + 1})
             mem == [j \in 1 .. L |-> IF j \in b.size + 1 .. n THEN s[j - b.size]
                                      ELSE IF j = n + 1 THEN 0 ELSE b.mem[j]]
  <2>1. Put(b, s) = [size |-> n, mem |-> mem]
    BY Zenon, <1>4 DEF Put
  <2>2. n \in Nat /\ Len(s) \in Nat /\ Len(b.mem) \in Nat /\ n = b.size + Len(s)
    BY <1>1
  <2>3. L \in Nat /\ L >= n + 1 /\ (L = Len(b.mem) \/ L = n + 1)
    BY <2>2, MaxOfTwo
  <2> HIDE DEF n, L
  <2>4. ASSUME NEW j \in 1 .. L PROVE mem[j] \in Byte
    <3>1. CASE j \in b.size + 1 .. n
      <4>1. j - b.size \in 1 .. Len(s)
        BY <1>1, <2>2, <3>1
      <4>2. s[j - b.size] \in Byte
        BY <4>1
      <4>3. mem[j] = s[j - b.size]
        BY <3>1
      <4> QED BY <4>2, <4>3
    <3>2. CASE ~(j \in b.size + 1 .. n) /\ j = n + 1
      <4>1. mem[j] = 0
        BY <3>2
      <4> QED BY <4>1 DEF Byte
    <3>3. CASE ~(j \in b.size + 1 .. n) /\ j # n + 1
      <4>1. j \in 1 .. Len(b.mem)
        BY <1>1, <2>2, <2>3, <3>3
      <4>2. b.mem[j] \in Byte
        BY <1>1, <4>1
      <4>3. mem[j] = b.mem[j]
        BY <3>3
      <4> QED BY <4>2, <4>3
    <3> QED BY <3>1, <3>2, <3>3
  <2>5. mem \in Seq(Byte) /\ Len(mem) = L
    BY <2>3, <2>4
  <2>6. \A j \in 1 .. n : mem[j] = IF j \in b.size + 1 .. n THEN s[j - b.size] ELSE b.mem[j]
    BY <2>2, <2>3
  <2> HIDE DEF mem
  <2>7. BufferSound(Put(b, s)) /\ Held(Put(b, s)) = SubSeq(mem, 1, n)
    BY <2>1, <2>2, <2>3, <2>5 DEF BufferSound, Held
  <2>8. SubSeq(mem, 1, n) \in Seq(Byte) /\ Len(SubSeq(mem, 1, n)) = n
        /\ \A j \in 1 .. n : SubSeq(mem, 1, n)[j] = mem[j]
    BY <2>2, <2>3, <2>5, PrefixIs
  <2> DEFINE h == Held(b)
             p == SubSeq(mem, 1, n)
  <2>9. h \in Seq(Byte) /\ Len(h) = b.size /\ \A j \in 1 .. b.size : h[j] = b.mem[j]
    BY <1>2
  <2>10. p \in Seq(Byte) /\ Len(p) = n /\ \A j \in 1 .. n : p[j] = mem[j]
    BY <2>8
  <2> HIDE DEF h, p
  <2>11. h \o s \in Seq(Byte) /\ Len(h \o s) = n
        /\ (\A j \in 1 .. b.size : (h \o s)[j] = h[j])
        /\ (\A j \in b.size + 1 .. n : (h \o s)[j] = s[j - b.size])
    BY <1>1, <2>2, <2>9
  <2>12. ASSUME NEW j \in 1 .. n PROVE p[j] = (h \o s)[j]
    <3>1. CASE j <= b.size
      <4>1. j \in 1 .. b.size /\ ~(j \in b.size + 1 .. n)
        BY <1>1, <2>2, <3>1
      <4> QED BY <2>6, <2>9, <2>10, <2>11, <4>1
    <3>2. CASE ~(j <= b.size)
      <4>1. j \in b.size + 1 .. n
        BY <1>1, <2>2, <3>2
      <4> QED BY <2>6, <2>10, <2>11, <4>1
    <3> QED BY <3>1, <3>2
  <2>13. p = h \o s
    <3> DEFINE q == h \o s
    <3>1. q \in Seq(Byte) /\ Len(q) = n /\ \A j \in 1 .. n : p[j] = q[j]
      BY <2>11, <2>12
    <3> HIDE DEF q
    <3>2. p = q
      BY <2>10, <3>1
    <3> QED BY <3>2 DEF q
  <2> QED BY <1>2, <2>7, <2>13 DEF h, p
<1> QED BY <1>3, <1>4

-----------------------------------------------------------------------------
(* The references of a text. *)

\* The bytes that the table holds
LEMMA TableFine ==
  ASSUME NEW e \in Entries, NEW X
  PROVE  Fine(Table[e + 1].bytes, X)
<1>1. Table \in Seq([name : Bytes, bytes : Seq(Byte)])
  BY TableAssumption DEF Bytes
<1>2. e + 1 \in 1 .. Len(Table) /\ DOMAIN Table = 1 .. Len(Table)
  BY <1>1 DEF Entries
<1>3. Table[e + 1] \in [name : Bytes, bytes : Seq(Byte)]
  BY <1>1, <1>2, Element
<1> DEFINE b == Table[e + 1].bytes
<1>4. b \in Seq(Byte) /\ DOMAIN b = 1 .. Len(b)
  BY <1>3
<1>5. Covered(b) = DOMAIN b
  BY <1>2, CharactersAssumption
<1> HIDE DEF b
<1>6. Fine(b, X)
  BY <1>4, <1>5, FineIs
<1> QED BY <1>6 DEF b

\* The number read so far. Kept as one word: the bound is that of code points.
Counted(u) == u \in Int /\ 0 <= u /\ u <= 1114112

\* What holds while the references of a validated line are replaced
Replacing ==
  /\ Counted(codepoint)
  /\ pc = "search" => Ch(k) = Semicolon
  /\ Fine(ob, Noncharacters) /\ Fine(Rest, {})

LEMMA TailIs ==
  ASSUME NEW T, NEW s \in Seq(T), NEW a \in 0 .. Len(s)
  PROVE  LET r == SubSeq(s, a + 1, Len(s)) IN
         /\ r \in Seq(T) /\ Len(r) = Len(s) - a /\ Len(s) \in Nat
         /\ \A m \in 1 .. Len(r) : r[m] = s[a + m]
<1>1. a \in Nat /\ Len(s) \in Nat /\ a <= Len(s)
  OBVIOUS
<1>2. \A m \in a + 1 .. Len(s) : s[m] \in T
  BY <1>1
<1>3. SubSeq(s, a + 1, Len(s)) \in Seq(T)
  BY <1>1, <1>2
<1>4. Len(SubSeq(s, a + 1, Len(s))) = Len(s) - a
  BY <1>1
<1>5. ASSUME NEW m \in 1 .. Len(s) - a PROVE SubSeq(s, a + 1, Len(s))[m] = s[a + m]
  BY <1>1
<1> QED BY <1>1, <1>3, <1>4, <1>5

LEMMA RestMoves ==
  ASSUME NEW T, NEW s \in Seq(T), NEW a \in 0 .. Len(s), NEW n \in Nat, a + n <= Len(s)
  PROVE  LET r == SubSeq(s, a + 1, Len(s)) IN
         /\ r \in Seq(T) /\ Len(r) = Len(s) - a
         /\ \A m \in 1 .. Len(r) : r[m] = s[a + m]
         /\ SubSeq(s, a + 1, a + n) = SubSeq(r, 1, n)
         /\ SubSeq(s, (a + n) + 1, Len(s)) = SubSeq(r, n + 1, Len(r))
<1> DEFINE r == SubSeq(s, a + 1, Len(s))
<1>1. r \in Seq(T) /\ Len(r) = Len(s) - a /\ Len(s) \in Nat /\ \A m \in 1 .. Len(r) : r[m] = s[a + m]
  BY TailIs
<1> HIDE DEF r
<1>2. SubSeq(s, a + 1, a + n) = SubSeq(r, 1, n)
  <2> DEFINE p == SubSeq(s, a + 1, a + n)
             q == SubSeq(r, 1, n)
  <2>1. p \in Seq(T) /\ Len(p) = n /\ \A m \in 1 .. n : p[m] = s[a + m]
    OBVIOUS
  <2>2. q \in Seq(T) /\ Len(q) = n /\ \A m \in 1 .. n : q[m] = r[m] /\ m \in 1 .. Len(r)
    BY <1>1
  <2> HIDE DEF p, q
  <2>3. \A m \in 1 .. n : p[m] = q[m]
    BY <1>1, <2>1, <2>2
  <2>4. p = q
    BY <2>1, <2>2, <2>3
  <2> QED BY <2>4 DEF p, q
<1>3. SubSeq(s, (a + n) + 1, Len(s)) = SubSeq(r, n + 1, Len(r))
  <2> DEFINE p == SubSeq(s, (a + n) + 1, Len(s))
             q == SubSeq(r, n + 1, Len(r))
             l == Len(s) - (a + n)
  <2>1. l \in Nat /\ p \in Seq(T) /\ Len(p) = l /\ \A m \in 1 .. l : p[m] = s[(a + n) + m]
    BY <1>1
  <2>2. q \in Seq(T) /\ Len(q) = l
    <3>1. n \in 0 .. Len(r) /\ Len(r) - n = l
      BY <1>1
    <3> HIDE DEF l
    <3> QED BY <1>1, <3>1, TailIs
  <2>3. ASSUME NEW m \in 1 .. l PROVE q[m] = s[(a + n) + m]
    <3>1. n + m \in 1 .. Len(r) /\ a + (n + m) = (a + n) + m
      BY <1>1
    <3>2. q[m] = r[n + m]
      BY <1>1, <2>1
    <3> QED BY <1>1, <3>1, <3>2
  <2> HIDE DEF p, q, l
  <2>4. \A m \in 1 .. l : p[m] = q[m]
    BY <2>1, <2>3
  <2>5. p = q
    BY <2>1, <2>2, <2>4
  <2> QED BY <2>5 DEF p, q
<1> QED BY <1>1, <1>2, <1>3 DEF r

\* Return after nothing was taken, or up to a semicolon
LEMMA ReturnedNothing ==
  ASSUME IInv, Replacing, NEW s, Return(0, s)
  PROVE  Replacing'
<1>1. /\ ob' = ob \o <<Amp>> /\ i' = i + 0 /\ src' = src /\ codepoint' = codepoint /\ pc' = "text"
  BY DEF Return
<1>2. Fine(<<Amp>>, Noncharacters)
  <2>1. Amp \in Ascii
    BY DEF Amp, Ascii
  <2> QED BY <2>1, FineTail
<1>3. Fine(ob \o <<Amp>>, Noncharacters)
  BY Zenon, <1>2, FineConcat DEF Replacing
<1>4. i' = i
  BY <1>1 DEF IInv
<1>5. Rest' = Rest
  BY <1>1, <1>4 DEF Rest
<1>6. Fine(Rest', {}) /\ Fine(ob', Noncharacters) /\ Counted(codepoint') /\ pc' # "search"
  BY <1>1, <1>3, <1>5 DEF Replacing
<1> QED BY <1>6 DEF Replacing

LEMMA ReturnedChar ==
  ASSUME IInv, Replacing, k < Size, Ch(k) = Semicolon, NEW s, Fine(s, Noncharacters),
         Return(k + 1, s)
  PROVE  Replacing'
<1>1. k \in Nat /\ src \in Bytes /\ i \in 0 .. Len(src)
  BY DEF IInv
<1>2. src \in Seq(Byte)
  BY <1>1, BytesSeq
<1>3. k + 1 # 0
  BY <1>1
<1>4. /\ ob' = ob \o s /\ i' = i + (k + 1) /\ src' = src /\ codepoint' = codepoint /\ pc' = "text"
  BY <1>3 DEF Return
<1>5. Fine(ob \o s, Noncharacters)
  BY Zenon, FineConcat DEF Replacing
<1>6. i + 0 <= Len(src) /\ 0 \in Nat
  BY <1>1
<1>7. Rest \in Seq(Byte) /\ Len(Rest) = Len(src) - i
  BY <1>1, <1>2, <1>6, RestMoves DEF Rest
<1>8. k + 1 \in 1 .. Len(Rest) /\ i + (k + 1) <= Len(src) /\ k + 1 \in Nat
  BY <1>1, <1>2, <1>7 DEF Size
<1>9. SubSeq(src, (i + (k + 1)) + 1, Len(src)) = SubSeq(Rest, (k + 1) + 1, Len(Rest))
  BY <1>1, <1>2, <1>8, RestMoves DEF Rest
<1>10. Rest[k + 1] \in Ascii
  BY DEF Ch, Semicolon, Ascii
<1>11. Fine(SubSeq(Rest, (k + 1) + 1, Len(Rest)), {})
  BY Zenon, <1>8, <1>10, FineCut DEF Replacing
<1>12. Rest' = SubSeq(src, (i + (k + 1)) + 1, Len(src))
  BY <1>4 DEF Rest
<1>13. Fine(Rest', {}) /\ Fine(ob', Noncharacters) /\ Counted(codepoint') /\ pc' # "search"
  BY <1>4, <1>5, <1>9, <1>11, <1>12 DEF Replacing
<1> QED BY <1>13 DEF Replacing

LEMMA TextReplaces ==
  ASSUME IInv, Replacing, Text
  PROVE  Replacing'
<1>1. src \in Bytes /\ i \in 0 .. Len(src) /\ src \in Seq(Byte)
  BY BytesSeq DEF IInv
<1>2. Rest \in Seq(Byte) /\ Len(Rest) = Len(src) - i /\ \A m \in 1 .. Len(Rest) : Rest[m] = src[i + m]
  BY <1>1, TailIs DEF Rest
<1>3. src' = src /\ codepoint' = codepoint /\ pc' # "search"
  BY DEF Text
<1>4. CASE ob' = ob \o Rest /\ i' = Len(src)
  <2>1. Fine(Rest, Noncharacters)
    BY FineMore DEF Replacing
  <2>2. Fine(ob \o Rest, Noncharacters)
    BY Zenon, <2>1, FineConcat DEF Replacing
  <2>3. Rest' = <<>>
    BY <1>1, <1>3, <1>4 DEF Rest
  <2> QED BY <1>3, <1>4, <2>2, <2>3, FineEmpty DEF Replacing
<1>5. ASSUME NEW n \in i .. Len(src) - 1, src[n + 1] = Amp,
             ob' = ob \o SubSeq(src, i + 1, n), i' = n + 1
      PROVE  Replacing'
  <2>1. PICK m \in Nat : i + m = n
    <3>1. n - i \in Nat /\ i + (n - i) = n
      BY <1>1, <1>5
    <3> QED BY <3>1
  <2>2. /\ i + m <= Len(src) /\ i + (m + 1) <= Len(src) /\ m + 1 \in Nat
        /\ m + 1 \in 1 .. Len(Rest) /\ i + (m + 1) = n + 1 /\ (m + 1) - 1 = m
    BY <1>1, <1>2, <1>5, <2>1
  <2>3. SubSeq(src, i + 1, n) = SubSeq(Rest, 1, (m + 1) - 1)
    BY ZenonT(40), <1>1, <2>1, <2>2, RestMoves DEF Rest
  <2>4. SubSeq(src, (n + 1) + 1, Len(src)) = SubSeq(Rest, (m + 1) + 1, Len(Rest))
    BY ZenonT(40), <1>1, <2>2, RestMoves DEF Rest
  <2>5. Rest[m + 1] \in Ascii
    <3>1. Rest[m + 1] = src[i + (m + 1)]
      BY <1>2, <2>2
    <3>2. Rest[m + 1] = Amp
      BY <1>5, <2>2, <3>1
    <3> QED BY <3>2 DEF Amp, Ascii
  <2>6. Fine(SubSeq(Rest, 1, (m + 1) - 1), {}) /\ Fine(SubSeq(Rest, (m + 1) + 1, Len(Rest)), {})
    BY Zenon, <2>2, <2>5, FineCut DEF Replacing
  <2>7. Fine(SubSeq(src, i + 1, n), Noncharacters)
    BY <2>3, <2>6, FineMore
  <2>8. Fine(ob \o SubSeq(src, i + 1, n), Noncharacters)
    BY Zenon, <2>7, FineConcat DEF Replacing
  <2>9. Rest' = SubSeq(src, (n + 1) + 1, Len(src))
    BY <1>3, <1>5 DEF Rest
  <2> QED BY <1>3, <1>5, <2>4, <2>6, <2>8, <2>9 DEF Replacing
<1> QED BY <1>4, <1>5 DEF Text

LEMMA CappedIs ==
  ASSUME NEW n \in Nat
  PROVE  Counted(Capped(n))
<1> DEFINE m == IF n <= 1114112 THEN n ELSE 1114112
<1>1. m \in {n, 1114112} /\ \A y \in {n, 1114112} : m <= y
  BY SMT
<1>2. \A x \in {n, 1114112} : (\A y \in {n, 1114112} : x <= y) => x = m
  BY SMT
<1>3. Counted(m)
  BY SMT DEF Counted
<1> HIDE DEF m
<1>4. Capped(n) = m
  BY SMT, <1>1, <1>2 DEF Min, Capped
<1> QED BY SMT, <1>3, <1>4

LEMMA ValueIs ==
  ASSUME NEW c, IF Base = 10 THEN IsDigit(c) ELSE IsXDigit(c)
  PROVE  Value(c) \in Nat
<1>1. CASE Base = 10
  BY <1>1 DEF Value, IsDigit
<1>2. CASE Base # 10
  <2>1. c \in 48 .. 57 \/ c \in 65 .. 70 \/ c \in 97 .. 102
    BY <1>2 DEF IsXDigit, IsDigit
  <2>2. Lower(c) \in 48 .. 57 \/ Lower(c) \in 97 .. 102
    BY <2>1 DEF Lower
  <2>3. \A x \in 48 .. 57 : (x % 39) - 9 \in Nat
    OBVIOUS
  <2>4. \A x \in 97 .. 102 : (x % 39) - 9 \in Nat
    OBVIOUS
  <2>5. (Lower(c) % 39) - 9 \in Nat
    BY <2>2, <2>3, <2>4
  <2> QED BY <1>2, <2>5 DEF Value
<1> QED BY <1>1, <1>2

LEMMA CountedIsNat == \A u : Counted(u) => u \in Nat
BY SMT DEF Counted

LEMMA DigitReplaces ==
  ASSUME IInv, Replacing, DigitTurn
  PROVE  Replacing'
<1>1. Value(Ch(k)) \in Nat
  BY ValueIs DEF DigitTurn, MoreDigits
<1>2. codepoint \in Nat /\ Base \in Nat
  BY CountedIsNat DEF Replacing, Base
<1>3. codepoint * Base + Value(Ch(k)) \in Nat
  BY <1>1, <1>2
<1>4. Counted(codepoint')
  BY <1>3, CappedIs DEF DigitTurn
<1>5. Rest' = Rest /\ ob' = ob /\ pc' # "search"
  BY DEF DigitTurn, Rest
<1> QED BY <1>4, <1>5 DEF Replacing

LEMMA NumberIsScalar ==
  ASSUME NEW u, Counted(codepoint), u = IF NotACharacter THEN 65533 ELSE codepoint
  PROVE  Scalar(u)
BY SMT DEF Counted, NotACharacter, Scalar

LEMMA EndReplaces ==
  ASSUME IInv, Replacing, EndDigits
  PROVE  Replacing'
<1>1. CASE Return(0, <<>>)
  BY <1>1, ReturnedNothing
<1>2. CASE k < Size /\ Ch(k) = Semicolon
           /\ Return(k + 1, Encode(IF NotACharacter THEN 65533 ELSE codepoint))
  <2> DEFINE u == IF NotACharacter THEN 65533 ELSE codepoint
  <2>1. Scalar(u)
    BY SMT, NumberIsScalar DEF Replacing
  <2>2. Return(k + 1, Encode(u))
    BY SMT, <1>2
  <2> HIDE DEF u
  <2>3. Fine(Encode(u), Noncharacters)
    BY Zenon, <2>1, FineEncode
  <2>4. k < Size /\ Ch(k) = Semicolon
    BY SMT, <1>2
  <2> QED BY Zenon, <2>2, <2>3, <2>4, ReturnedChar
<1>3. \/ Return(0, <<>>)
      \/ k < Size /\ Ch(k) = Semicolon
         /\ Return(k + 1, Encode(IF NotACharacter THEN 65533 ELSE codepoint))
  BY SMT DEF EndDigits
<1> QED BY SMT, <1>1, <1>2, <1>3

LEMMA WorkReplaces ==
  ASSUME IInv, Replacing, Work
  PROVE  Replacing'
<1>1. CASE Text
  BY Zenon, <1>1, TextReplaces
<1>2. CASE DigitTurn
  BY Zenon, <1>2, DigitReplaces
<1>3. CASE EndDigits
  BY Zenon, <1>3, EndReplaces
<1>4. CASE NoDigits \/ NoName \/ NotFound
  BY Zenon, <1>4, ReturnedNothing DEF NoDigits, NoName, NotFound
<1>5. CASE BeginEnt
  <2>1. codepoint' = codepoint \/ codepoint' = 0
    BY Zenon, <1>5 DEF BeginEnt
  <2>2. Counted(codepoint')
    BY SMT, <2>1 DEF Replacing, Counted
  <2>3. Rest' = Rest /\ ob' = ob /\ pc' # "search"
    BY <1>5 DEF BeginEnt, Rest
  <2> QED BY <2>2, <2>3 DEF Replacing
<1>6. CASE NameTurn
  <2>1. codepoint' = codepoint /\ Rest' = Rest /\ ob' = ob /\ pc' # "search"
    BY <1>6 DEF NameTurn, Rest
  <2> QED BY <2>1 DEF Replacing
<1>7. CASE Lookup
  <2>1. codepoint' = codepoint /\ Rest' = Rest /\ ob' = ob /\ Ch(k)' = Semicolon
    BY <1>7 DEF Lookup, Rest, Ch
  <2> QED BY <2>1 DEF Replacing
<1>8. CASE Found
  <2>1. k < Size /\ Ch(k) = Semicolon /\ at \in Entries
    <3>1. pc = "search"
      BY Zenon, <1>8 DEF Found
    <3>2. k < Size /\ Ch(k) = Semicolon /\ low \in Entries /\ hi \in Entries /\ at \in low .. hi
      BY Zenon, <3>1 DEF IInv, SearchSound, Replacing
    <3>3. Len(Table) \in Nat
      BY TableAssumption
    <3> QED BY <3>2, <3>3 DEF Entries
  <2>2. Fine(Table[at + 1].bytes, Noncharacters)
    BY <2>1, TableFine
  <2> QED BY Zenon, <1>8, <2>1, <2>2, ReturnedChar DEF Found
<1>9. CASE GoLower \/ GoHigher
  <2>1. codepoint' = codepoint /\ Rest' = Rest /\ ob' = ob /\ Ch(k)' = Ch(k) /\ pc' = pc
    BY <1>9 DEF GoLower, GoHigher, Rest, Ch
  <2> QED BY <2>1 DEF Replacing
<1> QED BY Zenon, <1>1, <1>2, <1>3, <1>4, <1>5, <1>6, <1>7, <1>8, <1>9 DEF Work

-----------------------------------------------------------------------------
(* The lines. *)

LineByte == Byte \ {0, 10, 13}

\* What holds on the way of the lines, whatever is validated, and of what is
LineInv ==
  /\ IInv
  /\ lines \in Seq(Seq(LineByte)) /\ line \in Bytes /\ validate \in BOOLEAN
  /\ BufferSound(curline) /\ Held(curline) \in Bytes
  /\ pos \in 0 .. Len(line) /\ org \in 0 .. pos
  /\ stage \in {"idle", "check", "end", "blocks", "text"}
  /\ stage # "text" => pc = "done"
  /\ stage = "idle" => curline.size = 0
  /\ stage = "check" => validate /\ Fine(SubSeq(line, org + 1, pos), {})
  /\ validate => Fine(Held(curline), {})
  /\ validate /\ stage = "text" => Replacing

LEMMA BytesConcat ==
  ASSUME NEW s \in Bytes, NEW t \in Bytes
  PROVE  s \o t \in Bytes
BY DEF Bytes

LEMMA UnknownBytes == Unknown \in Bytes
BY DEF Unknown, Bytes, Byte

LEMMA HeldNothing ==
  ASSUME NEW b, BufferSound(b), b.size = 0
  PROVE  Held(b) = <<>>
<1>1. b.mem \in Seq(Byte)
  BY DEF BufferSound
<1>2. Len(SubSeq(b.mem, 1, 0)) = 0 /\ SubSeq(b.mem, 1, 0) \in Seq(Byte)
  BY <1>1
<1>3. SubSeq(b.mem, 1, 0) = <<>>
  BY <1>2
<1> QED BY <1>3 DEF Held

\* Put, for a text without NUL
LEMMA PutBytes ==
  ASSUME NEW b, BufferSound(b), Held(b) \in Bytes, NEW s \in Bytes
  PROVE  /\ BufferSound(Put(b, s)) /\ Held(Put(b, s)) \in Bytes
         /\ Fine(Held(b), {}) /\ Fine(s, {}) => Fine(Held(Put(b, s)), {})
<1>1. s \in Seq(Byte)
  BY BytesSeq
<1>2. BufferSound(Put(b, s)) /\ Held(Put(b, s)) = Held(b) \o s
  BY <1>1, PutIs
<1>3. Held(b) \o s \in Bytes
  BY Zenon, BytesConcat
<1>4. Fine(Held(b), {}) /\ Fine(s, {}) => Fine(Held(b) \o s, {})
  BY Zenon, FineConcat
<1> QED BY <1>2, <1>3, <1>4

LEMMA PartBytes ==
  ASSUME NEW s \in Bytes, NEW a \in Nat, NEW b \in 0 .. Len(s)
  PROVE  SubSeq(s, a + 1, b) \in Bytes
<1>1. \A m \in a + 1 .. b : m \in 1 .. Len(s) /\ s[m] \in Byte \ {0}
  BY DEF Bytes
<1>2. a + 1 \in Nat /\ b \in Nat
  BY DEF Bytes
<1> QED BY <1>1, <1>2 DEF Bytes

\* What stays as it is when the references are not looked at
LEMMA TextsStay ==
  ASSUME IInv, UNCHANGED vars
  PROVE  IInv' /\ pc' = pc
<1>1. pc' = pc
  BY DEF vars
<1> QED BY <1>1, Step

LEMMA StartLines == LineInit => LineInv
<1> SUFFICES ASSUME LineInit PROVE LineInv
  OBVIOUS
<1>1. IInv /\ pc = "done"
  BY Start DEF LineInit, Init
<1>2. lines \in Seq(Seq(LineByte)) /\ validate \in BOOLEAN
  BY DocumentsAssumption DEF LineInit, LineByte
<1>3. curline = [mem |-> <<>>, size |-> 0]
  BY DEF LineInit
<1>4. BufferSound(curline) /\ curline.size = 0
  BY <1>3 DEF BufferSound
<1>5. Held(curline) = <<>>
  BY <1>4, HeldNothing
<1>6. <<>> \in Bytes /\ Fine(<<>>, {})
  BY FineEmpty DEF Bytes
<1>7. line = <<>> /\ pos = 0 /\ org = 0 /\ stage = "idle"
  BY DEF LineInit
<1>8. pos \in 0 .. Len(line) /\ org \in 0 .. pos
  BY <1>7
<1> QED BY <1>1, <1>2, <1>4, <1>5, <1>6, <1>7, <1>8 DEF LineInv

LEMMA BeginKeeps ==
  ASSUME LineInv, BeginLine
  PROVE  LineInv'
<1>1. IInv' /\ pc' = pc
  BY Zenon, TextsStay DEF BeginLine, LineInv
<1>2. stage = "idle" /\ lines # <<>> /\ lines \in Seq(Seq(LineByte))
  BY DEF BeginLine, LineInv
<1>3. Head(lines) \in Seq(LineByte) /\ Tail(lines) \in Seq(Seq(LineByte))
  BY <1>2
<1>4. line' \in Bytes /\ lines' \in Seq(Seq(LineByte)) /\ pos' = 0 /\ org' = 0 /\ validate' = validate
  BY <1>3 DEF BeginLine, Bytes, LineByte
<1>5. pos' \in 0 .. Len(line') /\ org' \in 0 .. pos'
  BY <1>4 DEF Bytes
<1>6. CASE validate /\ stage' = "check" /\ curline' = curline
  <2>1. SubSeq(line', org' + 1, pos') = <<>>
    BY <1>4 DEF Bytes
  <2>2. Fine(SubSeq(line', org' + 1, pos'), {})
    BY <2>1, FineEmpty
  <2>3. Held(curline)' = Held(curline) /\ BufferSound(curline)'
    BY <1>6 DEF LineInv
  <2> QED BY <1>1, <1>2, <1>4, <1>5, <1>6, <2>2, <2>3 DEF LineInv
<1>7. CASE ~validate /\ stage' = "end" /\ curline' = Put(curline, line')
  <2>1. BufferSound(curline') /\ Held(curline') \in Bytes
    BY <1>4, <1>7, PutBytes DEF LineInv
  <2> QED BY <1>1, <1>2, <1>4, <1>5, <1>7, <2>1 DEF LineInv
<1> QED BY <1>6, <1>7 DEF BeginLine

LEMMA SuffixIs ==
  ASSUME LineInv, pos < Len(line)
  PROVE  Suffix \in Bytes /\ Suffix # <<>> /\ Len(Suffix) = Len(line) - pos
<1>1. line \in Seq(Byte \ {0}) /\ pos \in 0 .. Len(line)
  BY DEF LineInv, Bytes
<1>2. Suffix \in Seq(Byte \ {0}) /\ Len(Suffix) = Len(line) - pos /\ Len(line) - pos > 0
  BY <1>1, TailIs DEF Suffix
<1> QED BY <1>2 DEF Bytes

LEMMA PartsJoin ==
  ASSUME NEW T, NEW s \in Seq(T), NEW b \in 0 .. Len(s), NEW a \in 0 .. b, NEW n \in Nat,
         b + n <= Len(s)
  PROVE  SubSeq(s, a + 1, b + n) = SubSeq(s, a + 1, b) \o SubSeq(s, b + 1, b + n)
<1> DEFINE p == SubSeq(s, a + 1, b)
           q == SubSeq(s, b + 1, b + n)
           r == SubSeq(s, a + 1, b + n)
           l == b - a
<1>0. a \in Nat /\ b \in Nat /\ a <= b /\ Len(s) \in Nat /\ b <= Len(s) /\ l \in Nat /\ a + l = b
  OBVIOUS
<1>1. p \in Seq(T) /\ Len(p) = l /\ \A m \in 1 .. l : p[m] = s[a + m]
  BY <1>0
<1>2. q \in Seq(T) /\ Len(q) = n /\ \A m \in 1 .. n : q[m] = s[b + m]
  BY <1>0
<1>3. r \in Seq(T) /\ Len(r) = l + n /\ \A m \in 1 .. l + n : r[m] = s[a + m]
  BY <1>0
<1> HIDE DEF p, q, r, l
<1>4. /\ p \o q \in Seq(T) /\ Len(p \o q) = l + n
      /\ \A m \in 1 .. l : (p \o q)[m] = p[m]
      /\ \A m \in 1 .. n : (p \o q)[l + m] = q[m]
  <2>1. p \o q \in Seq(T) /\ Len(p \o q) = l + n
    <3>1. p \in Seq(T) /\ q \in Seq(T) /\ Len(p) = l /\ Len(q) = n
      BY <1>1, <1>2
    <3>2. p \o q \in Seq(T) /\ Len(p \o q) = Len(p) + Len(q)
      BY Zenon, <3>1, ConcatProperties
    <3> QED BY <3>1, <3>2
  <2>2. \A m \in 1 .. l : (p \o q)[m] = p[m]
    BY <1>1, <1>2
  <2>3. ASSUME NEW m \in 1 .. n PROVE (p \o q)[l + m] = q[m]
    <3>1. l + m \in 1 .. Len(p) + Len(q) /\ ~(l + m <= Len(p)) /\ (l + m) - Len(p) = m
      BY <1>0, <1>1, <1>2
    <3> QED BY <1>1, <1>2, <3>1
  <2> QED BY <2>1, <2>2, <2>3
<1>5. ASSUME NEW m \in 1 .. l + n PROVE (p \o q)[m] = r[m]
  <2>1. CASE m <= l
    <3>1. m \in 1 .. l
      BY <1>0, <2>1
    <3> QED BY <1>1, <1>3, <1>4, <3>1
  <2>2. CASE ~(m <= l)
    <3>1. PICK d \in 1 .. n : l + d = m
      <4>1. m - l \in 1 .. n /\ l + (m - l) = m
        BY <1>0, <2>2
      <4> QED BY <4>1
    <3>2. a + m = b + d
      BY <1>0, <3>1
    <3>3. r[m] = s[b + d]
      BY <1>3, <3>2
    <3>4. (p \o q)[m] = s[b + d]
      BY <1>2, <1>4, <3>1
    <3> QED BY <3>3, <3>4
  <2> QED BY <2>1, <2>2
<1>6. r = p \o q
  <2> DEFINE t == p \o q
             z == l + n
  <2>1. t \in Seq(T) /\ Len(t) = z /\ \A m \in 1 .. z : t[m] = r[m]
    BY <1>4, <1>5
  <2>2. r \in Seq(T) /\ Len(r) = z
    BY <1>3
  <2> HIDE DEF t, z
  <2>3. r = t
    BY <2>1, <2>2
  <2> QED BY <2>3 DEF t
<1> QED BY <1>6 DEF p, q, r

LEMMA KeepKeeps ==
  ASSUME LineInv, KeepChar
  PROVE  LineInv'
<1>1. IInv' /\ pc' = pc
  BY Zenon, TextsStay DEF KeepChar, LineInv
<1>2. pos < Len(line) /\ stage = "check" /\ CharLen(Suffix) >= 0
  BY DEF KeepChar
<1>3. Suffix \in Bytes /\ Suffix # <<>> /\ Len(Suffix) = Len(line) - pos
  BY <1>2, SuffixIs
<1>4. /\ lines' = lines /\ line' = line /\ validate' = validate /\ curline' = curline /\ org' = org
      /\ stage' = stage /\ pos' = pos + CharLen(Suffix)
  BY DEF KeepChar
<1> DEFINE n == CharLen(Suffix)
<1>5. n \in Int /\ n > 0
  BY <1>2, <1>3, CharLenIs
<1>6. Complete(Suffix, n) /\ ~Refused(Suffix, n)
  BY <1>3, <1>5, CompleteIs
<1>7. IsChar(SubSeq(Suffix, 1, n)) /\ n <= Len(Suffix)
  BY <1>6, CompleteIsChar DEF Complete
<1>8. SubSeq(Suffix, 1, n) \in Seq(Byte)
  BY <1>6, CompletePart
<1> HIDE DEF n
<1>9. pos \in 0 .. Len(line) /\ org \in 0 .. pos /\ line \in Bytes /\ line \in Seq(Byte)
  BY BytesSeq DEF LineInv
<1>10. pos + n \in 0 .. Len(line) /\ org \in 0 .. pos + n /\ n \in Nat /\ pos + n <= Len(line)
  BY <1>3, <1>5, <1>7, <1>9
<1>11. SubSeq(line, pos + 1, pos + n) = SubSeq(Suffix, 1, n)
  BY <1>9, <1>10, RestMoves DEF Suffix
<1>12. SubSeq(line, org + 1, pos + n) = SubSeq(line, org + 1, pos) \o SubSeq(line, pos + 1, pos + n)
  BY <1>9, <1>10, PartsJoin
<1>13. Fine(SubSeq(Suffix, 1, n), {})
  BY <1>7, <1>8, FineChar
<1>14. Fine(SubSeq(line, org + 1, pos) \o SubSeq(Suffix, 1, n), {})
  BY Zenon, <1>2, <1>13, FineConcat DEF LineInv
<1>15. pos' = pos + n
  BY <1>4 DEF n
<1>16. Fine(SubSeq(line', org' + 1, pos'), {}) /\ pos' \in 0 .. Len(line') /\ org' \in 0 .. pos'
  BY <1>4, <1>10, <1>11, <1>12, <1>14, <1>15
<1>17. Held(curline)' = Held(curline) /\ BufferSound(curline)'
  BY <1>4 DEF LineInv
<1> QED BY <1>1, <1>2, <1>4, <1>16, <1>17 DEF LineInv

LEMMA ReplaceKeeps ==
  ASSUME LineInv, ReplaceChar
  PROVE  LineInv'
<1>1. IInv' /\ pc' = pc
  BY Zenon, TextsStay DEF ReplaceChar, LineInv
<1>2. pos < Len(line) /\ stage = "check" /\ CharLen(Suffix) < 0
  BY DEF ReplaceChar
<1>3. Suffix \in Bytes /\ Suffix # <<>> /\ Len(Suffix) = Len(line) - pos
  BY <1>2, SuffixIs
<1>4. /\ lines' = lines /\ line' = line /\ validate' = validate /\ stage' = stage
      /\ pos' = pos - CharLen(Suffix) /\ org' = pos'
      /\ curline' = Put(Put(curline, SubSeq(line, org + 1, pos)), Unknown)
  BY DEF ReplaceChar
<1>5. CharLen(Suffix) \in Int /\ -CharLen(Suffix) <= Len(Suffix)
  BY <1>2, <1>3, CharLenIs
<1>6. pos \in 0 .. Len(line) /\ org \in 0 .. pos /\ line \in Bytes /\ Len(line) \in Nat
  BY DEF LineInv, Bytes
<1>7. pos' \in 0 .. Len(line') /\ org' \in 0 .. pos'
  BY <1>2, <1>3, <1>4, <1>5, <1>6
<1> DEFINE part == SubSeq(line, org + 1, pos)
           b == Put(curline, part)
<1>8. part \in Bytes /\ Fine(part, {})
  BY <1>2, <1>6, PartBytes DEF LineInv
<1>9. validate /\ BufferSound(curline) /\ Held(curline) \in Bytes /\ Fine(Held(curline), {})
  BY <1>2 DEF LineInv
<1>10. curline' = Put(b, Unknown)
  BY <1>4
<1> HIDE DEF part
<1>11. BufferSound(b) /\ Held(b) \in Bytes /\ Fine(Held(b), {})
  BY <1>8, <1>9, PutBytes
<1> HIDE DEF b
<1>12. BufferSound(curline') /\ Held(curline') \in Bytes /\ Fine(Held(curline'), {})
  BY <1>10, <1>11, PutBytes, UnknownBytes, FineUnknown
<1>13. Fine(SubSeq(line', org' + 1, pos'), {})
  <2>1. SubSeq(line', org' + 1, pos') = <<>>
    BY <1>4, <1>6, <1>7 DEF Bytes
  <2> QED BY <2>1, FineEmpty
<1> QED BY <1>1, <1>2, <1>4, <1>7, <1>9, <1>12, <1>13 DEF LineInv

LEMMA EndCheckKeeps ==
  ASSUME LineInv, EndCheck
  PROVE  LineInv'
<1>1. IInv' /\ pc' = pc
  BY Zenon, TextsStay DEF EndCheck, LineInv
<1>2. stage = "check" /\ stage' = "end" /\ curline' = Put(curline, SubSeq(line, org + 1, pos))
      /\ lines' = lines /\ line' = line /\ validate' = validate /\ pos' = pos /\ org' = org
  BY DEF EndCheck
<1>3. pos \in 0 .. Len(line) /\ org \in 0 .. pos /\ line \in Bytes
  BY DEF LineInv
<1>4. SubSeq(line, org + 1, pos) \in Bytes /\ Fine(SubSeq(line, org + 1, pos), {})
  BY <1>2, <1>3, PartBytes DEF LineInv
<1>5. BufferSound(curline') /\ Held(curline') \in Bytes /\ Fine(Held(curline'), {})
  BY <1>2, <1>4, PutBytes DEF LineInv
<1> QED BY <1>1, <1>2, <1>3, <1>5 DEF LineInv

LEMMA EndLineKeeps ==
  ASSUME LineInv, EndLine
  PROVE  LineInv'
<1>1. IInv' /\ pc' = pc
  BY Zenon, TextsStay DEF EndLine, LineInv
<1>2. stage = "end" /\ stage' = "blocks" /\ (curline' = curline \/ curline' = Put(curline, <<10>>))
      /\ lines' = lines /\ line' = line /\ validate' = validate /\ pos' = pos /\ org' = org
  BY DEF EndLine
<1>3. <<10>> \in Bytes /\ Fine(<<10>>, {})
  <2>1. 10 \in Ascii /\ <<10>> \in Bytes
    BY DEF Ascii, Bytes, Byte
  <2> QED BY <2>1, FineTail
<1>4. BufferSound(curline') /\ Held(curline') \in Bytes /\ (validate => Fine(Held(curline'), {}))
  BY <1>2, <1>3, PutBytes DEF LineInv
<1> QED BY <1>1, <1>2, <1>4 DEF LineInv

\* The first line end of an info string
LEMMA LeastIs ==
  ASSUME NEW S, S \subseteq Nat, S # {}
  PROVE  Min(S) \in S
<1>1. \E x \in S : \A y \in S : ~ (<<y, x>> \in OpToRel(<, Nat))
  BY Zenon, NatLessThanWellFounded, WFMin
<1>2. PICK x \in S : \A y \in S : ~ (<<y, x>> \in OpToRel(<, Nat))
  BY Zenon, <1>1
<1>3. ASSUME NEW y \in S PROVE x <= y
  <2>1. <<y, x>> \in Nat \X Nat /\ <<y, x>>[1] = y /\ <<y, x>>[2] = x
    OBVIOUS
  <2>2. <<y, x>>[1] < <<y, x>>[2] => <<y, x>> \in OpToRel(<, Nat)
    BY <2>1 DEF OpToRel
  <2>3. ~(y < x)
    BY Zenon, <1>2, <2>1, <2>2
  <2> QED BY <2>3
<1> QED BY <1>3 DEF Min

LEMMA InfoIs ==
  ASSUME LineInv
  PROVE  InfoString \in Bytes /\ (validate => Fine(InfoString, {}))
<1> DEFINE s == Held(curline)
           ends == {n \in DOMAIN s : IsLineEnd(s[n])}
<1>1. s \in Bytes /\ s \in Seq(Byte) /\ (validate => Fine(s, {})) /\ DOMAIN s = 1 .. Len(s) /\ Len(s) \in Nat
  BY BytesSeq DEF LineInv, Bytes
<1>2. InfoString = IF ends = {} THEN s ELSE SubSeq(s, 1, Min(ends) - 1)
  BY DEF InfoString
<1>3. ends \subseteq Nat /\ ends \subseteq 1 .. Len(s)
  BY <1>1
<1> HIDE DEF s
<1>4. CASE ends = {}
  BY <1>1, <1>2, <1>4
<1>5. CASE ends # {}
  <2>1. PICK m \in 1 .. Len(s) : m = Min(ends) /\ IsLineEnd(s[m])
    BY <1>3, <1>5, LeastIs
  <2>2. InfoString = SubSeq(s, 1, m - 1)
    BY <1>2, <1>5, <2>1
  <2>3. s[m] \in Ascii
    BY <2>1 DEF IsLineEnd, Ascii
  <2>4. validate => Fine(SubSeq(s, 1, m - 1), {})
    BY Zenon, <1>1, <2>3, FineCut
  <2>5. SubSeq(s, 1, m - 1) \in Bytes
    <3>1. 0 \in Nat /\ m - 1 \in 0 .. Len(s) /\ 0 + 1 = 1
      BY <1>1
    <3>2. SubSeq(s, 0 + 1, m - 1) \in Bytes
      BY Zenon, <1>1, <3>1, PartBytes
    <3> QED BY <3>1, <3>2
  <2> QED BY <2>2, <2>4, <2>5
<1> QED BY <1>4, <1>5

LEMMA TakeKeeps ==
  ASSUME LineInv, TakeInfo
  PROVE  LineInv'
<1> DEFINE s == InfoString
<1>1. s \in Bytes /\ (validate => Fine(s, {}))
  BY InfoIs
<1>2. /\ src' = s /\ i' = 0 /\ ob' = <<>> /\ pc' = "text" /\ k' = 0 /\ codepoint' = 0
      /\ stage' = "text"
      /\ lines' = lines /\ line' = line /\ validate' = validate /\ curline' = curline
      /\ pos' = pos /\ org' = org
  BY DEF TakeInfo, Unescape, lineVars
<1> HIDE DEF s
<1>3. IInv'
  <2>1. Len(s) \in Nat
    BY <1>1 DEF Bytes
  <2>2. src' \in Bytes /\ i' \in 0 .. Len(src') /\ k' \in Nat /\ pc' # "search"
    BY <1>1, <1>2, <2>1
  <2> QED BY <2>2 DEF IInv, SearchSound
<1>4. Rest' = s
  <2>1. SubSeq(s, 1, Len(s)) = s
    BY <1>1 DEF Bytes
  <2>2. Rest' = SubSeq(s, 0 + 1, Len(s))
    BY <1>2 DEF Rest
  <2> QED BY <2>1, <2>2
<1>5. Counted(codepoint')
  BY SMT, <1>2 DEF Counted
<1>6. validate => Replacing'
  BY <1>1, <1>2, <1>4, <1>5, FineEmpty DEF Replacing
<1>7. Held(curline)' = Held(curline) /\ BufferSound(curline)' /\ stage = "blocks"
  BY <1>2 DEF LineInv, TakeInfo
<1> QED BY <1>2, <1>3, <1>6, <1>7 DEF LineInv

LEMMA UnescapeKeeps ==
  ASSUME LineInv, UnescapeInfo
  PROVE  LineInv'
<1>1. IInv'
  BY Step DEF UnescapeInfo, Next, LineInv
<1>2. /\ stage = "text" /\ stage' = "text" /\ Work
      /\ lines' = lines /\ line' = line /\ validate' = validate /\ curline' = curline
      /\ pos' = pos /\ org' = org
  BY DEF UnescapeInfo, lineVars
<1>3. validate => Replacing'
  BY <1>2, WorkReplaces DEF LineInv
<1> QED BY <1>1, <1>2, <1>3 DEF LineInv

LEMMA FinishKeeps ==
  ASSUME LineInv, Finished
  PROVE  LineInv'
<1>1. IInv' /\ pc' = pc
  BY Zenon, TextsStay DEF Finished, LineInv
<1>2. /\ pc = "done" /\ stage' = "idle" /\ curline' = Clear(curline)
      /\ lines' = lines /\ line' = line /\ validate' = validate /\ pos' = pos /\ org' = org
  BY DEF Finished
<1>3. curline.mem \in Seq(Byte) /\ BufferSound(curline)
  BY DEF LineInv, BufferSound
<1> DEFINE mem == IF curline.mem = <<>> THEN <<0>> ELSE [curline.mem EXCEPT ![1] = 0]
<1>4. Clear(curline) = [size |-> 0, mem |-> mem]
  BY DEF Clear
<1>8. mem \in Seq(Byte)
  <2>1. CASE curline.mem = <<>>
    BY <2>1 DEF Byte
  <2>2. CASE curline.mem # <<>>
    <3>1. 1 \in 1 .. Len(curline.mem) /\ 0 \in Byte
      BY <1>3, <2>2 DEF Byte
    <3>2. [curline.mem EXCEPT ![1] = 0] \in Seq(Byte)
      BY Zenon, <1>3, <3>1, ExceptSeq
    <3> QED BY <2>2, <3>2
  <2> QED BY <2>1, <2>2
<1> HIDE DEF mem
<1>5. BufferSound(Clear(curline)) /\ Clear(curline).size = 0
  BY <1>4, <1>8 DEF BufferSound
<1>6. Held(Clear(curline)) = <<>>
  BY <1>5, HeldNothing
<1>7. <<>> \in Bytes /\ Fine(<<>>, {})
  BY FineEmpty DEF Bytes
<1> QED BY <1>1, <1>2, <1>5, <1>6, <1>7 DEF LineInv

LEMMA LineStep == LineInv /\ [LineNext]_<<vars, lineVars, stage>> => LineInv'
<1> SUFFICES ASSUME LineInv, [LineNext]_<<vars, lineVars, stage>> PROVE LineInv'
  OBVIOUS
<1>1. CASE UNCHANGED <<vars, lineVars, stage>>
  <2>1. IInv' /\ pc' = pc
    BY Zenon, <1>1, TextsStay DEF LineInv
  <2>2. /\ stage' = stage /\ lines' = lines /\ line' = line /\ validate' = validate
        /\ curline' = curline /\ pos' = pos /\ org' = org /\ codepoint' = codepoint
        /\ ob' = ob /\ src' = src /\ i' = i /\ k' = k
    BY <1>1 DEF lineVars, vars
  <2>3. Replacing' = Replacing
    BY <2>1, <2>2 DEF Replacing, Rest, Ch
  <2> QED BY <2>1, <2>2, <2>3 DEF LineInv
<1> QED BY Zenon, <1>1, BeginKeeps, KeepKeeps, ReplaceKeeps, EndCheckKeeps, EndLineKeeps,
           TakeKeeps, UnescapeKeeps, FinishKeeps DEF LineNext, Reading

LEMMA LineInvIsUtf8 == LineInv => TextIsUtf8
<1> SUFFICES ASSUME LineInv PROVE TextIsUtf8
  OBVIOUS
<1>1. OutputWellFormed
  <2> SUFFICES ASSUME validate, stage = "end" PROVE Covered(Held(curline)) = 1 .. curline.size
    BY DEF OutputWellFormed
  <2> DEFINE s == Held(curline)
  <2>1. Fine(s, {})
    BY DEF LineInv
  <2>2. Len(s) = curline.size
    <3>1. curline.mem \in Seq(Byte) /\ curline.size \in Nat /\ curline.size <= Len(curline.mem)
      BY DEF LineInv, BufferSound
    <3> QED BY <3>1, PrefixIs DEF Held
  <2> HIDE DEF s
  <2>3. s \in Seq(Byte) /\ \A j \in 1 .. Len(s) : At(s, j)
    BY <2>1 DEF Fine
  <2>4. Covered(s) = 1 .. Len(s)
    BY <2>3, CoveredIs
  <2> QED BY <2>2, <2>4 DEF s
<1>2. StaysWellFormed
  <2> SUFFICES ASSUME validate, stage = "text", NEW j \in DOMAIN ob \ Covered(ob)
               PROVE  ob[j] \in Noncharacters
    BY DEF StaysWellFormed, Noncharacters
  <2>1. Fine(ob, Noncharacters)
    BY DEF LineInv, Replacing
  <2>2. ob \in Seq(Byte) /\ j \in 1 .. Len(ob) /\ j \notin Covered(ob)
    BY <2>1 DEF Fine
  <2> QED BY <2>1, <2>2, FineIs
<1>3. DecodersAgree
  <2> SUFFICES ASSUME pos < Len(line)
               PROVE  LET d == Iterate(Suffix) IN
                      /\ d.len > 0 <=> CharLen(Suffix) > 0
                      /\ d.len > 0 =>
                           /\ d.len = CharLen(Suffix)
                           /\ IsChar(SubSeq(Suffix, 1, d.len))
                           /\ d.uc \notin {65534, 65535} => Encode(d.uc) = SubSeq(Suffix, 1, d.len)
    BY SMT DEF DecodersAgree
  <2>1. Suffix \in Bytes /\ Suffix # <<>>
    BY SuffixIs
  <2> QED BY SMT, <2>1, Agreement DEF Special
<1> QED BY Zenon, <1>1, <1>2, <1>3 DEF TextIsUtf8

\* For any lines, nothing that is not UTF-8 gets through validation, and the replacement of
\* character references lets it stay so; the decoder of the inline parser takes what the
\* validator takes, and reads it as it was.
THEOREM TextsAreUtf8 == LineSpec => []TextIsUtf8
BY StartLines, LineStep, LineInvIsUtf8, PTL DEF LineSpec

\* The binary search is sound for every info string, as it is for the texts of Entities.
THEOREM SearchesAreSound == LineSpec => []SearchSound
<1>1. LineInv => SearchSound
  BY DEF LineInv, IInv
<1> QED BY StartLines, LineStep, <1>1, PTL DEF LineSpec
=============================================================================
