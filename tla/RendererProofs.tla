--------------------------- MODULE RendererProofs ---------------------------
(***************************************************************************)
(* What S_out remembers about its buffer is true of it, for every document *)
(* and every width: the place of the last possible break, and the column.  *)
(* And what html.c and xml.c write is nested, with every text in it once,  *)
(* for every tree.                                                         *)
(***************************************************************************)
EXTENDS Writer, SequenceTheorems, FiniteSetTheorems, WellFoundedInduction, TLAPS

\* The characters of the document, those that the code writes itself, and the
\* numbers of ordered items.
Mark == {"sp", ">", "#", "*", "under", "-", ".", "<", "!", "tick", "bs", "nl"}
Number(d, i) == <<"1", "2", "3">>[Cardinality(Earlier(d, i)) + 1]
Char == STRING \cup Mark \cup {Number(d, i) : d \in Docs, i \in Nat}
PrefixChar == {"sp", ">"}
By == {"text", "markup", "bullet", "prefix", "break", "space", "wrap"}
EntryType == [ch : Char, by : By, of : Nat]
OutType   == [op : {"out"}, text : Seq(Char), wrap : BOOLEAN,
              escape : {"LITERAL", "NORMAL"}, by : By]
CallType  == OutType \cup [op : {"cr", "blankline", "begin_content"}]
               \cup [op : {"no_linebreaks"}, to : BOOLEAN]
               \cup [op : {"push"}, text : Seq(PrefixChar)]
               \cup [op : {"pop"}, n : Nat]

-----------------------------------------------------------------------------
(* The walk. *)

LEMMA MinOfNat ==
  ASSUME NEW S, S \subseteq Nat, S # {} PROVE Min(S) \in S /\ \A y \in S : Min(S) <= y
<1>1. \E x \in S : \A y \in S : ~ (<<y, x>> \in OpToRel(<, Nat))
  BY NatLessThanWellFounded, WFMin
<1>2. PICK x \in S : \A y \in S : ~ (<<y, x>> \in OpToRel(<, Nat))
  BY <1>1
<1>3. \A y \in S : x <= y
  <2>1. ASSUME NEW y \in S, y < x PROVE FALSE
    <3>1. <<y, x>> \in Nat \X Nat
      OBVIOUS
    <3>2. <<y, x>>[1] < <<y, x>>[2]
      BY <2>1
    <3>3. <<y, x>> \in OpToRel(<, Nat)
      BY <3>1, <3>2 DEF OpToRel
    <3> QED BY <1>2, <3>3
  <2> QED BY <2>1
<1> QED BY <1>3 DEF Min

\* The iterator stays in the document until the root has been left.
LEMMA NextEventType ==
  ASSUME NEW d \in Docs, NEW e \in [node : DOMAIN d, enter : BOOLEAN]
  PROVE  NextEvent(d, e) \in [node : {0} \cup DOMAIN d, enter : BOOLEAN]
<1> DEFINE n == e.node
<1>1. DOMAIN d = 1 .. Len(d) /\ Len(d) \in Nat /\ n \in DOMAIN d /\ e.enter \in BOOLEAN
  BY DocsAssumption, LenProperties
<1>2. Kids(d, n) \subseteq DOMAIN d /\ Later(d, n) \subseteq DOMAIN d
  BY DEF Kids, Later
<1>3. DOMAIN d \subseteq Nat
  BY <1>1
<1>4. Kids(d, n) # {} => Min(Kids(d, n)) \in DOMAIN d
  BY <1>2, <1>3, MinOfNat, Zenon
<1>5. Later(d, n) # {} => Min(Later(d, n)) \in DOMAIN d
  BY <1>2, <1>3, MinOfNat, Zenon
<1>6. d[n].up \in {0} \cup DOMAIN d
  <2>1. d[n] \in NodeType /\ d[n].up < n
    BY <1>1, DocsAssumption, ElementOfSeq
  <2>2. d[n].up \in Nat
    BY <2>1 DEF NodeType
  <2> QED BY <1>1, <2>1, <2>2
<1> QED BY <1>1, <1>4, <1>5, <1>6 DEF NextEvent
-----------------------------------------------------------------------------
(* The calls of a handler. *)

LEMMA SpacesType == ASSUME NEW n \in Nat PROVE Spaces(n) \in Seq(PrefixChar)
<1>1. Spaces(n) \in [1 .. n -> PrefixChar]
  BY DEF Spaces, PrefixChar
<1> QED BY <1>1, SeqDef

LEMMA LitType ==
  ASSUME NEW s \in Seq(Char), NEW w \in BOOLEAN, NEW esc \in {"LITERAL", "NORMAL"}, NEW by \in By
  PROVE  Out(s, w, esc, by) \in CallType /\ Lit(s) \in CallType
BY DEF Out, Lit, OutType, CallType, By

LEMMA MarkIsChar == Mark \subseteq Char /\ STRING \subseteq Char /\ PrefixChar \subseteq Mark
BY DEF Char, Mark, PrefixChar

LEMMA PrefixIsText == ASSUME NEW s \in Seq(PrefixChar) PROVE s \in Seq(Char)
<1>1. PrefixChar \subseteq Char
  BY MarkIsChar
<1> QED BY <1>1, SeqMonotonic

\* The calls without text, and those that change the prefix
LEMMA PlainType ==
  /\ Cr \in CallType /\ Blankline \in CallType /\ Content \in CallType
  /\ \A b \in BOOLEAN : NoBreaks(b) \in CallType
  /\ \A s \in Seq(PrefixChar) : Push(s) \in CallType
  /\ \A n \in Nat : Pop(n) \in CallType
BY DEF Cr, Blankline, Content, NoBreaks, Push, Pop, CallType, OutType

LEMMA QuoteType == Quote \in Seq(PrefixChar)
BY DEF Quote, PrefixChar

LEMMA MarkerType ==
  ASSUME NEW d \in Docs, NEW i \in Nat
  PROVE  Marker(d, i) \in Seq(Char) /\ Len(Marker(d, i)) = 4
<1> DEFINE x == Number(d, i)
<1>1. x \in Char
  BY DEF Char
<1>2. "sp" \in Char /\ "." \in Char /\ "-" \in Char
  BY MarkIsChar DEF Mark
<1> HIDE DEF x
<1>3. <<x, ".", "sp", "sp">> \in Seq(Char) /\ Len(<<x, ".", "sp", "sp">>) = 4
  BY <1>1, <1>2
<1>4. <<"sp", "sp", "-", "sp">> \in Seq(Char) /\ Len(<<"sp", "sp", "-", "sp">>) = 4
  BY <1>2
<1> QED BY <1>3, <1>4 DEF Marker, x, Number

LEMMA NodeTyped ==
  ASSUME NEW d \in Docs, NEW i \in DOMAIN d
  PROVE  d[i].lit \in Seq(Char) /\ i \in Nat
<1>1. d[i] \in NodeType /\ i \in Nat
  BY DocsAssumption, ElementOfSeq, LenProperties
<1>2. d[i].lit \in Seq(STRING) /\ STRING \subseteq Char
  BY <1>1 DEF NodeType, Char
<1> QED BY <1>1, <1>2, SeqMonotonic

\* One-character literals
LEMMA WordType == ASSUME NEW c \in Mark PROVE <<c>> \in Seq(Char)
BY MarkIsChar DEF Mark

LEMMA FewCalls ==
  ASSUME NEW a \in CallType, NEW b \in CallType, NEW c \in CallType, NEW e \in CallType
  PROVE  /\ <<a, b>> \in Seq(CallType) /\ <<a, b, c>> \in Seq(CallType)
         /\ <<a, b, c, e>> \in Seq(CallType)
OBVIOUS

LEMMA CodeCallsType ==
  ASSUME NEW d \in Docs, NEW i \in DOMAIN d
  PROVE  CodeCalls(d, i) \in Seq(CallType)
<1> DEFINE tick  == Lit(<<"tick">>)
           fence == <<tick, tick, tick>>
           code  == Out(d[i].lit, FALSE, "LITERAL", "text")
           start == IF FirstInItem(d, i) THEN <<>> ELSE <<Blankline>>
           body1 == <<Lit(Spaces(4)), Push(Spaces(4)), code, Pop(4)>>
           body2 == fence \o <<Lit(<<"sp">>), Lit(<<>>), Cr, code, Cr>> \o fence
<1>1. d[i].lit \in Seq(Char)
  BY NodeTyped
<1>2. code \in CallType
  BY <1>1, LitType DEF By
<1>3. Spaces(4) \in Seq(PrefixChar) /\ Spaces(4) \in Seq(Char)
  BY SpacesType, PrefixIsText
<1>4. tick \in CallType /\ Lit(<<"sp">>) \in CallType /\ Lit(<<>>) \in CallType
      /\ Lit(Spaces(4)) \in CallType
  <2>1. <<"tick">> \in Seq(Char) /\ <<"sp">> \in Seq(Char) /\ <<>> \in Seq(Char)
    BY WordType DEF Mark
  <2> QED BY <1>3, <2>1, LitType DEF By
<1>5. Push(Spaces(4)) \in CallType /\ Pop(4) \in CallType
      /\ Cr \in CallType /\ Blankline \in CallType
  BY <1>3, PlainType
<1> HIDE DEF tick, code
<1>6. fence \in Seq(CallType) /\ start \in Seq(CallType) /\ body1 \in Seq(CallType)
  BY <1>2, <1>4, <1>5
<1>7. <<Lit(<<"sp">>), Lit(<<>>), Cr, code, Cr>> \in Seq(CallType) /\ <<Blankline>> \in Seq(CallType)
  BY <1>2, <1>4, <1>5
<1> HIDE DEF fence, start, body1
<1>8. body2 \in Seq(CallType)
  BY <1>6, <1>7 DEF Mark
<1> HIDE DEF body2
<1>9. CodeCalls(d, i) = start \o (IF Indented(d, i) THEN body1 ELSE body2) \o <<Blankline>>
  BY DEF CodeCalls, start, body1, body2, fence, tick, code
<1> QED BY <1>6, <1>7, <1>8, <1>9 DEF Mark

LEMMA CallsType ==
  ASSUME NEW d \in Docs, NEW e, e.node \in DOMAIN d, NEW w \in Nat, NEW opt, NEW noLB
  PROVE  Calls(d, e, w, opt, noLB) \in Seq(CallType)
<1> DEFINE i == e.node
           k == d[i].kind
           wrap == w > 0 /\ opt = "none"
           c == Calls(d, e, w, opt, noLB)
<1>1. d[i].lit \in Seq(Char) /\ i \in Nat /\ wrap \in BOOLEAN
  BY NodeTyped
<1>2. \A x \in CallType : <<x>> \in Seq(CallType)
  OBVIOUS
<1>3. Marker(d, i) \in Seq(Char) /\ Len(Marker(d, i)) = 4
  BY <1>1, MarkerType
<1>4. <<>> \in Seq(CallType) /\ <<Blankline>> \in Seq(CallType) /\ <<Cr>> \in Seq(CallType)
  BY <1>2, PlainType
<1>5. Spaces(4) \in Seq(PrefixChar) /\ Quote \in Seq(PrefixChar) /\ Quote \in Seq(Char)
  BY SpacesType, QuoteType, PrefixIsText
<1>6. \A x \in Seq(Char) : Lit(x) \in CallType
  BY LitType DEF By
<1>7. \A x \in Mark : <<x>> \in Seq(Char)
  BY WordType DEF Mark
<1>8. \A x, y \in Mark : <<x, y>> \in Seq(Char)
  BY MarkIsChar DEF Mark
<1>9. CASE k = "quote"
  <2>1. Out(Quote, FALSE, "LITERAL", "bullet") \in CallType /\ Push(Quote) \in CallType
        /\ Content \in CallType /\ Pop(2) \in CallType /\ Blankline \in CallType
    BY <1>5, LitType, PlainType DEF By
  <2>2. <<Out(Quote, FALSE, "LITERAL", "bullet"), Content, Push(Quote)>> \in Seq(CallType)
        /\ <<Pop(2), Blankline>> \in Seq(CallType)
    BY <2>1, FewCalls, Zenon
  <2> QED BY <1>9, <2>2 DEF Calls
<1>10. CASE k = "list"
  <2>1. <<"<", "!", "-", "-", ">">> \in Seq(Char)
    BY MarkIsChar DEF Mark
  <2>2. Lit(<<"<", "!", "-", "-", ">">>) \in CallType /\ Cr \in CallType /\ Blankline \in CallType
    BY <1>6, <2>1, PlainType
  <2>3. <<Cr, Lit(<<"<", "!", "-", "-", ">">>), Blankline>> \in Seq(CallType)
    BY <2>2
  <2> QED BY <1>4, <1>10, <2>3 DEF Calls
<1>11. CASE k = "item"
  <2>1. Out(Marker(d, i), FALSE, "LITERAL", "bullet") \in CallType
    BY <1>3, LitType DEF By
  <2>2. Push(Spaces(Len(Marker(d, i)))) \in CallType /\ Pop(Len(Marker(d, i))) \in CallType
        /\ Content \in CallType /\ Cr \in CallType
    BY <1>3, <1>5, PlainType
  <2>3. <<Out(Marker(d, i), FALSE, "LITERAL", "bullet"), Content, Push(Spaces(Len(Marker(d, i))))>>
          \in Seq(CallType)
        /\ <<Pop(Len(Marker(d, i))), Cr>> \in Seq(CallType)
    BY <2>1, <2>2, FewCalls, Zenon
  <2> QED BY <1>11, <2>3 DEF Calls
<1>12. CASE k = "heading"
  <2>1. Lit(<<"#">>) \in CallType /\ Lit(<<"sp">>) \in CallType /\ Content \in CallType
        /\ NoBreaks(TRUE) \in CallType /\ NoBreaks(FALSE) \in CallType /\ Blankline \in CallType
    BY <1>6, <1>7, PlainType DEF Mark
  <2>2. <<Lit(<<"#">>), Lit(<<"sp">>), Content, NoBreaks(TRUE)>> \in Seq(CallType)
        /\ <<NoBreaks(FALSE), Blankline>> \in Seq(CallType)
    BY <2>1, FewCalls, Zenon
  <2> QED BY <1>12, <2>2 DEF Calls
<1>13. CASE k = "code"
  BY <1>13, CodeCallsType DEF Calls
<1>14. CASE k = "hr"
  <2>1. <<"-", "-", "-", "-", "-">> \in Seq(Char)
    BY MarkIsChar DEF Mark
  <2>2. Lit(<<"-", "-", "-", "-", "-">>) \in CallType /\ Blankline \in CallType
    BY <1>6, <2>1, PlainType
  <2>3. <<Blankline, Lit(<<"-", "-", "-", "-", "-">>), Blankline>> \in Seq(CallType)
    BY <2>2
  <2> QED BY <1>14, <2>3 DEF Calls
<1>15. CASE k = "paragraph"
  BY <1>4, <1>15 DEF Calls
<1>16. CASE k = "text"
  <2>1. Out(d[i].lit, wrap, "NORMAL", "text") \in CallType
    BY <1>1, LitType DEF By
  <2> QED BY <1>2, <1>16, <2>1 DEF Calls
<1>17. CASE k = "linebreak"
  <2>1. <<Lit(<<"sp", "sp">>)>> \in Seq(CallType)
    BY <1>2, <1>6, <1>8 DEF Mark
  <2> QED BY <1>4, <1>17, <2>1 DEF Calls
<1>18. CASE k = "softbreak"
  <2>1. Lit(<<"sp", "sp">>) \in CallType /\ Cr \in CallType
    BY <1>6, <1>8, PlainType DEF Mark
  <2>2. Out(<<"sp">>, wrap, "LITERAL", "text") \in CallType
    BY <1>1, <1>7, LitType DEF By, Mark
  <2> QED BY <1>4, <1>18, <2>1, <2>2 DEF Calls
<1>19. CASE k = "html"
  <2>1. Out(d[i].lit, FALSE, "LITERAL", "text") \in CallType /\ Blankline \in CallType
    BY <1>1, LitType, PlainType DEF By
  <2>2. <<Blankline, Out(d[i].lit, FALSE, "LITERAL", "text"), Blankline>> \in Seq(CallType)
    BY <2>1, FewCalls, Zenon
  <2> QED BY <1>19, <2>2 DEF Calls
<1>20. CASE k = "emph"
  <2>1. <<EmphDelim(d, i)>> \in Seq(Char)
    BY <1>7 DEF EmphDelim, Mark
  <2> QED BY <1>2, <1>6, <1>20, <2>1 DEF Calls
<1>21. CASE k = "strong"
  <2> QED BY <1>2, <1>6, <1>8, <1>21 DEF Calls, Mark
<1>22. CASE k \notin {"quote", "list", "item", "heading", "code", "hr", "paragraph", "text",
                     "linebreak", "softbreak", "html", "emph", "strong"}
  BY <1>4, <1>22 DEF Calls
<1> QED BY <1>9, <1>10, <1>11, <1>12, <1>13, <1>14, <1>15, <1>16, <1>17, <1>18, <1>19,
           <1>20, <1>21, <1>22
-----------------------------------------------------------------------------
(* The buffer. *)

LEMMA EntriesType ==
  ASSUME NEW s \in Seq(Char), NEW by \in By, node \in Nat
  PROVE  /\ Entries(s, by) \in Seq(EntryType) /\ Len(Entries(s, by)) = Len(s)
         /\ \A i \in 1 .. Len(s) : Entries(s, by)[i].ch = s[i]
<1>1. DOMAIN s = 1 .. Len(s) /\ Len(s) \in Nat
  BY LenProperties
<1>2. \A i \in 1 .. Len(s) : s[i] \in Char
  BY ElementOfSeq
<1>3. Entries(s, by) \in [1 .. Len(s) -> EntryType]
  BY <1>1, <1>2 DEF Entries, Entry, EntryType
<1>4. Entries(s, by) \in Seq(EntryType)
  BY <1>1, <1>3, SeqDef
<1>5. DOMAIN Entries(s, by) = 1 .. Len(s)
  BY <1>1 DEF Entries
<1>6. Len(Entries(s, by)) = Len(s)
  BY <1>1, <1>4, <1>5, LenProperties
<1> QED BY <1>1, <1>4, <1>6 DEF Entries, Entry

\* What holds of a renderer between two calls, by its types
TypeInv ==
  /\ doc \in Docs /\ width \in Nat /\ node \in Nat
  /\ event \in [node : {0} \cup DOMAIN doc, enter : BOOLEAN]
  /\ calls \in Seq(CallType) /\ source \in OutType
  /\ buffer \in Seq(EntryType) /\ prefix \in Seq(PrefixChar)
  /\ need_cr \in 0 .. 2 /\ begin_line \in BOOLEAN /\ no_linebreaks \in BOOLEAN

LEMMA SpaceEntry ==
  ASSUME TypeInv, NEW by \in By, NEW c \in Char
  PROVE  Entry(c, by) \in EntryType /\ Entry(c, by).ch = c
BY DEF TypeInv, Entry, EntryType

LEMMA PrefixEntries ==
  ASSUME TypeInv
  PROVE  /\ Entries(prefix, "prefix") \in Seq(EntryType)
         /\ Len(Entries(prefix, "prefix")) = Len(prefix) /\ Len(prefix) \in Nat
         /\ \A i \in 1 .. Len(prefix) : Entries(prefix, "prefix")[i].ch # "nl"
<1>1. prefix \in Seq(PrefixChar) /\ prefix \in Seq(Char) /\ node \in Nat /\ Len(prefix) \in Nat
  BY PrefixIsText, LenProperties DEF TypeInv
<1>2. \A i \in 1 .. Len(prefix) : prefix[i] \in PrefixChar
  BY <1>1, ElementOfSeq
<1> QED BY <1>1, <1>2, EntriesType DEF By, PrefixChar

LEMMA StartedType ==
  ASSUME TypeInv
  PROVE  /\ Started \in Seq(EntryType)
         /\ ~begin_line => Started = buffer
         /\ begin_line => Started = buffer \o Entries(prefix, "prefix")
         /\ \E x \in Seq(EntryType) : Started = buffer \o x
<1>1. buffer \in Seq(EntryType) /\ buffer = buffer \o <<>>
  BY DEF TypeInv
<1>2. Entries(prefix, "prefix") \in Seq(EntryType)
  BY PrefixEntries
<1> DEFINE p == Entries(prefix, "prefix")
<1>3. p \in Seq(EntryType)
  BY <1>2
<1>4. Started = IF begin_line THEN buffer \o p ELSE buffer
  BY DEF Started
<1> HIDE DEF p
<1>5. buffer \o p \in Seq(EntryType) /\ <<>> \in Seq(EntryType)
  BY <1>1, <1>3
<1>6. CASE begin_line
  BY <1>3, <1>4, <1>5, <1>6 DEF p
<1>7. CASE ~begin_line
  BY <1>1, <1>4, <1>5, <1>7
<1> QED BY <1>6, <1>7

LEMMA BreaksType ==
  ASSUME TypeInv, NEW need \in 0 .. 2
  PROVE  Breaks(need) \in Seq(EntryType)
<1>1. Entry("nl", "break") \in EntryType
  BY SpaceEntry, MarkIsChar DEF Mark, By
<1> DEFINE nl == <<Entry("nl", "break")>>
           p  == Entries(prefix, "prefix")
<1>2. nl \in Seq(EntryType) /\ p \in Seq(EntryType) /\ <<>> \in Seq(EntryType)
  BY <1>1, PrefixEntries
<1>3. nl \o p \in Seq(EntryType)
  BY <1>2
<1> QED BY <1>2, <1>3 DEF Breaks

LEMMA Joined ==
  ASSUME NEW S, NEW s \in Seq(S), NEW t \in Seq(S)
  PROVE  /\ s \o t \in Seq(S) /\ Len(s \o t) = Len(s) + Len(t)
         /\ Len(s) \in Nat /\ Len(t) \in Nat
         /\ \A i \in 1 .. Len(s) : (s \o t)[i] = s[i]
         /\ \A i \in 1 .. Len(t) : (s \o t)[Len(s) + i] = t[i]
OBVIOUS

LEMMA EndPart ==
  ASSUME NEW S, NEW s \in Seq(S), NEW k \in 1 .. Len(s) + 1
  PROVE  /\ SubSeq(s, k, Len(s)) \in Seq(S) /\ Len(SubSeq(s, k, Len(s))) = Len(s) + 1 - k
         /\ \A i \in 1 .. Len(s) + 1 - k : SubSeq(s, k, Len(s))[i] = s[k - 1 + i]
<1>1. Len(s) \in Nat /\ \A i \in k .. Len(s) : s[i] \in S
  BY ElementOfSeq
<1> QED BY <1>1, SubSeqProperties

\* b with e followed by p in the place of the entry after the first brk
Replaced(b, brk, e, p) == SubSeq(b, 1, brk) \o <<e>> \o p \o SubSeq(b, brk + 2, Len(b))
LEMMA Broken ==
  ASSUME NEW S, NEW b \in Seq(S), NEW p \in Seq(S), NEW e \in S, NEW brk \in Nat, brk < Len(b)
  PROVE  LET r == Replaced(b, brk, e, p) IN
         /\ r \in Seq(S) /\ Len(r) = Len(p) + Len(b) /\ Len(p) \in Nat /\ Len(b) \in Nat
         /\ r[brk + 1] = e
         /\ \A i \in 1 .. Len(p) : r[brk + 1 + i] = p[i]
         /\ \A i \in brk + 2 .. Len(b) : r[i + Len(p)] = b[i]
<1> DEFINE r == Replaced(b, brk, e, p)
<1> HIDE DEF r
<1>1. Len(b) \in Nat /\ Len(p) \in Nat
  BY LenProperties
<1>2. PICK x \in Seq(S) : x = SubSeq(b, 1, brk) /\ Len(x) = brk
  <2>1. SubSeq(b, 1, brk) \in Seq(S) /\ Len(SubSeq(b, 1, brk)) = brk
    BY <1>1
  <2> QED BY <2>1, Zenon
<1>3. <<e>> \in Seq(S) /\ Len(<<e>>) = 1 /\ <<e>>[1] = e
  OBVIOUS
<1>4. PICK n \in Seq(S) : n = <<e>> /\ Len(n) = 1 /\ n[1] = e
  BY <1>3
<1>5. brk + 2 \in 1 .. Len(b) + 1 /\ Len(b) + 1 - (brk + 2) = Len(b) - brk - 1
      /\ (brk + 2) - 1 = brk + 1
  BY <1>1
<1>6. PICK y \in Seq(S) : /\ y = SubSeq(b, brk + 2, Len(b)) /\ Len(y) = Len(b) - brk - 1
                          /\ \A i \in 1 .. Len(b) - brk - 1 : y[i] = b[brk + 1 + i]
  <2>1. /\ SubSeq(b, brk + 2, Len(b)) \in Seq(S)
        /\ Len(SubSeq(b, brk + 2, Len(b))) = Len(b) + 1 - (brk + 2)
        /\ \A i \in 1 .. Len(b) + 1 - (brk + 2) :
             SubSeq(b, brk + 2, Len(b))[i] = b[(brk + 2) - 1 + i]
    BY <1>5, EndPart, Zenon
  <2> QED BY <1>5, <2>1, Zenon
<1>7. PICK xn \in Seq(S) : xn = x \o n /\ Len(xn) = brk + 1 /\ xn[brk + 1] = e
  <2>1. x \o n \in Seq(S) /\ Len(x \o n) = Len(x) + Len(n)
        /\ \A i \in 1 .. Len(n) : (x \o n)[Len(x) + i] = n[i]
    BY Joined
  <2>2. x \o n \in Seq(S) /\ Len(x \o n) = brk + 1
        /\ \A i \in 1 .. 1 : (x \o n)[brk + i] = n[i]
    BY <1>2, <1>4, <2>1, Zenon
  <2>3. (x \o n)[brk + 1] = e
    BY <1>4, <2>2
  <2> QED BY <2>2, <2>3, Zenon
<1>8. PICK z \in Seq(S) : /\ z = xn \o p /\ Len(z) = brk + 1 + Len(p) /\ z[brk + 1] = e
                          /\ \A i \in 1 .. Len(p) : z[brk + 1 + i] = p[i]
  <2>1. /\ xn \o p \in Seq(S) /\ Len(xn \o p) = Len(xn) + Len(p)
        /\ \A i \in 1 .. Len(xn) : (xn \o p)[i] = xn[i]
        /\ \A i \in 1 .. Len(p) : (xn \o p)[Len(xn) + i] = p[i]
    BY Joined
  <2>2. Len(xn) \in 1 .. Len(xn)
    BY <1>7
  <2>3. (xn \o p)[brk + 1] = e
    BY <1>7, <2>1, <2>2, Zenon
  <2>4. Len(xn \o p) = brk + 1 + Len(p)
    BY <1>7, <2>1, Zenon
  <2>5. \A i \in 1 .. Len(p) : (xn \o p)[brk + 1 + i] = p[i]
    BY <1>7, <2>1, Zenon
  <2> QED BY <2>1, <2>3, <2>4, <2>5, Zenon
<1>9. r = z \o y
  BY <1>2, <1>4, <1>6, <1>7, <1>8, Zenon DEF r, Replaced
<1>10. /\ r \in Seq(S) /\ Len(r) = Len(z) + Len(y)
       /\ \A i \in 1 .. Len(z) : r[i] = z[i]
       /\ \A i \in 1 .. Len(y) : r[Len(z) + i] = y[i]
  <2>1. /\ z \o y \in Seq(S) /\ Len(z \o y) = Len(z) + Len(y)
        /\ \A i \in 1 .. Len(z) : (z \o y)[i] = z[i]
        /\ \A i \in 1 .. Len(y) : (z \o y)[Len(z) + i] = y[i]
    BY Joined
  <2> QED BY <1>9, <2>1, Zenon
<1>11. Len(r) = Len(p) + Len(b)
  <2>1. Len(r) = (brk + 1 + Len(p)) + (Len(b) - brk - 1)
    BY <1>6, <1>8, <1>10, Zenon
  <2>2. (brk + 1 + Len(p)) + (Len(b) - brk - 1) = Len(p) + Len(b)
    BY <1>1
  <2> QED BY <2>1, <2>2, Zenon
<1>12. \A i \in 1 .. brk + 1 + Len(p) : r[i] = z[i]
  BY <1>8, <1>10, Zenon
<1>13. r[brk + 1] = e
  <2>1. brk + 1 \in 1 .. brk + 1 + Len(p)
    BY <1>1
  <2> QED BY <1>8, <1>12, <2>1, Zenon
<1>14. ASSUME NEW i \in 1 .. Len(p) PROVE r[brk + 1 + i] = p[i]
  <2>1. brk + 1 + i \in 1 .. brk + 1 + Len(p)
    BY <1>1
  <2> QED BY <1>8, <1>12, <2>1, Zenon
<1>15. \A i \in 1 .. Len(b) - brk - 1 : r[brk + 1 + Len(p) + i] = b[brk + 1 + i]
  BY <1>6, <1>8, <1>10, Zenon
<1>16. ASSUME NEW i \in brk + 2 .. Len(b) PROVE r[i + Len(p)] = b[i]
  <2>1. /\ brk + 1 + Len(p) + (i - (brk + 1)) = i + Len(p)
        /\ i - (brk + 1) \in 1 .. Len(b) - brk - 1 /\ brk + 1 + (i - (brk + 1)) = i
    BY <1>1
  <2>2. r[brk + 1 + Len(p) + (i - (brk + 1))] = b[brk + 1 + (i - (brk + 1))]
    BY <1>15, <2>1, Zenon
  <2> QED BY <2>1, <2>2, Zenon
<1> QED BY <1>1, <1>10, <1>11, <1>13, <1>14, <1>16, Zenon DEF r

LEMMA RewrapFacts ==
  ASSUME TypeInv, NEW b \in Seq(EntryType), NEW brk \in Nat, brk < Len(b)
  PROVE  /\ Rewrap(b, brk) \in Seq(EntryType)
         /\ Len(Rewrap(b, brk)) = Len(prefix) + Len(b)
         /\ Len(prefix) \in Nat /\ Len(b) \in Nat
         /\ Rewrap(b, brk)[brk + 1].ch = "nl"
         /\ \A i \in 1 .. Len(prefix) : Rewrap(b, brk)[brk + 1 + i].ch # "nl"
         /\ \A i \in brk + 2 .. Len(b) : Rewrap(b, brk)[i + Len(prefix)] = b[i]
<1> DEFINE e == [b[brk + 1] EXCEPT !.ch = "nl", !.by = "wrap"]
           p == Entries(prefix, "prefix")
<1>1. p \in Seq(EntryType) /\ Len(p) = Len(prefix) /\ \A i \in 1 .. Len(prefix) : p[i].ch # "nl"
  BY PrefixEntries
<1>2. b[brk + 1] \in EntryType
  BY ElementOfSeq, LenProperties
<1>3. e \in EntryType
  BY <1>2, MarkIsChar DEF EntryType, Mark, By
<1>4. e.ch = "nl"
  BY <1>2 DEF EntryType
<1>5. Rewrap(b, brk) = Replaced(b, brk, e, p)
  BY DEF Rewrap, Replaced
<1> DEFINE r == Rewrap(b, brk)
<1>6. r = Replaced(b, brk, e, p)
  BY <1>5
<1> HIDE DEF e, p, r
<1>7. /\ r \in Seq(EntryType) /\ Len(r) = Len(p) + Len(b)
      /\ Len(p) \in Nat /\ Len(b) \in Nat /\ r[brk + 1] = e
      /\ \A i \in 1 .. Len(p) : r[brk + 1 + i] = p[i]
      /\ \A i \in brk + 2 .. Len(b) : r[i + Len(p)] = b[i]
  <2>1. p \in Seq(EntryType) /\ e \in EntryType
    BY <1>1, <1>3
  <2> DEFINE x == Replaced(b, brk, e, p)
  <2>2. /\ x \in Seq(EntryType) /\ Len(x) = Len(p) + Len(b)
        /\ Len(p) \in Nat /\ Len(b) \in Nat
    BY <2>1, Broken
  <2>3. x[brk + 1] = e
    BY <2>1, Broken
  <2>4. \A i \in 1 .. Len(p) : x[brk + 1 + i] = p[i]
    BY <2>1, Broken
  <2>5. \A i \in brk + 2 .. Len(b) : x[i + Len(p)] = b[i]
    BY <2>1, Broken
  <2> QED BY <1>6, <2>2, <2>3, <2>4, <2>5, Zenon
<1> QED BY <1>1, <1>4, <1>7 DEF r

-----------------------------------------------------------------------------
(* The last line. *)

\* b is empty or ends a line; its last line has c characters.
EndsLine(b) == Len(b) = 0 \/ b[Len(b)].ch = "nl"
LastLine(b, c) ==
  /\ c \in 0 .. Len(b)
  /\ \A i \in Len(b) + 1 - c .. Len(b) : b[i].ch # "nl"
  /\ Len(b) = c \/ b[Len(b) - c].ch = "nl"
\* A place where b may be broken, or 0
GoodBreak(b, k) == k \in Nat /\ (k > 0 => k < Len(b) /\ b[k + 1].ch = "sp")

LEMMA EmptyLine == ASSUME NEW b \in Seq(EntryType), EndsLine(b) PROVE LastLine(b, 0)
BY LenProperties DEF EndsLine, LastLine

LEMMA LongerLine ==
  ASSUME NEW b \in Seq(EntryType), NEW x \in Seq(EntryType), NEW c, LastLine(b, c),
         \A i \in 1 .. Len(x) : x[i].ch # "nl"
  PROVE  LastLine(b \o x, c + Len(x))
<1> DEFINE y == b \o x
<1>1. /\ y \in Seq(EntryType) /\ Len(y) = Len(b) + Len(x) /\ Len(b) \in Nat /\ Len(x) \in Nat
      /\ \A i \in 1 .. Len(b) : y[i] = b[i]
      /\ \A i \in 1 .. Len(x) : y[Len(b) + i] = x[i]
  BY Joined
<1> HIDE DEF y
<1>2. c \in 0 .. Len(b)
  BY DEF LastLine
<1>3. c + Len(x) \in 0 .. Len(y)
  BY <1>1, <1>2
<1>4. ASSUME NEW i \in Len(y) + 1 - (c + Len(x)) .. Len(y) PROVE y[i].ch # "nl"
  <2>1. CASE i <= Len(b)
    <3>1. i \in Len(b) + 1 - c .. Len(b) /\ i \in 1 .. Len(b)
      BY <1>1, <1>2, <2>1
    <3>2. b[i].ch # "nl" /\ y[i] = b[i]
      BY <1>1, <3>1 DEF LastLine
    <3> QED BY <3>2
  <2>2. CASE i > Len(b)
    <3>1. i - Len(b) \in 1 .. Len(x) /\ Len(b) + (i - Len(b)) = i
      BY <1>1, <1>2, <2>2
    <3>2. y[i] = x[i - Len(b)]
      BY <1>1, <3>1, Zenon
    <3> QED BY <3>1, <3>2
  <2> QED BY <1>1, <1>2, <2>1, <2>2
<1>5. Len(y) = c + Len(x) \/ y[Len(y) - (c + Len(x))].ch = "nl"
  <2>1. CASE Len(b) = c
    BY <1>1, <2>1
  <2>2. CASE Len(b) # c
    <3>1. Len(b) - c \in 1 .. Len(b) /\ Len(y) - (c + Len(x)) = Len(b) - c
      BY <1>1, <1>2, <2>2
    <3>2. b[Len(b) - c].ch = "nl" /\ y[Len(b) - c] = b[Len(b) - c]
      BY <1>1, <2>2, <3>1, Zenon DEF LastLine
    <3> QED BY <3>1, <3>2
  <2> QED BY <2>1, <2>2
<1>6. LastLine(y, c + Len(x))
  BY <1>3, <1>4, <1>5 DEF LastLine
<1> QED BY <1>6 DEF y

\* A line broken off begins with the prefix and has the rest of the old line.
LEMMA BrokenLine ==
  ASSUME TypeInv, NEW b \in Seq(EntryType), NEW brk \in Nat, brk < Len(b),
         \A i \in brk + 2 .. Len(b) : b[i].ch # "nl"
  PROVE  LastLine(Rewrap(b, brk), Len(prefix) + Len(b) - (brk + 1))
<1> DEFINE r == Rewrap(b, brk)
           m == Len(prefix)
<1>1. /\ r \in Seq(EntryType) /\ Len(r) = m + Len(b) /\ m \in Nat /\ Len(b) \in Nat
      /\ r[brk + 1].ch = "nl"
      /\ \A i \in 1 .. m : r[brk + 1 + i].ch # "nl"
      /\ \A i \in brk + 2 .. Len(b) : r[i + m] = b[i]
  BY RewrapFacts
<1> DEFINE c == m + Len(b) - (brk + 1)
<1> HIDE DEF r, m
<1>2. c \in 0 .. Len(r) /\ Len(r) - c = brk + 1 /\ Len(r) + 1 - c = brk + 2
  BY <1>1
<1>3. ASSUME NEW i \in brk + 2 .. Len(r) PROVE r[i].ch # "nl"
  <2>1. CASE i <= brk + 1 + m
    <3>1. i - (brk + 1) \in 1 .. m /\ brk + 1 + (i - (brk + 1)) = i
      BY <1>1, <2>1
    <3>2. r[brk + 1 + (i - (brk + 1))].ch # "nl"
      BY <1>1, <3>1, Zenon
    <3> QED BY <3>1, <3>2, Zenon
  <2>2. CASE i > brk + 1 + m
    <3>1. i - m \in brk + 2 .. Len(b) /\ (i - m) + m = i
      BY <1>1, <2>2
    <3>2. r[(i - m) + m] = b[i - m] /\ b[i - m].ch # "nl"
      BY <1>1, <3>1, Zenon
    <3>3. r[i] = b[i - m]
      BY <3>1, <3>2, Zenon
    <3> QED BY <3>2, <3>3, Zenon
  <2> QED BY <1>1, <2>1, <2>2
<1>4. LastLine(r, c)
  <2> HIDE DEF c
  <2>1. \A i \in Len(r) + 1 - c .. Len(r) : r[i].ch # "nl"
    BY <1>2, <1>3, Zenon
  <2>2. r[Len(r) - c].ch = "nl"
    BY <1>1, <1>2, Zenon
  <2> QED BY <1>2, <2>1, <2>2, Zenon DEF LastLine
<1> QED BY <1>4 DEF r, m

-----------------------------------------------------------------------------
(* The invariant. *)

LineInv ==
  flaws = {} /\ ~ended =>
    /\ begin_line => EndsLine(buffer)
    /\ ~begin_line => LastLine(buffer, column)
IInv == TypeInv /\ GoodBreak(buffer, last_breakable) /\ LineInv

LEMMA BreakStays ==
  ASSUME NEW b \in Seq(EntryType), NEW x \in Seq(EntryType), NEW k, GoodBreak(b, k)
  PROVE  GoodBreak(b \o x, k)
<1>1. /\ Len(b \o x) = Len(b) + Len(x) /\ Len(b) \in Nat /\ Len(x) \in Nat
      /\ \A i \in 1 .. Len(b) : (b \o x)[i] = b[i]
  BY Joined
<1>2. k \in Nat
  BY DEF GoodBreak
<1>3. k > 0 => k + 1 \in 1 .. Len(b) /\ k < Len(b) /\ b[k + 1].ch = "sp"
  BY <1>1, <1>2 DEF GoodBreak
<1>4. k > 0 => (b \o x)[k + 1] = b[k + 1] /\ k < Len(b \o x)
  BY <1>1, <1>2, <1>3
<1> QED BY <1>2, <1>3, <1>4 DEF GoodBreak

\* The end of a turn of S_out keeps up what it remembers.
LEMMA WrittenKeeps ==
  ASSUME TypeInv, NEW b \in Seq(EntryType), NEW col, NEW brk, GoodBreak(b, brk), NEW content,
         Written(b, col, brk, content)
  PROVE  /\ buffer' \in Seq(EntryType) /\ begin_line' = FALSE
         /\ GoodBreak(buffer', last_breakable')
         /\ flaws' = {} => flaws = {}
         /\ flaws' = {} /\ LastLine(b, col) => LastLine(buffer', column')
<1>1. CASE width > 0 /\ col > width /\ brk > 0
  <2>1. brk \in Nat /\ brk < Len(b)
    BY <1>1 DEF GoodBreak
  <2>2. /\ begin_line' = FALSE /\ buffer' = Rewrap(b, brk) /\ last_breakable' = 0
        /\ column' = Len(prefix) + Len(b) - (brk + 1)
        /\ flaws' = IF \E i \in brk + 2 .. Len(b) : b[i].ch = "nl" THEN flaws \cup {"stale"} ELSE flaws
    BY <1>1 DEF Written
  <2>3. buffer' \in Seq(EntryType)
    BY <2>1, <2>2, RewrapFacts
  <2>4. GoodBreak(buffer', last_breakable')
    BY <2>2 DEF GoodBreak
  <2>5. flaws' = {} => flaws = {} /\ \A i \in brk + 2 .. Len(b) : b[i].ch # "nl"
    BY <2>2
  <2>6. flaws' = {} => LastLine(buffer', column')
    BY <2>1, <2>2, <2>5, BrokenLine
  <2> QED BY <2>2, <2>3, <2>4, <2>5, <2>6
<1>2. CASE ~(width > 0 /\ col > width /\ brk > 0)
  BY <1>2 DEF Written
<1> QED BY <1>1, <1>2

LEMMA StartedKeeps ==
  ASSUME IInv
  PROVE  /\ Started \in Seq(EntryType) /\ GoodBreak(Started, last_breakable)
         /\ flaws = {} /\ ~ended => LastLine(Started, StartedAt)
<1>1. TypeInv /\ GoodBreak(buffer, last_breakable) /\ buffer \in Seq(EntryType)
  BY DEF IInv, TypeInv
<1>2. PICK x \in Seq(EntryType) : Started = buffer \o x
  BY <1>1, StartedType
<1>3. Started \in Seq(EntryType) /\ GoodBreak(Started, last_breakable)
  BY <1>1, <1>2, BreakStays, StartedType
<1>4. ASSUME flaws = {}, ~ended, begin_line PROVE LastLine(Started, StartedAt)
  <2>1. LastLine(buffer, 0)
    BY <1>1, <1>4, EmptyLine DEF IInv, LineInv
  <2> DEFINE e == Entries(prefix, "prefix")
  <2>2. e \in Seq(EntryType) /\ Len(e) = Len(prefix) /\ Len(prefix) \in Nat
        /\ \A i \in 1 .. Len(e) : e[i].ch # "nl"
    BY <1>1, PrefixEntries
  <2>3. Started = buffer \o e /\ StartedAt = Len(prefix)
    BY <1>4 DEF Started, StartedAt
  <2> HIDE DEF e
  <2>4. LastLine(buffer \o e, 0 + Len(e))
    BY <1>1, <2>1, <2>2, LongerLine
  <2>5. 0 + Len(e) = Len(prefix)
    BY <2>2
  <2> QED BY <2>3, <2>4, <2>5
<1>5. ASSUME flaws = {}, ~ended, ~begin_line PROVE LastLine(Started, StartedAt)
  BY <1>5 DEF IInv, LineInv, Started, StartedAt
<1> QED BY <1>1, <1>3, <1>4, <1>5

-----------------------------------------------------------------------------
(* The steps outside of S_out's main loop. *)

LEMMA InitInv == Init => IInv
<1> SUFFICES ASSUME Init PROVE IInv
  OBVIOUS
<1>1. doc \in Docs /\ width \in Nat /\ node \in Nat
  BY WidthsAssumption DEF Init
<1>2. event \in [node : {0} \cup DOMAIN doc, enter : BOOLEAN]
  <2>1. doc \in Seq(NodeType) /\ doc # <<>>
    BY <1>1, DocsAssumption
  <2>2. 1 \in DOMAIN doc
    BY <2>1
  <2> QED BY <2>2 DEF Init
<1>3. source \in OutType
  <2>1. <<>> \in Seq(Char)
    OBVIOUS
  <2> QED BY <2>1 DEF Init, Lit, Out, OutType, By
<1>4. calls \in Seq(CallType) /\ buffer \in Seq(EntryType) /\ prefix \in Seq(PrefixChar)
      /\ need_cr \in 0 .. 2 /\ begin_line \in BOOLEAN /\ no_linebreaks \in BOOLEAN
  <2>1. begin_line \in BOOLEAN /\ no_linebreaks \in BOOLEAN
    BY Zenon DEF Init
  <2>2. calls = <<>> /\ buffer = <<>> /\ prefix = <<>> /\ need_cr = 0
    BY DEF Init
  <2> QED BY <2>1, <2>2
<1>5. TypeInv
  BY <1>1, <1>2, <1>3, <1>4 DEF TypeInv
<1>6. GoodBreak(buffer, last_breakable) /\ LineInv
  BY DEF Init, GoodBreak, LineInv, EndsLine
<1> QED BY <1>5, <1>6 DEF IInv

LEMMA Called ==
  ASSUME TypeInv, NEW op, Calling(op)
  PROVE  Head(calls) \in CallType /\ Head(calls).op = op /\ calls' \in Seq(CallType)
BY DEF TypeInv, Calling

LEMMA VisitStep == IInv /\ Visit => IInv'
<1> SUFFICES ASSUME IInv, Visit PROVE IInv'
  OBVIOUS
<1>1. TypeInv /\ doc \in Docs /\ width \in Nat
  BY DEF IInv, TypeInv
<1>2. event \in [node : DOMAIN doc, enter : BOOLEAN] /\ event.node \in DOMAIN doc
  BY <1>1 DEF TypeInv, Visit
<1>3. NextEvent(doc, event) \in [node : {0} \cup DOMAIN doc, enter : BOOLEAN]
  BY <1>1, <1>2, NextEventType
<1>4. Calls(doc, event, width, option, no_linebreaks) \in Seq(CallType)
  BY <1>1, <1>2, CallsType
<1>5. event.node \in Nat
  BY <1>1, <1>2, NodeTyped
<1>6. TypeInv'
  BY <1>1, <1>3, <1>4, <1>5 DEF TypeInv, Visit, input, text, line
<1>7. (GoodBreak(buffer, last_breakable) /\ LineInv)'
  BY DEF IInv, Visit, text, line, LineInv, GoodBreak, EndsLine, LastLine
<1> QED BY <1>6, <1>7 DEF IInv

LEMMA MaxOfTwo == ASSUME NEW a \in Nat, NEW b \in Nat PROVE Max({a, b}) \in {a, b}
<1>1. \E x \in {a, b} : \A y \in {a, b} : x >= y
  OBVIOUS
<1> QED BY <1>1 DEF Max

LEMMA RequestBreakStep == IInv /\ RequestBreak => IInv'
<1> SUFFICES ASSUME IInv, RequestBreak PROVE IInv'
  OBVIOUS
<1>1. TypeInv /\ need_cr \in 0 .. 2
  BY DEF IInv, TypeInv
<1>2. need_cr' \in 0 .. 2
  BY <1>1, MaxOfTwo DEF RequestBreak
<1>3. calls' \in Seq(CallType)
  BY <1>1, Called DEF RequestBreak
<1>4. TypeInv'
  BY <1>1, <1>2, <1>3 DEF TypeInv, RequestBreak, input, text, line, rest
<1>5. (GoodBreak(buffer, last_breakable) /\ LineInv)'
  BY DEF IInv, RequestBreak, text, line, rest, LineInv, GoodBreak, EndsLine, LastLine
<1> QED BY <1>4, <1>5 DEF IInv

LEMMA ChangePrefixStep == IInv /\ ChangePrefix => IInv'
<1> SUFFICES ASSUME IInv, ChangePrefix PROVE IInv'
  OBVIOUS
<1>1. TypeInv /\ prefix \in Seq(PrefixChar) /\ Len(prefix) \in Nat
  BY LenProperties DEF IInv, TypeInv
<1>2. calls' \in Seq(CallType)
  BY <1>1, Called DEF ChangePrefix
<1>3. prefix' \in Seq(PrefixChar)
  <2>1. CASE Calling("push") /\ prefix' = prefix \o Head(calls).text
    <3>1. Head(calls) \in CallType /\ Head(calls).op = "push"
      BY <1>1, <2>1, Called
    <3>2. Head(calls).text \in Seq(PrefixChar)
      BY <3>1 DEF CallType, OutType
    <3> QED BY <1>1, <2>1, <3>2
  <2>2. CASE Calling("pop") /\ prefix' = SubSeq(prefix, 1, Len(prefix) - Head(calls).n)
    <3>1. Head(calls) \in CallType /\ Head(calls).op = "pop"
      BY <1>1, <2>2, Called
    <3>2. Head(calls).n \in Nat
      BY <3>1 DEF CallType, OutType
    <3>3. Len(prefix) - Head(calls).n \in Int /\ Len(prefix) - Head(calls).n <= Len(prefix)
      BY <1>1, <3>2
    <3>4. \A i \in 1 .. Len(prefix) - Head(calls).n : prefix[i] \in PrefixChar
      BY <1>1, <3>3, ElementOfSeq
    <3> QED BY <2>2, <3>3, <3>4, SubSeqProperties
  <2> QED BY <2>1, <2>2 DEF ChangePrefix
<1>4. TypeInv'
  BY <1>1, <1>2, <1>3 DEF TypeInv, ChangePrefix, input, text, line, rest
<1>5. (GoodBreak(buffer, last_breakable) /\ LineInv)'
  BY DEF IInv, ChangePrefix, text, line, rest, LineInv, GoodBreak, EndsLine, LastLine
<1> QED BY <1>4, <1>5 DEF IInv

LEMMA SetFlagStep == IInv /\ SetFlag => IInv'
<1> SUFFICES ASSUME IInv, SetFlag PROVE IInv'
  OBVIOUS
<1>1. TypeInv /\ no_linebreaks \in BOOLEAN
  BY DEF IInv, TypeInv
<1>2. calls' \in Seq(CallType)
  BY <1>1, Called DEF SetFlag
<1>3. no_linebreaks' \in BOOLEAN
  <2>1. CASE Calling("no_linebreaks") /\ no_linebreaks' = Head(calls).to
    <3>1. Head(calls) \in CallType /\ Head(calls).op = "no_linebreaks"
      BY <1>1, <2>1, Called
    <3>2. Head(calls).to \in BOOLEAN
      BY <3>1 DEF CallType, OutType
    <3> QED BY <2>1, <3>2
  <2> QED BY <1>1, <2>1 DEF SetFlag
<1>4. TypeInv'
  BY <1>1, <1>2, <1>3 DEF TypeInv, SetFlag, input, text, line, rest
<1>5. (GoodBreak(buffer, last_breakable) /\ LineInv)'
  BY DEF IInv, SetFlag, text, line, rest, LineInv, GoodBreak, EndsLine, LastLine
<1> QED BY <1>4, <1>5 DEF IInv

\* After a pending break the buffer ends a line.
LEMMA BreaksEnd ==
  ASSUME TypeInv, NEW need \in 1 .. 2
  PROVE  EndsLine(buffer \o Breaks(need))
<1> DEFINE nl == <<Entry("nl", "break")>>
           p  == Entries(prefix, "prefix")
           n  == Len(buffer)
<1>1. buffer \in Seq(EntryType) /\ n \in Nat
  BY LenProperties DEF TypeInv
<1>2. Entry("nl", "break") \in EntryType /\ Entry("nl", "break").ch = "nl"
  BY SpaceEntry, MarkIsChar DEF Mark, By
<1>3. nl \in Seq(EntryType) /\ Len(nl) = 1 /\ nl[1].ch = "nl"
  BY <1>2
<1>4. p \in Seq(EntryType)
  BY PrefixEntries
<1> HIDE DEF nl, p
<1>5. \A b \in Seq(EntryType) : EndsLine(b \o nl)
  <2> TAKE b \in Seq(EntryType)
  <2>1. Len(b \o nl) = Len(b) + Len(nl) /\ \A i \in 1 .. Len(nl) : (b \o nl)[Len(b) + i] = nl[i]
    <3>1. nl \in Seq(EntryType)
      BY <1>3
    <3> QED BY <3>1, Joined
  <2>2. Len(b \o nl) = Len(b) + 1 /\ \A i \in 1 .. 1 : (b \o nl)[Len(b) + i] = nl[i]
    BY <1>3, <2>1, Zenon
  <2>3. (b \o nl)[Len(b) + 1] = nl[1]
    BY <2>2
  <2>4. (b \o nl)[Len(b \o nl)].ch = "nl"
    BY <1>3, <2>2, <2>3, Zenon
  <2> QED BY <2>4 DEF EndsLine
<1>6. CASE AtLineEnd(n)
  <2>1. n = 0 \/ buffer[n].ch = "nl"
    BY <1>1, <1>6 DEF AtLineEnd
  <2>2. Breaks(need) = <<>> \/ Breaks(need) = nl
    BY <1>6 DEF Breaks, nl
  <2>3. buffer \o <<>> = buffer
    BY <1>1
  <2> QED BY <1>1, <1>5, <2>1, <2>2, <2>3 DEF EndsLine
<1>7. CASE ~AtLineEnd(n)
  <2>1. Breaks(need) = nl \/ Breaks(need) = (nl \o p) \o nl
    <3>1. <<>> \o nl = nl
      BY <1>3
    <3>2. nl = <<Entry("nl", "break")>> /\ p = Entries(prefix, "prefix")
      BY DEF nl, p
    <3>3. CASE need = 1
      BY <1>7, <3>1, <3>2, <3>3 DEF Breaks
    <3>4. CASE need = 2
      BY <1>7, <3>2, <3>4 DEF Breaks
    <3> QED BY <3>3, <3>4
  <2>2. nl \o p \in Seq(EntryType) /\ buffer \o (nl \o p) \in Seq(EntryType)
    BY <1>1, <1>3, <1>4
  <2>3. buffer \o ((nl \o p) \o nl) = (buffer \o (nl \o p)) \o nl
    <3>1. buffer \in Seq(EntryType) /\ nl \in Seq(EntryType)
      BY <1>1, <1>3
    <3> QED BY <2>2, <3>1, ConcatAssociative
  <2> QED BY <1>1, <1>5, <2>1, <2>2, <2>3, Zenon
<1> QED BY <1>6, <1>7

LEMMA NeedType ==
  ASSUME TypeInv
  PROVE  Need \in 0 .. 2 /\ (Need = 0 <=> need_cr = 0)
<1>1. need_cr \in 0 .. 2
  BY DEF TypeInv
<1>2. Min({need_cr, 1}) \in {need_cr, 1} /\ \A y \in {need_cr, 1} : Min({need_cr, 1}) <= y
  <2>1. {need_cr, 1} \subseteq Nat /\ {need_cr, 1} # {}
    BY <1>1
  <2> QED BY <2>1, MinOfNat, Zenon
<1> DEFINE m == Min({need_cr, 1})
<1>3. m \in {need_cr, 1} /\ m <= need_cr
  BY <1>2
<1>4. Need = IF in_tight_list_item THEN m ELSE need_cr
  BY DEF Need
<1> HIDE DEF m
<1> QED BY <1>1, <1>3, <1>4

LEMMA BeginOutStep == IInv /\ BeginOut => IInv'
<1> SUFFICES ASSUME IInv, BeginOut PROVE IInv'
  OBVIOUS
<1>1. TypeInv /\ buffer \in Seq(EntryType) /\ no_linebreaks \in BOOLEAN /\ need_cr \in 0 .. 2
  BY DEF IInv, TypeInv
<1>2. Head(calls) \in CallType /\ Head(calls).op = "out" /\ calls' \in Seq(CallType)
  BY <1>1, Called DEF BeginOut
<1>3. source' \in OutType
  <2> DEFINE h == Head(calls)
             w == h.wrap /\ ~no_linebreaks
  <2>1. h \in OutType
    BY <1>2 DEF CallType, OutType
  <2>2. source' = [h EXCEPT !.wrap = w]
    BY DEF BeginOut
  <2>3. w \in BOOLEAN
    BY Zenon
  <2> HIDE DEF h, w
  <2> QED BY <2>1, <2>2, <2>3 DEF OutType
<1>4. Need \in 0 .. 2 /\ (Need = 0 <=> need_cr = 0) /\ Breaks(Need) \in Seq(EntryType)
  BY <1>1, NeedType, BreaksType
<1>5. buffer' = buffer \o Breaks(Need)
  BY DEF BeginOut
<1>6. buffer' \in Seq(EntryType)
  BY <1>1, <1>4, <1>5
<1>7. begin_line' \in BOOLEAN
  BY Zenon DEF BeginOut
<1>8. TypeInv'
  BY <1>1, <1>2, <1>3, <1>6, <1>7 DEF TypeInv, BeginOut, input, rest
<1>9. GoodBreak(buffer', last_breakable')
  <2>1. GoodBreak(buffer \o Breaks(Need), last_breakable)
    BY <1>1, <1>4, BreakStays DEF IInv
  <2> QED BY <1>5, <2>1 DEF BeginOut
<1>10. LineInv'
  <2>1. CASE need_cr = 0
    <3>1. Breaks(Need) = <<>>
      <4>1. Need = 0
        BY <1>4, <2>1
      <4> QED BY <4>1 DEF Breaks
    <3>2. buffer' = buffer
      BY <1>1, <1>5, <3>1
    <3>3. UNCHANGED <<column, flaws, ended>>
      BY <2>1 DEF BeginOut, rest
    <3>4. ~(need_cr > 0) /\ begin_line' = (begin_line \/ need_cr > 0)
      BY <2>1 DEF BeginOut
    <3>5. begin_line' <=> begin_line
      BY <3>4, Zenon
    <3> QED BY <3>2, <3>3, <3>5 DEF IInv, LineInv, EndsLine, LastLine
  <2>2. CASE need_cr > 0
    <3>1. Need \in 1 .. 2
      BY <1>1, <1>4, <2>2
    <3>2. EndsLine(buffer')
      BY <1>1, <1>5, <3>1, BreaksEnd
    <3>3. begin_line'
      BY <2>2 DEF BeginOut
    <3> QED BY <3>2, <3>3 DEF LineInv, EndsLine
  <2> QED BY <1>1, <2>1, <2>2
<1> QED BY <1>8, <1>9, <1>10 DEF IInv

-----------------------------------------------------------------------------
(* The main loop of S_out. *)

LEMMA SourceType ==
  ASSUME TypeInv, Writing
  PROVE  /\ source.text \in Seq(Char) /\ Head(source.text) \in Char
         /\ Tail(source.text) \in Seq(Char) /\ source.by \in By
         /\ \A s \in Seq(Char) : [source EXCEPT !.text = s] \in OutType
BY DEF TypeInv, Writing, OutType

LEMMA SkipType == ASSUME NEW s \in Seq(Char) PROVE SkipSpaces(s) \in Seq(Char)
<1> DEFINE solid == {i \in DOMAIN s : s[i] # "sp"}
<1>1. Len(s) \in Nat /\ DOMAIN s = 1 .. Len(s)
  BY LenProperties
<1>2. CASE solid = {}
  BY <1>2 DEF SkipSpaces
<1>3. CASE solid # {}
  <2>1. solid \subseteq 1 .. Len(s) /\ solid \subseteq Nat
    BY <1>1
  <2>2. SkipSpaces(s) = SubSeq(s, Min(solid), Len(s))
    BY <1>3 DEF SkipSpaces
  <2> HIDE DEF solid
  <2>3. Min(solid) \in solid
    BY <1>3, <2>1, MinOfNat
  <2>4. Min(solid) \in 1 .. Len(s)
    BY <2>1, <2>3, Zenon
  <2>5. Min(solid) \in 1 .. Len(s) + 1
    BY <1>1, <2>4
  <2> QED BY <2>2, <2>5, EndPart
<1> QED BY <1>2, <1>3

LEMMA WrapSpaceStep == IInv /\ WrapSpace => IInv'
<1> SUFFICES ASSUME IInv, WrapSpace PROVE IInv'
  OBVIOUS
<1>1. TypeInv /\ buffer \in Seq(EntryType) /\ ~begin_line /\ Writing
  BY DEF IInv, TypeInv, WrapSpace
<1> DEFINE after == SkipSpaces(Tail(source.text))
           e     == Entry("sp", IF Breakable(after) THEN "space" ELSE "text")
           b     == Append(buffer, e)
           brk   == IF Breakable(after) THEN Len(buffer) ELSE last_breakable
<1>2. after \in Seq(Char)
  BY <1>1, SourceType, SkipType
<1>3. source' \in OutType
  <2>1. source' = [source EXCEPT !.text = after]
    BY DEF WrapSpace
  <2> HIDE DEF after
  <2> QED BY <1>1, <1>2, <2>1, SourceType
<1>4. e \in EntryType /\ e.ch = "sp"
  <2>1. (IF Breakable(after) THEN "space" ELSE "text") \in By
    BY DEF By
  <2>2. "sp" \in Char
    BY MarkIsChar DEF Mark
  <2> QED BY <1>1, <2>1, <2>2, SpaceEntry
<1>5. <<e>> \in Seq(EntryType) /\ Len(<<e>>) = 1 /\ (\A i \in 1 .. Len(<<e>>) : <<e>>[i].ch # "nl")
      /\ b = buffer \o <<e>> /\ Len(buffer) \in Nat
  <2> HIDE DEF e
  <2>1. <<e>> \in Seq(EntryType) /\ Len(<<e>>) = 1 /\ <<e>>[1] = e /\ Len(buffer) \in Nat
        /\ b = buffer \o <<e>>
    BY <1>1, <1>4
  <2>2. \A i \in 1 .. 1 : <<e>>[i].ch # "nl"
    BY <1>4, <2>1
  <2> QED BY <2>1, <2>2
<1>6. Written(b, column + 1, brk, FALSE)
  BY DEF WrapSpace
<1> DEFINE x == <<e>>
<1>7. x \in Seq(EntryType) /\ Len(x) = 1 /\ (\A i \in 1 .. Len(x) : x[i].ch # "nl") /\ b = buffer \o x
      /\ x[1].ch = "sp"
  BY <1>4, <1>5
<1> HIDE DEF x, b
<1>8. b \in Seq(EntryType)
  BY <1>1, <1>7
<1>9. GoodBreak(b, brk)
  <2>1. GoodBreak(b, last_breakable)
    BY <1>1, <1>7, BreakStays DEF IInv
  <2>2. Len(b) = Len(buffer) + Len(x) /\ \A i \in 1 .. Len(x) : b[Len(buffer) + i] = x[i]
    BY <1>1, <1>7, Joined
  <2>3. Len(b) = Len(buffer) + 1 /\ b[Len(buffer) + 1].ch = "sp"
    BY <1>5, <1>7, <2>2
  <2>4. GoodBreak(b, Len(buffer))
    BY <1>5, <2>3 DEF GoodBreak
  <2> QED BY <2>1, <2>4
<1>10. LineInv /\ (flaws = {} /\ ~ended => LastLine(b, column + 1))
  <2>1. LineInv
    BY DEF IInv
  <2>2. ASSUME flaws = {}, ~ended PROVE LastLine(b, column + 1)
    <3>1. LastLine(buffer, column)
      BY <1>1, <2>1, <2>2 DEF LineInv
    <3>2. LastLine(buffer \o x, column + Len(x))
      BY <1>1, <1>7, <3>1, LongerLine
    <3> QED BY <1>7, <3>2
  <2> QED BY <2>1, <2>2
<1> HIDE DEF brk
<1>11. /\ buffer' \in Seq(EntryType) /\ begin_line' = FALSE
       /\ GoodBreak(buffer', last_breakable')
       /\ flaws' = {} => flaws = {}
       /\ flaws' = {} /\ LastLine(b, column + 1) => LastLine(buffer', column')
  BY <1>1, <1>6, <1>8, <1>9, WrittenKeeps
<1>12. UNCHANGED <<input, walk, prefix, need_cr, rest>>
  BY DEF WrapSpace
<1>13. begin_line' \in BOOLEAN
  BY <1>11, Zenon
<1>14. TypeInv'
  BY <1>1, <1>3, <1>11, <1>12, <1>13 DEF TypeInv, input, walk, rest
<1>15. LineInv'
  BY <1>10, <1>11, <1>12 DEF LineInv, rest
<1> QED BY <1>11, <1>14, <1>15 DEF IInv

LEMMA DropSpaceStep == IInv /\ DropSpace => IInv'
<1> SUFFICES ASSUME IInv, DropSpace PROVE IInv'
  OBVIOUS
<1>1. TypeInv /\ buffer \in Seq(EntryType) /\ begin_line /\ Writing
  BY DEF IInv, TypeInv, DropSpace
<1>2. /\ buffer' = Started /\ Started \in Seq(EntryType)
      /\ last_breakable' = last_breakable /\ GoodBreak(Started, last_breakable)
  BY <1>1, StartedKeeps DEF DropSpace
<1>3. source' \in OutType
  <2>1. source' = [source EXCEPT !.text = Tail(source.text)]
    BY DEF DropSpace
  <2> QED BY <1>1, <2>1, SourceType
<1>4. UNCHANGED <<input, walk, begin_line, prefix, need_cr, rest>>
  BY DEF DropSpace
<1>5. TypeInv'
  BY <1>1, <1>2, <1>3, <1>4 DEF TypeInv, input, walk, rest
<1>6. LineInv'
  <2> SUFFICES ASSUME flaws' = {}, ~ended' PROVE EndsLine(buffer')
    BY <1>1, <1>4 DEF LineInv
  <2>1. flaws = {} /\ prefix = <<>> /\ ~ended
    BY <1>4 DEF DropSpace, rest
  <2>2. EndsLine(buffer)
    BY <1>1, <2>1 DEF IInv, LineInv
  <2> DEFINE e == Entries(prefix, "prefix")
  <2>3. e \in Seq(EntryType) /\ Len(e) = 0 /\ Started = buffer \o e
    BY <1>1, <2>1, PrefixEntries DEF Started
  <2> HIDE DEF e
  <2>4. e = <<>>
    BY <2>3, EmptySeq
  <2>5. Started = buffer
    BY <1>1, <2>3, <2>4
  <2> QED BY <1>2, <2>2, <2>5
<1> QED BY <1>2, <1>5, <1>6 DEF IInv

LEMMA LiteralNewlineStep == IInv /\ LiteralNewline => IInv'
<1> SUFFICES ASSUME IInv, LiteralNewline PROVE IInv'
  OBVIOUS
<1>1. TypeInv /\ Writing
  BY DEF IInv, LiteralNewline
<1>2. Started \in Seq(EntryType)
  BY StartedKeeps
<1> DEFINE e == Entry("nl", source.by)
<1>3. e \in EntryType /\ e.ch = "nl"
  BY <1>1, SourceType, SpaceEntry, MarkIsChar DEF Mark
<1>4. buffer' = Append(Started, e)
  BY DEF LiteralNewline
<1> HIDE DEF e
<1>5. buffer' \in Seq(EntryType) /\ EndsLine(buffer')
  BY <1>2, <1>3, <1>4 DEF EndsLine
<1>6. source' \in OutType
  <2>1. source' = [source EXCEPT !.text = Tail(source.text)]
    BY DEF LiteralNewline
  <2> QED BY <1>1, <2>1, SourceType
<1>7. UNCHANGED <<input, walk, flaws, prefix, need_cr, rest>> /\ last_breakable' = 0
  BY DEF LiteralNewline
<1>8. begin_line' = TRUE
  BY DEF LiteralNewline
<1>9. begin_line' \in BOOLEAN
  BY <1>8, Zenon
<1>10. TypeInv'
  BY <1>1, <1>5, <1>6, <1>7, <1>9 DEF TypeInv, input, walk, rest
<1>11. GoodBreak(buffer', last_breakable')
  BY <1>7 DEF GoodBreak
<1>12. LineInv'
  BY <1>5, <1>8 DEF LineInv
<1> QED BY <1>10, <1>11, <1>12 DEF IInv

LEMMA CharacterStep == IInv /\ Character => IInv'
<1> SUFFICES ASSUME IInv, Character PROVE IInv'
  OBVIOUS
<1>1. TypeInv /\ Writing
  BY DEF IInv, Character
<1> DEFINE c == Head(source.text)
           digit == Started # <<>> /\ Last(Started).ch \in Digit
           escaped == source.escape = "NORMAL"
                      /\ NeedsEscaping(c, NextChar(Tail(source.text)), begin_content, digit)
           one == <<Entry(c, source.by)>>
           out == (IF escaped THEN <<Entry("bs", "markup")>> ELSE <<>>) \o one
           content == begin_content /\ c \in Digit
<1>2. c # "nl" /\ Written(Started \o out, StartedAt + Len(out), last_breakable, content)
  BY DEF Character
<1>3. source' \in OutType
  <2>1. source' = [source EXCEPT !.text = Tail(source.text)]
    BY DEF Character
  <2> QED BY <1>1, <2>1, SourceType
<1>4. UNCHANGED <<input, walk, prefix, need_cr, rest>>
  BY DEF Character
<1>5. out \in Seq(EntryType) /\ \A i \in 1 .. Len(out) : out[i].ch # "nl"
  <2> DEFINE e == Entry(c, source.by)
             s == Entry("bs", "markup")
  <2>1. e \in EntryType /\ e.ch # "nl"
    BY <1>1, <1>2, SourceType, SpaceEntry
  <2>2. s \in EntryType /\ s.ch # "nl"
    <3>1. "bs" \in Char /\ "markup" \in By
      BY MarkIsChar DEF Mark, By
    <3>2. s.ch = "bs"
      BY <1>1, <3>1, SpaceEntry
    <3> QED BY <1>1, <3>1, <3>2, SpaceEntry
  <2>3. out = (IF escaped THEN <<s>> ELSE <<>>) \o <<e>>
    OBVIOUS
  <2> HIDE DEF e, s, out, escaped
  <2> DEFINE x == IF escaped THEN <<s>> ELSE <<>>
             y == <<e>>
  <2>4. y \in Seq(EntryType) /\ Len(y) \in Nat /\ \A i \in 1 .. Len(y) : y[i].ch # "nl"
    BY <2>1
  <2>5. x \in Seq(EntryType) /\ Len(x) \in Nat /\ \A i \in 1 .. Len(x) : x[i].ch # "nl"
    <3>1. <<s>> \in Seq(EntryType) /\ Len(<<s>>) \in Nat /\ \A i \in 1 .. Len(<<s>>) : <<s>>[i].ch # "nl"
      BY <2>2
    <3>2. <<>> \in Seq(EntryType) /\ Len(<<>>) \in Nat /\ \A i \in 1 .. Len(<<>>) : <<>>[i].ch # "nl"
      OBVIOUS
    <3> QED BY <3>1, <3>2
  <2>6. out = x \o y
    BY <2>3
  <2> HIDE DEF x, y
  <2>7. /\ x \o y \in Seq(EntryType) /\ Len(x \o y) = Len(x) + Len(y)
        /\ \A i \in 1 .. Len(x) : (x \o y)[i] = x[i]
        /\ \A i \in 1 .. Len(y) : (x \o y)[Len(x) + i] = y[i]
    <3>1. x \in Seq(EntryType) /\ y \in Seq(EntryType)
      BY <2>4, <2>5
    <3> QED BY <3>1, Joined
  <2>8. ASSUME NEW i \in 1 .. Len(x \o y) PROVE (x \o y)[i].ch # "nl"
    <3>1. CASE i \in 1 .. Len(x)
      BY <2>5, <2>7, <3>1
    <3>2. CASE i \notin 1 .. Len(x)
      <4>1. i - Len(x) \in 1 .. Len(y) /\ Len(x) + (i - Len(x)) = i
        BY <2>4, <2>5, <2>7, <3>2
      <4>2. (x \o y)[Len(x) + (i - Len(x))] = y[i - Len(x)]
        BY <2>7, <4>1, Zenon
      <4> QED BY <2>4, <4>1, <4>2
    <3> QED BY <3>1, <3>2
  <2> QED BY <2>6, <2>7, <2>8
<1> HIDE DEF out, c
<1> DEFINE b == Started \o out
           col == StartedAt + Len(out)
<1>6. b \in Seq(EntryType) /\ GoodBreak(b, last_breakable)
  BY <1>5, StartedKeeps, BreakStays
<1>7. flaws = {} /\ ~ended => LastLine(b, col)
  BY <1>5, StartedKeeps, LongerLine
<1>8. Written(b, col, last_breakable, content)
  BY <1>2
<1> HIDE DEF b, col, content
<1>9. /\ buffer' \in Seq(EntryType) /\ begin_line' = FALSE
      /\ GoodBreak(buffer', last_breakable')
      /\ flaws' = {} => flaws = {}
      /\ flaws' = {} /\ LastLine(b, col) => LastLine(buffer', column')
  BY <1>1, <1>6, <1>8, WrittenKeeps
<1>10. begin_line' \in BOOLEAN
  BY <1>9, Zenon
<1>11. TypeInv'
  BY <1>1, <1>3, <1>4, <1>9, <1>10 DEF TypeInv, input, walk, rest
<1>12. LineInv'
  BY <1>4, <1>7, <1>9 DEF LineInv, rest
<1> QED BY <1>9, <1>11, <1>12 DEF IInv

LEMMA EndRenderStep == IInv /\ EndRender => IInv'
<1> SUFFICES ASSUME IInv, EndRender PROVE IInv'
  OBVIOUS
<1>1. TypeInv /\ buffer \in Seq(EntryType) /\ GoodBreak(buffer, last_breakable)
  BY DEF IInv, TypeInv
<1> DEFINE e == Entry("nl", "break")
<1>2. e \in EntryType
  BY <1>1, SpaceEntry, MarkIsChar DEF Mark, By
<1>3. buffer' = buffer \/ buffer' = Append(buffer, e)
  BY DEF EndRender
<1> HIDE DEF e
<1>4. Append(buffer, e) = buffer \o <<e>> /\ <<e>> \in Seq(EntryType)
  BY <1>1, <1>2
<1>5. buffer' \in Seq(EntryType)
  BY <1>1, <1>3, <1>4
<1>6. GoodBreak(buffer', last_breakable)
  BY <1>1, <1>3, <1>4, BreakStays
<1>7. /\ UNCHANGED <<input, walk, source, line, prefix, need_cr, no_linebreaks>>
      /\ ended'
  BY DEF EndRender
<1>8. TypeInv'
  BY <1>1, <1>5, <1>7 DEF TypeInv, input, walk, line
<1> QED BY <1>6, <1>7, <1>8 DEF IInv, LineInv, line

-----------------------------------------------------------------------------
(* The theorems. *)

LEMMA Inductive == IInv /\ [Next]_vars => IInv'
<1> SUFFICES ASSUME IInv, [Next]_vars PROVE IInv'
  OBVIOUS
<1>1. CASE UNCHANGED vars
  <2>1. UNCHANGED <<doc, width, node, event, calls, source, buffer, prefix, need_cr,
                    begin_line, no_linebreaks, column, last_breakable, flaws, ended>>
    BY <1>1 DEF vars, input, walk, text, line, rest
  <2> QED BY <2>1 DEF IInv, TypeInv, LineInv, GoodBreak, EndsLine, LastLine
<1>2. CASE Visit
  BY <1>2, VisitStep
<1>3. CASE RequestBreak
  BY <1>3, RequestBreakStep
<1>4. CASE ChangePrefix
  BY <1>4, ChangePrefixStep
<1>5. CASE SetFlag
  BY <1>5, SetFlagStep
<1>6. CASE BeginOut
  BY <1>6, BeginOutStep
<1>7. CASE WrapSpace
  BY <1>7, WrapSpaceStep
<1>8. CASE DropSpace
  BY <1>8, DropSpaceStep
<1>9. CASE LiteralNewline
  BY <1>9, LiteralNewlineStep
<1>10. CASE Character
  BY <1>10, CharacterStep
<1>11. CASE EndRender
  BY <1>11, EndRenderStep
<1>12. CASE Done
  BY <1>1, <1>12 DEF Done
<1> QED BY <1>1, <1>2, <1>3, <1>4, <1>5, <1>6, <1>7, <1>8, <1>9, <1>10, <1>11, <1>12 DEF Next

LEMMA Always == Spec => []IInv
<1> QED BY InitInv, Inductive, PTL DEF Spec

\* For every document and width, the place that S_out remembers for a break is
\* that of a space in the buffer, however often the buffer has been rewritten:
\* breaking a line (render.c:111-126) never replaces another character.
THEOREM AlwaysBreakIsSpace == Spec => []BreakIsSpace
<1>1. IInv => BreakIsSpace
  <2> SUFFICES ASSUME IInv PROVE BreakIsSpace
    OBVIOUS
  <2>1. Len(buffer) \in Nat /\ GoodBreak(buffer, last_breakable)
    BY LenProperties DEF IInv, TypeInv
  <2> QED BY <2>1 DEF GoodBreak, BreakIsSpace
<1> QED BY <1>1, Always, PTL

LEMMA LastLineLength ==
  ASSUME NEW b \in Seq(EntryType), NEW c, LastLine(b, c)
  PROVE  c = Len(b) - Max({0} \cup {i \in DOMAIN b : b[i].ch = "nl"})
<1> DEFINE S == {0} \cup {i \in DOMAIN b : b[i].ch = "nl"}
           m == Len(b) - c
<1>1. Len(b) \in Nat /\ DOMAIN b = 1 .. Len(b) /\ c \in 0 .. Len(b) /\ m \in 0 .. Len(b)
  BY LenProperties DEF LastLine
<1>2. m \in S
  <2>1. CASE Len(b) = c
    BY <1>1, <2>1
  <2>2. CASE Len(b) # c
    <3>0. \A n \in Nat : \A k \in 0 .. n : n # k => n - k \in 1 .. n
      OBVIOUS
    <3>1. m \in 1 .. Len(b)
      BY <1>1, <2>2, <3>0, Zenon
    <3>2. b[m].ch = "nl"
      BY <2>2 DEF LastLine
    <3> HIDE DEF m
    <3> QED BY <1>1, <3>1, <3>2
  <2> QED BY <2>1, <2>2
<1>3. ASSUME NEW y \in S PROVE y \in Nat /\ y <= m
  <2>1. y \in 0 .. Len(b)
    BY <1>1
  <2>2. y > m => y \in DOMAIN b /\ b[y].ch = "nl" /\ y \in Len(b) + 1 - c .. Len(b)
    BY <1>1, <2>1
  <2>3. ~ (y > m)
    BY <2>2 DEF LastLine
  <2> QED BY <1>1, <2>1, <2>3
<1> DEFINE x == Max(S)
<1> HIDE DEF S, m
<1>4. x \in S /\ \A y \in S : x >= y
  <2>1. \A y \in S : m >= y
    BY <1>1, <1>3
  <2>2. \E z \in S : \A y \in S : z >= y
    BY <1>2, <2>1
  <2> QED BY <2>2 DEF Max
<1>5. x = m
  <2> HIDE DEF x
  <2>1. x \in Nat /\ x <= m
    BY <1>3, <1>4
  <2>2. x >= m
    BY <1>2, <1>4
  <2>3. m \in Nat
    BY <1>2, <1>3
  <2> QED BY <2>1, <2>2, <2>3
<1>6. c = Len(b) - m
  BY <1>1 DEF m
<1> QED BY <1>5, <1>6 DEF S

\* For every document and width, column is the length of the last line of the
\* buffer, until a line is broken behind its end or a prefix is written twice:
\* the test whether a line is too long (render.c:108) is about that line.
THEOREM AlwaysColumnCounts == Spec => []ColumnCounts
<1>1. IInv => ColumnCounts
  <2> SUFFICES ASSUME IInv, ~begin_line, ~ended, flaws = {}
               PROVE  column = Len(buffer) - Max({0} \cup {i \in DOMAIN buffer : buffer[i].ch = "nl"})
    BY DEF ColumnCounts
  <2>1. buffer \in Seq(EntryType) /\ LastLine(buffer, column)
    BY DEF IInv, TypeInv, LineInv
  <2> QED BY <2>1, LastLineLength
<1> QED BY <1>1, Always, PTL

\* print_document of main.c leaves it at that: with another renderer called, nothing
\* happens here.
THEOREM PrintingIsRendering == PrintSpec => Spec
<1>1. PrintInit => Init
  BY DEF PrintInit
<1>2. [PrintNext]_writerVars => [Next]_vars
  <2>1. UNCHANGED writerVars => UNCHANGED vars
    BY DEF writerVars
  <2> QED BY <2>1 DEF PrintNext
<1> QED BY <1>1, <1>2, PTL DEF PrintSpec, Spec

-----------------------------------------------------------------------------
(* The HTML and the XML. Behind what is written, a stack of elements is    *)
(* open: below are what a piece does to the stack, what the events of the  *)
(* iterator write, and the invariant, by which the stack is what the nodes *)
(* that are open have opened.                                              *)

\* How many elements are open behind s
Level(s) == Cardinality({i \in DOMAIN s : s[i].t = "open"})
              - Cardinality({i \in DOMAIN s : s[i].t = "close"})
\* The n-th element of st is what the j-th piece of s opens and nothing closes.
Opens(s, j, st, n) == /\ s[j].t = "open" /\ s[j].of = st[n] /\ Tagged!Depth(s, j) = n - 1
                      /\ \A k \in j + 1 .. Len(s) : Tagged!Depth(s, k) > n - 1
\* s is nested, and the elements st are open behind it.
Stack(s, st) == /\ Tagged!Nested(s) /\ Level(s) = Len(st)
                /\ \A n \in 1 .. Len(st) : \E j \in 1 .. Len(s) : Opens(s, j, st, n)

\* The library is the same behind the instance.
LEMMA SameLibrary ==
  /\ \A S : Tagged!Cardinality(S) = Cardinality(S)
  /\ \A s : Tagged!Front(s) = Front(s) /\ Tagged!Last(s) = Last(s)
  /\ \A s : Tagged!ToSet(s) = ToSet(s)
<1>1. \A S : Tagged!Cardinality(S) = Cardinality(S)
  BY Zenon DEF Tagged!Cardinality, Cardinality
<1>2. \A s : Tagged!Front(s) = Front(s) /\ Tagged!Last(s) = Last(s)
  BY Zenon DEF Tagged!Front, Front, Tagged!Last, Last
<1>3. \A s : Tagged!ToSet(s) = ToSet(s)
  BY Zenon DEF Tagged!ToSet, ToSet
<1> QED BY <1>1, <1>2, <1>3

LEMMA DepthIs ==
  \A s, i : Tagged!Depth(s, i) = Cardinality({j \in 1 .. i - 1 : s[j].t = "open"})
                                  - Cardinality({j \in 1 .. i : s[j].t = "close"})
BY Zenon, SameLibrary DEF Tagged!Depth

LEMMA AppendIs ==
  ASSUME NEW T, NEW s \in Seq(T), NEW x \in T
  PROVE  /\ Append(s, x) \in Seq(T) /\ Len(s) \in Nat
         /\ Len(Append(s, x)) = Len(s) + 1
         /\ DOMAIN s = 1 .. Len(s) /\ DOMAIN Append(s, x) = 1 .. Len(s) + 1
         /\ \A i \in 1 .. Len(s) : Append(s, x)[i] = s[i]
         /\ Append(s, x)[Len(s) + 1] = x
OBVIOUS

LEMMA FrontIs ==
  ASSUME NEW T, NEW s \in Seq(T), s # <<>>
  PROVE  /\ Front(s) \in Seq(T) /\ Len(s) \in Nat \ {0} /\ Len(Front(s)) = Len(s) - 1
         /\ \A i \in 1 .. Len(s) - 1 : Front(s)[i] = s[i]
         /\ Last(s) = s[Len(s)]
BY DEF Front, Last

LEMMA Counted ==
  ASSUME NEW n \in Nat, NEW S, S \subseteq 1 .. n
  PROVE  /\ Cardinality(S) \in Nat
         /\ Cardinality(S \cup {n + 1}) = Cardinality(S) + 1
<1>1. IsFiniteSet(S)
  <2>1. IsFiniteSet(1 .. n)
    BY FS_Interval
  <2> QED BY <2>1, FS_Subset
<1>2. n + 1 \notin S
  OBVIOUS
<1> QED BY <1>1, <1>2, FS_CardinalityType, FS_AddElement

\* What a piece adds to the levels
LEMMA DepthAppend ==
  ASSUME NEW T, NEW s \in Seq(T), NEW x \in T
  PROVE  LET q == Append(s, x)
         IN  /\ Level(s) \in Int
             /\ \A i \in 1 .. Len(s) : /\ Tagged!Depth(s, i) \in Int
                                       /\ Tagged!Depth(q, i) = Tagged!Depth(s, i)
             /\ Tagged!Depth(q, Len(s) + 1) = Level(s) - IF x.t = "close" THEN 1 ELSE 0
             /\ Level(q) = Level(s) + (IF x.t = "open" THEN 1 ELSE 0)
                                     - (IF x.t = "close" THEN 1 ELSE 0)
<1> DEFINE q == Append(s, x)
           N == Len(s)
           O == {i \in DOMAIN s : s[i].t = "open"}
           C == {i \in DOMAIN s : s[i].t = "close"}
<1>1. /\ N \in Nat /\ DOMAIN s = 1 .. N /\ DOMAIN q = 1 .. N + 1
      /\ \A i \in 1 .. N : q[i] = s[i]
      /\ q[N + 1] = x
  BY AppendIs
<1> HIDE DEF q, N
<1>2. /\ Cardinality(O) \in Nat /\ Cardinality(O \cup {N + 1}) = Cardinality(O) + 1
      /\ Cardinality(C) \in Nat /\ Cardinality(C \cup {N + 1}) = Cardinality(C) + 1
  BY <1>1, Counted
<1>3. ASSUME NEW i \in 1 .. N
      PROVE  Tagged!Depth(s, i) \in Int /\ Tagged!Depth(q, i) = Tagged!Depth(s, i)
  <2> DEFINE A(r) == {j \in 1 .. i - 1 : r[j].t = "open"}
             B(r) == {j \in 1 .. i : r[j].t = "close"}
  <2>1. A(s) \subseteq 1 .. N /\ B(s) \subseteq 1 .. N
    BY <1>1
  <2>2. A(q) = A(s) /\ B(q) = B(s)
    BY <1>1
  <2>3. Cardinality(A(s)) \in Nat /\ Cardinality(B(s)) \in Nat
    <3> HIDE DEF A, B
    <3> QED BY <1>1, <2>1, Counted
  <2>4. /\ Tagged!Depth(s, i) = Cardinality(A(s)) - Cardinality(B(s))
        /\ Tagged!Depth(q, i) = Cardinality(A(q)) - Cardinality(B(q))
    BY Zenon, DepthIs
  <2> HIDE DEF A, B
  <2> QED BY <2>2, <2>3, <2>4
<1>m. PICK m \in Nat : m = N + 1
  BY <1>1
<1> DEFINE O1 == {j \in 1 .. m - 1 : q[j].t = "open"}
           O2 == {j \in 1 .. m : q[j].t = "open"}
           C2 == {j \in 1 .. m : q[j].t = "close"}
<1>4. O1 = O
  BY <1>1, <1>m
<1>5. C2 = IF x.t = "close" THEN C \cup {N + 1} ELSE C
  BY <1>1, <1>m
<1>6. O2 = IF x.t = "open" THEN O \cup {N + 1} ELSE O
  BY <1>1, <1>m
<1>7. Level(s) = Cardinality(O) - Cardinality(C)
  BY Zenon DEF Level
<1>8. Tagged!Depth(q, m) = Cardinality(O1) - Cardinality(C2)
  BY Zenon, DepthIs
<1>9. Level(q) = Cardinality(O2) - Cardinality(C2)
  BY Zenon, <1>1, <1>m DEF Level
<1> HIDE DEF O, C, O1, O2, C2
<1>10. Tagged!Depth(q, N + 1) = Level(s) - IF x.t = "close" THEN 1 ELSE 0
  BY <1>m, <1>2, <1>4, <1>5, <1>7, <1>8
<1>11. Level(q) = Level(s) + (IF x.t = "open" THEN 1 ELSE 0) - (IF x.t = "close" THEN 1 ELSE 0)
  <2>1. CASE x.t = "open"
    BY <1>2, <1>5, <1>6, <1>7, <1>9, <2>1
  <2>2. CASE x.t # "open"
    BY <1>2, <1>5, <1>6, <1>7, <1>9, <2>2
  <2> QED BY <2>1, <2>2
<1>12. Level(s) \in Int
  BY <1>2, <1>7
<1> QED BY <1>3, <1>10, <1>11, <1>12 DEF q, N

\* What closes nothing, or the last element that is open, keeps s nested.
LEMMA NestedAppend ==
  ASSUME NEW T, NEW s \in Seq(T), NEW x \in T, Tagged!Nested(s),
         x.t = "close" => \E j \in 1 .. Len(s) :
           /\ s[j].t = "open" /\ s[j].of = x.of /\ Tagged!Depth(s, j) = Level(s) - 1
           /\ \A k \in j + 1 .. Len(s) : Tagged!Depth(s, k) > Level(s) - 1
  PROVE  Tagged!Nested(Append(s, x))
<1> DEFINE q == Append(s, x)
           N == Len(s)
<1>1. /\ N \in Nat /\ DOMAIN s = 1 .. N /\ DOMAIN q = 1 .. N + 1
      /\ \A i \in 1 .. N : q[i] = s[i]
      /\ q[N + 1] = x
  BY AppendIs
<1>2. /\ \A i \in 1 .. N : Tagged!Depth(q, i) = Tagged!Depth(s, i)
      /\ Tagged!Depth(q, N + 1) = Level(s) - IF x.t = "close" THEN 1 ELSE 0
  BY DepthAppend
<1> HIDE DEF q, N
<1>3. ASSUME NEW i \in 1 .. N + 1, q[i].t = "close"
      PROVE  \E j \in 1 .. i - 1 : Tagged!Pairs(q, j, i)
  <2>1. CASE i \in 1 .. N
    <3>1. s[i].t = "close"
      BY <1>1, <1>3, <2>1
    <3>2. PICK j \in 1 .. i - 1 : Tagged!Pairs(s, j, i)
      BY <1>1, <2>1, <3>1 DEF Tagged!Nested
    <3>3. j \in 1 .. N /\ \A k \in j + 1 .. i - 1 : k \in 1 .. N
      BY <1>1, <2>1
    <3> QED BY <1>1, <1>2, <2>1, <3>2, <3>3 DEF Tagged!Pairs
  <2>2. CASE i = N + 1
    <3>1. x.t = "close"
      BY <1>1, <1>3, <2>2
    <3>2. PICK j \in 1 .. N :
            /\ s[j].t = "open" /\ s[j].of = x.of /\ Tagged!Depth(s, j) = Level(s) - 1
            /\ \A k \in j + 1 .. N : Tagged!Depth(s, k) > Level(s) - 1
      BY <3>1 DEF N
    <3>3. j \in 1 .. i - 1 /\ \A k \in j + 1 .. i - 1 : k \in j + 1 .. N /\ k \in 1 .. N
      BY <1>1, <2>2
    <3> QED BY <1>1, <1>2, <2>2, <3>1, <3>2, <3>3 DEF Tagged!Pairs
  <2> QED BY <1>1, <2>1, <2>2
<1> QED BY <1>1, <1>3 DEF Tagged!Nested, q

LEMMA OpensAppend ==
  ASSUME NEW T, NEW s \in Seq(T), NEW x \in T, NEW st, NEW n \in Nat,
         NEW j \in 1 .. Len(s), Opens(s, j, st, n),
         Level(s) - (IF x.t = "close" THEN 1 ELSE 0) > n - 1,
         NEW st2, st2[n] = st[n]
  PROVE  Opens(Append(s, x), j, st2, n)
<1> DEFINE q == Append(s, x)
           N == Len(s)
<1>1. N \in Nat /\ Len(q) = N + 1 /\ \A i \in 1 .. N : q[i] = s[i]
  BY AppendIs
<1>2. /\ \A i \in 1 .. N : Tagged!Depth(q, i) = Tagged!Depth(s, i)
      /\ Tagged!Depth(q, N + 1) = Level(s) - IF x.t = "close" THEN 1 ELSE 0
  BY DepthAppend
<1> HIDE DEF q, N
<1>3. ASSUME NEW k \in j + 1 .. N + 1
      PROVE  Tagged!Depth(q, k) > n - 1
  <2>1. CASE k = N + 1
    BY <1>2, <2>1
  <2>2. CASE k # N + 1
    <3>1. k \in 1 .. N /\ k \in j + 1 .. N
      BY <1>1, <2>2 DEF N
    <3> QED BY <1>2, <3>1 DEF Opens, N
  <2> QED BY <2>1, <2>2
<1>4. j \in 1 .. N
  BY DEF N
<1> QED BY <1>1, <1>2, <1>3, <1>4 DEF Opens, q

LEMMA StackOther ==
  ASSUME NEW T, NEW s \in Seq(T), NEW x \in T, x.t \notin {"open", "close"},
         NEW U, NEW st \in Seq(U), Stack(s, st)
  PROVE  Stack(Append(s, x), st)
<1>1. Tagged!Nested(Append(s, x))
  BY NestedAppend DEF Stack
<1>2. Level(Append(s, x)) = Len(st) /\ Len(Append(s, x)) = Len(s) + 1 /\ Len(s) \in Nat /\ Len(st) \in Nat
  BY DepthAppend, AppendIs DEF Stack
<1>3. ASSUME NEW n \in 1 .. Len(st)
      PROVE  \E j \in 1 .. Len(s) + 1 : Opens(Append(s, x), j, st, n)
  <2>1. PICK j \in 1 .. Len(s) : Opens(s, j, st, n)
    BY DEF Stack
  <2>2. n \in Nat /\ Level(s) - (IF x.t = "close" THEN 1 ELSE 0) > n - 1
    BY <1>2 DEF Stack
  <2>3. Opens(Append(s, x), j, st, n)
    BY <2>1, <2>2, OpensAppend
  <2> QED BY <1>2, <2>3
<1> QED BY <1>1, <1>2, <1>3 DEF Stack

LEMMA StackOpen ==
  ASSUME NEW T, NEW s \in Seq(T), NEW x \in T, x.t = "open",
         NEW U, NEW st \in Seq(U), x.of \in U, Stack(s, st)
  PROVE  Stack(Append(s, x), Append(st, x.of))
<1> DEFINE q == Append(s, x)
           r == Append(st, x.of)
           N == Len(s)
           M == Len(st)
<1>1. Tagged!Nested(q)
  BY NestedAppend DEF Stack
<1>2. /\ N \in Nat /\ Len(q) = N + 1 /\ q[N + 1] = x
      /\ M \in Nat /\ Len(r) = M + 1 /\ r[M + 1] = x.of
      /\ \A n \in 1 .. M : r[n] = st[n]
  BY AppendIs
<1>3. Level(s) = M /\ Level(q) = M + 1 /\ Tagged!Depth(q, N + 1) = M
  <2>1. Level(s) = M
    BY DEF Stack
  <2>2. /\ Level(q) = Level(s) + 1 - 0
        /\ Tagged!Depth(q, N + 1) = Level(s) - 0
    BY DepthAppend
  <2> HIDE DEF q, N, M
  <2> QED BY <1>2, <2>1, <2>2
<1>4. ASSUME NEW n \in 1 .. M + 1
      PROVE  \E j \in 1 .. N + 1 : Opens(q, j, r, n)
  <2>1. CASE n = M + 1
    <3> HIDE DEF q, r, N, M
    <3>1. Opens(q, N + 1, r, n)
      BY <1>2, <1>3, <2>1 DEF Opens
    <3> QED BY <1>2, <3>1
  <2>2. CASE n # M + 1
    <3>1. n \in 1 .. M /\ n \in Nat /\ Level(s) - (IF x.t = "close" THEN 1 ELSE 0) > n - 1
      BY <1>2, <1>3, <2>2
    <3>2. PICK j \in 1 .. N : Opens(s, j, st, n)
      BY <3>1 DEF Stack
    <3>3. r[n] = st[n]
      BY <1>2, <3>1
    <3>4. Opens(q, j, r, n)
      <4> HIDE DEF r
      <4> QED BY <3>1, <3>2, <3>3, OpensAppend
    <3> QED BY <1>2, <3>4
  <2> QED BY <2>1, <2>2
<1> HIDE DEF q, r, N, M
<1>5. Stack(q, r)
  BY <1>1, <1>2, <1>3, <1>4 DEF Stack
<1> QED BY <1>5 DEF q, r

LEMMA StackClose ==
  ASSUME NEW T, NEW s \in Seq(T), NEW x \in T, x.t = "close",
         NEW U, NEW st \in Seq(U), st # <<>>, x.of = Last(st), Stack(s, st)
  PROVE  Stack(Append(s, x), Front(st))
<1> DEFINE q == Append(s, x)
           r == Front(st)
           N == Len(s)
           M == Len(st)
<1>1. /\ N \in Nat /\ Len(q) = N + 1
      /\ M \in Nat \ {0} /\ Len(r) = M - 1 /\ x.of = st[M]
      /\ \A n \in 1 .. M - 1 : r[n] = st[n]
  BY AppendIs, FrontIs
<1>2. Level(s) = M /\ Level(q) = M - 1
  <2>1. Level(s) = M
    BY DEF Stack
  <2>2. Level(q) = Level(s) + 0 - 1
    BY DepthAppend
  <2> HIDE DEF q, N, M
  <2> QED BY <1>1, <2>1, <2>2
<1>3. Tagged!Nested(q)
  <2>1. PICK j \in 1 .. N : Opens(s, j, st, M)
    BY <1>1 DEF Stack
  <2>2. /\ s[j].t = "open" /\ s[j].of = x.of /\ Tagged!Depth(s, j) = Level(s) - 1
        /\ \A k \in j + 1 .. Len(s) : Tagged!Depth(s, k) > Level(s) - 1
    BY <1>1, <1>2, <2>1 DEF Opens
  <2> QED BY <2>2, NestedAppend DEF Stack
<1>4. ASSUME NEW n \in 1 .. M - 1
      PROVE  \E j \in 1 .. N + 1 : Opens(q, j, r, n)
  <2>1. n \in 1 .. M /\ n \in Nat /\ Level(s) - (IF x.t = "close" THEN 1 ELSE 0) > n - 1
    BY <1>1, <1>2
  <2>2. PICK j \in 1 .. N : Opens(s, j, st, n)
    BY <2>1 DEF Stack
  <2>3. r[n] = st[n]
    BY <1>1
  <2>4. Opens(q, j, r, n)
    <3> HIDE DEF r
    <3> QED BY <2>1, <2>2, <2>3, OpensAppend
  <2> QED BY <1>1, <2>4
<1> HIDE DEF q, r, N, M
<1>5. Stack(q, r)
  BY <1>1, <1>2, <1>3, <1>4 DEF Stack
<1> QED BY <1>5 DEF q, r

LEMMA StackEmpty ==
  ASSUME NEW T, NEW s \in Seq(T)
  PROVE  /\ Stack(<<>>, <<>>)
         /\ Stack(s, <<>>) => Tagged!AllClosed(s)
<1>1. Stack(<<>>, <<>>)
  <2>1. DOMAIN <<>> = {} /\ Len(<<>>) = 0
    OBVIOUS
  <2>2. {i \in DOMAIN <<>> : <<>>[i].t = "open"} = {} /\ {i \in DOMAIN <<>> : <<>>[i].t = "close"} = {}
    BY <2>1
  <2>3. Level(<<>>) = Cardinality({}) - Cardinality({})
    BY <2>2, Zenon DEF Level
  <2>4. Level(<<>>) = 0
    BY <2>3, FS_EmptySet
  <2> QED BY <2>1, <2>4 DEF Stack, Tagged!Nested
<1>2. ASSUME Stack(s, <<>>)
      PROVE  Tagged!AllClosed(s)
  <2> DEFINE O == {i \in DOMAIN s : s[i].t = "open"}
             C == {i \in DOMAIN s : s[i].t = "close"}
  <2>1. Cardinality(O) \in Nat /\ Cardinality(C) \in Nat
    <3>1. O \subseteq 1 .. Len(s) /\ C \subseteq 1 .. Len(s) /\ Len(s) \in Nat
      OBVIOUS
    <3> HIDE DEF O, C
    <3> QED BY <3>1, Counted
  <2>2. Level(s) = Cardinality(O) - Cardinality(C)
    BY Zenon DEF Level
  <2>3. Level(s) = 0
    BY <1>2 DEF Stack
  <2>4. Tagged!AllClosed(s) <=> Cardinality(O) = Cardinality(C)
    BY Zenon, SameLibrary DEF Tagged!AllClosed
  <2> HIDE DEF O, C
  <2> QED BY <2>1, <2>2, <2>3, <2>4
<1> QED BY <1>1, <1>2

-----------------------------------------------------------------------------
(* The HTML so far. *)

Names == Tagged!Block \cup Tagged!Inline \cup {"pre", "br", ""}
Tok == [t : {"open", "close", "void", "text", "raw", "alt", "end", "blank", "nl"}, of : Names \cup Nat]
Kept(h, t) == {i \in 1 .. Len(h) : h[i].t = t}
\* BlocksBeginLines
Begun(h) ==
  \A i \in 1 .. Len(h) : h[i].t = "open" /\ h[i].of \in Tagged!Block \cup {"pre"}
                           => i = 1 \/ h[i - 1] = Tagged!Nl
\* AltIsText; an alternative text has begun if alt is 1.
AltHeld(h, alt) ==
  /\ \A b \in Kept(h, "alt"), i \in 1 .. Len(h) :
       b < i /\ (\A e \in Kept(h, "end") : ~(b < e /\ e <= i)) => h[i].t \in {"text", "blank"}
  /\ Cardinality(Kept(h, "alt")) = Cardinality(Kept(h, "end")) + alt
  /\ alt = 0 => \A b \in Kept(h, "alt") : \E e \in Kept(h, "end") : b < e
\* TextOnce, with texts of nodes up to n, those of S among them
TextHeld(h, n, S) ==
  /\ \A i \in Kept(h, "text") : h[i].of \in 1 .. n
  /\ \A i, j \in Kept(h, "text") : i < j => h[i].of < h[j].of
  /\ \A m \in S : \E i \in 1 .. Len(h) : h[i] = Tagged!Text(m)

Good(h, st, alt, n, S) ==
  /\ h \in Seq(Tok) /\ st \in Seq(Names) /\ alt \in {0, 1} /\ n \in Nat
  /\ Stack(h, st)
  /\ Begun(h)
  /\ AltHeld(h, alt)
  /\ TextHeld(h, n, S)

LEMMA BegunAppend ==
  ASSUME NEW h \in Seq(Tok), NEW x \in Tok, Begun(h),
         x.t = "open" /\ x.of \in Tagged!Block \cup {"pre"} => Tagged!AtLineStart(h)
  PROVE  Begun(Append(h, x))
<1>1. /\ Len(h) \in Nat /\ Len(Append(h, x)) = Len(h) + 1
      /\ \A i \in 1 .. Len(h) : Append(h, x)[i] = h[i]
      /\ Append(h, x)[Len(h) + 1] = x
  BY AppendIs
<1>2. Tagged!AtLineStart(h) => Len(h) = 0 \/ h[Len(h)] = Tagged!Nl
  BY SameLibrary DEF Tagged!AtLineStart, Last
<1> DEFINE q == Append(h, x)
<1> HIDE DEF q
<1>3. ASSUME NEW i \in 1 .. Len(h) + 1, q[i].t = "open", q[i].of \in Tagged!Block \cup {"pre"}
      PROVE  i = 1 \/ q[i - 1] = Tagged!Nl
  <2>1. CASE i \in 1 .. Len(h)
    <3>1. i = 1 \/ i - 1 \in 1 .. Len(h)
      BY <1>1, <2>1
    <3> QED BY <1>1, <1>3, <2>1, <3>1 DEF Begun, q
  <2>2. CASE i = Len(h) + 1
    <3>1. i = 1 \/ i - 1 \in 1 .. Len(h)
      BY <1>1, <2>2
    <3>2. x.t = "open" /\ x.of \in Tagged!Block \cup {"pre"} /\ i - 1 = Len(h)
      BY <1>1, <1>3, <2>2 DEF q
    <3>3. Len(h) = 0 \/ h[Len(h)] = Tagged!Nl
      BY <1>2, <3>2
    <3>4. CASE Len(h) = 0
      BY <2>2, <3>4
    <3>5. CASE Len(h) # 0
      <4>1. Len(h) \in 1 .. Len(h)
        BY <1>1, <3>5
      <4>2. q[Len(h)] = Tagged!Nl
        BY <1>1, <3>3, <3>5, <4>1 DEF q
      <4> QED BY <3>2, <4>2
    <3> QED BY <3>4, <3>5
  <2> QED BY <1>1, <2>1, <2>2
<1> QED BY <1>1, <1>3 DEF Begun, q

LEMMA KeptAppend ==
  ASSUME NEW h \in Seq(Tok), NEW x \in Tok, NEW t
  PROVE  /\ Kept(h, t) \subseteq 1 .. Len(h)
         /\ Kept(Append(h, x), t) = IF x.t = t THEN Kept(h, t) \cup {Len(h) + 1} ELSE Kept(h, t)
         /\ Cardinality(Kept(h, t)) \in Nat
         /\ Cardinality(Kept(Append(h, x), t)) = Cardinality(Kept(h, t)) + IF x.t = t THEN 1 ELSE 0
<1>1. /\ Len(h) \in Nat /\ Len(Append(h, x)) = Len(h) + 1
      /\ \A i \in 1 .. Len(h) : Append(h, x)[i] = h[i]
      /\ Append(h, x)[Len(h) + 1] = x
  BY AppendIs
<1>2. Kept(h, t) \subseteq 1 .. Len(h)
  BY DEF Kept
<1> DEFINE q == Append(h, x)
<1> HIDE DEF q
<1>3. Kept(q, t) = IF x.t = t THEN Kept(h, t) \cup {Len(h) + 1} ELSE Kept(h, t)
  BY <1>1 DEF Kept, q
<1>4. Cardinality(Kept(h, t)) \in Nat /\ Cardinality(Kept(h, t) \cup {Len(h) + 1}) = Cardinality(Kept(h, t)) + 1
  BY <1>1, <1>2, Counted
<1> QED BY <1>2, <1>3, <1>4 DEF q

LEMMA AltAppend ==
  ASSUME NEW h \in Seq(Tok), NEW x \in Tok, NEW alt \in {0, 1}, NEW alt2 \in {0, 1}, AltHeld(h, alt),
         \/ alt2 = alt /\ x.t \in {"text", "blank"}
         \/ alt = 0 /\ alt2 = 0 /\ x.t \notin {"alt", "end"}
         \/ alt = 0 /\ alt2 = 1 /\ x.t = "alt"
         \/ alt = 1 /\ alt2 = 0 /\ x.t = "end"
  PROVE  AltHeld(Append(h, x), alt2)
<1> DEFINE q == Append(h, x)
           N == Len(h)
           B == Kept(h, "alt")
           E == Kept(h, "end")
<1>1. /\ N \in Nat /\ Len(q) = N + 1 /\ q[N + 1] = x
      /\ \A i \in 1 .. N : q[i] = h[i]
  BY AppendIs
<1>2. /\ B \subseteq 1 .. N /\ E \subseteq 1 .. N
      /\ Kept(q, "alt") = IF x.t = "alt" THEN B \cup {N + 1} ELSE B
      /\ Kept(q, "end") = IF x.t = "end" THEN E \cup {N + 1} ELSE E
      /\ Cardinality(B) \in Nat /\ Cardinality(E) \in Nat
      /\ Cardinality(Kept(q, "alt")) = Cardinality(B) + IF x.t = "alt" THEN 1 ELSE 0
      /\ Cardinality(Kept(q, "end")) = Cardinality(E) + IF x.t = "end" THEN 1 ELSE 0
  BY KeptAppend
<1>3. /\ \A b \in B, i \in 1 .. N :
           b < i /\ (\A e \in E : ~(b < e /\ e <= i)) => h[i].t \in {"text", "blank"}
      /\ Cardinality(B) = Cardinality(E) + alt
      /\ alt = 0 => \A b \in B : \E e \in E : b < e
  BY DEF AltHeld
<1> HIDE DEF q, N, B, E
<1>4. Cardinality(Kept(q, "alt")) = Cardinality(Kept(q, "end")) + alt2
  BY <1>2, <1>3
<1>5. ASSUME alt2 = 0, NEW b \in Kept(q, "alt")
      PROVE  \E e \in Kept(q, "end") : b < e
  <2>1. b \in B
    BY <1>2, <1>5
  <2>2. CASE x.t = "end"
    <3>1. N + 1 \in Kept(q, "end") /\ b < N + 1
      BY <1>1, <1>2, <2>1, <2>2
    <3> QED BY <3>1
  <2>3. CASE x.t # "end"
    <3>1. alt = 0 /\ Kept(q, "end") = E
      BY <1>2, <1>5, <2>3
    <3> QED BY <1>3, <2>1, <3>1
  <2> QED BY <2>2, <2>3
<1>6. ASSUME NEW b \in Kept(q, "alt"), NEW i \in 1 .. N + 1, b < i,
             \A e \in Kept(q, "end") : ~(b < e /\ e <= i)
      PROVE  q[i].t \in {"text", "blank"}
  <2>1. b \in B
    BY <1>1, <1>2, <1>6
  <2>2. \A e \in E : e \in Kept(q, "end")
    BY <1>2
  <2>3. CASE i \in 1 .. N
    <3>1. h[i].t \in {"text", "blank"}
      BY <1>3, <1>6, <2>1, <2>2, <2>3
    <3> QED BY <1>1, <2>3, <3>1
  <2>4. CASE i = N + 1
    <3>1. x.t # "end"
      BY <1>1, <1>2, <1>6, <2>4
    <3>2. alt # 0
      <4>1. \A e \in E : e <= i
        BY <1>1, <1>2, <2>4
      <4> QED BY <1>3, <1>6, <2>1, <2>2, <4>1
    <3>3. x.t \in {"text", "blank"}
      BY <3>1, <3>2
    <3> QED BY <1>1, <2>4, <3>3
  <2> QED BY <1>1, <2>3, <2>4
<1>7. AltHeld(q, alt2)
  BY <1>1, <1>4, <1>5, <1>6 DEF AltHeld
<1> QED BY <1>7 DEF q

LEMMA TextAppend ==
  ASSUME NEW h \in Seq(Tok), NEW x \in Tok, NEW n \in Nat, NEW m \in Nat, NEW S, NEW R,
         TextHeld(h, n, S),
         \/ x.t # "text" /\ m = n /\ R = S
         \/ x = Tagged!Text(m) /\ n < m /\ R = S \cup {m}
  PROVE  TextHeld(Append(h, x), m, R)
<1> DEFINE q == Append(h, x)
           N == Len(h)
<1>1. /\ N \in Nat /\ Len(q) = N + 1 /\ q[N + 1] = x
      /\ \A i \in 1 .. N : q[i] = h[i]
  BY AppendIs
<1>2. /\ Kept(h, "text") \subseteq 1 .. N
      /\ Kept(q, "text") = IF x.t = "text" THEN Kept(h, "text") \cup {N + 1} ELSE Kept(h, "text")
  BY KeptAppend
<1>3. x.t = "text" => x.of = m /\ n < m
  BY DEF Tagged!Text, Tagged!Token
<1>4. n <= m
  OBVIOUS
<1> HIDE DEF q, N
<1>5. ASSUME NEW i \in Kept(q, "text")
      PROVE  q[i].of \in 1 .. m
  <2>1. CASE i \in Kept(h, "text")
    BY <1>1, <1>2, <1>4, <2>1 DEF TextHeld
  <2>2. CASE i \notin Kept(h, "text")
    BY <1>1, <1>2, <1>3, <1>5, <2>2
  <2> QED BY <2>1, <2>2
<1>6. ASSUME NEW i \in Kept(q, "text"), NEW j \in Kept(q, "text"), i < j
      PROVE  q[i].of < q[j].of
  <2>1. i \in Kept(h, "text") /\ i \in 1 .. N
    BY <1>1, <1>2, <1>6
  <2>2. CASE j \in Kept(h, "text")
    BY <1>1, <1>2, <1>6, <2>1, <2>2 DEF TextHeld
  <2>3. CASE j \notin Kept(h, "text")
    <3>1. j = N + 1 /\ x.t = "text"
      BY <1>2, <2>3
    <3>2. q[i].of \in 1 .. n
      BY <1>1, <2>1 DEF TextHeld
    <3> QED BY <1>1, <1>3, <3>1, <3>2
  <2> QED BY <2>2, <2>3
<1>7. ASSUME NEW l \in R
      PROVE  \E i \in 1 .. N + 1 : q[i] = Tagged!Text(l)
  <2>1. CASE l \in S
    <3>1. PICK i \in 1 .. N : h[i] = Tagged!Text(l)
      BY <2>1 DEF TextHeld, N
    <3> QED BY <1>1, <3>1
  <2>2. CASE l \notin S
    BY <1>1, <1>7, <2>2
  <2> QED BY <2>1, <2>2
<1>8. TextHeld(q, m, R)
  BY <1>1, <1>5, <1>6, <1>7 DEF TextHeld
<1> QED BY <1>8 DEF q

LEMMA TokenIs ==
  ASSUME NEW t \in {"open", "close", "void", "text", "raw", "alt", "end", "blank", "nl"},
         NEW o \in Names \cup Nat
  PROVE  /\ Tagged!Token(t, o) \in Tok
         /\ Tagged!Token(t, o).t = t /\ Tagged!Token(t, o).of = o
<1>1. Tagged!Token(t, o) = [t |-> t, of |-> o]
  BY Zenon DEF Tagged!Token
<1> QED BY <1>1 DEF Tok

LEMMA TokensAre ==
  /\ Tagged!Nl \in Tok /\ Tagged!Nl.t = "nl"
  /\ Tagged!Blank \in Tok /\ Tagged!Blank.t = "blank"
  /\ Tagged!AltBegin \in Tok /\ Tagged!AltBegin.t = "alt"
  /\ Tagged!AltEnd \in Tok /\ Tagged!AltEnd.t = "end"
  /\ \A n \in Nat : /\ Tagged!Raw(n) \in Tok /\ Tagged!Raw(n).t = "raw"
                    /\ Tagged!Text(n) \in Tok
  /\ \A k \in Names : /\ Tagged!Void(k) \in Tok /\ Tagged!Void(k).t = "void"
                      /\ Tagged!Open(k) \in Tok /\ Tagged!Close(k) \in Tok
<1>1. "" \in Names
  BY DEF Names
<1>2. /\ Tagged!Nl \in Tok /\ Tagged!Nl.t = "nl"
      /\ Tagged!Blank \in Tok /\ Tagged!Blank.t = "blank"
  BY <1>1, TokenIs DEF Tagged!Nl, Tagged!Blank
<1>3. /\ Tagged!AltBegin \in Tok /\ Tagged!AltBegin.t = "alt"
      /\ Tagged!AltEnd \in Tok /\ Tagged!AltEnd.t = "end"
  BY <1>1, TokenIs DEF Tagged!AltBegin, Tagged!AltEnd
<1>4. \A n \in Nat : /\ Tagged!Raw(n) \in Tok /\ Tagged!Raw(n).t = "raw"
                     /\ Tagged!Text(n) \in Tok
  BY TokenIs DEF Tagged!Raw, Tagged!Text
<1>5. \A k \in Names : /\ Tagged!Void(k) \in Tok /\ Tagged!Void(k).t = "void"
                       /\ Tagged!Open(k) \in Tok /\ Tagged!Close(k) \in Tok
  BY TokenIs DEF Tagged!Void, Tagged!Open, Tagged!Close
<1> QED BY <1>2, <1>3, <1>4, <1>5

LEMMA GoodAppend ==
  ASSUME NEW h, NEW st, NEW alt, NEW n, NEW S, Good(h, st, alt, n, S), NEW x \in Tok,
         NEW st2 \in Seq(Names), Stack(Append(h, x), st2),
         x.t = "open" /\ x.of \in Tagged!Block \cup {"pre"} => Tagged!AtLineStart(h),
         NEW alt2 \in {0, 1},
         \/ alt2 = alt /\ x.t \in {"text", "blank"}
         \/ alt = 0 /\ alt2 = 0 /\ x.t \notin {"alt", "end"}
         \/ alt = 0 /\ alt2 = 1 /\ x.t = "alt"
         \/ alt = 1 /\ alt2 = 0 /\ x.t = "end",
         NEW m \in Nat, NEW R,
         \/ x.t # "text" /\ m = n /\ R = S
         \/ x = Tagged!Text(m) /\ n < m /\ R = S \cup {m}
  PROVE  Good(Append(h, x), st2, alt2, m, R)
<1>1. h \in Seq(Tok) /\ st \in Seq(Names) /\ alt \in {0, 1} /\ n \in Nat
  BY DEF Good
<1>2. Append(h, x) \in Seq(Tok)
  BY <1>1, AppendIs
<1>3. Begun(Append(h, x))
  BY <1>1, BegunAppend DEF Good
<1>4. AltHeld(Append(h, x), alt2)
  BY <1>1, AltAppend DEF Good
<1>5. TextHeld(Append(h, x), m, R)
  BY <1>1, TextAppend DEF Good
<1> QED BY <1>2, <1>3, <1>4, <1>5 DEF Good

\* A piece that is no tag, no text and no alternative text
LEMMA GoodOther ==
  ASSUME NEW h, NEW st, NEW n, NEW S, Good(h, st, 0, n, S),
         NEW x \in Tok, x.t \in {"nl", "void", "raw"}
  PROVE  Good(Append(h, x), st, 0, n, S)
<1>1. h \in Seq(Tok) /\ st \in Seq(Names) /\ n \in Nat /\ Stack(h, st)
  BY DEF Good
<1>2. Stack(Append(h, x), st)
  BY <1>1, StackOther
<1> QED BY <1>1, <1>2, GoodAppend

LEMMA GoodBlank ==
  ASSUME NEW h, NEW st, NEW alt, NEW n, NEW S, Good(h, st, alt, n, S)
  PROVE  Good(Append(h, Tagged!Blank), st, alt, n, S)
<1>1. h \in Seq(Tok) /\ st \in Seq(Names) /\ n \in Nat /\ alt \in {0, 1} /\ Stack(h, st)
  BY DEF Good
<1>2. PICK x \in Tok : x = Tagged!Blank /\ x.t = "blank"
  BY TokensAre
<1>3. Stack(Append(h, x), st)
  BY <1>1, <1>2, StackOther
<1>4. Good(Append(h, x), st, alt, n, S)
  BY <1>1, <1>2, <1>3, GoodAppend
<1> QED BY <1>2, <1>4

LEMMA GoodText ==
  ASSUME NEW h, NEW st, NEW alt, NEW n, NEW S, Good(h, st, alt, n, S), NEW m \in Nat, n < m
  PROVE  Good(Append(h, Tagged!Text(m)), st, alt, m, S \cup {m})
<1>1. h \in Seq(Tok) /\ st \in Seq(Names) /\ n \in Nat /\ alt \in {0, 1} /\ Stack(h, st)
  BY DEF Good
<1>2. PICK x \in Tok : x = Tagged!Text(m) /\ x.t = "text"
  BY TokenIs DEF Tagged!Text
<1>3. Stack(Append(h, x), st)
  BY <1>1, <1>2, StackOther
<1>4. Good(Append(h, x), st, alt, m, S \cup {m})
  BY <1>1, <1>2, <1>3, GoodAppend
<1> QED BY <1>2, <1>4

LEMMA GoodAlt ==
  ASSUME NEW h, NEW st, NEW alt, NEW n, NEW S, Good(h, st, alt, n, S)
  PROVE  /\ alt = 0 => Good(Append(h, Tagged!AltBegin), st, 1, n, S)
         /\ alt = 1 => Good(Append(h, Tagged!AltEnd), st, 0, n, S)
<1>1. h \in Seq(Tok) /\ st \in Seq(Names) /\ n \in Nat /\ alt \in {0, 1} /\ Stack(h, st)
  BY DEF Good
<1>2. PICK x \in Tok : x = Tagged!AltBegin /\ x.t = "alt"
  BY TokensAre
<1>3. PICK y \in Tok : y = Tagged!AltEnd /\ y.t = "end"
  BY TokensAre
<1>4. Stack(Append(h, x), st) /\ Stack(Append(h, y), st)
  BY <1>1, <1>2, <1>3, StackOther
<1>5. alt = 0 => Good(Append(h, x), st, 1, n, S)
  BY <1>1, <1>2, <1>4, GoodAppend
<1>6. alt = 1 => Good(Append(h, y), st, 0, n, S)
  BY <1>1, <1>3, <1>4, GoodAppend
<1> QED BY <1>2, <1>3, <1>5, <1>6

LEMMA GoodOpen ==
  ASSUME NEW h, NEW st, NEW n, NEW S, Good(h, st, 0, n, S), NEW k \in Names,
         k \in Tagged!Block \cup {"pre"} => Tagged!AtLineStart(h)
  PROVE  Good(Append(h, Tagged!Open(k)), Append(st, k), 0, n, S)
<1>1. h \in Seq(Tok) /\ st \in Seq(Names) /\ n \in Nat /\ Stack(h, st)
  BY DEF Good
<1>2. PICK x \in Tok : x = Tagged!Open(k) /\ x.t = "open" /\ x.of = k
  BY TokenIs DEF Tagged!Open
<1>3. Stack(Append(h, x), Append(st, k)) /\ Append(st, k) \in Seq(Names)
  BY <1>1, <1>2, StackOpen, AppendIs
<1>4. Good(Append(h, x), Append(st, k), 0, n, S)
  BY <1>1, <1>2, <1>3, GoodAppend
<1> QED BY <1>2, <1>4

LEMMA GoodClose ==
  ASSUME NEW h, NEW st, NEW n, NEW S, Good(h, st, 0, n, S), st # <<>>, NEW k \in Names, k = Last(st)
  PROVE  Good(Append(h, Tagged!Close(k)), Front(st), 0, n, S)
<1>1. h \in Seq(Tok) /\ st \in Seq(Names) /\ n \in Nat /\ Stack(h, st)
  BY DEF Good
<1>2. PICK x \in Tok : x = Tagged!Close(k) /\ x.t = "close" /\ x.of = k
  BY TokenIs DEF Tagged!Close
<1>3. Stack(Append(h, x), Front(st)) /\ Front(st) \in Seq(Names)
  BY <1>1, <1>2, StackClose, FrontIs
<1>4. Good(Append(h, x), Front(st), 0, n, S)
  BY <1>1, <1>2, <1>3, GoodAppend
<1> QED BY <1>2, <1>4

LEMMA GoodCr ==
  ASSUME NEW h, NEW st, NEW n, NEW S, Good(h, st, 0, n, S)
  PROVE  Good(Tagged!Cr(h), st, 0, n, S) /\ Tagged!AtLineStart(Tagged!Cr(h))
<1>1. CASE Tagged!AtLineStart(h)
  BY <1>1 DEF Tagged!Cr
<1>2. CASE ~Tagged!AtLineStart(h)
  <2>1. Tagged!Cr(h) = Append(h, Tagged!Nl)
    BY <1>2 DEF Tagged!Cr
  <2>2. Good(Append(h, Tagged!Nl), st, 0, n, S)
    BY TokensAre, GoodOther
  <2>3. h \in Seq(Tok) /\ Tagged!Nl \in Tok
    BY TokensAre DEF Good
  <2>4. Last(Append(h, Tagged!Nl)) = Tagged!Nl
    <3>1. PICK x \in Tok : x = Tagged!Nl
      BY <2>3
    <3>2. Last(Append(h, x)) = x
      BY <2>3, AppendIs DEF Last
    <3> QED BY <3>1, <3>2
  <2> QED BY <2>1, <2>2, <2>4, SameLibrary DEF Tagged!AtLineStart
<1> QED BY <1>1, <1>2

LEMMA JoinOne ==
  ASSUME NEW T, NEW s \in Seq(T), NEW r \in Seq(T), NEW a \in T
  PROVE  s \o Append(r, a) = Append(s \o r, a) /\ s \o r \in Seq(T) /\ Append(r, a) \in Seq(T)
OBVIOUS

LEMMA JoinIs ==
  ASSUME NEW T, NEW s \in Seq(T), NEW a \in T, NEW b \in T
  PROVE  /\ s \o <<a, b>> = Append(Append(s, a), b)
         /\ \A c \in T : s \o <<a, b, c>> = Append(Append(Append(s, a), b), c)
         /\ \A c, d, e, f \in T : s \o <<a, b, c, d, e, f>> =
              Append(Append(Append(Append(Append(Append(s, a), b), c), d), e), f)
<1>1. s \o <<a, b>> = Append(Append(s, a), b) /\ <<a, b>> \in Seq(T) /\ s \o <<a, b>> \in Seq(T)
  <2>1. <<a, b>> = Append(<<a>>, b) /\ <<a>> \in Seq(T) /\ s \o <<a>> = Append(s, a)
    OBVIOUS
  <2> QED BY <2>1, JoinOne
<1>2. ASSUME NEW c \in T
      PROVE  /\ s \o <<a, b, c>> = Append(Append(Append(s, a), b), c)
             /\ <<a, b, c>> \in Seq(T)
  <2>1. <<a, b, c>> = Append(<<a, b>>, c)
    OBVIOUS
  <2> QED BY <1>1, <2>1, JoinOne
<1>3. ASSUME NEW c \in T, NEW d \in T, NEW e \in T, NEW f \in T
      PROVE  s \o <<a, b, c, d, e, f>> =
               Append(Append(Append(Append(Append(Append(s, a), b), c), d), e), f)
  <2>1. <<a, b, c, d>> = Append(<<a, b, c>>, d)
    OBVIOUS
  <2>2. <<a, b, c, d, e>> = Append(<<a, b, c, d>>, e)
    OBVIOUS
  <2>3. <<a, b, c, d, e, f>> = Append(<<a, b, c, d, e>>, f)
    OBVIOUS
  <2>4. /\ s \o <<a, b, c, d>> = Append(Append(Append(Append(s, a), b), c), d)
        /\ <<a, b, c, d>> \in Seq(T)
    BY <1>2, <2>1, JoinOne
  <2>5. /\ s \o <<a, b, c, d, e>> = Append(Append(Append(Append(Append(s, a), b), c), d), e)
        /\ <<a, b, c, d, e>> \in Seq(T)
    BY <2>2, <2>4, JoinOne
  <2> QED BY <2>3, <2>5, JoinOne
<1> QED BY <1>1, <1>2, <1>3

LEMMA GoodLater ==
  ASSUME NEW h, NEW st, NEW alt, NEW n, NEW S, Good(h, st, alt, n, S),
         NEW m \in Nat, n <= m, NEW R, R \subseteq S
  PROVE  Good(h, st, alt, m, R)
<1>1. n \in Nat /\ \A i \in 1 .. n : i \in 1 .. m
  BY DEF Good
<1>2. TextHeld(h, m, R)
  BY <1>1 DEF Good, TextHeld
<1> QED BY <1>2 DEF Good

LEMMA FrontAppend ==
  ASSUME NEW T, NEW s \in Seq(T), NEW x \in T
  PROVE  Front(Append(s, x)) = s /\ Last(Append(s, x)) = x /\ Append(s, x) # <<>>
BY DEF Front, Last

\* What a leaf writes
LEMMA LeafGood ==
  ASSUME NEW h, NEW st, NEW n, NEW S, Good(h, st, 0, n, S), NEW m \in Nat, n < m,
         NEW k \in Tagged!Leaf, option \in {"none", "hardbreaks", "nobreaks"},
         NEW q \in Tagged!LeafHtml(h, k, m)
  PROVE  Good(q, st, 0, m, IF k \in {"text", "code", "code_block"} THEN S \cup {m} ELSE S)
<1> DEFINE c == Tagged!Cr(h)
<1>1. h \in Seq(Tok) /\ st \in Seq(Names) /\ n \in Nat /\ n <= m
  BY DEF Good
<1>2. Good(c, st, 0, n, S) /\ Tagged!AtLineStart(c) /\ c \in Seq(Tok)
  <2>1. Good(c, st, 0, n, S) /\ Tagged!AtLineStart(c)
    BY GoodCr
  <2> QED BY <2>1 DEF Good
<1> HIDE DEF c
<1>3. \A r : Good(r, st, 0, n, S) => Good(r, st, 0, m, S)
  BY <1>1, GoodLater
<1>4. "hr" \in Names /\ "br" \in Names /\ "pre" \in Names /\ "code" \in Names
  BY DEF Names, Tagged!Block, Tagged!Inline
<1>5. \A r, x : Good(r, st, 0, n, S) /\ x \in {Tagged!Nl, Tagged!Void("hr"), Tagged!Void("br"), Tagged!Raw(m)}
                  => Good(Append(r, x), st, 0, n, S)
  BY <1>4, TokensAre, GoodOther
<1>6. CASE k = "hr"
  <2>1. q = c \o <<Tagged!Void("hr"), Tagged!Nl>>
    BY <1>6 DEF Tagged!LeafHtml, c
  <2>2. q = Append(Append(c, Tagged!Void("hr")), Tagged!Nl)
    <3>1. Tagged!Void("hr") \in Tok /\ Tagged!Nl \in Tok
      BY <1>4, TokensAre
    <3> QED BY <1>2, <2>1, <3>1, JoinIs
  <2> QED BY <1>2, <1>3, <1>5, <1>6, <2>2
<1>7. CASE k = "code_block"
  <2> DEFINE a1 == Append(c, Tagged!Open("pre"))
             a2 == Append(a1, Tagged!Open("code"))
             a3 == Append(a2, Tagged!Text(m))
             a4 == Append(a3, Tagged!Close("code"))
             a5 == Append(a4, Tagged!Close("pre"))
             s1 == Append(st, "pre")
             s2 == Append(s1, "code")
  <2>1. q = c \o <<Tagged!Open("pre"), Tagged!Open("code"), Tagged!Text(m), Tagged!Close("code"),
                   Tagged!Close("pre"), Tagged!Nl>>
    BY <1>7 DEF Tagged!LeafHtml, c
  <2>2. q = Append(a5, Tagged!Nl)
    BY <1>2, <1>4, <2>1, TokensAre, JoinIs
  <2>3. /\ s1 \in Seq(Names) /\ Front(s1) = st /\ Last(s1) = "pre" /\ s1 # <<>>
        /\ s2 \in Seq(Names) /\ Front(s2) = s1 /\ Last(s2) = "code" /\ s2 # <<>>
    <3>1. s1 \in Seq(Names) /\ Front(s1) = st /\ Last(s1) = "pre" /\ s1 # <<>>
      BY <1>1, <1>4, AppendIs, FrontAppend
    <3> HIDE DEF s1
    <3> QED BY <1>4, <3>1, AppendIs, FrontAppend
  <2>4. Good(a1, s1, 0, n, S)
    BY <1>2, <1>4, GoodOpen
  <2> HIDE DEF a1
  <2>5. "code" \notin Tagged!Block \cup {"pre"}
    BY DEF Tagged!Block
  <2> HIDE DEF s1
  <2>6. Good(a2, s2, 0, n, S)
    BY <1>4, <2>4, <2>5, GoodOpen
  <2> HIDE DEF a2, s2
  <2>7. Good(a3, s2, 0, m, S \cup {m})
    BY <2>6, GoodText
  <2> HIDE DEF a3
  <2>8. Good(a4, s1, 0, m, S \cup {m})
    BY <1>4, <2>3, <2>7, GoodClose
  <2> HIDE DEF a4
  <2>9. Good(a5, st, 0, m, S \cup {m})
    BY <1>4, <2>3, <2>8, GoodClose
  <2> HIDE DEF a5
  <2>10. Good(Append(a5, Tagged!Nl), st, 0, m, S \cup {m})
    BY <2>9, TokensAre, GoodOther
  <2> QED BY <1>7, <2>2, <2>10
<1>8. CASE k = "html_block"
  <2> DEFINE r == Append(c, Tagged!Raw(m))
  <2>1. q = Tagged!Cr(r) \/ q = Append(r, Tagged!Nl)
    BY <1>8 DEF Tagged!LeafHtml, c
  <2>2. Good(r, st, 0, n, S)
    BY <1>2, <1>5
  <2> HIDE DEF r
  <2>3. Good(Tagged!Cr(r), st, 0, n, S) /\ Good(Append(r, Tagged!Nl), st, 0, n, S)
    BY <1>5, <2>2, GoodCr
  <2> QED BY <1>3, <1>8, <2>1, <2>3
<1>9. CASE k = "text"
  <2>1. q = Append(h, Tagged!Text(m))
    BY <1>9 DEF Tagged!LeafHtml
  <2> QED BY <1>9, <2>1, GoodText
<1>10. CASE k = "linebreak" \/ k = "softbreak"
  <2>1. \/ q = h \o <<Tagged!Void("br"), Tagged!Nl>>
        \/ q = Append(h, Tagged!Blank)
        \/ q = Append(h, Tagged!Nl)
    BY <1>10 DEF Tagged!LeafHtml, Tagged!SoftBreak
  <2>2. h \o <<Tagged!Void("br"), Tagged!Nl>> = Append(Append(h, Tagged!Void("br")), Tagged!Nl)
    <3>1. Tagged!Void("br") \in Tok /\ Tagged!Nl \in Tok
      BY <1>4, TokensAre
    <3> QED BY <1>1, <3>1, JoinIs
  <2>3. Good(q, st, 0, n, S)
    BY <1>5, <2>1, <2>2, GoodBlank
  <2> QED BY <1>3, <1>10, <2>3
<1>11. CASE k = "code"
  <2> DEFINE a1 == Append(h, Tagged!Open("code"))
             a2 == Append(a1, Tagged!Text(m))
             s1 == Append(st, "code")
  <2>1. q = h \o <<Tagged!Open("code"), Tagged!Text(m), Tagged!Close("code")>>
    BY <1>11 DEF Tagged!LeafHtml
  <2>2. q = Append(a2, Tagged!Close("code"))
    BY <1>1, <1>4, <2>1, TokensAre, JoinIs
  <2>3. s1 \in Seq(Names) /\ Front(s1) = st /\ Last(s1) = "code" /\ s1 # <<>>
    BY <1>1, <1>4, AppendIs, FrontAppend
  <2>4. "code" \notin Tagged!Block \cup {"pre"}
    BY DEF Tagged!Block
  <2>5. Good(a1, s1, 0, n, S)
    BY <1>4, <2>4, GoodOpen
  <2> HIDE DEF a1, s1
  <2>6. Good(a2, s1, 0, m, S \cup {m})
    BY <2>5, GoodText
  <2> HIDE DEF a2
  <2>7. Good(Append(a2, Tagged!Close("code")), st, 0, m, S \cup {m})
    BY <1>4, <2>3, <2>6, GoodClose
  <2> QED BY <1>11, <2>2, <2>7
<1>12. CASE k = "html_inline"
  <2>1. q = Append(h, Tagged!Raw(m))
    BY <1>12 DEF Tagged!LeafHtml
  <2> QED BY <1>3, <1>5, <1>12, <2>1
<1> QED BY <1>6, <1>7, <1>8, <1>9, <1>10, <1>11, <1>12 DEF Tagged!Leaf

\* What it writes in an alternative text
LEMMA PlainGood ==
  ASSUME NEW h, NEW st, NEW n, NEW S, Good(h, st, 1, n, S), NEW m \in Nat, n < m,
         NEW k \in Tagged!Leaf \cap Tagged!Inline
  PROVE  Good(Tagged!PlainHtml(h, k, m), st, 1, m,
              IF k \in {"text", "code", "code_block"} THEN S \cup {m} ELSE S)
<1> DEFINE q == Tagged!PlainHtml(h, k, m)
<1>1. k \in {"text", "code", "softbreak", "linebreak", "html_inline"}
  BY DEF Tagged!Leaf, Tagged!Inline
<1>2. n \in Nat /\ n <= m /\ m <= m /\ S \subseteq S \cup {m} /\ S \subseteq S
  BY DEF Good
<1>3. CASE k \in {"text", "code", "html_inline"}
  <2>1. q = Append(h, Tagged!Text(m))
    BY <1>3 DEF Tagged!PlainHtml
  <2>2. Good(q, st, 1, m, S \cup {m})
    BY <2>1, GoodText
  <2> HIDE DEF q
  <2>3. Good(q, st, 1, m, S)
    BY <1>2, <2>2, GoodLater
  <2> QED BY <2>2, <2>3 DEF q
<1>4. CASE k \in {"softbreak", "linebreak"}
  <2>1. q = Append(h, Tagged!Blank)
    BY <1>4 DEF Tagged!PlainHtml
  <2>2. Good(q, st, 1, n, S)
    BY <2>1, GoodBlank
  <2> HIDE DEF q
  <2>3. Good(q, st, 1, m, S)
    BY <1>2, <2>2, GoodLater
  <2> QED BY <1>4, <2>3 DEF q
<1> QED BY <1>1, <1>3, <1>4

\* Whether a node has a tag of its own in the HTML
HasTag(k, above) == /\ k \notin {"document", "custom_block", "custom_inline", "image"}
                    /\ k = "paragraph" => ~Tagged!Tight(above)
Shelf == (Tagged!Block \cup Tagged!Inline) \ Tagged!Leaf

LEMMA ShelfIs ==
  /\ Shelf = {"document", "block_quote", "list", "item", "paragraph", "heading", "custom_block",
              "emph", "link", "image", "custom_inline"}
  /\ Shelf \subseteq Names
  /\ "emph" \notin Tagged!Block \cup {"pre"} /\ "link" \notin Tagged!Block \cup {"pre"}
BY DEF Shelf, Names, Tagged!Block, Tagged!Inline, Tagged!Leaf

\* What the begin of a node writes, unless in an alternative text
LEMMA EnterGood ==
  ASSUME NEW h, NEW st, NEW n, NEW S, Good(h, st, 0, n, S), NEW m \in Nat,
         NEW k \in Shelf, NEW above
  PROVE  Good(Tagged!EnterHtml(h, k, m, above), IF HasTag(k, above) THEN Append(st, k) ELSE st,
              IF k = "image" THEN 1 ELSE 0, n, S)
<1> DEFINE q == Tagged!EnterHtml(h, k, m, above)
           c == Tagged!Cr(h)
           G == Good(q, IF HasTag(k, above) THEN Append(st, k) ELSE st,
                     IF k = "image" THEN 1 ELSE 0, n, S)
<1> SUFFICES G
  OBVIOUS
<1>1. h \in Seq(Tok) /\ st \in Seq(Names) /\ n \in Nat
  BY DEF Good
<1>2. Good(c, st, 0, n, S) /\ Tagged!AtLineStart(c) /\ c \in Seq(Tok)
  <2>1. Good(c, st, 0, n, S) /\ Tagged!AtLineStart(c)
    BY GoodCr
  <2> QED BY <2>1 DEF Good
<1> HIDE DEF c
<1>3. k \in Names
  BY ShelfIs
<1>4. Tagged!Open(k) \in Tok /\ Tagged!Nl \in Tok /\ Tagged!Raw(m) \in Tok /\ Tagged!Raw(m).t = "raw"
      /\ Tagged!Nl.t = "nl"
  BY <1>3, TokensAre
<1>5. Good(Append(c, Tagged!Open(k)), Append(st, k), 0, n, S)
  BY <1>2, <1>3, GoodOpen
<1>6. CASE k \in {"block_quote", "list"}
  <2>1. q = c \o <<Tagged!Open(k), Tagged!Nl>> /\ HasTag(k, above)
    BY <1>6 DEF Tagged!EnterHtml, HasTag, c
  <2>2. q = Append(Append(c, Tagged!Open(k)), Tagged!Nl)
    BY <1>2, <1>4, <2>1, JoinIs
  <2>3. Good(q, Append(st, k), 0, n, S)
    BY <1>4, <1>5, <2>2, GoodOther
  <2> QED BY <1>6, <2>1, <2>3
<1>7. CASE k \in {"item", "heading"} \/ (k = "paragraph" /\ ~Tagged!Tight(above))
  <2>1. q = Append(c, Tagged!Open(k)) /\ HasTag(k, above)
    BY <1>7 DEF Tagged!EnterHtml, HasTag, c
  <2> QED BY <1>5, <1>7, <2>1
<1>8. CASE k = "document" \/ (k = "paragraph" /\ Tagged!Tight(above))
  <2>1. q = h /\ ~HasTag(k, above)
    BY <1>8 DEF Tagged!EnterHtml, HasTag
  <2> QED BY <1>8, <2>1
<1>9. CASE k = "custom_block"
  <2>1. q = Tagged!Cr(Append(c, Tagged!Raw(m))) /\ ~HasTag(k, above)
    BY <1>9 DEF Tagged!EnterHtml, HasTag, c
  <2>2. Good(Append(c, Tagged!Raw(m)), st, 0, n, S)
    BY <1>2, <1>4, GoodOther
  <2>3. Good(q, st, 0, n, S)
    BY <2>1, <2>2, GoodCr
  <2> QED BY <1>9, <2>1, <2>3
<1>10. CASE k = "custom_inline"
  <2>1. q = Append(h, Tagged!Raw(m)) /\ ~HasTag(k, above)
    BY <1>10 DEF Tagged!EnterHtml, HasTag
  <2>2. Good(q, st, 0, n, S)
    BY <1>4, <2>1, GoodOther
  <2> QED BY <1>10, <2>1, <2>2
<1>11. CASE k = "image"
  <2>1. q = Append(h, Tagged!AltBegin) /\ ~HasTag(k, above)
    BY <1>11 DEF Tagged!EnterHtml, HasTag
  <2> QED BY <1>11, <2>1, GoodAlt
<1>12. CASE k \in {"emph", "link"}
  <2>1. q = Append(h, Tagged!Open(k)) /\ HasTag(k, above)
    BY <1>12 DEF Tagged!EnterHtml, HasTag
  <2>2. Good(q, Append(st, k), 0, n, S)
    BY <1>3, <1>12, <2>1, ShelfIs, GoodOpen
  <2> QED BY <1>12, <2>1, <2>2
<1>13. k \in {"document", "block_quote", "list", "item", "paragraph", "heading", "custom_block",
              "emph", "link", "image", "custom_inline"}
  BY ShelfIs
<1> HIDE DEF G
<1>14. CASE k = "paragraph"
  <2>1. CASE Tagged!Tight(above)
    BY <1>8, <1>14, <2>1
  <2>2. CASE ~Tagged!Tight(above)
    BY <1>7, <1>14, <2>2
  <2> QED BY <2>1, <2>2
<1>15. CASE k \in {"item", "heading", "document"}
  BY <1>7, <1>8, <1>15
<1> QED BY <1>6, <1>9, <1>10, <1>11, <1>12, <1>13, <1>14, <1>15

LEMMA ExitGood ==
  ASSUME NEW h, NEW st, NEW alt, NEW n, NEW S, Good(h, st, alt, n, S), NEW m \in Nat,
         NEW k \in Shelf, NEW above, k = "image" <=> alt = 1,
         HasTag(k, above) => st # <<>> /\ Last(st) = k
  PROVE  Good(Tagged!ExitHtml(h, k, m, above), IF HasTag(k, above) THEN Front(st) ELSE st, 0, n, S)
<1> DEFINE q == Tagged!ExitHtml(h, k, m, above)
           c == Tagged!Cr(h)
           G == Good(q, IF HasTag(k, above) THEN Front(st) ELSE st, 0, n, S)
<1> SUFFICES G
  OBVIOUS
<1>1. h \in Seq(Tok) /\ st \in Seq(Names) /\ n \in Nat /\ alt \in {0, 1}
  BY DEF Good
<1>2. CASE k = "image"
  <2>1. q = Append(h, Tagged!AltEnd) /\ ~HasTag(k, above)
    BY <1>2 DEF Tagged!ExitHtml, HasTag
  <2> QED BY <1>2, <2>1, GoodAlt
<1>3. CASE k # "image"
  <2>1. Good(h, st, 0, n, S)
    BY <1>1, <1>3
  <2>2. Good(c, st, 0, n, S) /\ c \in Seq(Tok)
    <3>1. Good(c, st, 0, n, S)
      BY <2>1, GoodCr
    <3> QED BY <3>1 DEF Good
  <2> HIDE DEF c
  <2>3. k \in Names
    BY ShelfIs
  <2>4. Tagged!Close(k) \in Tok /\ Tagged!Nl \in Tok /\ Tagged!Raw(m) \in Tok /\ Tagged!Raw(m).t = "raw"
        /\ Tagged!Nl.t = "nl"
    BY <2>3, TokensAre
  <2>5. ASSUME HasTag(k, above)
        PROVE  /\ Good(Append(c, Tagged!Close(k)), Front(st), 0, n, S)
               /\ Good(Append(h, Tagged!Close(k)), Front(st), 0, n, S)
    BY <2>1, <2>2, <2>3, <2>5, GoodClose
  <2>6. CASE k = "block_quote"
    <3>1. q = c \o <<Tagged!Close(k), Tagged!Nl>> /\ HasTag(k, above)
      BY <2>6 DEF Tagged!ExitHtml, HasTag, c
    <3>2. q = Append(Append(c, Tagged!Close(k)), Tagged!Nl)
      BY <2>2, <2>4, <3>1, JoinIs
    <3>3. Good(q, Front(st), 0, n, S)
      BY <2>4, <2>5, <3>1, <3>2, GoodOther
    <3> QED BY <3>1, <3>3
  <2>7. CASE k \in {"list", "item", "heading"} \/ (k = "paragraph" /\ ~Tagged!Tight(above))
    <3>1. q = h \o <<Tagged!Close(k), Tagged!Nl>> /\ HasTag(k, above)
      BY <2>7 DEF Tagged!ExitHtml, HasTag
    <3>2. q = Append(Append(h, Tagged!Close(k)), Tagged!Nl)
      BY <1>1, <2>4, <3>1, JoinIs
    <3>3. Good(q, Front(st), 0, n, S)
      BY <2>4, <2>5, <3>1, <3>2, GoodOther
    <3> QED BY <3>1, <3>3
  <2>8. CASE k = "document" \/ (k = "paragraph" /\ Tagged!Tight(above))
    <3>1. q = h /\ ~HasTag(k, above)
      BY <2>8 DEF Tagged!ExitHtml, HasTag
    <3> QED BY <2>1, <3>1
  <2>9. CASE k = "custom_block"
    <3>1. q = Tagged!Cr(Append(c, Tagged!Raw(m))) /\ ~HasTag(k, above)
      BY <2>9 DEF Tagged!ExitHtml, HasTag, c
    <3>2. Good(Append(c, Tagged!Raw(m)), st, 0, n, S)
      BY <2>2, <2>4, GoodOther
    <3>3. Good(q, st, 0, n, S)
      BY <3>1, <3>2, GoodCr
    <3> QED BY <3>1, <3>3
  <2>10. CASE k = "custom_inline"
    <3>1. q = Append(h, Tagged!Raw(m)) /\ ~HasTag(k, above)
      BY <2>10 DEF Tagged!ExitHtml, HasTag
    <3>2. Good(q, st, 0, n, S)
      BY <2>1, <2>4, <3>1, GoodOther
    <3> QED BY <3>1, <3>2
  <2>11. CASE k \in {"emph", "link"}
    <3>1. q = Append(h, Tagged!Close(k)) /\ HasTag(k, above)
      BY <2>11 DEF Tagged!ExitHtml, HasTag
    <3> QED BY <2>5, <3>1
  <2>12. k \in {"document", "block_quote", "list", "item", "paragraph", "heading", "custom_block",
                "emph", "link", "image", "custom_inline"}
    BY ShelfIs
  <2> HIDE DEF G
  <2>13. CASE k = "paragraph"
    <3>1. CASE Tagged!Tight(above)
      BY <2>8, <2>13, <3>1
    <3>2. CASE ~Tagged!Tight(above)
      BY <2>7, <2>13, <3>2
    <3> QED BY <3>1, <3>2
  <2>14. CASE k \in {"list", "item", "heading", "document"}
    BY <2>7, <2>8, <2>14
  <2> QED BY <1>3, <2>6, <2>9, <2>10, <2>11, <2>12, <2>13, <2>14
<1> QED BY <1>2, <1>3

-----------------------------------------------------------------------------
(* The nodes that are open. *)

Nodes == [kind : Tagged!Block \cup Tagged!Inline, id : Nat, tight : BOOLEAN, children : BOOLEAN,
          entered : BOOLEAN]
\* Those with tags in the HTML, and those with tags in the XML
Tags(o) == {n \in 1 .. Len(o) :
              /\ o[n].kind \notin {"document", "custom_block", "custom_inline", "image"}
              /\ o[n].kind = "paragraph" => ~(n > 2 /\ o[n - 2].kind = "list" /\ o[n - 2].tight)}
Parents(o) == {n \in 1 .. Len(o) : o[n].children}
\* T[n] are the tags of the first n nodes, of those below the root that are in B.
Trail(o, r, T, B) ==
  /\ T[r] = <<>>
  /\ \A n \in r .. Len(o) : T[n] \in Seq(Names)
  /\ \A n \in r + 1 .. Len(o) : T[n] = IF n \in B THEN Append(T[n - 1], o[n].kind) ELSE T[n - 1]
\* a is like b up to n, but for what was entered.
Alike(a, b, n) == \A i \in 1 .. n : /\ a[i].kind = b[i].kind /\ a[i].id = b[i].id
                                    /\ a[i].tight = b[i].tight /\ a[i].children = b[i].children

LEMMA TagsAlike ==
  ASSUME NEW a \in Seq(Nodes), NEW b \in Seq(Nodes), NEW n \in Nat, n <= Len(a), n <= Len(b),
         Alike(a, b, n)
  PROVE  \A i \in 1 .. n : /\ i \in Tags(a) <=> i \in Tags(b)
                           /\ i \in Parents(a) <=> i \in Parents(b)
<1> SUFFICES ASSUME NEW i \in 1 .. n
             PROVE  /\ i \in Tags(a) <=> i \in Tags(b)
                    /\ i \in Parents(a) <=> i \in Parents(b)
  OBVIOUS
<1>1. i \in 1 .. Len(a) /\ i \in 1 .. Len(b)
  OBVIOUS
<1>2. i > 2 => i - 2 \in 1 .. n
  OBVIOUS
<1>3. i \in Parents(a) <=> i \in Parents(b)
  BY <1>1 DEF Parents, Alike
<1>4. i \in Tags(a) <=> i \in Tags(b)
  BY <1>1, <1>2 DEF Tags, Alike
<1> QED BY <1>3, <1>4

LEMMA TrailAlike ==
  ASSUME NEW a \in Seq(Nodes), NEW b \in Seq(Nodes), NEW r \in Nat, NEW T, NEW A, NEW B,
         Len(b) <= Len(a), Alike(a, b, Len(b)), r <= Len(b),
         \A i \in 1 .. Len(b) : i \in A <=> i \in B, Trail(a, r, T, A)
  PROVE  Trail(b, r, T, B)
<1>1. \A n \in r .. Len(b) : n \in r .. Len(a)
  OBVIOUS
<1>2. \A n \in r + 1 .. Len(b) : n \in r + 1 .. Len(a) /\ n \in 1 .. Len(b)
  OBVIOUS
<1>3. \A n \in r + 1 .. Len(b) : T[n] = IF n \in B THEN Append(T[n - 1], b[n].kind) ELSE T[n - 1]
  BY <1>2 DEF Trail, Alike
<1> QED BY <1>1, <1>3 DEF Trail

LEMMA TrailLonger ==
  ASSUME NEW a \in Seq(Nodes), NEW b \in Seq(Nodes), NEW r \in Nat, NEW T, NEW A, NEW B,
         Len(b) = Len(a) + 1, Alike(a, b, Len(a)), r <= Len(a), b[Len(b)].kind \in Names,
         \A i \in 1 .. Len(a) : i \in A <=> i \in B, Trail(a, r, T, A)
  PROVE  \E U : /\ Trail(b, r, U, B)
                /\ \A n \in r .. Len(a) : U[n] = T[n]
                /\ U[Len(b)] = IF Len(b) \in B THEN Append(T[Len(a)], b[Len(b)].kind) ELSE T[Len(a)]
<1> DEFINE N == Len(a)
           k == b[Len(b)].kind
           last1 == IF Len(b) \in B THEN Append(T[N], k) ELSE T[N]
           U == [n \in r .. N + 1 |-> IF n = N + 1 THEN last1 ELSE T[n]]
<1>1. N \in Nat /\ Len(b) = N + 1 /\ r <= N
  OBVIOUS
<1>2. T[N] \in Seq(Names) /\ k \in Names
  BY DEF Trail
<1>3. last1 \in Seq(Names)
  <2> HIDE DEF k
  <2> QED BY <1>2
<1> HIDE DEF N, last1, k
<1>4. U[N + 1] = last1 /\ \A n \in r .. N : U[n] = T[n]
  BY <1>1
<1>5. U[r] = <<>> /\ \A n \in r .. N : U[n] \in Seq(Names)
  BY <1>1, <1>4 DEF Trail, N
<1> HIDE DEF U
<1>6. \A n \in r .. N + 1 : U[n] \in Seq(Names)
  BY <1>1, <1>3, <1>4, <1>5
<1>7. ASSUME NEW n \in r + 1 .. N + 1
      PROVE  U[n] = IF n \in B THEN Append(U[n - 1], b[n].kind) ELSE U[n - 1]
  <2>1. CASE n = N + 1
    BY <1>1, <1>4, <2>1 DEF last1, k
  <2>2. CASE n # N + 1
    <3>1. n \in r + 1 .. Len(a) /\ n \in 1 .. Len(a) /\ n \in r .. N /\ n - 1 \in r .. N
      BY <1>1, <2>2 DEF N
    <3>2. T[n] = IF n \in A THEN Append(T[n - 1], a[n].kind) ELSE T[n - 1]
      BY <3>1 DEF Trail
    <3> QED BY <1>4, <3>1, <3>2 DEF Alike
  <2> QED BY <2>1, <2>2
<1>8. Trail(b, r, U, B)
  BY <1>1, <1>5, <1>6, <1>7 DEF Trail
<1> QED BY <1>1, <1>4, <1>8 DEF last1, k, N

\* The HTML h is what the nodes o that are open, those below r, leave open; p is state->plain.
Writes(o, r, h, p, n, S) ==
  \E T, m :
    /\ Trail(o, r, T, Tags(o))
    /\ m \in r .. Len(o)
    /\ Good(h, T[m], IF p = 0 THEN 0 ELSE 1, n, S)
    /\ p = 0 => m = Len(o)
    /\ p # 0 => /\ m > r /\ o[m].id = p /\ o[m].kind = "image"
                /\ \A i \in m + 1 .. Len(o) : o[i].kind \in Tagged!Inline
    /\ \A i \in r + 1 .. Len(o) : o[i].kind = "image" => p # 0 /\ i >= m

LEMMA InImage ==
  ASSUME NEW o \in Seq(Nodes), NEW r \in Nat, NEW h, NEW p, NEW n, NEW S, Writes(o, r, h, p, n, S),
         p # 0
  PROVE  Len(o) > r /\ o # <<>> /\ Last(o).kind \in Tagged!Inline
<1>1. PICK T, m : /\ m \in r .. Len(o) /\ m > r /\ o[m].kind = "image"
                  /\ \A i \in m + 1 .. Len(o) : o[i].kind \in Tagged!Inline
  BY DEF Writes
<1>2. Len(o) \in Nat /\ Len(o) > r /\ o # <<>>
  BY <1>1
<1>3. o[Len(o)].kind \in Tagged!Inline
  <2>1. "image" \in Tagged!Inline
    BY DEF Tagged!Inline
  <2>2. m = Len(o) \/ Len(o) \in m + 1 .. Len(o)
    BY <1>1, <1>2
  <2> QED BY <1>1, <2>1, <2>2
<1> QED BY <1>2, <1>3 DEF Last

LEMMA WritesLeaf ==
  ASSUME NEW o \in Seq(Nodes), NEW r \in Nat, NEW h, NEW p, NEW n \in Nat, NEW S,
         Writes(o, r, h, p, n, S), option \in {"none", "hardbreaks", "nobreaks"},
         NEW a \in Seq(Nodes), Len(a) = Len(o), Alike(o, a, Len(o)),
         NEW k \in Tagged!Leaf, p # 0 => k \in Tagged!Inline, NEW q,
         IF p # 0 THEN q = Tagged!PlainHtml(h, k, n + 1) ELSE q \in Tagged!LeafHtml(h, k, n + 1)
  PROVE  Writes(a, r, q, p, n + 1, IF k \in {"text", "code", "code_block"} THEN S \cup {n + 1} ELSE S)
<1> DEFINE S2 == IF k \in {"text", "code", "code_block"} THEN S \cup {n + 1} ELSE S
           alt == IF p = 0 THEN 0 ELSE 1
<1>1. PICK T, m :
        /\ Trail(o, r, T, Tags(o))
        /\ m \in r .. Len(o)
        /\ Good(h, T[m], alt, n, S)
        /\ p = 0 => m = Len(o)
        /\ p # 0 => /\ m > r /\ o[m].id = p /\ o[m].kind = "image"
                    /\ \A i \in m + 1 .. Len(o) : o[i].kind \in Tagged!Inline
        /\ \A i \in r + 1 .. Len(o) : o[i].kind = "image" => p # 0 /\ i >= m
  BY DEF Writes
<1>2. n + 1 \in Nat /\ n < n + 1 /\ Len(o) \in Nat
  OBVIOUS
<1>3. Good(q, T[m], alt, n + 1, S2)
  <2>1. CASE p = 0
    <3>1. Good(h, T[m], 0, n, S) /\ q \in Tagged!LeafHtml(h, k, n + 1)
      BY <1>1, <2>1
    <3>2. Good(q, T[m], 0, n + 1, S2)
      BY <1>2, <3>1, LeafGood
    <3> QED BY <2>1, <3>2
  <2>2. CASE p # 0
    <3>1. Good(h, T[m], 1, n, S) /\ q = Tagged!PlainHtml(h, k, n + 1)
      BY <1>1, <2>2
    <3>2. Good(q, T[m], 1, n + 1, S2)
      BY <1>2, <2>2, <3>1, PlainGood
    <3> QED BY <2>2, <3>2
  <2> QED BY <2>1, <2>2
<1> HIDE DEF S2, alt
<1>4. Trail(a, r, T, Tags(a))
  <2>1. \A i \in 1 .. Len(a) : i \in Tags(o) <=> i \in Tags(a)
    BY <1>2, TagsAlike
  <2>2. r <= Len(a) /\ Len(a) <= Len(o) /\ Alike(o, a, Len(a))
    BY <1>1
  <2> QED BY <1>1, <2>1, <2>2, TrailAlike
<1>5. \A i \in 1 .. Len(o) : a[i].kind = o[i].kind /\ a[i].id = o[i].id
  BY DEF Alike
<1>6. /\ \A i \in r + 1 .. Len(o) : i \in 1 .. Len(o)
      /\ \A i \in m + 1 .. Len(o) : i \in 1 .. Len(o)
      /\ p # 0 => m \in 1 .. Len(o)
  BY <1>1, <1>2
<1>7. /\ m \in r .. Len(a)
      /\ p = 0 => m = Len(a)
      /\ p # 0 => /\ m > r /\ a[m].id = p /\ a[m].kind = "image"
                  /\ \A i \in m + 1 .. Len(a) : a[i].kind \in Tagged!Inline
      /\ \A i \in r + 1 .. Len(a) : a[i].kind = "image" => p # 0 /\ i >= m
  BY <1>1, <1>5, <1>6
<1> QED BY <1>3, <1>4, <1>7 DEF Writes, S2, alt

LEMMA WritesEnter ==
  ASSUME NEW o \in Seq(Nodes), NEW r \in Nat, NEW h, NEW p, NEW n \in Nat, NEW S,
         Writes(o, r, h, p, n, S),
         NEW a \in Seq(Nodes), Len(a) = Len(o) + 1, Alike(o, a, Len(o)),
         NEW k \in Shelf, p # 0 => k \in Tagged!Inline, a[Len(a)].kind = k, a[Len(a)].id = n + 1,
         NEW q, q = IF p # 0 THEN h ELSE Tagged!EnterHtml(h, k, n + 1, o)
  PROVE  Writes(a, r, q, IF p = 0 /\ k = "image" THEN n + 1 ELSE p, n + 1, S)
<1> DEFINE p2 == IF p = 0 /\ k = "image" THEN n + 1 ELSE p
           alt == IF p = 0 THEN 0 ELSE 1
           N == Len(o)
<1>1. PICK T, m :
        /\ Trail(o, r, T, Tags(o))
        /\ m \in r .. Len(o)
        /\ Good(h, T[m], alt, n, S)
        /\ p = 0 => m = Len(o)
        /\ p # 0 => /\ m > r /\ o[m].id = p /\ o[m].kind = "image"
                    /\ \A i \in m + 1 .. Len(o) : o[i].kind \in Tagged!Inline
        /\ \A i \in r + 1 .. Len(o) : o[i].kind = "image" => p # 0 /\ i >= m
  BY DEF Writes
<1>2. n + 1 \in Nat /\ n <= n + 1 /\ N \in Nat /\ Len(a) = N + 1 /\ r <= N /\ n + 1 # 0
  BY <1>1
<1>3. PICK U : /\ Trail(a, r, U, Tags(a))
               /\ \A i \in r .. N : U[i] = T[i]
               /\ U[N + 1] = IF N + 1 \in Tags(a) THEN Append(T[N], k) ELSE T[N]
  <2>1. \A i \in 1 .. Len(o) : i \in Tags(o) <=> i \in Tags(a)
    BY <1>2, TagsAlike
  <2>2. Alike(a, o, Len(o)) /\ r <= Len(o) /\ a[Len(a)].kind \in Names
    BY <1>1, ShelfIs DEF Alike
  <2>3. \E U : /\ Trail(a, r, U, Tags(a))
               /\ \A i \in r .. Len(o) : U[i] = T[i]
               /\ U[Len(a)] = IF Len(a) \in Tags(a) THEN Append(T[Len(o)], a[Len(a)].kind)
                                                    ELSE T[Len(o)]
    BY <1>1, <2>1, <2>2, TrailLonger
  <2> QED BY <1>2, <2>3
<1>4. N + 1 \in Tags(a) <=> HasTag(k, o)
  <2>1. N + 1 \in 1 .. Len(a) /\ a[N + 1].kind = k /\ (N > 1 => N - 1 \in 1 .. N)
    BY <1>2
  <2>2. N > 1 => a[N - 1].kind = o[N - 1].kind /\ a[N - 1].tight = o[N - 1].tight
    BY <2>1 DEF Alike
  <2>3. N + 1 > 2 <=> N > 1
    BY <1>2
  <2>4. N + 1 - 2 = N - 1
    BY <1>2
  <2> QED BY <2>1, <2>2, <2>3, <2>4 DEF Tags, HasTag, Tagged!Tight
<1>5. \A i \in 1 .. N : a[i].kind = o[i].kind /\ a[i].id = o[i].id
  BY DEF Alike
<1> HIDE DEF N
<1>6. CASE p = 0
  <2>1. Good(h, T[N], 0, n, S) /\ q = Tagged!EnterHtml(h, k, n + 1, o)
    BY <1>1, <1>6 DEF N
  <2>2. Good(q, IF HasTag(k, o) THEN Append(T[N], k) ELSE T[N], IF k = "image" THEN 1 ELSE 0, n, S)
    BY <1>2, <2>1, EnterGood
  <2>3. Good(q, U[N + 1], IF p2 = 0 THEN 0 ELSE 1, n, S)
    BY <1>2, <1>3, <1>4, <1>6, <2>2
  <2>4. Good(q, U[N + 1], IF p2 = 0 THEN 0 ELSE 1, n + 1, S)
    <3> HIDE DEF p2
    <3> QED BY <1>2, <2>3, GoodLater
  <2>5. ASSUME NEW i \in r + 1 .. N + 1, a[i].kind = "image"
        PROVE  i = N + 1 /\ k = "image"
    <3>1. CASE i = N + 1
      BY <1>2, <2>5, <3>1
    <3>2. CASE i # N + 1
      <4>1. i \in 1 .. N /\ i \in r + 1 .. Len(o)
        BY <1>2, <3>2 DEF N
      <4> QED BY <1>1, <1>5, <1>6, <2>5, <4>1
    <3> QED BY <3>1, <3>2
  <2>6. N + 1 \in r .. Len(a) /\ N + 1 > r /\ N + 1 + 1 .. Len(a) = {}
    BY <1>2
  <2>7. /\ p2 # 0 => k = "image" /\ p2 = n + 1
        /\ k = "image" => p2 # 0
    BY <1>2, <1>6
  <2>8. \A i \in r + 1 .. Len(a) : a[i].kind = "image" => p2 # 0 /\ i >= N + 1
    BY <1>2, <2>5, <2>7
  <2>9. p2 # 0 => a[N + 1].id = p2 /\ a[N + 1].kind = "image"
    BY <1>2, <2>7
  <2> HIDE DEF p2
  <2>10. Writes(a, r, q, p2, n + 1, S)
    BY <1>2, <1>3, <2>4, <2>6, <2>8, <2>9 DEF Writes
  <2> QED BY <2>10 DEF p2
<1>7. CASE p # 0
  <2>1. p2 = p /\ q = h /\ U[m] = T[m]
    BY <1>1, <1>3, <1>7 DEF N
  <2>2. Good(q, U[m], IF p2 = 0 THEN 0 ELSE 1, n + 1, S)
    <3>1. Good(h, T[m], IF p2 = 0 THEN 0 ELSE 1, n, S)
      BY <1>1, <2>1
    <3> HIDE DEF p2
    <3> QED BY <1>2, <2>1, <3>1, GoodLater
  <2>3. m \in r .. Len(a) /\ m > r /\ m \in 1 .. N
    BY <1>1, <1>2, <1>7 DEF N
  <2>4. a[m].id = p2 /\ a[m].kind = "image"
    BY <1>1, <1>5, <1>7, <2>1, <2>3
  <2>5. ASSUME NEW i \in m + 1 .. Len(a)
        PROVE  a[i].kind \in Tagged!Inline
    <3>1. CASE i = N + 1
      BY <1>2, <1>7, <3>1
    <3>2. CASE i # N + 1
      <4>1. i \in 1 .. N /\ i \in m + 1 .. Len(o)
        BY <1>2, <2>3, <3>2 DEF N
      <4> QED BY <1>1, <1>5, <1>7, <4>1
    <3> QED BY <3>1, <3>2
  <2>6. ASSUME NEW i \in r + 1 .. Len(a), a[i].kind = "image"
        PROVE  i >= m
    <3>1. CASE i = N + 1
      BY <1>2, <2>3, <3>1
    <3>2. CASE i # N + 1
      <4>1. i \in 1 .. N /\ i \in r + 1 .. Len(o)
        BY <1>2, <3>2 DEF N
      <4> QED BY <1>1, <1>5, <2>6, <4>1
    <3> QED BY <3>1, <3>2
  <2> HIDE DEF p2
  <2>7. Writes(a, r, q, p2, n + 1, S)
    BY <1>3, <1>7, <2>1, <2>2, <2>3, <2>4, <2>5, <2>6 DEF Writes
  <2> QED BY <2>7 DEF p2
<1> QED BY <1>6, <1>7

LEMMA WritesExit ==
  ASSUME NEW o \in Seq(Nodes), NEW r \in Nat, NEW h, NEW p \in Nat, NEW n \in Nat, NEW S,
         Writes(o, r, h, p, n, S), Len(o) > r,
         \A i \in r + 1 .. Len(o) : o[i].kind \in Shelf /\ o[i].id \in 1 .. n,
         \A i, j \in r + 1 .. Len(o) : i < j => o[i].id < o[j].id,
         NEW k, k = Last(o).kind, NEW v, v = IF p = Last(o).id THEN 0 ELSE p,
         NEW q, q = IF v # 0 THEN h ELSE Tagged!ExitHtml(h, k, Last(o).id, Front(o))
  PROVE  Writes(Front(o), r, q, v, n, S)
<1> DEFINE alt == IF p = 0 THEN 0 ELSE 1
           N == Len(o)
           a == Front(o)
           d == Last(o).id
<1>1. PICK T, m :
        /\ Trail(o, r, T, Tags(o))
        /\ m \in r .. Len(o)
        /\ Good(h, T[m], alt, n, S)
        /\ p = 0 => m = Len(o)
        /\ p # 0 => /\ m > r /\ o[m].id = p /\ o[m].kind = "image"
                    /\ \A i \in m + 1 .. Len(o) : o[i].kind \in Tagged!Inline
        /\ \A i \in r + 1 .. Len(o) : o[i].kind = "image" => p # 0 /\ i >= m
  BY DEF Writes
<1>2. /\ N \in Nat \ {0} /\ r <= N - 1 /\ o # <<>>
      /\ N \in r + 1 .. N
  OBVIOUS
<1>3. a \in Seq(Nodes) /\ Len(a) = N - 1 /\ Alike(o, a, N - 1)
      /\ (\A i \in 1 .. N - 1 : a[i] = o[i]) /\ k = o[N].kind /\ d = o[N].id
  <2>1. /\ a \in Seq(Nodes) /\ Len(a) = N - 1
        /\ (\A i \in 1 .. N - 1 : a[i] = o[i]) /\ Last(o) = o[N]
    BY <1>2, FrontIs
  <2> QED BY <2>1 DEF Alike
<1>4. k \in Shelf /\ d \in 1 .. n /\ k \in Names
  BY <1>2, <1>3, ShelfIs
<1> HIDE DEF N, a
<1>5. Trail(a, r, T, Tags(a))
  <2>1. /\ N - 1 \in Nat /\ N - 1 <= Len(o) /\ N - 1 <= Len(a) /\ Len(a) <= Len(o)
        /\ Alike(o, a, Len(a)) /\ r <= Len(a)
    BY <1>2, <1>3 DEF N
  <2>2. \A i \in 1 .. Len(a) : i \in Tags(o) <=> i \in Tags(a)
    BY <1>3, <2>1, TagsAlike
  <2> QED BY <1>1, <1>3, <2>1, <2>2, TrailAlike
<1>6. N \in Tags(o) <=> HasTag(k, a)
  <2>1. N \in 1 .. Len(o) /\ (N > 2 => N - 2 \in 1 .. N - 1)
    BY <1>2 DEF N
  <2>2. N > 2 => a[N - 2] = o[N - 2]
    BY <1>3, <2>1
  <2>3. N > 2 <=> N - 1 > 1
    BY <1>2
  <2>4. N - 1 - 1 = N - 2
    BY <1>2
  <2> QED BY <1>3, <2>1, <2>2, <2>3, <2>4 DEF Tags, HasTag, Tagged!Tight
<1>7. T[N] = (IF N \in Tags(o) THEN Append(T[N - 1], k) ELSE T[N - 1]) /\ T[N - 1] \in Seq(Names)
  <2>1. N \in r + 1 .. Len(o) /\ N - 1 \in r .. Len(o)
    BY <1>2 DEF N
  <2>2. T[N - 1] \in Seq(Names)
    BY <1>1, <2>1 DEF Trail
  <2>3. T[N] = IF N \in Tags(o) THEN Append(T[N - 1], o[N].kind) ELSE T[N - 1]
    BY <1>1, <2>1 DEF Trail
  <2> QED BY <1>3, <2>2, <2>3
<1>8. \A i \in r + 1 .. Len(a) : i \in 1 .. N - 1 /\ i \in r + 1 .. Len(o) /\ i # N
  BY <1>2, <1>3 DEF N
<1>9. ASSUME v = 0, k = "image" <=> alt = 1, m = N
      PROVE  Writes(a, r, q, 0, n, S)
  <2>1. Good(h, T[N], alt, n, S) /\ q = Tagged!ExitHtml(h, k, d, a)
    BY <1>1, <1>9 DEF a
  <2>2. HasTag(k, a) => T[N] # <<>> /\ Last(T[N]) = k /\ Front(T[N]) = T[N - 1]
    BY <1>4, <1>6, <1>7, FrontAppend
  <2>3. d \in Nat
    BY <1>4
  <2>4. Good(q, IF HasTag(k, a) THEN Front(T[N]) ELSE T[N], 0, n, S)
    <3> HIDE DEF alt, d
    <3> QED BY <1>4, <1>9, <2>1, <2>2, <2>3, ExitGood
  <2>5. Good(q, T[N - 1], 0, n, S)
    BY <1>6, <1>7, <2>2, <2>4
  <2>6. N - 1 \in r .. Len(a) /\ N - 1 = Len(a)
    BY <1>2, <1>3
  <2>7. \A i \in r + 1 .. Len(a) : a[i].kind # "image"
    <3> SUFFICES ASSUME NEW i \in r + 1 .. Len(a), a[i].kind = "image"
                 PROVE  FALSE
      OBVIOUS
    <3>1. i \in r + 1 .. Len(o) /\ o[i].kind = "image" /\ i < N
      BY <1>2, <1>3, <1>8
    <3> QED BY <1>1, <1>2, <1>9, <3>1
  <2> QED BY <1>5, <2>5, <2>6, <2>7 DEF Writes
<1>10. CASE p = 0
  <2>1. v = 0 /\ m = N /\ alt = 0
    BY <1>1, <1>10 DEF N
  <2>2. k # "image"
    BY <1>1, <1>2, <1>3, <1>10 DEF N
  <2> QED BY <1>9, <2>1, <2>2 DEF a
<1>11. CASE p # 0 /\ m = N
  <2>1. k = "image" /\ d = p /\ v = 0 /\ alt = 1
    BY <1>1, <1>3, <1>11
  <2> QED BY <1>9, <1>11, <2>1 DEF a
<1>12. CASE p # 0 /\ m # N
  <2>1. m \in r + 1 .. Len(o) /\ m < N /\ m \in 1 .. N - 1 /\ m \in r .. Len(a)
    BY <1>1, <1>2, <1>3, <1>12 DEF N
  <2>2. o[m].id < o[N].id
    BY <1>2, <2>1 DEF N
  <2>3. v = p /\ q = h
    <3>1. p = o[m].id /\ p # d
      BY <1>1, <1>3, <1>4, <1>12, <2>2
    <3> QED BY <1>12, <3>1
  <2>4. a[m].id = p /\ a[m].kind = "image"
    BY <1>1, <1>3, <1>12, <2>1
  <2>5. ASSUME NEW i \in m + 1 .. Len(a)
        PROVE  a[i].kind \in Tagged!Inline
    <3>1. i \in 1 .. N - 1 /\ i \in m + 1 .. Len(o)
      BY <1>2, <1>3, <2>1 DEF N
    <3> QED BY <1>1, <1>3, <1>12, <3>1
  <2>6. \A i \in r + 1 .. Len(a) : a[i].kind = "image" => i >= m
    BY <1>1, <1>3, <1>8
  <2>7. Writes(a, r, q, v, n, S)
    BY <1>1, <1>5, <1>12, <2>1, <2>3, <2>4, <2>5, <2>6 DEF Writes
  <2> QED BY <2>7 DEF a
<1> QED BY <1>10, <1>11, <1>12

\* The XML x is what the nodes o that are open, those below r, leave open; d is state->indent.
XTok == [t : {"open", "close", "empty"}, of : Names, at : Int]
Indents(o, r, x, d) ==
  /\ x \in Seq(XTok)
  /\ \A i \in 1 .. Len(x) : x[i].at = 2 * Tagged!Depth(x, i)
  /\ \E T : /\ Trail(o, r, T, Parents(o))
            /\ Stack(x, T[Len(o)])
            /\ d = 2 * Len(T[Len(o)])

LEMMA AtAppend ==
  ASSUME NEW x \in Seq(XTok), \A i \in 1 .. Len(x) : x[i].at = 2 * Tagged!Depth(x, i),
         NEW e \in XTok, e.at = 2 * (Level(x) - IF e.t = "close" THEN 1 ELSE 0)
  PROVE  LET y == Append(x, e)
         IN  y \in Seq(XTok) /\ \A i \in 1 .. Len(y) : y[i].at = 2 * Tagged!Depth(y, i)
<1> DEFINE y == Append(x, e)
           N == Len(x)
<1>1. /\ y \in Seq(XTok) /\ N \in Nat /\ Len(y) = N + 1 /\ y[N + 1] = e
      /\ \A i \in 1 .. N : y[i] = x[i]
  BY AppendIs
<1>2. /\ Tagged!Depth(y, N + 1) = Level(x) - IF e.t = "close" THEN 1 ELSE 0
      /\ \A i \in 1 .. N : Tagged!Depth(y, i) = Tagged!Depth(x, i)
  BY DepthAppend
<1> HIDE DEF y
<1>3. ASSUME NEW i \in 1 .. N + 1
      PROVE  y[i].at = 2 * Tagged!Depth(y, i)
  <2>1. CASE i = N + 1
    BY <1>1, <1>2, <2>1
  <2>2. CASE i # N + 1
    BY <1>1, <1>2, <2>2
  <2> QED BY <2>1, <2>2
<1> QED BY <1>1, <1>3 DEF y

LEMMA IndentsLeaf ==
  ASSUME NEW o \in Seq(Nodes), NEW r \in Nat, r <= Len(o), NEW x, NEW d, Indents(o, r, x, d),
         NEW a \in Seq(Nodes), Len(a) = Len(o), Alike(o, a, Len(o)),
         NEW k \in Names, NEW e, e = [t |-> "empty", of |-> k, at |-> d]
  PROVE  Indents(a, r, Append(x, e), d)
<1>1. PICK T : /\ Trail(o, r, T, Parents(o))
               /\ Stack(x, T[Len(o)])
               /\ d = 2 * Len(T[Len(o)])
  BY DEF Indents
<1>2. Len(o) \in r .. Len(o) /\ Len(a) = Len(o) /\ Len(o) \in Nat
  OBVIOUS
<1>3. T[Len(o)] \in Seq(Names)
  BY <1>1, <1>2 DEF Trail
<1>4. e \in XTok /\ e.t = "empty" /\ e.at = d
  BY <1>1, <1>3 DEF XTok
<1>5. x \in Seq(XTok) /\ Level(x) = Len(T[Len(o)])
  BY <1>1 DEF Indents, Stack
<1>6. Stack(Append(x, e), T[Len(o)])
  BY <1>1, <1>3, <1>4, <1>5, StackOther
<1>7. Trail(a, r, T, Parents(a))
  <2>1. \A i \in 1 .. Len(a) : i \in Parents(o) <=> i \in Parents(a)
    BY <1>2, TagsAlike
  <2>2. Len(a) <= Len(o) /\ Alike(o, a, Len(a)) /\ r <= Len(a)
    OBVIOUS
  <2> QED BY <1>1, <2>1, <2>2, TrailAlike
<1>8. /\ Append(x, e) \in Seq(XTok)
      /\ \A i \in 1 .. Len(Append(x, e)) : Append(x, e)[i].at = 2 * Tagged!Depth(Append(x, e), i)
  <2>1. e.at = 2 * (Level(x) - IF e.t = "close" THEN 1 ELSE 0)
    BY <1>1, <1>3, <1>4, <1>5
  <2>2. \A i \in 1 .. Len(x) : x[i].at = 2 * Tagged!Depth(x, i)
    BY DEF Indents
  <2> QED BY <1>4, <1>5, <2>1, <2>2, AtAppend
<1> QED BY <1>1, <1>2, <1>6, <1>7, <1>8 DEF Indents

LEMMA IndentsEnter ==
  ASSUME NEW o \in Seq(Nodes), NEW r \in Nat, r <= Len(o), NEW x, NEW d, Indents(o, r, x, d),
         NEW a \in Seq(Nodes), Len(a) = Len(o) + 1, Alike(o, a, Len(o)),
         NEW k \in Names, NEW c \in BOOLEAN, a[Len(a)].kind = k, a[Len(a)].children = c,
         NEW e, e = [t |-> IF c THEN "open" ELSE "empty", of |-> k, at |-> d]
  PROVE  Indents(a, r, Append(x, e), IF c THEN d + 2 ELSE d)
<1> DEFINE N == Len(o)
           y == Append(x, e)
<1>1. PICK T : /\ Trail(o, r, T, Parents(o))
               /\ Stack(x, T[N])
               /\ d = 2 * Len(T[N])
  BY DEF Indents
<1>2. N \in r .. N /\ Len(a) = N + 1 /\ N \in Nat
  OBVIOUS
<1>3. T[N] \in Seq(Names)
  BY <1>1, <1>2 DEF Trail
<1>4. e \in XTok /\ e.t = (IF c THEN "open" ELSE "empty") /\ e.at = d /\ e.of = k
  BY <1>1, <1>3 DEF XTok
<1>5. x \in Seq(XTok) /\ Level(x) = Len(T[N])
  BY <1>1 DEF Indents, Stack
<1>6. PICK U : /\ Trail(a, r, U, Parents(a))
               /\ U[N + 1] = IF N + 1 \in Parents(a) THEN Append(T[N], k) ELSE T[N]
  <2>1. \A i \in 1 .. Len(o) : i \in Parents(o) <=> i \in Parents(a)
    BY <1>2, TagsAlike
  <2>2. Alike(a, o, Len(o)) /\ a[Len(a)].kind \in Names
    BY DEF Alike
  <2>3. \E U : /\ Trail(a, r, U, Parents(a))
               /\ \A i \in r .. Len(o) : U[i] = T[i]
               /\ U[Len(a)] = IF Len(a) \in Parents(a) THEN Append(T[Len(o)], a[Len(a)].kind)
                                                       ELSE T[Len(o)]
    BY <1>1, <2>1, <2>2, TrailLonger
  <2> QED BY <1>2, <2>3
<1>7. N + 1 \in Parents(a) <=> c
  BY <1>2 DEF Parents
<1>8. y \in Seq(XTok) /\ \A i \in 1 .. Len(y) : y[i].at = 2 * Tagged!Depth(y, i)
  <2>1. e.at = 2 * (Level(x) - IF e.t = "close" THEN 1 ELSE 0)
    BY <1>1, <1>3, <1>4, <1>5
  <2>2. \A i \in 1 .. Len(x) : x[i].at = 2 * Tagged!Depth(x, i)
    BY DEF Indents
  <2> QED BY <1>4, <1>5, <2>1, <2>2, AtAppend
<1>9. Stack(y, U[N + 1])
  <2>1. CASE c
    <3>1. Stack(y, Append(T[N], k))
      BY <1>1, <1>3, <1>4, <1>5, <2>1, StackOpen
    <3> QED BY <1>6, <1>7, <2>1, <3>1
  <2>2. CASE ~c
    <3>1. Stack(y, T[N])
      BY <1>1, <1>3, <1>4, <1>5, <2>2, StackOther
    <3> QED BY <1>6, <1>7, <2>2, <3>1
  <2> QED BY <2>1, <2>2
<1>10. (IF c THEN d + 2 ELSE d) = 2 * Len(U[N + 1])
  <2>1. Len(Append(T[N], k)) = Len(T[N]) + 1 /\ Len(T[N]) \in Nat
    BY <1>3, AppendIs
  <2> HIDE DEF N
  <2> QED BY <1>1, <1>6, <1>7, <2>1
<1> HIDE DEF y
<1>11. Indents(a, r, y, IF c THEN d + 2 ELSE d)
  BY <1>2, <1>6, <1>8, <1>9, <1>10 DEF Indents
<1> QED BY <1>11 DEF y

LEMMA IndentsExit ==
  ASSUME NEW o \in Seq(Nodes), NEW r \in Nat, Len(o) > r, NEW x, NEW d, Indents(o, r, x, d),
         Last(o).kind \in Names,
         NEW e, e = [t |-> "close", of |-> Last(o).kind, at |-> d - 2]
  PROVE  IF Last(o).children THEN Indents(Front(o), r, Append(x, e), d - 2)
                             ELSE Indents(Front(o), r, x, d)
<1> DEFINE N == Len(o)
           a == Front(o)
           k == Last(o).kind
           c == Last(o).children
           y == Append(x, e)
<1>1. PICK T : /\ Trail(o, r, T, Parents(o))
               /\ Stack(x, T[N])
               /\ d = 2 * Len(T[N])
  BY DEF Indents
<1>2. /\ N \in Nat \ {0} /\ r <= N - 1 /\ o # <<>>
      /\ N \in r + 1 .. N
  OBVIOUS
<1>3. a \in Seq(Nodes) /\ Len(a) = N - 1 /\ Alike(o, a, N - 1) /\ k = o[N].kind /\ c = o[N].children
  <2>1. /\ a \in Seq(Nodes) /\ Len(a) = N - 1
        /\ (\A i \in 1 .. N - 1 : a[i] = o[i]) /\ Last(o) = o[N]
    BY <1>2, FrontIs
  <2> QED BY <2>1 DEF Alike
<1>4. T[N] \in Seq(Names) /\ T[N - 1] \in Seq(Names) /\ T[N] = IF c THEN Append(T[N - 1], k) ELSE T[N - 1]
  <2>1. N \in r .. Len(o) /\ N - 1 \in r .. Len(o) /\ N \in r + 1 .. Len(o)
    BY <1>2
  <2>2. T[N] \in Seq(Names) /\ T[N - 1] \in Seq(Names)
    BY <1>1, <2>1 DEF Trail
  <2>3. T[N] = IF N \in Parents(o) THEN Append(T[N - 1], o[N].kind) ELSE T[N - 1]
    BY <1>1, <2>1 DEF Trail
  <2>4. N \in Parents(o) <=> o[N].children
    BY <1>2 DEF Parents
  <2> QED BY <1>3, <2>2, <2>3, <2>4
<1>5. x \in Seq(XTok) /\ Level(x) = Len(T[N]) /\ \A i \in 1 .. Len(x) : x[i].at = 2 * Tagged!Depth(x, i)
  BY <1>1 DEF Indents, Stack
<1>6. k \in Names
  OBVIOUS
<1>7. e.t = "close" /\ e.of = k /\ e.at = d - 2
  OBVIOUS
<1>8. Trail(a, r, T, Parents(a))
  <2>1. /\ N - 1 \in Nat /\ N - 1 <= Len(o) /\ N - 1 <= Len(a) /\ Len(a) <= Len(o)
        /\ Alike(o, a, Len(a)) /\ r <= Len(a)
    BY <1>2, <1>3
  <2>2. \A i \in 1 .. Len(a) : i \in Parents(o) <=> i \in Parents(a)
    BY <1>3, <2>1, TagsAlike
  <2> QED BY <1>1, <1>3, <2>1, <2>2, TrailAlike
<1>9. e \in XTok
  BY <1>1, <1>4 DEF XTok
<1> HIDE DEF N, a, k, c
<1>10. ASSUME c
       PROVE  Indents(a, r, y, d - 2)
  <2>1. T[N] = Append(T[N - 1], k) /\ T[N] # <<>> /\ Last(T[N]) = k /\ Front(T[N]) = T[N - 1]
        /\ Len(T[N]) = Len(T[N - 1]) + 1 /\ Len(T[N - 1]) \in Nat
    BY <1>4, <1>6, <1>10, FrontAppend, AppendIs
  <2>2. Stack(y, T[N - 1])
    <3>1. e.of = Last(T[N])
      BY <1>7, <2>1
    <3>2. Stack(y, Front(T[N]))
      <4> HIDE DEF y
      <4> QED BY <1>1, <1>4, <1>5, <1>7, <1>9, <2>1, <3>1, StackClose DEF y
    <3> QED BY <2>1, <3>2
  <2>3. y \in Seq(XTok) /\ \A i \in 1 .. Len(y) : y[i].at = 2 * Tagged!Depth(y, i)
    <3>1. e.at = 2 * (Level(x) - IF e.t = "close" THEN 1 ELSE 0)
      BY <1>1, <1>5, <1>7, <2>1
    <3> QED BY <1>5, <1>9, <3>1, AtAppend
  <2>4. d - 2 = 2 * Len(T[N - 1])
    BY <1>1, <2>1
  <2> HIDE DEF y
  <2> QED BY <1>3, <1>8, <2>2, <2>3, <2>4 DEF Indents
<1>11. ASSUME ~c
       PROVE  Indents(a, r, x, d)
  BY <1>1, <1>3, <1>4, <1>5, <1>8, <1>11 DEF Indents
<1> QED BY <1>10, <1>11 DEF a, c, y

-----------------------------------------------------------------------------
(* The two writers in every state. *)

OpenInv ==
  /\ open \in Seq(Nodes) /\ last \in Nat /\ root \in 0 .. Len(open) /\ plain \in Nat
  /\ option \in {"none", "hardbreaks", "nobreaks"} /\ texts \in Seq(Nat)
  /\ \A i \in root + 1 .. Len(open) : open[i].kind \in Shelf /\ open[i].id \in 1 .. last
  /\ \A i, j \in root + 1 .. Len(open) : i < j => open[i].id < open[j].id
MarkupInv ==
  /\ OpenInv
  /\ Writes(open, root, html, plain, last, ToSet(texts))
  /\ Indents(open, root, xml, indent)

LEMMA BelowIs ==
  ASSUME NEW o \in Seq(Nodes)
  PROVE  /\ Tagged!Below(o) \in Seq(Nodes) /\ Len(Tagged!Below(o)) = Len(o)
         /\ Alike(o, Tagged!Below(o), Len(o)) /\ Alike(Tagged!Below(o), o, Len(o))
<1> DEFINE b == Tagged!Below(o)
<1>1. CASE o = <<>>
  <2>1. b = o
    BY <1>1 DEF Tagged!Below
  <2> QED BY <2>1 DEF Alike
<1>2. CASE o # <<>>
  <2>1. Len(o) \in 1 .. Len(o) /\ o[Len(o)] \in Nodes
    BY <1>2
  <2>2. b = [o EXCEPT ![Len(o)] = [o[Len(o)] EXCEPT !.entered = TRUE]]
    BY <1>2 DEF Tagged!Below
  <2>3. [o[Len(o)] EXCEPT !.entered = TRUE] \in Nodes
    BY <2>1 DEF Nodes
  <2>4. b \in Seq(Nodes) /\ Len(b) = Len(o)
    BY <2>1, <2>2, <2>3
  <2>5. ASSUME NEW i \in 1 .. Len(o)
        PROVE  /\ b[i].kind = o[i].kind /\ b[i].id = o[i].id
               /\ b[i].tight = o[i].tight /\ b[i].children = o[i].children
    <3>1. CASE i = Len(o)
      BY <2>1, <2>2, <3>1 DEF Nodes
    <3>2. CASE i # Len(o)
      <4>1. b[i] = o[i]
        BY <2>2, <3>2
      <4> QED BY <4>1
    <3> QED BY <3>1, <3>2
  <2> HIDE DEF b
  <2> QED BY <2>4, <2>5 DEF Alike, b
<1> QED BY <1>1, <1>2

LEMMA PossibleIs ==
  ASSUME OpenInv, Tagged!MayEnter
  PROVE  /\ Tagged!Possible \subseteq Tagged!Block \cup Tagged!Inline
         /\ last # 0 /\ open # <<>> /\ Last(open).kind \in Tagged!Inline
              => Tagged!Possible \subseteq Tagged!Inline
<1>1. CASE open = <<>> \/ last = 0
  <2>1. Tagged!Possible \subseteq Tagged!Block
    BY <1>1 DEF Tagged!Possible
  <2> QED BY <1>1, <2>1
<1>2. CASE open # <<>> /\ last # 0
  <2> DEFINE k == Last(open).kind
  <2>1. Tagged!Parent = Last(open)
    BY SameLibrary DEF Tagged!Parent
  <2>2. k \in Shelf
    <3>1. Len(open) > root /\ open \in Seq(Nodes) /\ root \in Nat /\ Len(open) \in Nat
      BY <1>2 DEF Tagged!MayEnter, OpenInv
    <3>2. Len(open) \in root + 1 .. Len(open)
      BY <3>1
    <3> QED BY <3>2 DEF OpenInv, Last
  <2>3. Tagged!Possible \in {Tagged!Inside(k), {}}
    BY <1>2, <2>1 DEF Tagged!Possible
  <2> HIDE DEF k
  <2>4. CASE k = "list"
    <3>1. Tagged!Inside(k) = {"item"} /\ k \notin Tagged!Inline
      BY <2>4 DEF Tagged!Inside, Tagged!Inline
    <3> QED BY <2>3, <3>1 DEF Tagged!Block, k
  <2>5. CASE k \in {"document", "block_quote", "item", "custom_block"}
    <3>1. Tagged!Inside(k) = Tagged!Block \ {"document", "item"} /\ k \notin Tagged!Inline
      BY <2>5 DEF Tagged!Inside, Tagged!Inline
    <3> QED BY <2>3, <3>1 DEF k
  <2>6. CASE k \in {"paragraph", "heading", "emph", "link", "image", "custom_inline"}
    <3>1. Tagged!Inside(k) = Tagged!Inline
      BY <2>6 DEF Tagged!Inside, Tagged!Inline
    <3> QED BY <2>3, <3>1
  <2> QED BY <2>2, <2>4, <2>5, <2>6, ShelfIs
<1> QED BY <1>1, <1>2

LEMMA ToSetAppend ==
  ASSUME NEW T, NEW s \in Seq(T), NEW x \in T
  PROVE  ToSet(Append(s, x)) = ToSet(s) \cup {x}
<1> DEFINE q == Append(s, x)
           N == Len(s)
<1>1. /\ N \in Nat /\ DOMAIN s = 1 .. N /\ DOMAIN q = 1 .. N + 1 /\ q[N + 1] = x
      /\ \A i \in 1 .. N : q[i] = s[i]
  BY AppendIs
<1>2. ToSet(q) = {q[i] : i \in DOMAIN q} /\ ToSet(s) = {s[i] : i \in DOMAIN s}
  BY DEF ToSet
<1> HIDE DEF q, N
<1>3. \A v : v \in ToSet(q) <=> \E i \in 1 .. N + 1 : v = q[i]
  BY <1>1, <1>2
<1>4. \A v : v \in ToSet(s) <=> \E i \in 1 .. N : v = s[i]
  BY <1>1, <1>2
<1>5. \A i : i \in 1 .. N + 1 <=> i \in 1 .. N \/ i = N + 1
  BY <1>1
<1>6. \A v : v \in ToSet(q) <=> v \in ToSet(s) \/ v = x
  BY <1>1, <1>3, <1>4, <1>5
<1> QED BY <1>6 DEF q

LEMMA LeafKeeps ==
  ASSUME MarkupInv, NEW k, Tagged!EnterLeaf(k)
  PROVE  MarkupInv'
<1>1. /\ open \in Seq(Nodes) /\ last \in Nat /\ root \in Nat /\ root <= Len(open) /\ plain \in Nat
      /\ option \in {"none", "hardbreaks", "nobreaks"} /\ texts \in Seq(Nat)
  BY DEF MarkupInv, OpenInv
<1>2. /\ Tagged!MayEnter /\ last' = last + 1 /\ open' = Tagged!Below(open) /\ k \in Tagged!Possible /\ k \in Tagged!Leaf
      /\ root' = root /\ option' = option /\ plain' = plain /\ indent' = indent
      /\ xml' = Append(xml, [t |-> "empty", of |-> k, at |-> indent])
      /\ texts' = IF k \in {"text", "code", "code_block"} THEN Append(texts, last') ELSE texts
      /\ IF plain # 0 THEN html' = Tagged!PlainHtml(html, k, last + 1)
                      ELSE html' \in Tagged!LeafHtml(html, k, last + 1)
  BY DEF Tagged!EnterLeaf, Tagged!Element
<1>3. /\ open' \in Seq(Nodes) /\ Len(open') = Len(open)
      /\ Alike(open, open', Len(open)) /\ Alike(open', open, Len(open))
  BY <1>1, <1>2, BelowIs
<1>4. k \in Tagged!Block \cup Tagged!Inline /\ (plain # 0 => k \in Tagged!Inline)
  <2>1. k \in Tagged!Block \cup Tagged!Inline
    BY <1>2, PossibleIs DEF MarkupInv
  <2>2. ASSUME plain # 0
        PROVE  k \in Tagged!Inline
    <3>1. Len(open) > root /\ open # <<>> /\ Last(open).kind \in Tagged!Inline
      BY <1>1, <2>2, InImage DEF MarkupInv
    <3>2. last # 0
      <4>1. Len(open) \in root + 1 .. Len(open)
        BY <1>1, <3>1
      <4> QED BY <4>1 DEF MarkupInv, OpenInv
    <3> QED BY <1>2, <3>1, <3>2, PossibleIs DEF MarkupInv
  <2> QED BY <2>1, <2>2
<1>5. OpenInv'
  <2>1. last' \in Nat /\ texts' \in Seq(Nat) /\ root' \in 0 .. Len(open')
    BY <1>1, <1>2, <1>3
  <2>2. /\ \A i \in root + 1 .. Len(open) : open[i].kind \in Shelf /\ open[i].id \in 1 .. last
        /\ \A i, j \in root + 1 .. Len(open) : i < j => open[i].id < open[j].id
    BY DEF MarkupInv, OpenInv
  <2>3. \A i \in root + 1 .. Len(open) : i \in 1 .. Len(open)
    BY <1>1
  <2>4. \A i \in 1 .. Len(open) : open'[i].kind = open[i].kind /\ open'[i].id = open[i].id
    BY <1>3 DEF Alike
  <2>5. \A n \in 1 .. last : n \in 1 .. last + 1
    BY <1>1
  <2>6. \A i \in root' + 1 .. Len(open') : open'[i].kind \in Shelf /\ open'[i].id \in 1 .. last'
    BY <1>2, <1>3, <2>2, <2>3, <2>4, <2>5
  <2>7. \A i, j \in root' + 1 .. Len(open') : i < j => open'[i].id < open'[j].id
    BY <1>2, <1>3, <2>2, <2>3, <2>4
  <2> QED BY <1>1, <1>2, <1>3, <2>1, <2>6, <2>7 DEF OpenInv
<1>6. Writes(open', root', html', plain', last', ToSet(texts'))
  <2>1. ToSet(texts') = IF k \in {"text", "code", "code_block"} THEN ToSet(texts) \cup {last + 1}
                                                                 ELSE ToSet(texts)
    <3>1. CASE k \in {"text", "code", "code_block"}
      <4>1. texts' = Append(texts, last + 1) /\ last + 1 \in Nat
        BY <1>1, <1>2, <3>1
      <4>2. ToSet(Append(texts, last + 1)) = ToSet(texts) \cup {last + 1}
        BY <1>1, <4>1, ToSetAppend
      <4> QED BY <3>1, <4>1, <4>2
    <3>2. CASE k \notin {"text", "code", "code_block"}
      BY <1>2, <3>2
    <3> QED BY <3>1, <3>2
  <2>2. Writes(open, root, html, plain, last, ToSet(texts))
    BY DEF MarkupInv
  <2>3. Writes(open', root, html', plain, last + 1,
               IF k \in {"text", "code", "code_block"} THEN ToSet(texts) \cup {last + 1} ELSE ToSet(texts))
    BY <1>1, <1>2, <1>3, <1>4, <2>2, WritesLeaf
  <2> QED BY <1>2, <2>1, <2>3
<1>7. Indents(open', root', xml', indent')
  <2>1. k \in Names
    BY <1>4 DEF Names
  <2>2. Indents(open, root, xml, indent)
    BY DEF MarkupInv
  <2>3. Indents(open', root, Append(xml, [t |-> "empty", of |-> k, at |-> indent]), indent)
    BY <1>1, <1>3, <2>1, <2>2, IndentsLeaf
  <2> QED BY <1>2, <2>3
<1> QED BY <1>5, <1>6, <1>7 DEF MarkupInv

LEMMA EnterKeeps ==
  ASSUME MarkupInv, NEW k, Tagged!Enter(k)
  PROVE  MarkupInv'
<1>1. /\ open \in Seq(Nodes) /\ last \in Nat /\ root \in Nat /\ root <= Len(open) /\ plain \in Nat
      /\ option \in {"none", "hardbreaks", "nobreaks"} /\ texts \in Seq(Nat)
  BY DEF MarkupInv, OpenInv
<1>2. PICK t, c \in BOOLEAN :
        /\ open' = Append(Tagged!Below(open), [kind |-> k, id |-> last + 1, tight |-> t,
                                               children |-> c, entered |-> FALSE])
        /\ xml' = Append(xml, [t |-> IF c THEN "open" ELSE "empty", of |-> k, at |-> indent])
        /\ indent' = IF c THEN indent + 2 ELSE indent
  BY DEF Tagged!Enter, Tagged!Element, Tagged!Node
<1>3. /\ Tagged!MayEnter /\ last' = last + 1 /\ k \in Tagged!Possible /\ k \notin Tagged!Leaf
      /\ root' = root /\ option' = option /\ texts' = texts
      /\ plain' = IF plain = 0 /\ k = "image" THEN last + 1 ELSE plain
      /\ html' = IF plain # 0 THEN html ELSE Tagged!EnterHtml(html, k, last + 1, open)
  BY DEF Tagged!Enter
<1>4. k \in Shelf /\ k \in Names /\ (plain # 0 => k \in Tagged!Inline)
  <2>1. k \in Shelf /\ k \in Names
    <3>1. k \in Tagged!Block \cup Tagged!Inline
      BY <1>3, PossibleIs DEF MarkupInv
    <3> QED BY <1>3, <3>1 DEF Shelf, Names
  <2>2. ASSUME plain # 0
        PROVE  k \in Tagged!Inline
    <3>1. Len(open) > root /\ open # <<>> /\ Last(open).kind \in Tagged!Inline
      BY <1>1, <2>2, InImage DEF MarkupInv
    <3>2. last # 0
      <4>1. Len(open) \in root + 1 .. Len(open)
        BY <1>1, <3>1
      <4> QED BY <4>1 DEF MarkupInv, OpenInv
    <3> QED BY <1>3, <3>1, <3>2, PossibleIs DEF MarkupInv
  <2> QED BY <2>1, <2>2
<1>5. /\ open' \in Seq(Nodes) /\ Len(open') = Len(open) + 1 /\ Alike(open, open', Len(open))
      /\ open'[Len(open')].kind = k /\ open'[Len(open')].id = last + 1
      /\ open'[Len(open')].children = c
  <2> DEFINE v == [kind |-> k, id |-> last + 1, tight |-> t, children |-> c, entered |-> FALSE]
             b == Tagged!Below(open)
  <2>1. v \in Nodes /\ v.kind = k /\ v.id = last + 1 /\ v.children = c
    BY <1>1, <1>2, <1>4 DEF Nodes, Shelf
  <2>2. b \in Seq(Nodes) /\ Len(b) = Len(open) /\ Alike(open, b, Len(open))
    BY <1>1, BelowIs
  <2>3. open' = Append(b, v)
    BY <1>2
  <2> HIDE DEF v, b
  <2>4. /\ open' \in Seq(Nodes) /\ Len(open') = Len(b) + 1 /\ open'[Len(b) + 1] = v
        /\ \A i \in 1 .. Len(b) : open'[i] = b[i]
    BY <2>1, <2>2, <2>3, AppendIs
  <2> QED BY <2>1, <2>2, <2>4 DEF Alike
<1>6. OpenInv'
  <2>1. /\ last' \in Nat /\ texts' \in Seq(Nat) /\ root' \in 0 .. Len(open') /\ plain' \in Nat
        /\ option' \in {"none", "hardbreaks", "nobreaks"}
    BY <1>1, <1>3, <1>5
  <2>2. /\ \A i \in root + 1 .. Len(open) : open[i].kind \in Shelf /\ open[i].id \in 1 .. last
        /\ \A i, j \in root + 1 .. Len(open) : i < j => open[i].id < open[j].id
    BY DEF MarkupInv, OpenInv
  <2> DEFINE N == Len(open)
  <2>3. ASSUME NEW i \in root + 1 .. N + 1
        PROVE  \/ i = N + 1 /\ open'[i].kind = k /\ open'[i].id = last + 1
               \/ i \in root + 1 .. N /\ open'[i].kind = open[i].kind /\ open'[i].id = open[i].id
    <3>1. CASE i = N + 1
      BY <1>5, <3>1
    <3>2. CASE i # N + 1
      <4>1. i \in root + 1 .. N /\ i \in 1 .. N
        BY <1>1, <3>2
      <4> QED BY <1>5, <4>1 DEF Alike
    <3> QED BY <3>1, <3>2
  <2>4. N \in Nat /\ Len(open') = N + 1 /\ root \in Nat
    BY <1>1, <1>5
  <2> HIDE DEF N
  <2>5. \A i \in root' + 1 .. Len(open') : open'[i].kind \in Shelf /\ open'[i].id \in 1 .. last'
    <3>1. \A n \in 1 .. last : n \in 1 .. last + 1
      BY <1>1
    <3>2. last + 1 \in 1 .. last + 1
      BY <1>1
    <3> QED BY <1>3, <1>4, <2>2, <2>3, <2>4, <3>1, <3>2 DEF N
  <2>6. \A i, j \in root' + 1 .. Len(open') : i < j => open'[i].id < open'[j].id
    <3> SUFFICES ASSUME NEW i \in root + 1 .. N + 1, NEW j \in root + 1 .. N + 1, i < j
                 PROVE  open'[i].id < open'[j].id
      BY <1>3, <2>4
    <3>1. i # N + 1
      BY <2>4
    <3>2. i \in root + 1 .. N /\ open'[i].id = open[i].id
      BY <2>3, <3>1
    <3>3. CASE j = N + 1
      <4>1. open'[j].id = last + 1
        BY <1>5, <2>4, <3>3
      <4>2. open[i].id \in 1 .. last
        BY <2>2, <3>2 DEF N
      <4> QED BY <1>1, <3>2, <4>1, <4>2
    <3>4. CASE j # N + 1
      <4>1. j \in root + 1 .. N /\ open'[j].id = open[j].id
        BY <2>3, <3>4
      <4> QED BY <2>2, <3>2, <4>1 DEF N
    <3> QED BY <3>3, <3>4
  <2> QED BY <1>5, <2>1, <2>5, <2>6 DEF OpenInv
<1>7. Writes(open', root', html', plain', last', ToSet(texts'))
  <2>1. Writes(open, root, html, plain, last, ToSet(texts))
    BY DEF MarkupInv
  <2>2. Writes(open', root, html', IF plain = 0 /\ k = "image" THEN last + 1 ELSE plain, last + 1,
               ToSet(texts))
    BY <1>1, <1>3, <1>4, <1>5, <2>1, WritesEnter
  <2> QED BY <1>3, <2>2
<1>8. Indents(open', root', xml', indent')
  <2>1. Indents(open, root, xml, indent)
    BY DEF MarkupInv
  <2> DEFINE e == [t |-> IF c THEN "open" ELSE "empty", of |-> k, at |-> indent]
  <2>2. Indents(open', root, Append(xml, e), IF c THEN indent + 2 ELSE indent)
    BY <1>1, <1>4, <1>5, <2>1, IndentsEnter
  <2> QED BY <1>2, <1>3, <2>2
<1> QED BY <1>6, <1>7, <1>8 DEF MarkupInv

LEMMA ExitKeeps ==
  ASSUME MarkupInv, Tagged!Exit
  PROVE  MarkupInv'
<1>1. /\ open \in Seq(Nodes) /\ last \in Nat /\ root \in Nat /\ root <= Len(open) /\ plain \in Nat
      /\ option \in {"none", "hardbreaks", "nobreaks"} /\ texts \in Seq(Nat)
  BY DEF MarkupInv, OpenInv
<1> DEFINE o == Last(open)
           e == [t |-> "close", of |-> o.kind, at |-> indent - 2]
<1>2. /\ Len(open) > root /\ open' = Front(open)
      /\ last' = last /\ root' = root /\ option' = option /\ texts' = texts
      /\ plain' = IF plain = o.id THEN 0 ELSE plain
      /\ html' = IF plain' # 0 THEN html ELSE Tagged!ExitHtml(html, o.kind, o.id, Front(open))
  BY SameLibrary DEF Tagged!Exit, Tagged!Parent, Tagged!Back
<1>3. IF o.children THEN indent' = indent - 2 /\ xml' = Append(xml, e)
                    ELSE indent' = indent /\ xml' = xml
  <2>1. Tagged!XmlExit /\ Tagged!Parent = o
    BY SameLibrary DEF Tagged!Exit, Tagged!Parent
  <2>2. CASE o.children
    BY <2>1, <2>2 DEF Tagged!XmlExit, Tagged!Element
  <2>3. CASE ~o.children
    BY <2>1, <2>3 DEF Tagged!XmlExit
  <2> QED BY <2>2, <2>3
<1> HIDE DEF o, e
<1>4. /\ open # <<>> /\ open' \in Seq(Nodes) /\ Len(open') = Len(open) - 1
      /\ (\A i \in 1 .. Len(open) - 1 : open'[i] = open[i]) /\ o = open[Len(open)]
  BY <1>1, <1>2, FrontIs DEF o
<1>5. /\ \A i \in root + 1 .. Len(open) : open[i].kind \in Shelf /\ open[i].id \in 1 .. last
      /\ \A i, j \in root + 1 .. Len(open) : i < j => open[i].id < open[j].id
  BY DEF MarkupInv, OpenInv
<1>6. o.id \in Nat /\ o.kind \in Names
  <2>1. Len(open) \in root + 1 .. Len(open)
    BY <1>1, <1>2
  <2>2. \A n \in 1 .. last : n \in Nat
    BY <1>1
  <2> QED BY <1>4, <1>5, <2>1, <2>2, ShelfIs
<1>7. OpenInv'
  <2>1. \A i \in root + 1 .. Len(open) - 1 : i \in 1 .. Len(open) - 1 /\ i \in root + 1 .. Len(open)
    BY <1>1
  <2>2. /\ \A i \in root' + 1 .. Len(open') : open'[i].kind \in Shelf /\ open'[i].id \in 1 .. last'
        /\ \A i, j \in root' + 1 .. Len(open') : i < j => open'[i].id < open'[j].id
    BY <1>2, <1>4, <1>5, <2>1
  <2>3. root' \in 0 .. Len(open') /\ plain' \in Nat
    BY <1>1, <1>2, <1>4
  <2> QED BY <1>1, <1>2, <1>4, <2>2, <2>3 DEF OpenInv
<1>8. Writes(open', root', html', plain', last', ToSet(texts'))
  <2>1. Writes(open, root, html, plain, last, ToSet(texts))
    BY DEF MarkupInv
  <2>2. Writes(Front(open), root, html', plain', last, ToSet(texts))
    BY <1>1, <1>2, <1>5, <2>1, WritesExit DEF o
  <2> QED BY <1>2, <2>2
<1>9. Indents(open', root', xml', indent')
  <2>1. Indents(open, root, xml, indent)
    BY DEF MarkupInv
  <2>2. IF Last(open).children THEN Indents(Front(open), root, Append(xml, e), indent - 2)
                               ELSE Indents(Front(open), root, xml, indent)
    BY <1>1, <1>2, <1>6, <2>1, IndentsExit DEF o, e
  <2> QED BY <1>2, <1>3, <2>2 DEF o
<1> QED BY <1>7, <1>8, <1>9 DEF MarkupInv

LEMMA MarkupBegins ==
  ASSUME Tagged!Init
  PROVE  MarkupInv
<1>1. /\ open \in Tagged!Above /\ last = 0 /\ root = Len(open) /\ option \in Options
      /\ html = <<>> /\ plain = 0 /\ xml = <<>> /\ indent = 0 /\ texts = <<>>
  BY DEF Tagged!Init
<1>2. open \in Seq(Nodes)
  <2>1. CASE open = <<>>
    BY <2>1
  <2>2. CASE open # <<>>
    <3>1. PICK t \in BOOLEAN : open = <<Tagged!Node("list", 0, t, TRUE), Tagged!Node("item", 0, FALSE, TRUE)>>
      BY <1>1, <2>2 DEF Tagged!Above
    <3>2. Tagged!Node("list", 0, t, TRUE) \in Nodes /\ Tagged!Node("item", 0, FALSE, TRUE) \in Nodes
      BY DEF Tagged!Node, Nodes, Tagged!Block
    <3>3. \A a, b \in Nodes : <<a, b>> \in Seq(Nodes)
      OBVIOUS
    <3> QED BY <3>1, <3>2, <3>3
  <2> QED BY <2>1, <2>2
<1>3. root \in 0 .. Len(open) /\ root + 1 .. Len(open) = {} /\ root \in root .. Len(open)
      /\ root .. Len(open) = {root}
  BY <1>1, <1>2
<1>4. OpenInv
  <2>1. option \in {"none", "hardbreaks", "nobreaks"}
    BY <1>1, OptionsAssumption
  <2>2. texts \in Seq(Nat)
    BY <1>1
  <2> QED BY <1>1, <1>2, <1>3, <2>1, <2>2 DEF OpenInv
<1> DEFINE T == [n \in {root} |-> <<>>]
<1>5. T[root] = <<>> /\ <<>> \in Seq(Names) /\ \A B : Trail(open, root, T, B)
  BY <1>3 DEF Trail
<1> HIDE DEF T
<1>6. Writes(open, root, html, plain, last, ToSet(texts))
  <2>1. ToSet(texts) = {}
    <3>1. texts = <<>> /\ DOMAIN <<>> = {}
      BY <1>1
    <3> QED BY <3>1 DEF ToSet
  <2>2. Good(<<>>, <<>>, 0, 0, {})
    <3>1. <<>> \in Seq(Tok) /\ Len(<<>>) = 0
      OBVIOUS
    <3>2. \A t : Kept(<<>>, t) = {}
      BY <3>1 DEF Kept
    <3>3. AltHeld(<<>>, 0) /\ TextHeld(<<>>, 0, {})
      BY <3>1, <3>2, FS_EmptySet DEF AltHeld, TextHeld
    <3>4. Begun(<<>>)
      BY <3>1 DEF Begun
    <3> QED BY <1>5, <3>1, <3>3, <3>4, StackEmpty DEF Good
  <2>3. Good(html, T[root], IF plain = 0 THEN 0 ELSE 1, last, ToSet(texts))
    BY <1>1, <1>5, <2>1, <2>2
  <2> QED BY <1>1, <1>3, <1>5, <2>3 DEF Writes
<1>7. Indents(open, root, xml, indent)
  <2>1. <<>> \in Seq(XTok) /\ Len(<<>>) = 0
    OBVIOUS
  <2>2. Stack(<<>>, <<>>)
    BY <2>1, StackEmpty
  <2>3. \A i \in 1 .. Len(xml) : xml[i].at = 2 * Tagged!Depth(xml, i)
    BY <1>1, <2>1
  <2> QED BY <1>1, <1>5, <2>1, <2>2, <2>3 DEF Indents
<1> QED BY <1>4, <1>6, <1>7 DEF MarkupInv

\* What html.c and xml.c have written fits the nodes that are open, in every state.
THEOREM MarkupFitsTree == PrintSpec => []MarkupInv
<1>1. PrintInit => MarkupInv
  BY MarkupBegins DEF PrintInit
<1>2. MarkupInv /\ [PrintNext]_writerVars => MarkupInv'
  <2> SUFFICES ASSUME MarkupInv, [PrintNext]_writerVars
               PROVE  MarkupInv'
    OBVIOUS
  <2>1. CASE UNCHANGED <<tree, option>>
    BY <2>1 DEF tree, MarkupInv, OpenInv, Writes, Indents, Good
  <2>2. CASE Tagged!Next
    <3>1. ASSUME NEW k, Tagged!EnterLeaf(k)
          PROVE  MarkupInv'
      BY <3>1, LeafKeeps
    <3>2. ASSUME NEW k, Tagged!Enter(k)
          PROVE  MarkupInv'
      BY <3>2, EnterKeeps
    <3>3. ASSUME Tagged!Done /\ UNCHANGED Tagged!vars
          PROVE  MarkupInv'
      BY <2>1, <3>3 DEF Tagged!vars, tree
    <3> QED BY <2>2, <3>1, <3>2, <3>3, ExitKeeps DEF Tagged!Next
  <2>3. ASSUME Next, UNCHANGED tree
        PROVE  MarkupInv'
    <3>1. UNCHANGED option
      BY <2>3 DEF Next, Visit, RequestBreak, ChangePrefix, SetFlag, BeginOut, WrapSpace, DropSpace,
                 LiteralNewline, Character, EndRender, Done, vars, input
    <3> QED BY <2>1, <2>3, <3>1
  <2>4. ASSUME UNCHANGED writerVars
        PROVE  MarkupInv'
    BY <2>1, <2>4 DEF writerVars, vars, input
  <2> QED BY <2>2, <2>3, <2>4 DEF PrintNext
<1> QED BY <1>1, <1>2, PTL DEF PrintSpec

LEMMA DoneIsWhole ==
  ASSUME MarkupInv, Tagged!Done
  PROVE  /\ plain = 0 /\ indent = 0
         /\ Good(html, <<>>, 0, last, ToSet(texts))
         /\ xml \in Seq(XTok) /\ Stack(xml, <<>>)
<1>1. Len(open) = root /\ root \in Nat
  BY DEF Tagged!Done, MarkupInv, OpenInv
<1>2. PICK T, m : /\ Trail(open, root, T, Tags(open))
                  /\ m \in root .. Len(open)
                  /\ Good(html, T[m], IF plain = 0 THEN 0 ELSE 1, last, ToSet(texts))
                  /\ plain # 0 => m > root
  BY DEF MarkupInv, Writes
<1>3. plain = 0 /\ m = root /\ T[m] = <<>>
  BY <1>1, <1>2 DEF Trail
<1>4. PICK U : /\ Trail(open, root, U, Parents(open))
               /\ Stack(xml, U[Len(open)])
               /\ indent = 2 * Len(U[Len(open)])
  BY DEF MarkupInv, Indents
<1>5. U[Len(open)] = <<>> /\ Len(<<>>) = 0
  BY <1>1, <1>4 DEF Trail
<1>6. xml \in Seq(XTok)
  BY DEF MarkupInv, Indents
<1> QED BY <1>2, <1>3, <1>4, <1>5, <1>6

\* What is held of the HTML is what is promised of it.
LEMMA HeldIsPromised ==
  ASSUME NEW st, NEW alt, NEW n, NEW S, Good(html, st, alt, n, S)
  PROVE  /\ Tagged!BlocksBeginLines
         /\ \A i \in Tagged!InAlt : html[i].t \in {"text", "blank"}
         /\ alt = 0 => Cardinality(Tagged!Places("alt")) = Cardinality(Tagged!Places("end"))
         /\ \A m \in S : Tagged!Text(m) \in ToSet(html)
         /\ \A i, j \in Tagged!Places("text") : i < j => html[i].of < html[j].of
<1>1. html \in Seq(Tok) /\ DOMAIN html = 1 .. Len(html) /\ Len(html) \in Nat
  BY DEF Good
<1>2. \A t : Tagged!Places(t) = Kept(html, t)
  BY <1>1 DEF Tagged!Places, Kept
<1>3. Tagged!BlocksBeginLines
  <2> SUFFICES ASSUME NEW i \in 1 .. Len(html), html[i].t = "open",
                      html[i].of \in Tagged!Block \cup {"pre"}
               PROVE  Tagged!AtLineStart(SubSeq(html, 1, i - 1))
    BY <1>1 DEF Tagged!BlocksBeginLines
  <2>1. i = 1 \/ html[i - 1] = Tagged!Nl
    BY DEF Good, Begun
  <2>2. CASE i = 1
    <3>1. SubSeq(html, 1, i - 1) = <<>>
      BY <1>1, <2>2
    <3> QED BY <3>1 DEF Tagged!AtLineStart
  <2>3. CASE i # 1 /\ html[i - 1] = Tagged!Nl
    <3> DEFINE s == SubSeq(html, 1, i - 1)
    <3>1. Len(s) = i - 1 /\ s[i - 1] = html[i - 1]
      BY <1>1, <2>3
    <3>2. Last(s) = Tagged!Nl
      BY <2>3, <3>1 DEF Last
    <3> QED BY <3>2, SameLibrary DEF Tagged!AtLineStart
  <2> QED BY <2>1, <2>2, <2>3
<1>4. ASSUME NEW i \in Tagged!InAlt
      PROVE  html[i].t \in {"text", "blank"}
  <2>1. Tagged!AltBegin.t = "alt" /\ Tagged!AltEnd.t = "end"
    BY DEF Tagged!AltBegin, Tagged!AltEnd, Tagged!Token
  <2>2. PICK b \in Kept(html, "alt") :
          /\ i \in 1 .. Len(html) /\ b < i
          /\ \A e \in Kept(html, "end") : ~(b < e /\ e <= i)
    BY <1>1, <1>2, <2>1 DEF Tagged!InAlt
  <2> QED BY <2>2 DEF Good, AltHeld
<1>5. alt = 0 => Cardinality(Tagged!Places("alt")) = Cardinality(Tagged!Places("end"))
  <2> SUFFICES ASSUME alt = 0
               PROVE  Cardinality(Kept(html, "alt")) = Cardinality(Kept(html, "end"))
    BY <1>2
  <2>1. Kept(html, "end") \subseteq 1 .. Len(html)
    BY DEF Kept
  <2>2. Cardinality(Kept(html, "end")) \in Nat
    BY <1>1, <2>1, Counted
  <2>3. Cardinality(Kept(html, "alt")) = Cardinality(Kept(html, "end")) + alt
    BY DEF Good, AltHeld
  <2> QED BY <2>2, <2>3
<1>6. ASSUME NEW m \in S
      PROVE  Tagged!Text(m) \in ToSet(html)
  <2>1. PICK i \in 1 .. Len(html) : html[i] = Tagged!Text(m)
    BY DEF Good, TextHeld
  <2> QED BY <1>1, <2>1 DEF ToSet
<1>7. \A i, j \in Tagged!Places("text") : i < j => html[i].of < html[j].of
  BY <1>2 DEF Good, TextHeld
<1> QED BY <1>3, <1>4, <1>5, <1>6, <1>7

\* Elements are closed in the order in which they were opened, in the HTML also around images
\* and in tight lists, and in the XML with the indentation of their depth; the blocks of the
\* HTML begin lines (S_render_node of html.c and of xml.c).
THEOREM ElementsAlwaysNest == PrintSpec => []ElementsNest
<1>1. ASSUME MarkupInv
      PROVE  ElementsNest
  <2>1. PICK st, alt : Good(html, st, alt, last, ToSet(texts))
    BY <1>1 DEF MarkupInv, Writes
  <2>2. Tagged!HtmlNests
    <3>1. Tagged!Nested(html) /\ html \in Seq(Tok)
      BY <2>1 DEF Good, Stack
    <3>2. ASSUME Tagged!Done
          PROVE  Tagged!AllClosed(html) /\ plain = 0
      <4>1. plain = 0 /\ Stack(html, <<>>)
        BY <1>1, <3>2, DoneIsWhole DEF Good
      <4> QED BY <3>1, <4>1, StackEmpty
    <3> QED BY <3>1, <3>2 DEF Tagged!HtmlNests
  <2>3. Tagged!XmlNests
    <3>1. xml \in Seq(XTok) /\ Tagged!Nested(xml)
          /\ \A i \in DOMAIN xml : xml[i].at = 2 * Tagged!Depth(xml, i)
      BY <1>1 DEF MarkupInv, Indents, Stack
    <3>2. ASSUME Tagged!Done
          PROVE  Tagged!AllClosed(xml) /\ indent = 0
      <4>1. indent = 0 /\ Stack(xml, <<>>)
        BY <1>1, <3>2, DoneIsWhole
      <4> QED BY <3>1, <4>1, StackEmpty
    <3> QED BY <3>1, <3>2 DEF Tagged!XmlNests
  <2>4. Tagged!BlocksBeginLines
    BY <2>1, HeldIsPromised
  <2> QED BY <2>2, <2>3, <2>4 DEF ElementsNest, Tagged!ElementsNest
<1> QED BY <1>1, MarkupFitsTree, PTL

\* Every text is in the HTML once, in the order of the tree, and an alternative text is text
\* alone, whatever the image holds (state->plain of S_render_node of html.c).
THEOREM TextsAlwaysOut == PrintSpec => []TextsOut
<1>1. ASSUME MarkupInv
      PROVE  TextsOut
  <2>1. PICK st, alt : Good(html, st, alt, last, ToSet(texts))
    BY <1>1 DEF MarkupInv, Writes
  <2>2. Tagged!TextOnce
    BY <2>1, HeldIsPromised, SameLibrary DEF Tagged!TextOnce
  <2>3. Tagged!AltIsText
    <3>1. Tagged!AltBegin.t = "alt" /\ Tagged!AltEnd.t = "end"
      BY DEF Tagged!AltBegin, Tagged!AltEnd, Tagged!Token
    <3>2. ASSUME Tagged!Done
          PROVE  Cardinality(Tagged!Places("alt")) = Cardinality(Tagged!Places("end"))
      BY <1>1, <3>2, DoneIsWhole, HeldIsPromised
    <3> QED BY <2>1, <3>1, <3>2, HeldIsPromised, SameLibrary DEF Tagged!AltIsText
  <2> QED BY <2>2, <2>3 DEF TextsOut, Tagged!TextsOut
<1> QED BY <1>1, MarkupFitsTree, PTL
=============================================================================
