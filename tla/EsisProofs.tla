----------------------------- MODULE EsisProofs -----------------------------
(***************************************************************************)
(* The stack of an ESIS reader stays sound whatever is on the stream and   *)
(* whatever the filter's handler does with it: for every set of elements   *)
(* and data, and without the bounds of the runs.                           *)
(***************************************************************************)
EXTENDS EsisChain, SequenceTheorems, TLAPS

FrameType == [token : {"frame", "stack"}, n_att : Nat, r_att : Nat, r_gi : Nat,
              handler : BOOLEAN, userData : BOOLEAN]

Fields == {"S", "frame", "n_att", "err"}

\* A cell of the stack at place i: a string, or a frame that leads further down
\* to a frame.
IsStr(c) == c = Str(c.str)
CellOK(S, i) == \/ IsStr(S[i])
                \/ /\ S[i] \in FrameType
                   /\ S[i].r_att < i
                   /\ S[i].r_att > 0 => S[S[i].r_att] \in FrameType
StackOK(S) == /\ S \in Seq(Range(S))
              /\ \A i \in 1 .. Len(S) : CellOK(S, i)
\* What every operation of the reader preserves, with the types of the fields
\* it adds to or takes from. A string is not a frame.
ReaderInv(r) ==
  /\ DOMAIN r = Fields
  /\ StackOK(r.S)
  /\ r.frame \in FrameType /\ r.frame.token = "frame"
  /\ r.n_att \in Nat
  /\ r.frame.r_att <= Len(r.S)
  /\ r.frame.r_att > 0 => r.S[r.frame.r_att] \in FrameType

-----------------------------------------------------------------------------
(* The stack alone. *)

\* Strings and frames are told apart by their fields.
LEMMA StrIsNoFrame == ASSUME NEW s PROVE Str(s) \notin FrameType /\ ~IsFrame(Str(s))
<1>1. DOMAIN Str(s) = {"str"}
  BY DEF Str
<1>2. \A f \in FrameType : "token" \in DOMAIN f
  BY DEF FrameType
<1> QED BY <1>1, <1>2 DEF IsFrame

LEMMA FrameIsFrame == ASSUME NEW f \in FrameType PROVE IsFrame(f)
BY DEF IsFrame, FrameType

\* A cell can be pushed that is a string or leads to a frame below it.
LEMMA PushCell ==
  ASSUME NEW S, StackOK(S), NEW c,
         \/ IsStr(c)
         \/ c \in FrameType /\ c.r_att <= Len(S) /\ (c.r_att > 0 => S[c.r_att] \in FrameType)
  PROVE  LET T == Append(S, c) IN
         /\ StackOK(T) /\ Len(T) = Len(S) + 1 /\ T[Len(S) + 1] = c
         /\ \A i \in 1 .. Len(S) : T[i] = S[i]
<1> DEFINE X == Range(S)
           T == Append(S, c)
<1>1. S \in Seq(X \cup {c}) /\ Len(S) \in Nat
  BY DEF StackOK
<1>2. /\ T \in Seq(X \cup {c}) /\ Len(T) = Len(S) + 1 /\ T[Len(S) + 1] = c
      /\ \A i \in 1 .. Len(S) : T[i] = S[i]
  BY <1>1
<1>3. T \in Seq(Range(T))
  BY <1>2, SeqOfRange
<1>4. ASSUME NEW i \in 1 .. Len(T) PROVE CellOK(T, i)
  <2>1. CASE i = Len(S) + 1
    BY <1>1, <1>2, <2>1 DEF CellOK, FrameType
  <2>2. CASE i \in 1 .. Len(S)
    <3>1. CellOK(S, i) /\ T[i] = S[i]
      BY <1>2, <2>2 DEF StackOK
    <3> QED BY <1>1, <1>2, <2>2, <3>1 DEF CellOK, FrameType
  <2> QED BY <1>1, <1>2, <2>1, <2>2
<1> QED BY <1>2, <1>3, <1>4 DEF StackOK

\* Releasing cells from the top leaves no link to a released one.
LEMMA ReleaseCells ==
  ASSUME NEW S, StackOK(S), NEW n \in 0 .. Len(S)
  PROVE  LET T == SubSeq(S, 1, n) IN
         StackOK(T) /\ Len(T) = n /\ \A i \in 1 .. n : T[i] = S[i]
<1> DEFINE X == Range(S)
           T == SubSeq(S, 1, n)
<1>1. S \in Seq(X) /\ Len(S) \in Nat
  BY DEF StackOK
<1>2. T \in Seq(X) /\ Len(T) = n /\ \A i \in 1 .. n : T[i] = S[i]
  BY <1>1
<1>3. T \in Seq(Range(T))
  BY <1>2, SeqOfRange
<1>4. ASSUME NEW i \in 1 .. Len(T) PROVE CellOK(T, i)
  <2>1. CellOK(S, i) /\ T[i] = S[i]
    BY <1>1, <1>2 DEF StackOK
  <2> QED BY <1>1, <1>2, <2>1 DEF CellOK, FrameType
<1> QED BY <1>2, <1>3, <1>4 DEF StackOK

-----------------------------------------------------------------------------
(* The operations of the reader. *)

LEMMA FrameTyped ==
  /\ NullFrame \in FrameType /\ NullFrame.token = "frame"
  /\ NullFrame.r_att = 0
BY DEF NullFrame, FrameType

\* The frame of an element that begins
LEMMA NewFrameTyped ==
  ASSUME NEW n \in Nat, NEW f, f = [NullFrame EXCEPT !.r_att = n]
  PROVE  f \in FrameType /\ f.token = "frame" /\ f.r_att = n
BY DEF NullFrame, FrameType

\* A reader of which only the error flag changed
LEMMA ErrInv ==
  ASSUME NEW r, ReaderInv(r)
  PROVE  ReaderInv([r EXCEPT !.err = TRUE])
BY DEF ReaderInv

\* Strings are pushed for a name or an attribute.
LEMMA PushStr ==
  ASSUME NEW r, ReaderInv(r), NEW x
  PROVE  LET q == [r EXCEPT !.S = Append(@, Str(x))]
         IN  ReaderInv(q) /\ Len(q.S) = Len(r.S) + 1
<1> DEFINE q == [r EXCEPT !.S = Append(@, Str(x))]
<1>1. /\ DOMAIN r = Fields
      /\ StackOK(r.S) /\ r.frame \in FrameType /\ r.frame.token = "frame" /\ r.n_att \in Nat
      /\ r.frame.r_att <= Len(r.S)
      /\ r.frame.r_att > 0 => r.S[r.frame.r_att] \in FrameType
  BY DEF ReaderInv
<1>2. /\ q.S = Append(r.S, Str(x)) /\ q.frame = r.frame /\ q.n_att = r.n_att
      /\ DOMAIN q = Fields
  BY <1>1
<1>3. IsStr(Str(x))
  BY DEF IsStr, Str
<1>4. /\ StackOK(q.S) /\ Len(q.S) = Len(r.S) + 1
      /\ \A i \in 1 .. Len(r.S) : q.S[i] = r.S[i]
  BY <1>1, <1>2, <1>3, PushCell
<1>5. Len(r.S) \in Nat /\ r.frame.r_att \in Nat
  BY <1>1 DEF StackOK, FrameType
<1>6. q.frame.r_att <= Len(q.S) /\ (q.frame.r_att > 0 => q.S[q.frame.r_att] \in FrameType)
  BY <1>1, <1>2, <1>4, <1>5
<1> QED BY <1>1, <1>2, <1>4, <1>6 DEF ReaderInv

\* The frame of the enclosing element becomes a cell; the new one leads to it.
LEMMA PushFrameInv ==
  ASSUME NEW r, ReaderInv(r)
  PROVE  LET q == PushFrame(r) IN
         /\ ReaderInv(q) /\ q.n_att = r.n_att
         /\ Len(q.S) = Len(r.S) + 1 /\ q.S[Len(q.S)] \in FrameType
<1> DEFINE q == PushFrame(r)
           c == [r.frame EXCEPT !.token = "stack"]
<1>1. /\ DOMAIN r = Fields
      /\ StackOK(r.S) /\ r.frame \in FrameType /\ r.n_att \in Nat
      /\ r.frame.r_att <= Len(r.S)
      /\ r.frame.r_att > 0 => r.S[r.frame.r_att] \in FrameType
  BY DEF ReaderInv
<1>2. c \in FrameType /\ c.r_att = r.frame.r_att
  BY <1>1 DEF FrameType
<1>3. /\ q.S = Append(r.S, c) /\ q.n_att = r.n_att
      /\ q.frame = [NullFrame EXCEPT !.r_att = Len(r.S) + 1]
      /\ DOMAIN q = Fields
  BY <1>1 DEF PushFrame, Fields
<1> HIDE DEF c, q
<1>4. StackOK(q.S) /\ Len(q.S) = Len(r.S) + 1 /\ q.S[Len(r.S) + 1] = c
  BY <1>1, <1>2, <1>3, PushCell
<1>5. Len(r.S) \in Nat
  BY <1>1 DEF StackOK
<1>6. q.frame \in FrameType /\ q.frame.token = "frame" /\ q.frame.r_att = Len(r.S) + 1
  <2>1. Len(r.S) + 1 \in Nat
    BY <1>5
  <2> QED BY <1>3, <2>1, NewFrameTyped
<1>7. ReaderInv(q) /\ q.n_att = r.n_att
      /\ Len(q.S) = Len(r.S) + 1 /\ q.S[Len(q.S)] \in FrameType
  BY <1>1, <1>2, <1>3, <1>4, <1>5, <1>6 DEF ReaderInv
<1> QED BY <1>7 DEF q

LEMMA OpeningInv ==
  ASSUME NEW r, ReaderInv(r)
  PROVE  ReaderInv(Opening(r)) /\ Opening(r).n_att = r.n_att
BY PushFrameInv DEF Opening

\* The topmost cell is read as a frame only where it is one.
LEMMA PopFrameInv ==
  ASSUME NEW r, ReaderInv(r), Len(r.S) > 0, r.S[Len(r.S)] \in FrameType
  PROVE  ReaderInv(PopFrame(r))
<1> DEFINE q == PopFrame(r)
           top == r.S[Len(r.S)]
<1>1. /\ DOMAIN r = Fields
      /\ StackOK(r.S) /\ r.n_att \in Nat
  BY DEF ReaderInv
<1>2. Len(r.S) \in Nat /\ CellOK(r.S, Len(r.S))
  BY <1>1 DEF StackOK
<1>3. ~IsStr(top)
  BY StrIsNoFrame DEF IsStr
<1>4. top.r_att < Len(r.S) /\ (top.r_att > 0 => r.S[top.r_att] \in FrameType)
  BY <1>2, <1>3 DEF CellOK
<1>5. /\ q.S = r.S /\ q.n_att = r.n_att /\ q.frame = [top EXCEPT !.token = "frame"]
      /\ DOMAIN q = Fields
  BY <1>1 DEF PopFrame, Last
<1>6. q.frame \in FrameType /\ q.frame.token = "frame" /\ q.frame.r_att = top.r_att
  BY <1>5 DEF FrameType
<1>7. top.r_att \in Nat
  BY DEF FrameType
<1> QED BY <1>1, <1>2, <1>4, <1>5, <1>6, <1>7 DEF ReaderInv

\* case 'A', whether the line is accepted or not
LEMMA AttributeInv ==
  ASSUME NEW r, ReaderInv(r), NEW l
  PROVE  ReaderInv(Attribute(r, l))
<1> DEFINE o == Opening(r)
           e == [o EXCEPT !.err = TRUE]
<1>1. ReaderInv(o) /\ ReaderInv(e)
  BY OpeningInv, ErrInv
<1>2. CASE Len(l) = 5
  <2> DEFINE p == [o EXCEPT !.S = Append(@, Str(l[1]))]
             q == [p EXCEPT !.S = Append(@, Str(l[5]))]
  <2>1. ReaderInv(p)
    BY <1>1, PushStr
  <2>2. ReaderInv(q)
    BY <2>1, PushStr
  <2>3. o.n_att \in Nat /\ DOMAIN o = Fields
        /\ o.S \in Seq(Range(o.S))
    BY <1>1 DEF ReaderInv, StackOK
  <2>4. o.S \o <<Str(l[1]), Str(l[5])>> = Append(Append(o.S, Str(l[1])), Str(l[5]))
    <3> DEFINE X == Range(o.S) \cup {Str(l[1]), Str(l[5])}
               s == o.S \o <<Str(l[1]), Str(l[5])>>
               t == Append(Append(o.S, Str(l[1])), Str(l[5]))
    <3>1. o.S \in Seq(X) /\ <<Str(l[1]), Str(l[5])>> \in Seq(X)
      BY <2>3, SeqMonotonic
    <3>2. s \in Seq(X) /\ t \in Seq(X) /\ Len(s) = Len(o.S) + 2 /\ Len(t) = Len(o.S) + 2
      BY <3>1
    <3>3. ASSUME NEW i \in 1 .. Len(s) PROVE s[i] = t[i]
      BY <3>1, <3>2
    <3> QED BY <3>2, <3>3, SeqEqual
  <2>5. Attribute(r, l) = [q EXCEPT !.n_att = @ + 1]
    BY <1>2, <2>3, <2>4 DEF Attribute
  <2> HIDE DEF q
  <2>6. ReaderInv([q EXCEPT !.n_att = @ + 1])
    BY <2>2 DEF ReaderInv
  <2> QED BY <2>5, <2>6
<1>3. CASE Len(l) # 5 /\ r.n_att = 0
  <2>1. o = PushFrame(r)
    BY <1>3 DEF Opening
  <2>2. Len(o.S) = Len(r.S) + 1 /\ o.S[Len(o.S)] \in FrameType
    BY <2>1, PushFrameInv
  <2>3. e.S = o.S /\ Len(r.S) \in Nat
    BY <1>1 DEF ReaderInv, StackOK
  <2> HIDE DEF e
  <2>4. ReaderInv(PopFrame(e))
    BY <1>1, <2>2, <2>3, PopFrameInv
  <2> QED BY <1>3, <2>4 DEF Attribute, e
<1>4. CASE Len(l) # 5 /\ r.n_att # 0
  BY <1>1, <1>4 DEF Attribute
<1> QED BY <1>2, <1>3, <1>4

\* case '(', and what the handler stores in the frame
LEMMA OpenElementInv ==
  ASSUME NEW r, ReaderInv(r), NEW gi, NEW handled \in BOOLEAN
  PROVE  ReaderInv(OpenElement(r, gi, handled))
<1> DEFINE o == Opening(r)
           p == [o EXCEPT !.S = Append(@, Str(gi))]
           q == OpenElement(r, gi, handled)
<1>1. ReaderInv(o) /\ ReaderInv(p)
  BY OpeningInv, PushStr
<1>2. /\ o.n_att \in Nat /\ Len(o.S) \in Nat
      /\ DOMAIN o = Fields
      /\ o.frame \in FrameType
  BY <1>1 DEF ReaderInv, StackOK
<1>3. /\ q.S = p.S /\ q.n_att = 0 /\ p.frame = o.frame
      /\ q.frame = [o.frame EXCEPT !.n_att = o.n_att, !.r_gi = Len(o.S) + 1, !.handler = handled]
      /\ DOMAIN q = Fields
  BY <1>2 DEF OpenElement, Fields
<1> HIDE DEF o, p, q
<1>4. q.frame \in FrameType /\ q.frame.token = o.frame.token /\ q.frame.r_att = o.frame.r_att
  <2>1. Len(o.S) + 1 \in Nat
    BY <1>2
  <2> DEFINE f == o.frame
             n == o.n_att
             g == Len(o.S) + 1
             x == q.frame
  <2>2. /\ f \in FrameType /\ n \in Nat /\ g \in Nat /\ handled \in BOOLEAN
        /\ x = [f EXCEPT !.n_att = n, !.r_gi = g, !.handler = handled]
    BY <1>2, <1>3, <2>1
  <2> HIDE DEF f, n, g, x
  <2>3. x \in FrameType /\ x.token = f.token /\ x.r_att = f.r_att
    BY <2>2 DEF FrameType
  <2> QED BY <2>3 DEF f, x
<1>5. ReaderInv(q)
  BY <1>1, <1>3, <1>4 DEF ReaderInv
<1> QED BY <1>5 DEF q

LEMMA UserDataInv ==
  ASSUME NEW r, ReaderInv(r), NEW u \in BOOLEAN
  PROVE  ReaderInv([r EXCEPT !.frame.userData = u])
<1> DEFINE q == [r EXCEPT !.frame.userData = u]
<1>1. /\ q.S = r.S /\ q.n_att = r.n_att /\ q.frame = [r.frame EXCEPT !.userData = u]
      /\ DOMAIN q = Fields
  BY DEF ReaderInv
<1>2. q.frame \in FrameType /\ q.frame.token = r.frame.token /\ q.frame.r_att = r.frame.r_att
  BY <1>1 DEF ReaderInv, FrameType
<1> QED BY <1>1, <1>2 DEF ReaderInv

\* case ')': what is released is above the frame that is read.
LEMMA CloseElementInv ==
  ASSUME NEW r, ReaderInv(r)
  PROVE  ReaderInv(CloseElement(r))
<1> DEFINE n == r.frame.r_att
           s == Release(r, n)
<1>1. /\ DOMAIN r = Fields
      /\ StackOK(r.S) /\ r.frame \in FrameType /\ r.n_att \in Nat
      /\ n \in 0 .. Len(r.S) /\ (n > 0 => r.S[n] \in FrameType)
  BY DEF ReaderInv, StackOK, FrameType
<1>2. /\ s.S = SubSeq(r.S, 1, n) /\ s.frame = r.frame /\ s.n_att = r.n_att
      /\ DOMAIN s = Fields
  BY <1>1 DEF Release
<1>3. StackOK(s.S) /\ Len(s.S) = n /\ \A i \in 1 .. n : s.S[i] = r.S[i]
  BY <1>1, <1>2, ReleaseCells
<1>4. CASE n >= 1
  <2>1. s.S[n] \in FrameType
    BY <1>1, <1>3, <1>4
  <2>2. ReaderInv(s)
    BY <1>1, <1>2, <1>3, <1>4, <2>1 DEF ReaderInv
  <2>3. ReaderInv(PopFrame(s))
    BY <1>1, <1>3, <1>4, <2>1, <2>2, PopFrameInv
  <2> QED BY <1>4, <2>3 DEF CloseElement
<1>5. CASE n = 0
  <2> DEFINE q == [s EXCEPT !.frame = NullFrame]
  <2>1. /\ q.S = s.S /\ q.n_att = s.n_att /\ q.frame = NullFrame
        /\ DOMAIN q = Fields
    BY <1>2
  <2> HIDE DEF q, s
  <2>2. q.frame.r_att = 0
    BY <2>1, FrameTyped
  <2>3. ReaderInv(q)
    BY <1>1, <1>2, <1>3, <1>5, <2>1, <2>2, FrameTyped DEF ReaderInv
  <2> QED BY <1>5, <2>3 DEF CloseElement, q, s
<1> QED BY <1>1, <1>4, <1>5

-----------------------------------------------------------------------------
(* The specification. *)

LEMMA NewReaderInv == ReaderInv(NewReader)
<1>1. <<>> \in Seq(Range(<<>>)) /\ Len(<<>>) = 0
  BY EmptySeq
<1>2. StackOK(<<>>)
  BY <1>1 DEF StackOK
<1> DEFINE r == NewReader
<1>3. /\ DOMAIN r = Fields /\ r.S = <<>> /\ r.frame = NullFrame /\ r.n_att = 0
  BY DEF NewReader, Fields
<1> HIDE DEF r
<1>4. r.frame.r_att = 0
  BY <1>3, FrameTyped
<1>5. ReaderInv(r)
  BY <1>1, <1>2, <1>3, <1>4, FrameTyped DEF ReaderInv
<1> QED BY <1>5 DEF r

IInv == ReaderInv(filter) /\ ReaderInv(sink)

LEMMA InitInv == Init => IInv
BY NewReaderInv DEF Init, IInv

\* Only the lines of a stream change a reader.
LEMMA NextInv == IInv /\ [Next]_vars => IInv'
<1> SUFFICES ASSUME IInv, [Next]_vars PROVE IInv'
  OBVIOUS
<1> USE DEF IInv
<1>1. CASE SayStart
  BY <1>1 DEF SayStart, Say
<1>2. CASE SayData
  BY <1>2 DEF SayData, Say
<1>3. CASE SayEnd
  BY <1>3 DEF SayEnd, Say
<1>4. CASE EndOfStream
  BY <1>4 DEF EndOfStream
<1>5. CASE FilterAttribute
  BY <1>5, AttributeInv DEF FilterAttribute
<1>6. CASE FilterStart
  <2> DEFINE gi   == Line(stream)[1]
             r    == OpenElement(filter, gi, gi \in Handled)
             ours == gi \in Handled /\ Ours(Atts(r))
             told == [r EXCEPT !.frame.userData = ours]
  <2>1. filter' = told /\ sink' = sink
    BY <1>6 DEF FilterStart
  <2>2. (gi \in Handled) \in BOOLEAN
    OBVIOUS
  <2>3. ReaderInv(r)
    BY <2>2, OpenElementInv
  <2>4. ours \in BOOLEAN
    OBVIOUS
  <2>5. ReaderInv(told)
    BY <2>3, <2>4, UserDataInv
  <2> QED BY <2>1, <2>5
<1>7. CASE FilterData
  BY <1>7 DEF FilterData
<1>8. CASE FilterEnd
  BY <1>8, CloseElementInv DEF FilterEnd
<1>9. CASE EndOfFilter
  BY <1>9 DEF EndOfFilter
<1>10. CASE SinkAttribute
  BY <1>10, AttributeInv DEF SinkAttribute, SinkLine
<1>11. CASE SinkStart
  BY <1>11, OpenElementInv DEF SinkStart, SinkLine
<1>12. CASE SinkData
  BY <1>12 DEF SinkData
<1>13. CASE SinkEnd
  BY <1>13, CloseElementInv DEF SinkEnd, SinkLine
<1>14. CASE EndOfChain
  BY <1>14 DEF EndOfChain
<1>15. CASE Done \/ UNCHANGED vars
  BY <1>15 DEF Done, vars
<1> QED BY <1>1, <1>2, <1>3, <1>4, <1>5, <1>6, <1>7, <1>8, <1>9, <1>10, <1>11,
           <1>12, <1>13, <1>14, <1>15 DEF Next

LEMMA InvSound == ASSUME NEW r, ReaderInv(r) PROVE ReaderSound(r)
<1>1. /\ r.frame \in FrameType /\ r.frame.token = "frame" /\ r.frame.r_att <= Len(r.S)
      /\ r.frame.r_att > 0 => r.S[r.frame.r_att] \in FrameType
      /\ StackOK(r.S)
  BY DEF ReaderInv
<1>2. r.frame.r_att \in 0 .. Len(r.S)
  BY <1>1 DEF FrameType, StackOK
<1>3. r.frame.r_att > 0 => IsFrame(r.S[r.frame.r_att])
  BY <1>1, FrameIsFrame
<1>4. ASSUME NEW i \in DOMAIN r.S, IsFrame(r.S[i])
      PROVE  /\ r.S[i].r_att \in 0 .. i - 1
             /\ r.S[i].r_att > 0 => IsFrame(r.S[r.S[i].r_att])
  <2>1. i \in 1 .. Len(r.S) /\ CellOK(r.S, i)
    BY <1>1, LenProperties DEF StackOK
  <2>2. ~IsStr(r.S[i])
    BY <1>4, StrIsNoFrame DEF IsStr
  <2>3. r.S[i] \in FrameType /\ r.S[i].r_att < i
        /\ (r.S[i].r_att > 0 => r.S[r.S[i].r_att] \in FrameType)
    BY <2>1, <2>2 DEF CellOK
  <2>4. r.S[i].r_att \in Nat
    BY <2>3 DEF FrameType
  <2> QED BY <2>1, <2>3, <2>4, FrameIsFrame
<1> QED BY <1>1, <1>2, <1>3, <1>4 DEF ReaderSound

(* For all elements, data and lengths of streams, each frame offset that   *)
(* the two readers have stored leads to a frame further down the stack, or *)
(* is zero, through accepted and refused attribute lines, elements with    *)
(* and without attributes, and every end of one. It is not said that this  *)
(* is the frame of the enclosing element.                                  *)
THEOREM AlwaysStackSound == Spec => []StackSound
<1>1. IInv => StackSound
  BY InvSound DEF IInv, StackSound
<1> QED BY InitInv, NextInv, <1>1, PTL DEF Spec
=============================================================================
