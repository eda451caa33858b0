---------------------------- MODULE ColumnsProofs ----------------------------
(***************************************************************************)
(* LinesDoNotDependOnBuffers: however a document is cut into buffers, the  *)
(* lines that are processed are the lines of its text. The invariant says  *)
(* that what the loop has taken from the buffers so far is some text, and  *)
(* that its lines were processed; the lemmas before it say what a piece    *)
(* of text, a line end, or the second half of one adds to the lines.       *)
(*                                                                         *)
(* AlwaysCursorSound: for lines of any length, offset, column and          *)
(* partially_consumed_tab describe one position, and S_find_first_nonspace *)
(* finds the column of the byte that it stops at.                          *)
(*                                                                         *)
(* TabsBehaveAsSpaces: the handlers leave the position where it would be   *)
(* in the line with its tabs replaced by spaces. The invariant says where  *)
(* the position will be when S_advance_offset is done.                     *)
(***************************************************************************)
EXTENDS Columns, SequenceTheorems, FiniteSetTheorems, WellFoundedInduction, TLAPS

-----------------------------------------------------------------------------
(* Numbers: a set of them has a least one, and a bounded one a greatest. *)

LEMMA LeastNat ==
  ASSUME NEW T, T \subseteq Nat, T # {}
  PROVE  \E m \in T : \A k \in T : m <= k
<1> DEFINE I == {0 .. n : n \in T}
<1>1. IsWellFoundedOn(StrictSubsetOrdering(Nat), FiniteSubsetsOf(Nat))
  BY FS_StrictSubsetOrderingWellFounded
<1>2. ASSUME NEW n \in T
      PROVE  0 .. n \in FiniteSubsetsOf(Nat)
  BY FS_Interval, SMT DEF FiniteSubsetsOf
<1>3. I \subseteq FiniteSubsetsOf(Nat) /\ I # {}
  BY <1>2
<1>4. PICK x \in I : \A y \in I : <<y, x>> \notin StrictSubsetOrdering(Nat)
  BY <1>1, <1>3, WFMin
<1>5. PICK m \in T : x = 0 .. m
  OBVIOUS
<1>6. ASSUME NEW k \in T, k < m
      PROVE  FALSE
  <2>1. k \in Nat /\ m \in Nat
    OBVIOUS
  <2>2. m \in 0 .. m /\ m \notin 0 .. k /\ 0 .. k \subseteq 0 .. m
    BY <1>6, <2>1
  <2>3. <<0 .. k, 0 .. m>> \in StrictSubsetOrdering(Nat)
    BY <2>1, <2>2 DEF StrictSubsetOrdering
  <2> QED BY <1>4, <1>5, <2>3
<1> QED BY <1>5, <1>6

LEMMA MinOf ==
  ASSUME NEW S, S \subseteq Nat, S # {}
  PROVE  Min(S) \in S /\ \A x \in S : Min(S) <= x
<1>1. \E m \in S : \A x \in S : m <= x
  BY LeastNat
<1> QED BY <1>1 DEF Min

LEMMA MaxOf ==
  ASSUME NEW n \in Nat, NEW S, S \subseteq 0 .. n, S # {}
  PROVE  Max(S) \in S /\ \A x \in S : Max(S) >= x
<1> DEFINE T == {n - x : x \in S}
<1>1. T \subseteq Nat /\ T # {}
  <2>1. \A x \in S : n - x \in Nat
    OBVIOUS
  <2> QED BY <2>1
<1>2. PICK m \in T : \A k \in T : m <= k
  BY <1>1, LeastNat
<1>3. PICK a \in S : m = n - a
  OBVIOUS
<1>4. \A x \in S : a >= x
  <2> TAKE x \in S
  <2>1. m <= n - x
    BY <1>2
  <2> QED BY <1>3, <2>1
<1> QED BY <1>3, <1>4 DEF Max

-----------------------------------------------------------------------------
(* The lines of a text. *)

Char == STRING \cup {"repl", "cr", "nl"}
Str  == Seq(Char)

LEMMA EndingIs ==
  ASSUME NEW t, NEW i
  PROVE  i \in Endings(t) <=>
           i \in DOMAIN t /\ (t[i] = "nl" \/ (t[i] = "cr" /\ (i = Len(t) \/ t[i + 1] # "nl")))
BY DEF Endings

LEMMA LineAtIs ==
  ASSUME NEW t, NEW i
  PROVE  LineAt(t, i) = Wording(SubSeq(t, From(t, i),
                                       IF t[i] = "nl" /\ i > 1 /\ t[i - 1] = "cr"
                                       THEN i - 2 ELSE i - 1))
BY DEF LineAt

IsUpTo(up, t) ==
  /\ up[0] = <<>>
  /\ \A i \in 1 .. Len(t) :
       up[i] = IF i \in Endings(t) THEN Append(up[i - 1], LineAt(t, i)) ELSE up[i - 1]

LEMMA EndedUpTo ==
  ASSUME NEW t \in Str
  PROVE  \E up : IsUpTo(up, t) /\ Ended(t) = up[Len(t)]
<1> DEFINE Turned(i, s) == IF i \in Endings(t) THEN Append(s, LineAt(t, i)) ELSE s
           Good(k, up) == up = [i \in 0 .. k |-> IF i = 0 THEN <<>> ELSE Turned(i, up[i - 1])]
           Bad == {k \in Nat : ~ \E up : Good(k, up)}
<1>1. Len(t) \in Nat
  BY DEF Str
<1>2. Ended(t) = (CHOOSE up : Good(Len(t), up))[Len(t)]
  BY DEF Ended
<1> HIDE DEF Turned
<1>3. ASSUME Bad # {}
      PROVE  FALSE
  <2>1. PICK k \in Bad : \A j \in Bad : k <= j
    <3>1. Bad \subseteq Nat
      OBVIOUS
    <3> HIDE DEF Bad
    <3> QED BY <1>3, <3>1, LeastNat
  <2>2. k \in Nat
    OBVIOUS
  <2>3. CASE k = 0
    <3> DEFINE f == [i \in 0 .. 0 |-> <<>>]
    <3>1. Good(0, f)
      <4>1. \A i \in 0 .. 0 : i = 0
        OBVIOUS
      <4> QED BY <4>1
    <3> QED BY <2>1, <2>3, <3>1
  <2>4. CASE k # 0
    <3>1. k - 1 \in Nat /\ k - 1 \notin Bad
      <4>1. k - 1 \in Nat /\ ~(k <= k - 1)
        BY <2>2, <2>4
      <4> HIDE DEF Bad
      <4> QED BY <2>1, <4>1
    <3>2. PICK f : Good(k - 1, f)
      BY <3>1
    <3> DEFINE g == [i \in 0 .. k |-> IF i = 0 THEN <<>> ELSE Turned(i, f[i - 1])]
    <3>3. \A i \in 0 .. k - 1 : g[i] = f[i]
      BY <2>2, <3>1, <3>2
    <3>4. \A i \in 0 .. k : i # 0 => i - 1 \in 0 .. k - 1
      BY <2>2
    <3>5. Good(k, g)
      <4> SUFFICES ASSUME NEW i \in 0 .. k
                   PROVE  (IF i = 0 THEN <<>> ELSE Turned(i, f[i - 1]))
                            = (IF i = 0 THEN <<>> ELSE Turned(i, g[i - 1]))
        OBVIOUS
      <4> QED BY <3>3, <3>4
    <3> QED BY <2>1, <3>5
  <2> QED BY <2>3, <2>4
<1>4. \E up : Good(Len(t), up)
  BY <1>1, <1>3
<1> DEFINE up == CHOOSE up : Good(Len(t), up)
<1>5. Good(Len(t), up)
  BY <1>4
<1> HIDE DEF up
<1>6. IsUpTo(up, t)
  <2>1. up[0] = <<>>
    BY <1>1, <1>5
  <2>2. ASSUME NEW i \in 1 .. Len(t)
        PROVE  up[i] = Turned(i, up[i - 1])
    <3>1. i \in 0 .. Len(t) /\ i # 0
      BY <1>1
    <3> QED BY <1>5, <3>1
  <2> QED BY <2>1, <2>2 DEF IsUpTo, Turned
<1> QED BY <1>2, <1>6 DEF up

\* Two texts with the same line ends up to n have the same lines up to n.
LEMMA UpToAgree ==
  ASSUME NEW t, NEW u, NEW n \in Nat, n <= Len(t), n <= Len(u), Len(t) \in Nat, Len(u) \in Nat,
         NEW f, IsUpTo(f, t), NEW g, IsUpTo(g, u),
         \A i \in 1 .. n : /\ i \in Endings(t) <=> i \in Endings(u)
                           /\ i \in Endings(t) => LineAt(t, i) = LineAt(u, i)
  PROVE  f[n] = g[n]
<1> DEFINE Bad == {k \in Nat : k <= n /\ f[k] # g[k]}
<1>1. Bad = {}
  <2> SUFFICES ASSUME Bad # {}
               PROVE  FALSE
    OBVIOUS
  <2>1. PICK k \in Bad : \A j \in Bad : k <= j
    <3>1. Bad \subseteq Nat
      OBVIOUS
    <3> HIDE DEF Bad
    <3> QED BY <3>1, LeastNat
  <2>2. k # 0
    BY DEF IsUpTo
  <2>3. k - 1 \in Nat /\ ~(k <= k - 1) /\ k - 1 <= n
    BY <2>2
  <2>4. f[k - 1] = g[k - 1]
    BY <2>1, <2>3
  <2>5. k \in 1 .. n /\ k \in 1 .. Len(t) /\ k \in 1 .. Len(u)
    BY <2>2
  <2> QED BY <2>4, <2>5 DEF IsUpTo
<1> QED BY <1>1

\* Without line ends there are no more lines.
LEMMA UpToConstant ==
  ASSUME NEW t, Len(t) \in Nat, NEW f, IsUpTo(f, t), NEW m \in Nat, NEW n \in Nat,
         m <= n, n <= Len(t), \A i \in m + 1 .. n : i \notin Endings(t)
  PROVE  f[n] = f[m]
<1> DEFINE Bad == {k \in Nat : m <= k /\ k <= n /\ f[k] # f[m]}
<1>1. Bad = {}
  <2> SUFFICES ASSUME Bad # {}
               PROVE  FALSE
    OBVIOUS
  <2>1. PICK k \in Bad : \A j \in Bad : k <= j
    <3>1. Bad \subseteq Nat
      OBVIOUS
    <3> HIDE DEF Bad
    <3> QED BY <3>1, LeastNat
  <2>2. k # m
    OBVIOUS
  <2>3. k - 1 \in Nat /\ ~(k <= k - 1) /\ m <= k - 1 /\ k - 1 <= n
    BY <2>2
  <2>4. f[k - 1] = f[m]
    BY <2>1, <2>3
  <2>5. k \in 1 .. Len(t) /\ k \in m + 1 .. n
    BY <2>2
  <2> QED BY <2>4, <2>5 DEF IsUpTo
<1> QED BY <1>1

LEMMA ConcatIs ==
  ASSUME NEW t \in Str, NEW u \in Str
  PROVE  /\ t \o u \in Str /\ Len(t \o u) = Len(t) + Len(u)
         /\ Len(t) \in Nat /\ Len(u) \in Nat
         /\ DOMAIN t = 1 .. Len(t) /\ DOMAIN u = 1 .. Len(u)
         /\ DOMAIN (t \o u) = 1 .. Len(t) + Len(u)
         /\ \A i \in 1 .. Len(t) : (t \o u)[i] = t[i]
         /\ \A i \in 1 .. Len(u) : (t \o u)[Len(t) + i] = u[i]
BY ConcatProperties DEF Str

LEMMA WordingIs ==
  ASSUME NEW t \in Str
  PROVE  /\ Wording(t) \in Str /\ Len(Wording(t)) = Len(t)
         /\ \A i \in 1 .. Len(t) : Wording(t)[i] = IF t[i] = "nul" THEN "repl" ELSE t[i]
<1>1. Len(t) \in Nat /\ DOMAIN t = 1 .. Len(t) /\ \A i \in 1 .. Len(t) : t[i] \in Char
  BY DEF Str
<1>2. Wording(t) = [i \in 1 .. Len(t) |-> IF t[i] = "nul" THEN "repl" ELSE t[i]]
  BY <1>1 DEF Wording
<1>3. Wording(t) \in [1 .. Len(t) -> Char]
  <2>1. \A i \in 1 .. Len(t) : (IF t[i] = "nul" THEN "repl" ELSE t[i]) \in Char
    BY <1>1 DEF Char
  <2> QED BY <1>2, <2>1
<1>4. Wording(t) \in Str
  BY <1>1, <1>3, SeqDef DEF Str
<1> QED BY <1>1, <1>2, <1>3, <1>4

LEMMA WordingConcat ==
  ASSUME NEW t \in Str, NEW u \in Str
  PROVE  Wording(t \o u) = Wording(t) \o Wording(u)
<1> DEFINE w == t \o u
           p == Wording(t)
           q == Wording(u)
           a == Wording(w)
           b == p \o q
<1>1. /\ w \in Str /\ Len(w) = Len(t) + Len(u) /\ Len(t) \in Nat /\ Len(u) \in Nat
      /\ \A i \in 1 .. Len(t) : w[i] = t[i]
      /\ \A i \in 1 .. Len(u) : w[Len(t) + i] = u[i]
  BY ConcatIs
<1>2. /\ p \in Str /\ Len(p) = Len(t) /\ q \in Str /\ Len(q) = Len(u)
      /\ \A i \in 1 .. Len(t) : p[i] = IF t[i] = "nul" THEN "repl" ELSE t[i]
      /\ \A i \in 1 .. Len(u) : q[i] = IF u[i] = "nul" THEN "repl" ELSE u[i]
  BY WordingIs
<1> HIDE DEF w, p, q
<1>3. /\ a \in Str /\ Len(a) = Len(t) + Len(u)
      /\ \A i \in 1 .. Len(w) : a[i] = IF w[i] = "nul" THEN "repl" ELSE w[i]
  BY <1>1, WordingIs
<1>4. /\ b \in Str /\ Len(b) = Len(t) + Len(u)
      /\ \A i \in 1 .. Len(t) : b[i] = p[i]
      /\ \A i \in 1 .. Len(u) : b[Len(t) + i] = q[i]
  <2>1. /\ b \in Str /\ Len(b) = Len(p) + Len(q)
        /\ \A i \in 1 .. Len(p) : b[i] = p[i]
        /\ \A i \in 1 .. Len(q) : b[Len(p) + i] = q[i]
    BY <1>2, ConcatIs
  <2> HIDE DEF b
  <2> QED BY <1>2, <2>1
<1> HIDE DEF a, b
<1>5. ASSUME NEW i \in 1 .. Len(a)
      PROVE  a[i] = b[i]
  <2>1. CASE i <= Len(t)
    <3>1. i \in 1 .. Len(t) /\ i \in 1 .. Len(w)
      BY <1>1, <1>3, <2>1
    <3> QED BY <1>1, <1>2, <1>3, <1>4, <3>1
  <2>2. CASE i > Len(t)
    <3>1. PICK j \in 1 .. Len(u) : i = Len(t) + j
      <4>1. i - Len(t) \in 1 .. Len(u) /\ i = Len(t) + (i - Len(t))
        BY <1>1, <1>3, <2>2
      <4> QED BY <4>1
    <3>2. i \in 1 .. Len(w)
      BY <1>1, <1>3
    <3>3. a[i] = (IF u[j] = "nul" THEN "repl" ELSE u[j])
      BY <1>1, <1>3, <3>1, <3>2
    <3>4. b[i] = q[j]
      BY <1>4, <3>1
    <3> QED BY <1>2, <3>1, <3>3, <3>4
  <2> QED BY <1>1, <1>3, <2>1, <2>2
<1>6. a = b
  BY <1>3, <1>4, <1>5, SeqEqual DEF Str
<1> QED BY <1>6 DEF a, b, p, q, w

LEMMA SubSeqIs ==
  ASSUME NEW t \in Str, NEW a \in Nat \ {0}, NEW b \in Int, b <= Len(t)
  PROVE  /\ SubSeq(t, a, b) \in Str
         /\ Len(SubSeq(t, a, b)) = IF a <= b THEN b - a + 1 ELSE 0
         /\ \A i \in 1 .. b - a + 1 : SubSeq(t, a, b)[i] = t[a + i - 1]
<1>1. \A i \in a .. b : t[i] \in Char
  BY DEF Str
<1> QED BY <1>1, SubSeqProperties DEF Str

LEMMA SubSeqPrefix ==
  ASSUME NEW t \in Str, NEW u \in Str, NEW a \in Nat \ {0}, NEW b \in Int, b <= Len(t)
  PROVE  SubSeq(t \o u, a, b) = SubSeq(t, a, b)
<1> DEFINE w == t \o u
           l == SubSeq(w, a, b)
           r == SubSeq(t, a, b)
<1>1. /\ w \in Str /\ b <= Len(w) /\ Len(t) \in Nat
      /\ \A i \in 1 .. Len(t) : w[i] = t[i]
  BY ConcatIs
<1> HIDE DEF w
<1>2. /\ r \in Str /\ Len(r) = (IF a <= b THEN b - a + 1 ELSE 0)
      /\ \A i \in 1 .. b - a + 1 : r[i] = t[a + i - 1]
  BY SubSeqIs
<1>3. /\ l \in Str /\ Len(l) = (IF a <= b THEN b - a + 1 ELSE 0)
      /\ \A i \in 1 .. b - a + 1 : l[i] = w[a + i - 1]
  BY <1>1, SubSeqIs
<1> HIDE DEF l, r
<1>4. ASSUME NEW i \in 1 .. Len(l)
      PROVE  l[i] = r[i]
  <2>1. i \in 1 .. b - a + 1 /\ a + i - 1 \in 1 .. Len(t)
    BY <1>1, <1>3
  <2> QED BY <1>1, <1>2, <1>3, <2>1
<1>5. l = r
  BY <1>2, <1>3, <1>4, SeqEqual DEF Str
<1> QED BY <1>5 DEF l, r, w

LEMMA SubSeqSuffix ==
  ASSUME NEW t \in Str, NEW u \in Str, NEW a \in 1 .. Len(t) + 1
  PROVE  SubSeq(t \o u, a, Len(t) + Len(u)) = SubSeq(t, a, Len(t)) \o u
<1> DEFINE w == t \o u
           n == Len(t) + Len(u)
           l == SubSeq(w, a, n)
           v == SubSeq(t, a, Len(t))
           r == v \o u
<1>1. /\ w \in Str /\ n = Len(w) /\ Len(t) \in Nat /\ Len(u) \in Nat
      /\ \A i \in 1 .. Len(t) : w[i] = t[i]
      /\ \A i \in 1 .. Len(u) : w[Len(t) + i] = u[i]
  BY ConcatIs
<1>2. a \in Nat \ {0} /\ a <= Len(t) + 1
  BY <1>1
<1> HIDE DEF w
<1>3. /\ l \in Str /\ Len(l) = n - a + 1
      /\ \A i \in 1 .. n - a + 1 : l[i] = w[a + i - 1]
  <2>1. n \in Int /\ n <= Len(w)
    BY <1>1
  <2> HIDE DEF n
  <2>2. /\ l \in Str /\ Len(l) = (IF a <= n THEN n - a + 1 ELSE 0)
        /\ \A i \in 1 .. n - a + 1 : l[i] = w[a + i - 1]
    BY <1>1, <1>2, <2>1, SubSeqIs
  <2> QED BY <1>1, <1>2, <2>2 DEF n
<1>4. /\ v \in Str /\ Len(v) = Len(t) - a + 1
      /\ \A i \in 1 .. Len(t) - a + 1 : v[i] = t[a + i - 1]
  <2>1. Len(t) \in Int /\ Len(t) <= Len(t)
    BY <1>1
  <2>2. /\ v \in Str /\ Len(v) = (IF a <= Len(t) THEN Len(t) - a + 1 ELSE 0)
        /\ \A i \in 1 .. Len(t) - a + 1 : v[i] = t[a + i - 1]
    BY <1>2, <2>1, SubSeqIs
  <2> QED BY <1>1, <1>2, <2>2
<1> HIDE DEF l, v
<1>5. /\ r \in Str /\ Len(r) = Len(v) + Len(u)
      /\ \A i \in 1 .. Len(v) : r[i] = v[i]
      /\ \A i \in 1 .. Len(u) : r[Len(v) + i] = u[i]
  BY <1>4, ConcatIs
<1> HIDE DEF r
<1>6. ASSUME NEW i \in 1 .. Len(l)
      PROVE  l[i] = r[i]
  <2>1. CASE i <= Len(v)
    <3>1. i \in 1 .. Len(v) /\ i \in 1 .. Len(t) - a + 1 /\ i \in 1 .. n - a + 1
          /\ a + i - 1 \in 1 .. Len(t)
      BY <1>1, <1>2, <1>3, <1>4, <2>1
    <3> QED BY <1>1, <1>3, <1>4, <1>5, <3>1
  <2>2. CASE i > Len(v)
    <3>1. PICK j \in 1 .. Len(u) : i = Len(v) + j
      <4>1. i - Len(v) \in 1 .. Len(u) /\ i = Len(v) + (i - Len(v))
        BY <1>1, <1>2, <1>3, <1>4, <2>2
      <4> QED BY <4>1
    <3>2. a + i - 1 = Len(t) + j /\ i \in 1 .. n - a + 1
      BY <1>1, <1>2, <1>3, <1>4, <3>1
    <3>3. l[i] = w[Len(t) + j]
      BY <1>3, <3>2
    <3> QED BY <1>1, <1>5, <3>1, <3>3
  <2> QED BY <1>1, <1>2, <1>3, <1>4, <2>1, <2>2
<1>7. l = r
  <2>1. Len(l) = Len(r)
    BY <1>1, <1>2, <1>3, <1>4, <1>5
  <2> QED BY <1>3, <1>5, <1>6, <2>1, SeqEqual DEF Str
<1> QED BY <1>7 DEF l, r, v, w

LEMMA FromIs ==
  ASSUME NEW t \in Str, NEW i \in 1 .. Len(t) + 1
  PROVE  /\ From(t, i) \in 1 .. i
         /\ \A j \in Endings(t) : j < i => j < From(t, i)
<1> DEFINE S == {0} \cup {j \in Endings(t) : j < i}
<1>1. Len(t) \in Nat /\ Endings(t) \subseteq 1 .. Len(t)
  BY DEF Str, Endings
<1>2. i - 1 \in Nat /\ S \subseteq 0 .. i - 1 /\ S # {}
  BY <1>1
<1> HIDE DEF S
<1>3. Max(S) \in 0 .. i - 1 /\ \A j \in S : Max(S) >= j
  BY <1>2, MaxOf
<1>4. From(t, i) = Max(S) + 1
  BY DEF From, S
<1>5. From(t, i) \in 1 .. i
  BY <1>1, <1>3, <1>4
<1>6. ASSUME NEW j \in Endings(t), j < i
      PROVE  j < From(t, i)
  <2>1. j \in S /\ j \in Nat
    BY <1>1, <1>6 DEF S
  <2> QED BY <1>3, <1>4, <2>1
<1> QED BY <1>5, <1>6

EndsCr(t) == t # <<>> /\ t[Len(t)] = "cr"

\* Text without line ends makes the line longer.
LEMMA AddsText ==
  ASSUME NEW t \in Str, NEW u \in Str, \A i \in DOMAIN u : ~IsLineEnd(u[i])
  PROVE  /\ Ended(t \o u) = Ended(t)
         /\ Unended(t \o u) = Unended(t) \o Wording(u)
<1> DEFINE w == t \o u
           n == Len(t)
           m == Len(u)
<1>1. /\ w \in Str /\ Len(w) = n + m /\ n \in Nat /\ m \in Nat
      /\ DOMAIN w = 1 .. n + m /\ DOMAIN t = 1 .. n /\ DOMAIN u = 1 .. m
      /\ Len(t) = n /\ Len(u) = m
      /\ \A i \in 1 .. n : w[i] = t[i]
      /\ \A i \in 1 .. m : w[n + i] = u[i]
  BY ConcatIs
<1>2. \A i \in n + 1 .. n + m : ~IsLineEnd(w[i])
  <2> TAKE i \in n + 1 .. n + m
  <2>1. i - n \in 1 .. m /\ w[n + (i - n)] = w[i]
    BY <1>1
  <2>2. w[i] = u[i - n]
    BY <1>1, <2>1
  <2> QED BY <1>1, <2>1, <2>2
<1> HIDE DEF w, n, m
<1>3. Endings(w) = Endings(t)
  <2>1. ASSUME NEW i \in 1 .. n
        PROVE  i \in Endings(w) <=> i \in Endings(t)
    <3>1. i < n => i + 1 \in 1 .. n
      BY <1>1
    <3>2. i = n /\ m # 0 => w[n + 1] # "nl"
      BY <1>1, <1>2 DEF IsLineEnd
    <3>3. i \in 1 .. n + m /\ (i = n + m => i = n /\ m = 0) /\ (i = n /\ m = 0 => i = n + m)
      BY <1>1
    <3>4. w[i] = t[i] /\ (i < n => w[i + 1] = t[i + 1]) /\ (i < n \/ i = n)
      BY <1>1, <3>1
    <3>5. i \in Endings(t) <=> t[i] = "nl" \/ (t[i] = "cr" /\ (i = n \/ t[i + 1] # "nl"))
      BY <1>1, EndingIs
    <3>6. i \in Endings(w) <=> w[i] = "nl" \/ (w[i] = "cr" /\ (i = n + m \/ w[i + 1] # "nl"))
      BY <1>1, <3>3, EndingIs
    <3>7. CASE i = n
      BY <3>2, <3>3, <3>4, <3>5, <3>6, <3>7
    <3>8. CASE i < n
      BY <1>1, <3>3, <3>4, <3>5, <3>6, <3>8
    <3> QED BY <3>4, <3>7, <3>8
  <2>2. \A i \in n + 1 .. n + m : i \notin Endings(w)
    BY <1>2 DEF Endings, IsLineEnd
  <2>3. Endings(w) \subseteq 1 .. n + m /\ Endings(t) \subseteq 1 .. n
    BY <1>1 DEF Endings
  <2>4. \A i \in 1 .. n + m : i \in 1 .. n \/ i \in n + 1 .. n + m
    BY <1>1
  <2>5. \A i \in 1 .. n : i \in 1 .. n + m
    BY <1>1
  <2> QED BY <2>1, <2>2, <2>3, <2>4, <2>5
<1>4. \A i : From(w, i) = From(t, i)
  BY <1>3 DEF From
<1>5. ASSUME NEW i \in Endings(t)
      PROVE  LineAt(w, i) = LineAt(t, i)
  <2>1. i \in 1 .. n /\ i \in 1 .. n + 1
    BY <1>1 DEF Endings
  <2>2. w[i] = t[i] /\ (i > 1 => w[i - 1] = t[i - 1])
    <3>1. i > 1 => i - 1 \in 1 .. n
      BY <1>1, <2>1
    <3> QED BY <1>1, <2>1, <3>1
  <2> DEFINE e == IF t[i] = "nl" /\ i > 1 /\ t[i - 1] = "cr" THEN i - 2 ELSE i - 1
  <2>3. e \in Int /\ e <= Len(t) /\ From(t, i) \in Nat \ {0}
    BY <1>1, <2>1, FromIs
  <2>4. LineAt(t, i) = Wording(SubSeq(t, From(t, i), e))
    BY DEF LineAt
  <2>5. LineAt(w, i) = Wording(SubSeq(w, From(t, i), e))
    BY <1>4, <2>2 DEF LineAt
  <2> HIDE DEF e
  <2>6. SubSeq(w, From(t, i), e) = SubSeq(t, From(t, i), e)
    BY <2>3, SubSeqPrefix DEF w
  <2> QED BY <2>4, <2>5, <2>6
<1>6. PICK f : IsUpTo(f, t) /\ Ended(t) = f[n]
  BY <1>1, EndedUpTo
<1>7. PICK g : IsUpTo(g, w) /\ Ended(w) = g[n + m]
  BY <1>1, EndedUpTo
<1>8. g[n] = f[n]
  <2>1. n <= Len(t) /\ n <= Len(w)
    BY <1>1
  <2>2. \A i \in 1 .. n : /\ i \in Endings(t) <=> i \in Endings(w)
                          /\ i \in Endings(t) => LineAt(t, i) = LineAt(w, i)
    <3> TAKE i \in 1 .. n
    <3>1. i \in Endings(t) <=> i \in Endings(w)
      BY <1>3
    <3>2. i \in Endings(t) => LineAt(t, i) = LineAt(w, i)
      BY <1>5
    <3> QED BY <3>1, <3>2
  <2>3. Len(t) \in Nat /\ Len(w) \in Nat
    BY <1>1
  <2>4. n \in Nat /\ IsUpTo(f, t) /\ IsUpTo(g, w)
    BY <1>1, <1>6, <1>7
  <2> QED BY <2>1, <2>2, <2>3, <2>4, UpToAgree
<1>9. g[n + m] = g[n]
  <2>1. \A i \in n + 1 .. n + m : i \notin Endings(w)
    BY <1>2 DEF Endings, IsLineEnd
  <2> QED BY <1>1, <1>7, <2>1, UpToConstant
<1>10. Ended(w) = Ended(t)
  BY <1>6, <1>7, <1>8, <1>9
<1>11. Unended(w) = Unended(t) \o Wording(u)
  <2> DEFINE a == From(t, n + 1)
  <2>1. From(w, n + m + 1) = a
    <3>1. \A j \in Endings(t) : j < n + m + 1 /\ j < n + 1
      BY <1>1 DEF Endings
    <3>2. {j \in Endings(w) : j < n + m + 1} = {j \in Endings(t) : j < n + 1}
      BY <1>3, <3>1
    <3> QED BY <3>2 DEF From
  <2>2. a \in 1 .. n + 1
    BY <1>1, FromIs
  <2> HIDE DEF a
  <2>3. SubSeq(w, a, n + m) = SubSeq(t, a, n) \o u
    BY <1>1, <2>2, SubSeqSuffix DEF w
  <2>4. SubSeq(t, a, n) \in Str
    <3>1. a \in Nat \ {0} /\ n \in Int /\ n <= Len(t)
      BY <1>1, <2>2
    <3> QED BY <3>1, SubSeqIs
  <2>5. Unended(w) = Wording(SubSeq(w, a, n + m))
    BY <1>1, <2>1 DEF Unended
  <2>6. Unended(t) = Wording(SubSeq(t, a, n))
    BY <1>1 DEF Unended, a
  <2> QED BY <2>3, <2>4, <2>5, <2>6, WordingConcat
<1> QED BY <1>10, <1>11 DEF w

\* A line end ends the line.
LEMMA AddsLineEnd ==
  ASSUME NEW t \in Str, NEW e \in {<<"nl">>, <<"cr">>, <<"cr", "nl">>},
         EndsCr(t) => e # <<"nl">>
  PROVE  /\ Ended(t \o e) = Append(Ended(t), Unended(t))
         /\ Unended(t \o e) = <<>>
<1> DEFINE w == t \o e
           n == Len(t)
           m == Len(e)
<1>1. e \in Str
  <2>1. "nl" \in Char /\ "cr" \in Char
    BY DEF Char
  <2>2. <<"nl">> \in Seq(Char) /\ <<"cr">> \in Seq(Char) /\ <<"cr", "nl">> \in Seq(Char)
    BY <2>1
  <2> QED BY <2>2 DEF Str
<1>2. /\ w \in Str /\ Len(w) = n + m /\ n \in Nat /\ Len(t) = n
      /\ DOMAIN w = 1 .. n + m /\ DOMAIN t = 1 .. n
      /\ \A i \in 1 .. n : w[i] = t[i]
      /\ \A i \in 1 .. m : w[n + i] = e[i]
  BY <1>1, ConcatIs
<1>3. \/ e = <<"nl">> /\ m = 1 /\ e[1] = "nl"
      \/ e = <<"cr">> /\ m = 1 /\ e[1] = "cr"
      \/ e = <<"cr", "nl">> /\ m = 2 /\ e[1] = "cr" /\ e[2] = "nl"
  OBVIOUS
<1>4. t = <<>> <=> n = 0
  BY <1>2, EmptySeq DEF Str
<1> HIDE DEF w, n, m
<1>5. /\ w[n + 1] = e[1]
      /\ m = 2 => w[n + 2] = "nl"
      /\ w[n + m] = "nl" \/ (m = 1 /\ w[n + m] = "cr")
  <2>1. 1 \in 1 .. m /\ (m = 2 => 2 \in 1 .. m)
    BY <1>3
  <2> QED BY <1>2, <1>3, <2>1
<1>6. Endings(w) = Endings(t) \cup {n + m}
  <2>1. n + m \in Endings(w)
    <3>1. n + m \in DOMAIN w /\ n + m = Len(w)
      BY <1>2, <1>3
    <3> QED BY <1>5, <3>1, EndingIs
  <2>2. m = 2 => n + 1 \notin Endings(w)
    <3>1. m = 2 => n + 1 # Len(w) /\ w[n + 1] = "cr" /\ w[n + 1 + 1] = "nl"
      BY <1>2, <1>3, <1>5
    <3> QED BY <3>1, EndingIs
  <2>3. ASSUME NEW i \in 1 .. n
        PROVE  i \in Endings(w) <=> i \in Endings(t)
    <3>1. i < n => i + 1 \in 1 .. n
      BY <1>2
    <3>2. i = n /\ t[i] = "cr" => w[i + 1] # "nl"
      <4> SUFFICES ASSUME i = n, t[n] = "cr"
                   PROVE  w[n + 1] # "nl"
        OBVIOUS
      <4>1. n # 0
        BY <1>2
      <4>2. EndsCr(t)
        BY <1>2, <1>4, <4>1 DEF EndsCr
      <4> QED BY <1>3, <1>5, <4>2
    <3>3. i \in 1 .. n + m /\ i # n + m /\ i \in 1 .. n
      BY <1>2, <1>3
    <3>4. w[i] = t[i] /\ (i < n => w[i + 1] = t[i + 1]) /\ (i < n \/ i = n)
      BY <1>2, <3>1
    <3>5. i \in Endings(t) <=> t[i] = "nl" \/ (t[i] = "cr" /\ (i = n \/ t[i + 1] # "nl"))
      BY <1>2, EndingIs
    <3>6. i \in Endings(w) <=> w[i] = "nl" \/ (w[i] = "cr" /\ w[i + 1] # "nl")
      BY <1>2, <3>3, EndingIs
    <3>7. CASE i = n
      BY <3>2, <3>4, <3>5, <3>6, <3>7
    <3>8. CASE i < n
      BY <1>2, <3>4, <3>5, <3>6, <3>8
    <3> QED BY <3>4, <3>7, <3>8
  <2>4. Endings(w) \subseteq 1 .. n + m /\ Endings(t) \subseteq 1 .. n
    BY <1>2 DEF Endings
  <2>5. \A i \in 1 .. n + m : i \in 1 .. n \/ i = n + m \/ (m = 2 /\ i = n + 1)
    BY <1>2, <1>3
  <2> QED BY <2>1, <2>2, <2>3, <2>4, <2>5
<1>7. Endings(t) \subseteq 1 .. n /\ n + m \in Nat /\ n + m > n
  BY <1>2, <1>3 DEF Endings
<1>8. \A i \in 1 .. n + 1 : From(w, i) = From(t, i)
  <2> TAKE i \in 1 .. n + 1
  <2>1. ~(n + m < i)
    BY <1>2, <1>3
  <2>2. {j \in Endings(w) : j < i} = {j \in Endings(t) : j < i}
    BY <1>6, <2>1
  <2> QED BY <2>2 DEF From
<1>9. From(w, n + m) = From(t, n + 1)
  <2>1. \A j \in Endings(t) : j < n + m /\ j < n + 1
    BY <1>7, <1>2
  <2>2. ~(n + m < n + m)
    BY <1>7
  <2>3. {j \in Endings(w) : j < n + m} = {j \in Endings(t) : j < n + 1}
    BY <1>6, <2>1, <2>2
  <2> QED BY <2>3 DEF From
<1>10. ASSUME NEW i \in Endings(t)
       PROVE  LineAt(w, i) = LineAt(t, i)
  <2>1. i \in 1 .. n /\ i \in 1 .. n + 1
    BY <1>2, <1>7
  <2>2. w[i] = t[i] /\ (i > 1 => w[i - 1] = t[i - 1])
    <3>1. i > 1 => i - 1 \in 1 .. n
      BY <1>2, <2>1
    <3> QED BY <1>2, <2>1, <3>1
  <2> DEFINE l == IF t[i] = "nl" /\ i > 1 /\ t[i - 1] = "cr" THEN i - 2 ELSE i - 1
  <2>3. l \in Int /\ l <= Len(t) /\ From(t, i) \in Nat \ {0}
    BY <1>2, <2>1, FromIs
  <2>4. LineAt(t, i) = Wording(SubSeq(t, From(t, i), l))
    BY DEF LineAt
  <2>5. LineAt(w, i) = Wording(SubSeq(w, From(t, i), l))
    BY <1>8, <2>1, <2>2 DEF LineAt
  <2> HIDE DEF l
  <2>6. SubSeq(w, From(t, i), l) = SubSeq(t, From(t, i), l)
    BY <1>1, <2>3, SubSeqPrefix DEF w
  <2> QED BY <2>4, <2>5, <2>6
<1>11. LineAt(w, n + m) = Unended(t)
  <2>1. (IF w[n + m] = "nl" /\ n + m > 1 /\ w[n + m - 1] = "cr" THEN n + m - 2 ELSE n + m - 1) = n
    <3>1. CASE m = 2
      <4>1. n + m - 1 = n + 1 /\ n + m > 1 /\ n + m - 2 = n
        BY <1>2, <3>1
      <4>2. w[n + 1] = "cr" /\ w[n + m] = "nl"
        BY <1>3, <1>5, <3>1
      <4> QED BY <4>1, <4>2
    <3>2. CASE m = 1
      <4>1. n + m - 1 = n /\ (n + m > 1 => n \in 1 .. n /\ n # 0)
        BY <1>2, <3>2
      <4>2. ASSUME w[n + m] = "nl", n + m > 1, w[n] = "cr"
            PROVE  FALSE
        <5>1. EndsCr(t)
          BY <1>2, <1>4, <4>1, <4>2 DEF EndsCr
        <5> QED BY <1>3, <1>5, <3>2, <4>2, <5>1
      <4> QED BY <4>1, <4>2
    <3> QED BY <1>3, <3>1, <3>2
  <2>2. LineAt(w, n + m) = Wording(SubSeq(w, From(t, n + 1), n))
    <3>1. LineAt(w, n + m) =
            Wording(SubSeq(w, From(w, n + m),
                           IF w[n + m] = "nl" /\ n + m > 1 /\ w[n + m - 1] = "cr"
                           THEN n + m - 2 ELSE n + m - 1))
      <4> DEFINE k == n + m
      <4>1. k - 1 = n + m - 1 /\ k - 2 = n + m - 2
        BY <1>2, <1>3
      <4> HIDE DEF k
      <4>2. LineAt(w, k) = Wording(SubSeq(w, From(w, k),
                                          IF w[k] = "nl" /\ k > 1 /\ w[k - 1] = "cr"
                                          THEN k - 2 ELSE k - 1))
        BY LineAtIs
      <4>3. LineAt(w, k) = Wording(SubSeq(w, From(w, k),
                                          IF w[k] = "nl" /\ k > 1 /\ w[n + m - 1] = "cr"
                                          THEN n + m - 2 ELSE n + m - 1))
        BY <4>1, <4>2
      <4> QED BY <4>3 DEF k
    <3> QED BY <1>9, <2>1, <3>1
  <2>3. From(t, n + 1) \in Nat \ {0} /\ n \in Int /\ n <= Len(t)
    <3>1. n + 1 \in 1 .. Len(t) + 1
      BY <1>2
    <3> QED BY <1>2, <3>1, FromIs
  <2>4. SubSeq(w, From(t, n + 1), n) = SubSeq(t, From(t, n + 1), n)
    BY <1>1, <2>3, SubSeqPrefix DEF w
  <2> QED BY <1>2, <2>2, <2>4 DEF Unended
<1>12. PICK f : IsUpTo(f, t) /\ Ended(t) = f[n]
  BY <1>2, EndedUpTo
<1>13. PICK g : IsUpTo(g, w) /\ Ended(w) = g[n + m]
  BY <1>2, EndedUpTo
<1>14. g[n] = f[n]
  <2>1. n <= Len(t) /\ n <= Len(w) /\ Len(t) \in Nat /\ Len(w) \in Nat /\ n \in Nat
    BY <1>2, <1>7
  <2>2. \A i \in 1 .. n : /\ i \in Endings(t) <=> i \in Endings(w)
                          /\ i \in Endings(t) => LineAt(t, i) = LineAt(w, i)
    <3> TAKE i \in 1 .. n
    <3>1. i # n + m
      BY <1>2, <1>7
    <3>2. i \in Endings(t) <=> i \in Endings(w)
      BY <1>6, <3>1
    <3>3. i \in Endings(t) => LineAt(t, i) = LineAt(w, i)
      BY <1>10
    <3> QED BY <3>2, <3>3
  <2>3. IsUpTo(f, t) /\ IsUpTo(g, w)
    BY <1>12, <1>13
  <2> QED BY <2>1, <2>2, <2>3, UpToAgree
<1>15. g[n + m - 1] = g[n]
  <2>1. \A i \in n + 1 .. n + m - 1 : i \notin Endings(w)
    <3> TAKE i \in n + 1 .. n + m - 1
    <3>1. n \in Nat /\ m \in Nat
      BY <1>2, <1>3
    <3>2. i # n + m /\ i \notin 1 .. n
      BY <3>1
    <3> QED BY <1>6, <1>7, <3>2
  <2>2. /\ Len(w) \in Nat /\ n \in Nat /\ n + m - 1 \in Nat
        /\ n <= n + m - 1 /\ n + m - 1 <= Len(w)
    BY <1>2, <1>3, <1>7
  <2>3. IsUpTo(g, w)
    BY <1>13
  <2> QED BY <2>1, <2>2, <2>3, UpToConstant
<1>16. g[n + m] = Append(g[n + m - 1], LineAt(w, n + m))
  <2>1. n + m \in 1 .. Len(w) /\ n + m \in Endings(w)
    BY <1>2, <1>3, <1>6, <1>7
  <2>2. IsUpTo(g, w)
    BY <1>13
  <2>3. \A i \in 1 .. Len(w) :
          i \in Endings(w) => g[i] = Append(g[i - 1], LineAt(w, i))
    BY <2>2 DEF IsUpTo
  <2> DEFINE k == n + m
  <2>4. k \in 1 .. Len(w) /\ k \in Endings(w) /\ k - 1 = n + m - 1
    BY <1>2, <1>3, <2>1
  <2> HIDE DEF k
  <2>5. g[k] = Append(g[k - 1], LineAt(w, k))
    BY <2>3, <2>4
  <2> QED BY <2>4, <2>5 DEF k
<1>17. Ended(w) = Append(Ended(t), Unended(t))
  BY <1>11, <1>12, <1>13, <1>14, <1>15, <1>16
<1>18. Unended(w) = <<>>
  <2>1. n + m < From(w, Len(w) + 1) /\ From(w, Len(w) + 1) \in Int
    <3>1. Len(w) + 1 \in 1 .. Len(w) + 1 /\ n + m < Len(w) + 1 /\ n + m \in Endings(w)
      BY <1>2, <1>6, <1>7
    <3> QED BY <1>2, <1>7, <3>1, FromIs
  <2>2. SubSeq(w, From(w, Len(w) + 1), Len(w)) = <<>>
    BY <1>2, <1>7, <2>1, SubSeqEmpty
  <2>3. Wording(<<>>) = <<>>
    BY DEF Wording
  <2> QED BY <2>2, <2>3 DEF Unended
<1> QED BY <1>17, <1>18 DEF w

\* The newline behind a carriage return does not begin another line.
LEMMA AddsNewline ==
  ASSUME NEW t \in Str, EndsCr(t)
  PROVE  /\ Ended(t \o <<"nl">>) = Ended(t) /\ Unended(t) = <<>>
         /\ Unended(t \o <<"nl">>) = <<>>
<1>1. PICK s \in Str : t = s \o <<"cr">>
  <2>1. Len(t) \in Nat /\ Len(t) # 0 /\ DOMAIN t = 1 .. Len(t)
    BY EmptySeq DEF Str, EndsCr
  <2> DEFINE s == SubSeq(t, 1, Len(t) - 1)
  <2>2. Len(t) \in 1 .. Len(t) /\ 1 \in 1 .. Len(t)
    BY <2>1
  <2>3. SubSeq(t, 1, Len(t)) = s \o <<t[Len(t)]>>
    BY <2>2, SubSeqRecursiveSecond DEF Str
  <2>4. SubSeq(t, 1, Len(t)) = t
    BY SubSeqFull DEF Str
  <2>5. s \in Str
    BY <2>1, SubSeqIs
  <2> QED BY <2>3, <2>4, <2>5 DEF EndsCr
<1>2. t \o <<"nl">> = s \o <<"cr", "nl">>
  <2>1. <<"cr">> \in Str /\ <<"nl">> \in Str
    BY DEF Str, Char
  <2>2. (s \o <<"cr">>) \o <<"nl">> = s \o (<<"cr">> \o <<"nl">>)
    BY <2>1, ConcatAssociative DEF Str
  <2>3. <<"cr">> \o <<"nl">> = <<"cr", "nl">>
    <3>1. "cr" \in Char /\ "nl" \in Char
      BY DEF Char
    <3>2. Append(<<"cr">>, "nl") = <<"cr">> \o <<"nl">>
      BY <2>1, <3>1, AppendIsConcat DEF Str
    <3>3. Append(<<"cr">>, "nl") = <<"cr", "nl">>
      <4> DEFINE a == Append(<<"cr">>, "nl")
                 b == <<"cr", "nl">>
      <4>1. a \in Seq(Char) /\ Len(a) = 2 /\ a[1] = "cr" /\ a[2] = "nl"
        BY <2>1, <3>1, AppendProperties DEF Str
      <4>2. b \in Seq(Char) /\ Len(b) = 2 /\ b[1] = "cr" /\ b[2] = "nl"
        BY <3>1
      <4> HIDE DEF a, b
      <4>3. \A i \in 1 .. Len(a) : a[i] = b[i]
        BY <4>1, <4>2
      <4>4. a = b
        BY <4>1, <4>2, <4>3, SeqEqual
      <4> QED BY <4>4 DEF a, b
    <3> QED BY <3>2, <3>3
  <2> QED BY <1>1, <2>2, <2>3
<1>3. <<"cr">> # <<"nl">> /\ <<"cr", "nl">> # <<"nl">>
  OBVIOUS
<1>4. /\ Ended(s \o <<"cr">>) = Append(Ended(s), Unended(s))
      /\ Unended(s \o <<"cr">>) = <<>>
  BY <1>3, AddsLineEnd
<1>5. /\ Ended(s \o <<"cr", "nl">>) = Append(Ended(s), Unended(s))
      /\ Unended(s \o <<"cr", "nl">>) = <<>>
  BY <1>3, AddsLineEnd
<1> QED BY <1>1, <1>2, <1>4, <1>5

-----------------------------------------------------------------------------
(* The inductive invariant: what was taken from the buffers is a text t,   *)
(* and its lines are those that were processed, until the last buffer ends *)
(* and the text that has not ended is a line too.                          *)

Taken(t) == lines = Ended(t) /\ linebuf = Unended(t)
AllTaken(t) == lines = LinesOf(t) /\ (pc = "done" \/ (eof /\ buffer = <<>> /\ linebuf = <<>>))
TakenSoFar(t) ==
  /\ fed = t \o buffer
  /\ EndsCr(t) => buffer = <<>> \/ Head(buffer) # "nl"
  /\ buffer = <<>> /\ ~eof => (endedCr <=> EndsCr(t))
  /\ (Taken(t) /\ pc # "done") \/ AllTaken(t)
FeedInv ==
  /\ pc \in {"idle", "feed", "done"}
  /\ buffer \in Str /\ eof \in BOOLEAN /\ endedCr \in BOOLEAN
  /\ caller \in DOMAIN Callers
  /\ pc # "feed" => buffer = <<>>
  /\ buffer # <<>> => ~endedCr
  /\ \E t \in Str : TakenSoFar(t)

LEMMA EndsCrConcat ==
  ASSUME NEW t \in Str, NEW u \in Str
  PROVE  /\ u = <<>> => t \o u = t
         /\ u # <<>> => (EndsCr(t \o u) <=> u[Len(u)] = "cr")
<1>1. u = <<>> => t \o u = t
  BY ConcatEmptySeq DEF Str
<1>2. ASSUME u # <<>>
      PROVE  EndsCr(t \o u) <=> u[Len(u)] = "cr"
  <2> DEFINE w == t \o u
  <2>1. Len(u) \in Nat \ {0} /\ w \in Str /\ Len(w) = Len(t) + Len(u)
    BY <1>2, ConcatIs, EmptySeq DEF Str
  <2>2. \A i \in 1 .. Len(u) : w[Len(t) + i] = u[i]
    BY ConcatIs
  <2> HIDE DEF w
  <2>3. w # <<>>
    BY <2>1, ConcatIs, EmptySeq DEF Str
  <2>4. w[Len(w)] = u[Len(u)]
    BY <2>1, <2>2
  <2>5. EndsCr(w) <=> u[Len(u)] = "cr"
    BY <2>3, <2>4 DEF EndsCr
  <2> QED BY <2>5 DEF w
<1> QED BY <1>1, <1>2

LEMMA SplitBuffer ==
  ASSUME buffer \in Str
  PROVE  /\ Chunk \in Str /\ After \in Str /\ buffer = Chunk \o After
         /\ \A i \in DOMAIN Chunk : ~IsLineEnd(Chunk[i]) /\ Chunk[i] # "nul"
         /\ After # <<>> => IsLineEnd(Head(After)) \/ Head(After) = "nul"
<1> DEFINE n == Len(buffer)
           k == ChunkLen(buffer)
<1>1. n \in Nat /\ DOMAIN buffer = 1 .. n
  BY DEF Str
<1>2. Stops(buffer) \subseteq 1 .. n
  BY <1>1 DEF Stops
<1>3. /\ k \in 0 .. n
      /\ \A i \in 1 .. k : i \notin Stops(buffer)
      /\ k # n => k + 1 \in Stops(buffer)
  <2>1. CASE Stops(buffer) = {}
    BY <1>1, <2>1 DEF ChunkLen
  <2>2. CASE Stops(buffer) # {}
    <3> DEFINE m == Min(Stops(buffer))
    <3>1. m \in Stops(buffer) /\ \A x \in Stops(buffer) : m <= x
      <4>1. Stops(buffer) \subseteq Nat
        BY <1>1, <1>2
      <4> QED BY <2>2, <4>1, MinOf
    <3>2. k = m - 1
      BY <2>2 DEF ChunkLen
    <3>3. m \in 1 .. n
      BY <1>2, <3>1
    <3> HIDE DEF m, k
    <3>4. k \in 0 .. n /\ k + 1 = m
      BY <1>1, <3>2, <3>3
    <3>5. ASSUME NEW i \in 1 .. k, i \in Stops(buffer)
          PROVE  FALSE
      <4>1. m <= i /\ i <= m - 1 /\ i \in Int /\ m \in Int
        BY <3>1, <3>2, <3>3, <3>5
      <4> QED BY <4>1
    <3> QED BY <3>1, <3>4, <3>5
  <2> QED BY <2>1, <2>2
<1>0. n \in Int /\ k \in Int /\ 0 <= k /\ k <= n /\ n = Len(buffer)
  BY <1>1, <1>3
<1> HIDE DEF k
<1>4. Chunk = SubSeq(buffer, 1, k) /\ After = SubSeq(buffer, k + 1, n)
  BY DEF Chunk, After, k
<1> HIDE DEF n
<1>5. /\ Chunk \in Str /\ Len(Chunk) = k /\ DOMAIN Chunk = 1 .. k
      /\ \A i \in 1 .. k : Chunk[i] = buffer[i]
  <2>1. 1 \in Nat \ {0} /\ k \in Int /\ k <= Len(buffer) /\ k - 1 + 1 = k
    BY <1>0
  <2>2. /\ Chunk \in Str /\ Len(Chunk) = IF 1 <= k THEN k - 1 + 1 ELSE 0
        /\ \A i \in 1 .. k - 1 + 1 : Chunk[i] = buffer[1 + i - 1]
    BY <1>0, <1>4, <2>1, SubSeqIs
  <2>3. Len(Chunk) = k
    BY <1>0, <2>2
  <2>4. \A i \in 1 .. k : i \in 1 .. k - 1 + 1 /\ 1 + i - 1 = i
    BY <2>1
  <2>5. DOMAIN Chunk = 1 .. Len(Chunk)
    BY <2>2 DEF Str
  <2> QED BY <2>2, <2>3, <2>4, <2>5
<1>6. /\ After \in Str /\ Len(After) = n - k
      /\ k # n => After[1] = buffer[k + 1]
  <2>1. k + 1 \in Nat \ {0} /\ n \in Int /\ n <= Len(buffer)
    BY <1>0
  <2>2. /\ After \in Str /\ Len(After) = IF k + 1 <= n THEN n - (k + 1) + 1 ELSE 0
        /\ \A i \in 1 .. n - (k + 1) + 1 : After[i] = buffer[k + 1 + i - 1]
    BY <1>0, <1>4, <2>1, SubSeqIs
  <2>3. Len(After) = n - k
    BY <1>0, <2>2
  <2>4. k # n => 1 \in 1 .. n - (k + 1) + 1 /\ k + 1 + 1 - 1 = k + 1
    BY <1>0
  <2> QED BY <2>2, <2>3, <2>4
<1>7. buffer = Chunk \o After
  <2>1. 1 \in 1 .. n + 1 /\ k \in 1 - 1 .. n /\ n \in k .. n
    BY <1>0
  <2>2. SubSeq(buffer, 1, k) \o SubSeq(buffer, k + 1, n) = SubSeq(buffer, 1, n)
    BY <1>0, <2>1, ConcatAdjacentSubSeq DEF Str
  <2> QED BY <1>0, <1>4, <2>2, SubSeqFull DEF Str
<1>8. \A i \in DOMAIN Chunk : ~IsLineEnd(Chunk[i]) /\ Chunk[i] # "nul"
  <2> TAKE i \in DOMAIN Chunk
  <2>1. i \in 1 .. k /\ i \in 1 .. n
    BY <1>0, <1>5
  <2>2. i \in DOMAIN buffer /\ i \notin Stops(buffer)
    BY <1>1, <1>3, <2>1
  <2> QED BY <1>5, <2>1, <2>2 DEF Stops
<1>9. After # <<>> => IsLineEnd(Head(After)) \/ Head(After) = "nul"
  <2> SUFFICES ASSUME After # <<>>
               PROVE  IsLineEnd(Head(After)) \/ Head(After) = "nul"
    OBVIOUS
  <2>1. k # n
    <3>1. Len(After) # 0
      BY <1>6, EmptySeq DEF Str
    <3> QED BY <1>0, <1>6, <3>1
  <2>2. Head(After) = After[1]
    BY <1>6 DEF Str
  <2>3. k + 1 \in Stops(buffer)
    BY <1>3, <2>1
  <2>4. IsLineEnd(buffer[k + 1]) \/ buffer[k + 1] = "nul"
    BY <2>3 DEF Stops
  <2> QED BY <1>6, <2>1, <2>2, <2>4
<1> QED BY <1>5, <1>6, <1>7, <1>8, <1>9

LEMMA UnendedIs ==
  ASSUME NEW t \in Str
  PROVE  Unended(t) \in Str
<1>1. From(t, Len(t) + 1) \in Nat \ {0} /\ Len(t) \in Int /\ Len(t) <= Len(t)
  <2>1. Len(t) \in Nat /\ Len(t) + 1 \in 1 .. Len(t) + 1
    BY DEF Str
  <2> QED BY <2>1, FromIs
<1>2. SubSeq(t, From(t, Len(t) + 1), Len(t)) \in Str
  BY <1>1, SubSeqIs
<1> QED BY <1>2, WordingIs DEF Unended

\* The chunk is taken.
LEMMA ChunkTaken ==
  ASSUME buffer \in Str, NEW t \in Str, TakenSoFar(t), Taken(t)
  PROVE  /\ t \o Chunk \in Str
         /\ fed = (t \o Chunk) \o After
         /\ lines = Ended(t \o Chunk) /\ linebuf \o Chunk = Unended(t \o Chunk)
         /\ linebuf \o Chunk = <<>> => Chunk = <<>>
         /\ EndsCr(t \o Chunk) => After = <<>> \/ Head(After) # "nl"
         /\ Chunk # <<>> => ~EndsCr(t \o Chunk)
<1>1. /\ Chunk \in Str /\ After \in Str /\ buffer = Chunk \o After
      /\ \A i \in DOMAIN Chunk : ~IsLineEnd(Chunk[i]) /\ Chunk[i] # "nul"
  BY SplitBuffer
<1>2. Len(Chunk) \in Nat /\ DOMAIN Chunk = 1 .. Len(Chunk)
  BY <1>1 DEF Str
<1>3. Wording(Chunk) = Chunk
  <2>1. /\ Wording(Chunk) \in Str /\ Len(Wording(Chunk)) = Len(Chunk)
        /\ \A i \in 1 .. Len(Chunk) : Wording(Chunk)[i] = IF Chunk[i] = "nul" THEN "repl" ELSE Chunk[i]
    BY <1>1, WordingIs
  <2>2. \A i \in 1 .. Len(Wording(Chunk)) : Wording(Chunk)[i] = Chunk[i]
    BY <1>1, <1>2, <2>1
  <2> QED BY <1>1, <2>1, <2>2, SeqEqual DEF Str
<1>4. t \o Chunk \in Str
  BY <1>1, ConcatIs
<1>5. fed = (t \o Chunk) \o After
  <2>1. t \o (Chunk \o After) = (t \o Chunk) \o After
    BY <1>1, ConcatAssociative DEF Str
  <2> QED BY <1>1, <2>1 DEF TakenSoFar
<1>6. lines = Ended(t \o Chunk) /\ linebuf \o Chunk = Unended(t \o Chunk)
  BY <1>1, <1>3, AddsText DEF Taken
<1>7. linebuf \o Chunk = <<>> => Chunk = <<>>
  <2>1. linebuf \in Str
    BY UnendedIs DEF Taken
  <2> QED BY <1>1, <2>1, ConcatEqualIffEmpty DEF Str
<1>8. Chunk # <<>> => ~EndsCr(t \o Chunk)
  <2> SUFFICES ASSUME Chunk # <<>>
               PROVE  ~EndsCr(t \o Chunk)
    OBVIOUS
  <2>1. Len(Chunk) \in DOMAIN Chunk
    BY <1>1, <1>2, EmptySeq DEF Str
  <2>2. Chunk[Len(Chunk)] # "cr"
    BY <1>1, <2>1 DEF IsLineEnd
  <2> QED BY <1>1, <2>2, EndsCrConcat
<1>9. Chunk = <<>> => t \o Chunk = t /\ buffer = After
  <2>1. Chunk = <<>> => Chunk \o After = After
    BY <1>1, ConcatEmptySeq DEF Str
  <2> QED BY <1>1, <2>1, EndsCrConcat
<1>10. EndsCr(t \o Chunk) => After = <<>> \/ Head(After) # "nl"
  BY <1>8, <1>9 DEF TakenSoFar
<1> QED BY <1>4, <1>5, <1>6, <1>7, <1>8, <1>10

-----------------------------------------------------------------------------
(* The steps. *)

LEMMA FeedInit == Init => FeedInv
<1> SUFFICES ASSUME Init
             PROVE  FeedInv
  OBVIOUS
<1>1. <<>> \in Str /\ <<>> \o <<>> = <<>>
  BY EmptySeq, ConcatEmptySeq DEF Str
<1>2. Ended(<<>>) = <<>> /\ Unended(<<>>) = <<>>
  <2>1. PICK f : IsUpTo(f, <<>>) /\ Ended(<<>>) = f[Len(<<>>)]
    BY <1>1, EndedUpTo
  <2>2. Ended(<<>>) = <<>>
    BY <2>1 DEF IsUpTo
  <2>3. 1 \in 1 .. Len(<<>>) + 1
    OBVIOUS
  <2>4. From(<<>>, 1) \in 1 .. 1
    BY <1>1, <2>3, FromIs
  <2>5. SubSeq(<<>>, From(<<>>, Len(<<>>) + 1), Len(<<>>)) = <<>>
    <3>1. Len(<<>>) = 0 /\ From(<<>>, Len(<<>>) + 1) = 1
      BY <2>4
    <3> QED BY <3>1, SubSeqEmpty
  <2>6. Wording(<<>>) = <<>>
    BY DEF Wording
  <2> QED BY <2>2, <2>5, <2>6 DEF Unended
<1>3. TakenSoFar(<<>>)
  BY <1>1, <1>2 DEF Init, TakenSoFar, Taken, EndsCr
<1> QED BY <1>1, <1>3 DEF Init, FeedInv

LEMMA CharsAre == "nl" \in Char /\ "cr" \in Char /\ "repl" \in Char
BY DEF Char

LEMMA ReplIs == <<"repl">> \in Str
<1>1. "repl" \in Char
  BY CharsAre
<1> QED BY <1>1 DEF Str

LEMMA TakenNext ==
  ASSUME NEW u \in Str, fed' = u \o buffer',
         EndsCr(u) => buffer' = <<>> \/ Head(buffer') # "nl",
         buffer' = <<>> /\ ~eof' => (endedCr' <=> EndsCr(u)),
         lines' = Ended(u), linebuf' = Unended(u), pc' # "done"
  PROVE  TakenSoFar(u)'
BY DEF TakenSoFar, Taken

LEMMA FeedInvNext ==
  ASSUME pc' \in {"idle", "feed", "done"}, buffer' \in Str, eof' \in BOOLEAN,
         endedCr' \in BOOLEAN, caller' \in DOMAIN Callers, pc' # "feed" => buffer' = <<>>,
         buffer' # <<>> => ~endedCr', NEW u \in Str, TakenSoFar(u)'
  PROVE  FeedInv'
<1>1. \E t \in Str : TakenSoFar(t)'
  OBVIOUS
<1> QED BY <1>1 DEF FeedInv

\* A sequence is its first member and the rest.
LEMMA HeadTail ==
  ASSUME NEW b \in Str, b # <<>>
  PROVE  /\ Tail(b) \in Str /\ b = <<b[1]>> \o Tail(b)
         /\ Head(b) = b[1] /\ b[1] \in Char
<1>1. Len(b) \in Nat \ {0} /\ Head(b) = b[1]
  BY EmptySeq DEF Str
<1>2. 1 \in 1 .. Len(b) /\ Len(b) \in 1 .. Len(b)
  BY <1>1
<1>3. SubSeq(b, 1, Len(b)) = <<b[1]>> \o SubSeq(b, 1 + 1, Len(b))
  BY <1>2, SubSeqRecursiveFirst DEF Str
<1>4. SubSeq(b, 1, Len(b)) = b
  BY SubSeqFull DEF Str
<1>5. Tail(b) = SubSeq(b, 2, Len(b)) /\ Tail(b) \in Str
  BY TailIsSubSeq, HeadTailProperties DEF Str
<1>6. 1 + 1 = 2
  OBVIOUS
<1>7. b[1] \in Char
  BY <1>2, ElementOfSeq DEF Str
<1> QED BY <1>1, <1>3, <1>4, <1>5, <1>6, <1>7

LEMMA Regroup ==
  \A s, e, b \in Str : s \o (e \o b) = (s \o e) \o b /\ s \o e \in Str
<1> TAKE s \in Str, e \in Str, b \in Str
<1>1. s \o (e \o b) = (s \o e) \o b
  BY ConcatAssociative DEF Str
<1>2. s \o e \in Str
  BY ConcatIs
<1> QED BY <1>1, <1>2

LEMMA FeedStepKeeps ==
  ASSUME FeedInv, NEW b \in Callers[caller].buffers, NEW last \in Callers[caller].last,
         Feed(b, last)
  PROVE  FeedInv'
<1>1. PICK t \in Str : TakenSoFar(t)
  BY DEF FeedInv
<1>2. /\ pc = "idle" /\ ~eof /\ buffer = <<>> /\ caller \in DOMAIN Callers
      /\ pc' = "feed" /\ eof' = last /\ endedCr' = FALSE /\ fed' = fed \o b
      /\ linebuf' = linebuf /\ lines' = lines /\ caller' = caller
      /\ buffer' = IF endedCr /\ b # <<>> /\ Head(b) = "nl" THEN Tail(b) ELSE b
  BY DEF FeedInv, Feed
<1>3. b \in Str /\ last \in BOOLEAN /\ (b = <<>> => last)
  <2>1. b \in Seq(STRING)
    BY <1>2, CallersAssumption
  <2>2. Seq(STRING) \subseteq Str
    <3>1. STRING \subseteq Char
      BY DEF Char
    <3> QED BY <3>1, SeqMonotonic DEF Str
  <2>3. b = <<>> => last = TRUE
    BY <1>2, CallersAssumption
  <2>4. last \in BOOLEAN
    BY <1>2, CallersAssumption
  <2>5. b \in Str
    BY <2>1, <2>2
  <2>6. b = <<>> => last
    BY <2>3
  <2> QED BY <2>4, <2>5, <2>6
<1>4. fed = t /\ Taken(t) /\ (endedCr <=> EndsCr(t))
  <2>1. fed = t
    BY <1>1, <1>2, ConcatEmptySeq DEF TakenSoFar, Str
  <2> QED BY <1>1, <1>2, <2>1 DEF TakenSoFar, AllTaken
<1>8. /\ pc' \in {"idle", "feed", "done"} /\ pc' = "feed"
      /\ eof' \in BOOLEAN /\ endedCr' \in BOOLEAN /\ ~endedCr'
      /\ caller' \in DOMAIN Callers
  BY <1>2, <1>3
<1>5. CASE endedCr /\ b # <<>> /\ Head(b) = "nl"
  <2>1. <<"nl">> \in Str
    BY CharsAre DEF Str
  <2>2. Tail(b) \in Str /\ b = <<"nl">> \o Tail(b)
    <3>1. b \in Str /\ b # <<>>
      BY <1>3, <1>5
    <3>2. Tail(b) \in Str /\ b = <<b[1]>> \o Tail(b) /\ Head(b) = b[1]
      BY <3>1, HeadTail
    <3>3. b[1] = "nl"
      BY <1>5, <3>2
    <3> QED BY <3>2, <3>3
  <2>3. PICK u \in Str : u = t \o <<"nl">>
    BY <2>1, ConcatIs
  <2>4. fed' = u \o buffer'
    <3>1. t \o (<<"nl">> \o Tail(b)) = u \o Tail(b)
      <4>1. PICK c \in Str : c = Tail(b)
        BY <2>2
      <4>2. PICK e \in Str : e = <<"nl">>
        BY <2>1
      <4>3. t \o (e \o c) = (t \o e) \o c
        BY <4>1, <4>2, Regroup DEF Str
      <4> QED BY <2>3, <4>1, <4>2, <4>3
    <3>2. buffer' = Tail(b)
      BY <1>2, <1>5
    <3>3. fed' = t \o (<<"nl">> \o Tail(b))
      BY <1>2, <1>4, <2>2
    <3> QED BY <3>1, <3>2, <3>3
  <2>5. ~EndsCr(u)
    <3>1. <<"nl">> # <<>> /\ <<"nl">>[Len(<<"nl">>)] # "cr"
      OBVIOUS
    <3> QED BY <2>1, <2>3, <3>1, EndsCrConcat
  <2>6. Ended(u) = Ended(t) /\ Unended(u) = Unended(t)
    BY <1>4, <1>5, <2>3, AddsNewline
  <2>7. buffer' \in Str
    BY <1>2, <1>5, <2>2
  <2>8. lines' = Ended(u) /\ linebuf' = Unended(u)
    BY <1>2, <1>4, <2>6 DEF Taken
  <2>9. TakenSoFar(u)'
    BY <1>2, <2>3, <2>4, <2>5, <2>8, TakenNext
  <2> QED BY <1>2, <1>8, <2>7, <2>9, FeedInvNext
<1>6. CASE ~(endedCr /\ b # <<>> /\ Head(b) = "nl")
  <2>1. buffer' = b /\ fed' = t \o buffer'
    BY <1>2, <1>4, <1>6
  <2>2. EndsCr(t) => buffer' = <<>> \/ Head(buffer') # "nl"
    BY <1>4, <1>6, <2>1
  <2>3. lines' = Ended(t) /\ linebuf' = Unended(t)
    BY <1>2, <1>4 DEF Taken
  <2>4. ~(buffer' = <<>> /\ ~eof')
    <3>1. buffer' = <<>> => last
      BY <1>3, <2>1
    <3>2. eof' = last
      BY <1>2
    <3> QED BY <3>1, <3>2
  <2>5. TakenSoFar(t)'
    BY <1>2, <2>1, <2>2, <2>3, <2>4, TakenNext
  <2>6. buffer' \in Str
    BY <1>3, <2>1
  <2> QED BY <1>8, <2>5, <2>6, FeedInvNext
<1> QED BY <1>5, <1>6

LEMMA LineEndsKeeps ==
  ASSUME FeedInv, Turn, LineEnds
  PROVE  FeedInv'
<1>1. PICK t \in Str : TakenSoFar(t)
  BY DEF FeedInv
<1>2. /\ pc = "feed" /\ buffer # <<>> /\ buffer \in Str /\ eof \in BOOLEAN
      /\ pc' = pc /\ eof' = eof /\ caller' = caller /\ fed' = fed /\ caller \in DOMAIN Callers
      /\ After # <<>> /\ IsLineEnd(Head(After))
      /\ lines' = Append(lines, linebuf \o Chunk) /\ linebuf' = <<>>
      /\ buffer' = SkipLineEnd(After) /\ endedCr' = (After = <<"cr">>)
  BY DEF FeedInv, Turn, LineEnds, ProcessLine
<1>3. Taken(t)
  BY <1>1, <1>2 DEF TakenSoFar, AllTaken
<1>4. PICK s \in Str : /\ fed = s \o After
                       /\ lines = Ended(s) /\ linebuf \o Chunk = Unended(s)
                       /\ EndsCr(s) => Head(After) # "nl"
  BY <1>1, <1>2, <1>3, ChunkTaken
<1>5. After \in Str
  BY <1>2, SplitBuffer
<1>6. PICK e \in {<<"nl">>, <<"cr">>, <<"cr", "nl">>} :
        /\ After = e \o buffer' /\ buffer' \in Str
        /\ Head(After) = e[1]
        /\ e = <<"cr">> => buffer' = <<>> \/ Head(buffer') # "nl"
        /\ e # <<"cr">> => After # <<"cr">>
  <2>1. /\ Len(After) \in Nat \ {0} /\ Tail(After) \in Str /\ Head(After) = After[1]
        /\ Len(Tail(After)) = Len(After) - 1
        /\ \A i \in 1 .. Len(Tail(After)) : Tail(After)[i] = After[i + 1]
    BY <1>2, <1>5, EmptySeq, HeadTailProperties DEF Str
  <2>2. After = <<After[1]>> \o Tail(After)
    BY <1>2, <1>5, HeadTail
  <2>3. CASE After[1] = "nl"
    <3>1. buffer' = Tail(After)
      BY <1>2, <2>1, <2>3 DEF SkipLineEnd
    <3>2. After # <<"cr">> /\ <<"nl">> # <<"cr">> /\ <<"nl">>[1] = "nl"
      BY <2>3
    <3>3. After = <<"nl">> \o buffer'
      BY <2>2, <2>3, <3>1
    <3> QED BY <2>1, <2>3, <3>1, <3>2, <3>3
  <2>4. CASE After[1] = "cr" /\ Len(After) > 1 /\ After[2] = "nl"
    <3>1. buffer' = SubSeq(After, 3, Len(After))
      BY <1>2, <2>1, <2>4 DEF SkipLineEnd
    <3>2. After # <<"cr">> /\ <<"cr", "nl">> # <<"cr">> /\ <<"cr", "nl">>[1] = "cr"
      BY <2>4
    <3>3. After = <<"cr", "nl">> \o buffer'
      <4>1. 1 \in 1 .. Len(After) + 1 /\ 2 \in 1 - 1 .. Len(After) /\ Len(After) \in 2 .. Len(After)
            /\ 1 \in 1 .. Len(After) /\ 2 \in 1 .. Len(After)
        BY <2>1, <2>4
      <4>2. SubSeq(After, 1, 2) \o SubSeq(After, 2 + 1, Len(After)) = SubSeq(After, 1, Len(After))
        BY <1>5, <4>1, ConcatAdjacentSubSeq DEF Str
      <4>3. SubSeq(After, 1, 2) = <<"cr", "nl">>
        <5>1. 1 \in Nat \ {0} /\ 2 \in Int /\ 2 <= Len(After)
          BY <2>1, <2>4
        <5>2. /\ SubSeq(After, 1, 2) \in Str /\ Len(SubSeq(After, 1, 2)) = 2
              /\ SubSeq(After, 1, 2)[1] = "cr" /\ SubSeq(After, 1, 2)[2] = "nl"
          <6>1. /\ SubSeq(After, 1, 2) \in Str
                /\ Len(SubSeq(After, 1, 2)) = IF 1 <= 2 THEN 2 - 1 + 1 ELSE 0
                /\ \A i \in 1 .. 2 - 1 + 1 : SubSeq(After, 1, 2)[i] = After[1 + i - 1]
            BY <1>5, <5>1, SubSeqIs
          <6> QED BY <2>4, <6>1
        <5> DEFINE a == SubSeq(After, 1, 2)
                   c == <<"cr", "nl">>
        <5>3. c \in Str /\ Len(c) = 2 /\ c[1] = "cr" /\ c[2] = "nl"
          <6>1. "cr" \in Char /\ "nl" \in Char
            BY CharsAre
          <6> QED BY <6>1 DEF Str
        <5> HIDE DEF c
        <5>4. \A i \in 1 .. Len(a) : a[i] = c[i]
          BY <5>2, <5>3
        <5>5. a = c
          BY <5>2, <5>3, <5>4, SeqEqual DEF Str
        <5> QED BY <5>5 DEF c
      <4>4. SubSeq(After, 1, Len(After)) = After
        BY <1>5, SubSeqFull DEF Str
      <4>5. SubSeq(After, 2 + 1, Len(After)) = buffer'
        <5>1. 2 + 1 = 3
          OBVIOUS
        <5> QED BY <3>1, <5>1
      <4> QED BY <4>2, <4>3, <4>4, <4>5
    <3>4. buffer' \in Str
      <4>1. 3 \in Nat \ {0} /\ Len(After) \in Int /\ Len(After) <= Len(After)
        BY <2>1
      <4> QED BY <1>5, <3>1, <4>1, SubSeqIs
    <3> QED BY <2>1, <2>4, <3>2, <3>3, <3>4
  <2>5. CASE After[1] = "cr" /\ ~(Len(After) > 1 /\ After[2] = "nl")
    <3>1. buffer' = Tail(After)
      BY <1>2, <2>1, <2>5 DEF SkipLineEnd
    <3>2. After = <<"cr">> \o buffer' /\ <<"cr">>[1] = "cr"
      BY <2>2, <2>5, <3>1
    <3>3. buffer' = <<>> \/ Head(buffer') # "nl"
      <4> SUFFICES ASSUME buffer' # <<>>
                   PROVE  Head(buffer') # "nl"
        OBVIOUS
      <4>1. Len(buffer') \in Nat \ {0} /\ Head(buffer') = buffer'[1]
        <5>1. PICK b \in Str : b = buffer'
          BY <2>1, <3>1
        <5>2. b # <<>>
          BY <5>1
        <5>3. Head(b) = b[1]
          BY <5>2, HeadTail
        <5>4. Len(b) \in Nat \ {0}
          BY <5>2, EmptySeq DEF Str
        <5> QED BY <5>1, <5>3, <5>4
      <4>2. Len(After) > 1 /\ buffer'[1] = After[2]
        BY <2>1, <3>1, <4>1
      <4> QED BY <2>5, <4>1, <4>2
    <3> QED BY <2>1, <2>5, <3>1, <3>2, <3>3
  <2> QED BY <1>2, <2>1, <2>3, <2>4, <2>5 DEF IsLineEnd
<1>7. e \in Str /\ e # <<>>
  <2>1. "cr" \in Char /\ "nl" \in Char
    BY CharsAre
  <2>2. /\ <<"nl">> \in Str /\ <<"cr">> \in Str /\ <<"cr", "nl">> \in Str
    BY <2>1 DEF Str
  <2> QED BY <2>2
<1>8. PICK u \in Str : u = s \o e /\ fed' = u \o buffer'
  <2>1. PICK b \in Str : b = buffer'
    BY <1>6
  <2>2. s \o (e \o b) = (s \o e) \o b
    BY <1>7, Regroup
  <2>3. s \o e \in Str
    BY <1>7, Regroup
  <2>4. fed' = s \o (e \o b)
    <3>1. fed' = fed
      BY <1>2
    <3>2. fed = s \o After
      BY <1>4
    <3>3. After = e \o b
      BY <1>6, <2>1
    <3> QED BY <3>1, <3>2, <3>3
  <2> QED BY <2>1, <2>2, <2>3, <2>4
<1>9. EndsCr(s) => e # <<"nl">>
  <2> SUFFICES ASSUME EndsCr(s), e = <<"nl">>
               PROVE  FALSE
    OBVIOUS
  <2>1. e[1] = "nl"
    OBVIOUS
  <2>2. Head(After) = "nl"
    BY <1>6, <2>1
  <2> QED BY <1>4, <2>2
<1>10. Ended(u) = Append(Ended(s), Unended(s)) /\ Unended(u) = <<>>
  BY <1>8, <1>9, AddsLineEnd
<1>11. EndsCr(u) <=> e = <<"cr">>
  <2>1. /\ e = <<"cr">> <=> e[Len(e)] = "cr"
    OBVIOUS
  <2> QED BY <1>7, <1>8, <2>1, EndsCrConcat
<1>12. lines' = Ended(u) /\ linebuf' = Unended(u)
  <2>1. lines' = Append(lines, linebuf \o Chunk) /\ linebuf' = <<>>
    BY <1>2
  <2>2. lines = Ended(s) /\ linebuf \o Chunk = Unended(s)
    BY <1>4
  <2> QED BY <1>10, <2>1, <2>2
<1>13. buffer' = <<>> => (endedCr' <=> e = <<"cr">>)
  <2> SUFFICES ASSUME buffer' = <<>>
               PROVE  After = <<"cr">> <=> e = <<"cr">>
    BY <1>2
  <2>1. After = e
    BY <1>6, <1>7, ConcatEmptySeq DEF Str
  <2> QED BY <2>1
<1>14. buffer' # <<>> => ~endedCr'
  <2> SUFFICES ASSUME buffer' # <<>>, After = <<"cr">>
               PROVE  FALSE
    BY <1>2
  <2>1. e = <<"cr">>
    BY <1>6
  <2>2. Len(After) = Len(e) + Len(buffer') /\ Len(buffer') \in Nat \ {0}
    BY <1>6, <1>7, ConcatIs, EmptySeq DEF Str
  <2> QED BY <2>1, <2>2
<1>15. TakenSoFar(u)'
  BY <1>2, <1>6, <1>8, <1>11, <1>12, <1>13, TakenNext
<1>16. endedCr' \in BOOLEAN
  BY <1>2
<1> QED BY <1>2, <1>6, <1>8, <1>14, <1>15, <1>16, FeedInvNext

LEMMA NulByteKeeps ==
  ASSUME FeedInv, Turn, NulByte
  PROVE  FeedInv'
<1>1. PICK t \in Str : TakenSoFar(t)
  BY DEF FeedInv
<1>2. /\ pc = "feed" /\ buffer # <<>> /\ buffer \in Str /\ eof \in BOOLEAN
      /\ pc' = pc /\ eof' = eof /\ caller' = caller /\ fed' = fed /\ caller \in DOMAIN Callers
      /\ After # <<>> /\ Head(After) = "nul" /\ endedCr \in BOOLEAN /\ ~endedCr
      /\ lines' = lines /\ linebuf' = linebuf \o (Chunk \o <<"repl">>)
      /\ buffer' = Tail(After) /\ endedCr' = endedCr
  BY DEF FeedInv, Turn, NulByte, Keep
<1>3. Taken(t)
  BY <1>1, <1>2 DEF TakenSoFar, AllTaken
<1>4. PICK s \in Str : /\ fed = s \o After
                       /\ lines = Ended(s) /\ linebuf \o Chunk = Unended(s)
  BY <1>1, <1>2, <1>3, ChunkTaken
<1>5. After \in Str /\ Chunk \in Str
  BY <1>2, SplitBuffer
<1>6. PICK e \in Str : e = <<"nul">> /\ After = e \o Tail(After)
  <2>1. /\ Tail(After) \in Str /\ After = <<After[1]>> \o Tail(After)
        /\ Head(After) = After[1] /\ After[1] \in Char
    BY <1>2, <1>5, HeadTail
  <2>2. After[1] = "nul"
    BY <1>2, <2>1
  <2>3. <<"nul">> \in Str
    BY <2>1, <2>2 DEF Str
  <2> QED BY <2>1, <2>2, <2>3
<1>7. buffer' \in Str /\ After = e \o buffer'
  BY <1>2, <1>5, <1>6, HeadTail
<1>8. Ended(s \o e) = Ended(s) /\ Unended(s \o e) = Unended(s) \o <<"repl">>
  <2>1. \A i \in DOMAIN e : ~IsLineEnd(e[i])
    BY <1>6 DEF IsLineEnd
  <2>2. Wording(e) = <<"repl">>
    <3>1. /\ Wording(e) \in Str /\ Len(Wording(e)) = 1 /\ Wording(e)[1] = "repl"
      <4>1. /\ Wording(e) \in Str /\ Len(Wording(e)) = Len(e)
            /\ \A i \in 1 .. Len(e) : Wording(e)[i] = IF e[i] = "nul" THEN "repl" ELSE e[i]
        BY WordingIs
      <4>2. Len(e) = 1 /\ e[1] = "nul"
        BY <1>6
      <4> QED BY <4>1, <4>2
    <3>2. PICK v \in Str : v = <<"repl">>
      BY ReplIs
    <3>3. Len(v) = 1 /\ v[1] = "repl"
      BY <3>2
    <3>4. \A i \in 1 .. Len(v) : Wording(e)[i] = v[i]
      BY <3>1, <3>3
    <3>5. Wording(e) = v
      BY <3>1, <3>3, <3>4, SeqEqual DEF Str
    <3> QED BY <3>2, <3>5
  <2> QED BY <2>1, <2>2, AddsText
<1>9. PICK u \in Str : u = s \o e /\ fed' = u \o buffer'
  <2>1. PICK b \in Str : b = buffer'
    BY <1>7
  <2>2. s \o (e \o b) = (s \o e) \o b /\ s \o e \in Str
    BY Regroup
  <2>3. fed' = s \o (e \o b)
    <3>1. fed' = fed
      BY <1>2
    <3>2. After = e \o b
      BY <1>7, <2>1
    <3> QED BY <1>4, <3>1, <3>2
  <2> QED BY <2>1, <2>2, <2>3
<1>10. lines' = Ended(u) /\ linebuf' = Unended(u)
  <2>1. linebuf \in Str
    BY <1>3, UnendedIs DEF Taken
  <2>2. linebuf \o (Chunk \o <<"repl">>) = (linebuf \o Chunk) \o <<"repl">>
    <3>1. PICK v \in Str : v = <<"repl">>
      BY ReplIs
    <3>2. PICK l \in Str : l = linebuf
      BY <2>1
    <3>3. PICK c \in Str : c = Chunk
      BY <1>5
    <3>4. l \o (c \o v) = (l \o c) \o v
      BY <3>1, <3>2, <3>3, Regroup DEF Str
    <3> QED BY <3>1, <3>2, <3>3, <3>4
  <2>3. lines' = lines /\ linebuf' = linebuf \o (Chunk \o <<"repl">>)
    BY <1>2
  <2> QED BY <1>4, <1>8, <1>9, <2>2, <2>3
<1>11. ~EndsCr(u)
  <2>1. e # <<>> /\ e[Len(e)] # "cr"
    BY <1>6
  <2> QED BY <1>9, <2>1, EndsCrConcat
<1>12. TakenSoFar(u)'
  <2>1. pc' # "done" /\ ~endedCr'
    BY <1>2
  <2> QED BY <1>9, <1>10, <1>11, <2>1, TakenNext
<1>13. /\ pc' \in {"idle", "feed", "done"} /\ pc' = "feed"
       /\ eof' \in BOOLEAN /\ endedCr' \in BOOLEAN /\ ~endedCr'
       /\ caller' \in DOMAIN Callers
  BY <1>2
<1> QED BY <1>7, <1>12, <1>13, FeedInvNext

LEMMA BufferEndsKeeps ==
  ASSUME FeedInv, Turn, BufferEnds
  PROVE  FeedInv'
<1>1. PICK t \in Str : TakenSoFar(t)
  BY DEF FeedInv
<1>2. /\ pc = "feed" /\ buffer # <<>> /\ buffer \in Str /\ eof \in BOOLEAN
      /\ pc' = pc /\ eof' = eof /\ caller' = caller /\ fed' = fed /\ caller \in DOMAIN Callers
      /\ After = <<>> /\ endedCr \in BOOLEAN /\ ~endedCr
      /\ buffer' = <<>> /\ endedCr' = endedCr
  BY DEF FeedInv, Turn, BufferEnds
<1>3. Taken(t)
  BY <1>1, <1>2 DEF TakenSoFar, AllTaken
<1>4. Chunk \in Str /\ Chunk # <<>>
  <2>1. Chunk \in Str /\ buffer = Chunk \o After
    BY <1>2, SplitBuffer
  <2>2. Chunk \o <<>> = Chunk
    BY <2>1, ConcatEmptySeq DEF Str
  <2> QED BY <1>2, <2>1, <2>2
<1>5. PICK s \in Str : /\ fed = s \o After
                       /\ lines = Ended(s) /\ linebuf \o Chunk = Unended(s)
                       /\ Unended(s) # <<>>
                       /\ ~EndsCr(s)
  BY <1>1, <1>2, <1>3, <1>4, ChunkTaken
<1>6. fed' = s \o buffer'
  BY <1>2, <1>5
<1>7. TakenSoFar(s)'
  <2>1. CASE eof
    <3>1. lines' = Append(lines, linebuf \o Chunk) /\ linebuf' = <<>>
      BY <2>1 DEF BufferEnds, ProcessLine
    <3>2. lines' = LinesOf(s)
      BY <1>5, <3>1 DEF LinesOf
    <3>3. AllTaken(s)'
      BY <1>2, <2>1, <3>1, <3>2 DEF AllTaken
    <3>4. buffer' = <<>> /\ eof'
      BY <1>2, <2>1
    <3> QED BY <1>6, <3>3, <3>4 DEF TakenSoFar
  <2>2. CASE ~eof
    <3>1. lines' = lines /\ linebuf' = linebuf \o Chunk
      BY <2>2 DEF BufferEnds, Keep
    <3>2. lines' = Ended(s) /\ linebuf' = Unended(s)
      BY <1>5, <3>1
    <3>3. ~endedCr' /\ pc' # "done"
      BY <1>2
    <3> QED BY <1>5, <1>6, <3>2, <3>3, TakenNext
  <2> QED BY <2>1, <2>2
<1>8. /\ pc' \in {"idle", "feed", "done"} /\ pc' = "feed"
      /\ eof' \in BOOLEAN /\ endedCr' \in BOOLEAN /\ ~endedCr'
      /\ caller' \in DOMAIN Callers
  BY <1>2
<1>9. buffer' \in Str
  <2>1. <<>> \in Str
    BY EmptySeq DEF Str
  <2> QED BY <1>2, <2>1
<1> QED BY <1>7, <1>8, <1>9, FeedInvNext

LEMMA ReturnKeeps ==
  ASSUME FeedInv, Return
  PROVE  FeedInv'
<1>1. PICK t \in Str : TakenSoFar(t)
  BY DEF FeedInv
<1>2. /\ pc = "feed" /\ buffer = <<>> /\ pc' = "idle"
      /\ buffer' = buffer /\ eof' = eof /\ linebuf' = linebuf /\ endedCr' = endedCr
      /\ lines' = lines /\ caller' = caller /\ fed' = fed
  BY DEF Return
<1>3. TakenSoFar(t)'
  <2>1. Taken(t) \/ AllTaken(t)
    BY <1>1 DEF TakenSoFar
  <2>2. Taken(t) => Taken(t)'
    BY <1>2 DEF Taken
  <2>3. AllTaken(t) => AllTaken(t)'
    BY <1>2 DEF AllTaken
  <2>4. (Taken(t)' /\ pc' # "done") \/ AllTaken(t)'
    BY <1>2, <2>1, <2>2, <2>3
  <2> QED BY <1>1, <1>2, <2>4 DEF TakenSoFar
<1>4. /\ pc' \in {"idle", "feed", "done"} /\ buffer' = <<>> /\ buffer' \in Str
      /\ eof' \in BOOLEAN /\ endedCr' \in BOOLEAN
      /\ caller' \in DOMAIN Callers
  BY <1>2 DEF FeedInv
<1> QED BY <1>3, <1>4, FeedInvNext

LEMMA FinishKeeps ==
  ASSUME FeedInv, Finish
  PROVE  FeedInv'
<1>1. PICK t \in Str : TakenSoFar(t)
  BY DEF FeedInv
<1>2. /\ pc = "idle" /\ buffer = <<>> /\ pc' = "done"
      /\ buffer' = buffer /\ eof' = eof /\ endedCr' = endedCr
      /\ caller' = caller /\ fed' = fed
  BY DEF FeedInv, Finish
<1>3. lines' = LinesOf(t)
  <2>1. CASE Taken(t)
    <3>1. CASE linebuf # <<>>
      <4>1. lines' = Append(lines, linebuf)
        BY <3>1 DEF Finish, ProcessLine
      <4> QED BY <2>1, <3>1, <4>1 DEF Taken, LinesOf
    <3>2. CASE linebuf = <<>>
      <4>1. lines' = lines
        BY <3>2 DEF Finish
      <4> QED BY <2>1, <3>2, <4>1 DEF Taken, LinesOf
    <3> QED BY <3>1, <3>2
  <2>2. CASE AllTaken(t)
    <3>1. linebuf = <<>> /\ lines = LinesOf(t)
      BY <1>2, <2>2 DEF AllTaken
    <3>2. lines' = lines
      BY <3>1 DEF Finish
    <3> QED BY <3>1, <3>2
  <2> QED BY <1>1, <2>1, <2>2 DEF TakenSoFar
<1>4. TakenSoFar(t)'
  <2>1. AllTaken(t)'
    BY <1>2, <1>3 DEF AllTaken
  <2> QED BY <1>1, <1>2, <2>1 DEF TakenSoFar
<1>5. /\ pc' \in {"idle", "feed", "done"} /\ buffer' = <<>> /\ buffer' \in Str
      /\ eof' \in BOOLEAN /\ endedCr' \in BOOLEAN
      /\ caller' \in DOMAIN Callers
  BY <1>2 DEF FeedInv
<1> QED BY <1>4, <1>5, FeedInvNext

LEMMA StutterKeeps ==
  ASSUME FeedInv, UNCHANGED vars
  PROVE  FeedInv'
BY DEF FeedInv, TakenSoFar, Taken, AllTaken, vars

LEMMA NextKeeps ==
  ASSUME FeedInv, [Next]_vars
  PROVE  FeedInv'
<1>1. CASE \E b \in Callers[caller].buffers, last \in Callers[caller].last : Feed(b, last)
  BY <1>1, FeedStepKeeps
<1>2. CASE Turn
  <2>1. LineEnds \/ NulByte \/ BufferEnds
    BY <1>2 DEF Turn
  <2> QED BY <1>2, <2>1, LineEndsKeeps, NulByteKeeps, BufferEndsKeeps
<1>3. CASE Return
  BY <1>3, ReturnKeeps
<1>4. CASE Finish
  BY <1>4, FinishKeeps
<1>5. CASE Done \/ UNCHANGED vars
  BY <1>5, StutterKeeps DEF Done
<1> QED BY <1>1, <1>2, <1>3, <1>4, <1>5 DEF Next

LEMMA FeedInvGivesLines == FeedInv => LinesAsFed
<1> SUFFICES ASSUME FeedInv
             PROVE  LinesAsFed
  OBVIOUS
<1>1. PICK t \in Str : TakenSoFar(t)
  BY DEF FeedInv
<1>2. pc # "feed" => fed = t
  <2>1. pc # "feed" => buffer = <<>>
    BY DEF FeedInv
  <2>2. t \o <<>> = t
    BY ConcatEmptySeq DEF Str
  <2>3. fed = t \o buffer
    BY <1>1 DEF TakenSoFar
  <2> QED BY <2>1, <2>2, <2>3
<1>3. LinesOfText
  <2> SUFFICES ASSUME pc = "done"
               PROVE  lines = LinesOf(fed)
    BY DEF LinesOfText
  <2>1. AllTaken(t)
    BY <1>1 DEF TakenSoFar
  <2> QED BY <1>2, <2>1 DEF AllTaken
<1>4. NothingWithheld
  <2> SUFFICES ASSUME pc = "idle", ~eof
               PROVE  lines = Ended(fed) /\ linebuf = Unended(fed)
    BY DEF NothingWithheld
  <2>1. Taken(t)
    BY <1>1 DEF TakenSoFar, AllTaken
  <2> QED BY <1>2, <2>1 DEF Taken
<1> QED BY <1>3, <1>4 DEF LinesAsFed

\* However a document is cut into buffers, the lines that are processed are
\* those of its text: between any two calls of S_parser_feed every line that
\* has ended and no other, and after cmark_parser_finish also the last one.
THEOREM LinesDoNotDependOnBuffers == Spec => []LinesAsFed
<1>1. FeedInv /\ [Next]_vars => FeedInv'
  BY NextKeeps
<1> QED BY <1>1, FeedInit, FeedInvGivesLines, PTL DEF Spec

\* The same with the handlers of S_process_line, which run between two steps of
\* the loop and leave its state alone.
THEOREM LinesDoNotDependOnHandlers == ColumnsSpec => []LinesAsFed
<1>1. ColumnsInit => FeedInv
  BY FeedInit DEF ColumnsInit
<1>2. FeedInv /\ [ColumnsNext]_allVars => FeedInv'
  <2>1. [ColumnsNext]_allVars => [Next]_vars
    BY DEF ColumnsNext, FeedStep, allVars
  <2> QED BY <2>1, NextKeeps
<1> QED BY <1>1, <1>2, FeedInvGivesLines, PTL DEF ColumnsSpec

-----------------------------------------------------------------------------
(* The position in the line. The inductive invariant: types, what the loop *)
(* of S_find_first_nonspace has found so far, the position saved after a   *)
(* list marker, and that nothing is left to advance over where the         *)
(* position is read.                                                       *)

Blocked(s) == /\ s \in Seq(ToSet(s))
              /\ \A i \in DOMAIN s : s[i].kind = "item" => s[i].width \in Int
Over == {"idle", "store", "closed"}
Types ==
  /\ offset \in Int /\ column \in Int /\ partial \in BOOLEAN
  /\ first \in [offset : Int, column : Int, toTab : Int]
  /\ indent \in Int
  /\ todo \in [n : Int, columns : BOOLEAN]
  /\ step = "pad" => saved.offset \in Int /\ saved.column \in Int /\ saved.partial \in BOOLEAN
Walk ==
  /\ Blocked(open) /\ Blocked(opened)
  /\ matched \in Nat
  /\ step \notin Over => /\ matched <= Len(open)
                         /\ where = "check" => matched < Len(open)
  /\ step = "skip" => where = "check"

FoundSoFar ==
  /\ ~Advancing
  /\ first.offset \in offset .. Len(line)
  /\ first.toTab = TabStop - (first.column % TabStop)
  /\ first.column = IF first.offset = offset THEN column ELSE Cols[first.offset]
FoundFirst ==
  /\ ~Advancing
  /\ first.column = Cols[first.offset]
  /\ indent = first.column - column
Position ==
  line \in DOMAIN ColumnOf /\ step # "idle" =>
    /\ Agree(offset, column, partial)
    /\ step = "pad" => Agree(saved.offset, saved.column, saved.partial)
    /\ step = "finding" => FoundSoFar
    /\ step = "decide" => FoundFirst
CursorInv == Types /\ Walk /\ Position

-----------------------------------------------------------------------------
(* Operators. *)

LEMMA MinOfTwo ==
  ASSUME NEW a \in Int, NEW b \in Int
  PROVE  Min({a, b}) = IF a <= b THEN a ELSE b
<1>1. \E x \in {a, b} : \A y \in {a, b} : x <= y
  OBVIOUS
<1>2. Min({a, b}) \in {a, b} /\ \A y \in {a, b} : Min({a, b}) <= y
  BY <1>1 DEF Min
<1> QED
  BY <1>2

\* A list of blocks keeps what is known of its members.
LEMMA InOwn ==
  ASSUME NEW S, NEW s \in Seq(S)
  PROVE  s \in Seq(ToSet(s))
<1>1. Len(s) \in Nat /\ DOMAIN s = 1 .. Len(s) /\ s \in [1 .. Len(s) -> S]
  BY LenProperties
<1>2. \A i \in 1 .. Len(s) : s[i] \in ToSet(s)
  BY <1>1 DEF ToSet
<1>3. s \in [1 .. Len(s) -> ToSet(s)]
  BY <1>1, <1>2
<1> QED
  BY <1>1, <1>3, SeqDef

LEMMA BlockedEmpty == Blocked(<<>>)
BY DEF Blocked

LEMMA BlockedAppend ==
  ASSUME NEW s, Blocked(s), NEW b, b.kind = "item" => b.width \in Int
  PROVE  Blocked(Append(s, b)) /\ Len(Append(s, b)) = Len(s) + 1
<1> DEFINE S == ToSet(s) \cup {b}
           t == Append(s, b)
<1>1. s \in Seq(S) /\ b \in S
  BY DEF Blocked
<1>2. /\ t \in Seq(S)
      /\ Len(t) = Len(s) + 1 /\ DOMAIN t = 1 .. Len(t)
      /\ \A i \in 1 .. Len(t) : t[i] = IF i = Len(s) + 1 THEN b ELSE s[i]
  BY <1>1
<1>3. DOMAIN s = 1 .. Len(s)
  BY <1>1
<1>4. t \in Seq(ToSet(t))
  BY <1>2, InOwn
<1>5. \A i \in DOMAIN t : t[i].kind = "item" => t[i].width \in Int
  BY <1>2, <1>3 DEF Blocked
<1> QED
  BY <1>2, <1>4, <1>5 DEF Blocked

LEMMA BlockedSubSeq ==
  ASSUME NEW s, Blocked(s), NEW m \in Nat, m <= Len(s)
  PROVE  Blocked(SubSeq(s, 1, m)) /\ Len(SubSeq(s, 1, m)) = m
<1> DEFINE t == SubSeq(s, 1, m)
<1>1. s \in Seq(ToSet(s)) /\ DOMAIN s = 1 .. Len(s) /\ Len(s) \in Nat
  BY DEF Blocked
<1>2. t \in Seq(ToSet(s)) /\ Len(t) = m /\ \A i \in 1 .. m : t[i] = s[i]
  BY <1>1
<1>3. DOMAIN t = 1 .. m
  BY <1>2
<1>4. t \in Seq(ToSet(t))
  BY <1>2, InOwn
<1>5. \A i \in DOMAIN t : t[i].kind = "item" => t[i].width \in Int
  BY <1>1, <1>2, <1>3 DEF Blocked
<1> QED
  BY <1>2, <1>4, <1>5 DEF Blocked

LEMMA BlockedFront ==
  ASSUME NEW s, Blocked(s), s # <<>>
  PROVE  Blocked(Front(s)) /\ Len(Front(s)) = Len(s) - 1
<1>1. Len(s) - 1 \in Nat /\ Len(s) - 1 <= Len(s)
  BY EmptySeq DEF Blocked
<1>2. Front(s) = SubSeq(s, 1, Len(s) - 1)
  BY DEF Front
<1> QED
  BY <1>1, <1>2, BlockedSubSeq

LEMMA BlockedConcat ==
  ASSUME NEW s, Blocked(s), NEW t, Blocked(t)
  PROVE  Blocked(s \o t)
<1> DEFINE S == ToSet(s) \cup ToSet(t)
           u == s \o t
<1>1. s \in Seq(S) /\ t \in Seq(S)
  BY DEF Blocked
<1>2. /\ u \in Seq(S)
      /\ Len(u) = Len(s) + Len(t) /\ DOMAIN u = 1 .. Len(u)
      /\ \A i \in 1 .. Len(u) : u[i] = IF i <= Len(s) THEN s[i] ELSE t[i - Len(s)]
  BY <1>1
<1>3. DOMAIN s = 1 .. Len(s) /\ DOMAIN t = 1 .. Len(t) /\ Len(s) \in Nat /\ Len(t) \in Nat
  BY <1>1
<1>4. u \in Seq(ToSet(u))
  BY <1>2, InOwn
<1>5. \A i \in DOMAIN u : u[i].kind = "item" => u[i].width \in Int
  BY <1>2, <1>3 DEF Blocked
<1> QED
  BY <1>4, <1>5 DEF Blocked

\* The columns of a line that ColumnOf has.
LEMMA Columned ==
  ASSUME line \in DOMAIN ColumnOf
  PROVE  /\ Len(line) \in Nat /\ DOMAIN line = 1 .. Len(line)
         /\ Cols[0] = 0
         /\ \A i \in 0 .. Len(line) : Cols[i] \in Nat
         /\ \A i \in 0 .. Len(line) - 1 :
              Cols[i + 1] = IF line[i + 1] = "tab" THEN Cols[i] + (4 - (Cols[i] % 4)) ELSE Cols[i] + 1
<1>1. line \in Seq(STRING) /\ Cols \in [0 .. Len(line) -> Nat] /\ Cols[0] = 0
  BY ColumnsAssumption DEF Cols
<1>2. DOMAIN line = 1 .. Len(line) /\ Len(line) \in Nat
  BY <1>1
<1>3. \A i \in DOMAIN line : Cols[i] = NextColumn(Cols[i - 1], line[i])
  BY ColumnsAssumption DEF Cols
<1>4. ASSUME NEW i \in 0 .. Len(line) - 1
      PROVE  Cols[i + 1] = NextColumn(Cols[i], line[i + 1])
  <2>1. i + 1 \in DOMAIN line /\ (i + 1) - 1 = i
    BY <1>2
  <2> QED
    BY <1>3, <2>1
<1> QED
  BY <1>1, <1>2, <1>4 DEF NextColumn, TabStop

\* Within a tab, the next tab stop is the end of the tab.
LEMMA TabEnd ==
  ASSUME NEW c \in Nat, NEW d \in Nat, c <= d, d < c + (4 - (c % 4))
  PROVE  d + (4 - (d % 4)) = c + (4 - (c % 4))
OBVIOUS

\* A tab stop is a multiple of four.
LEMMA StopDivides ==
  ASSUME NEW c \in Int
  PROVE  (c + (4 - (c % 4))) % 4 = 0
OBVIOUS

\* One column further, the next tab stop is one column less away, or the next but one.
LEMMA NextInTab ==
  ASSUME NEW c \in Nat
  PROVE  4 - ((c + 1) % 4) = IF 4 - (c % 4) = 1 THEN 4 ELSE (4 - (c % 4)) - 1
OBVIOUS

\* Within a tab: the position is between its first column and the next tab stop.
LEMMA InTab ==
  ASSUME line \in DOMAIN ColumnOf, Types, Agree(offset, column, partial),
         offset < Len(line), line[offset + 1] = "tab"
  PROVE  /\ offset + 1 \in 0 .. Len(line)
         /\ Cols[offset] <= column /\ column < Cols[offset + 1]
         /\ column + TabsLeft = Cols[offset + 1]
<1>1. /\ offset \in 0 .. Len(line) - 1 /\ Cols[offset] \in Nat /\ column \in Nat
      /\ Cols[offset + 1] = Cols[offset] + (4 - (Cols[offset] % 4))
      /\ Cols[offset] <= column
  BY Columned DEF Agree, Types
<1>2. column < Cols[offset + 1]
  BY <1>1 DEF Agree
<1>3. column + (4 - (column % 4)) = Cols[offset + 1]
  BY <1>1, <1>2, TabEnd
<1> QED
  BY <1>1, <1>2, <1>3, Columned DEF TabsLeft, TabStop

-----------------------------------------------------------------------------
(* Types. *)

LEMMA NumbersInInt ==
  ASSUME Types
  PROVE  /\ 0 \in Int /\ 1 \in Int /\ CodeIndent \in Int /\ TabStop \in Int
         /\ TabsLeft \in Int /\ indent + 1 \in Int
         /\ first.offset - offset \in Int /\ first.offset + 1 - offset \in Int
BY DEF Types, CodeIndent, TabStop, TabsLeft

LEMMA AdvanceTyped ==
  ASSUME NEW n \in Int, NEW c \in BOOLEAN, Advance(n, c)
  PROVE  todo' \in [n : Int, columns : BOOLEAN]
BY DEF Advance

\* In the two parts of the walk that look at an open block, there is one.
LEMMA BlockTyped ==
  ASSUME Walk, step = "decide", where = "check", Block.kind = "item"
  PROVE  Block.width \in Int
<1>1. matched + 1 \in DOMAIN open
  BY DEF Walk, Over, Blocked
<1> QED
  BY <1>1 DEF Walk, Blocked, Block

LEMMA TypesKept ==
  ASSUME Types, Walk, ProcessSteps
  PROVE  Types'
<1> USE NumbersInInt, AdvanceTyped
<1>1. CASE AdvanceTurn
  <2> DEFINE tab  == line[offset + 1] = "tab"
             part == tab /\ todo.columns /\ TabsLeft > todo.n
             cols == IF ~tab THEN 1 ELSE IF todo.columns THEN Min({todo.n, TabsLeft}) ELSE TabsLeft
  <2>1. cols \in Int
    BY MinOfTwo DEF Types
  <2>2. partial' \in BOOLEAN /\ offset' \in Int /\ column' \in Int
    BY <1>1, <2>1 DEF AdvanceTurn, Types
  <2>3. todo' \in [n : Int, columns : BOOLEAN]
    BY <1>1, <2>1 DEF AdvanceTurn, Types
  <2> QED
    BY <1>1, <2>2, <2>3 DEF AdvanceTurn, Types
<1>2. CASE FindFirst
  BY <1>2 DEF FindFirst, Stay, cursor, Types
<1>3. CASE FindTurn
  <2>1. first' \in [offset : Int, column : Int, toTab : Int]
    <3>1. first.offset \in Int /\ first.column \in Int /\ first.toTab \in Int
      BY DEF Types
    <3>2. (IF first.toTab = 1 THEN TabStop ELSE first.toTab - 1) \in Int
      BY <3>1 DEF TabStop
    <3>3. CASE Peek(first.offset) = " "
      <4>1. first' = [offset |-> first.offset + 1, column |-> first.column + 1,
                      toTab |-> IF first.toTab = 1 THEN TabStop ELSE first.toTab - 1]
        BY <1>3, <3>3 DEF FindTurn
      <4> QED
        BY <3>1, <3>2, <4>1
    <3>4. CASE Peek(first.offset) = "tab"
      <4>1. first' = [offset |-> first.offset + 1, column |-> first.column + first.toTab,
                      toTab |-> TabStop]
        BY <1>3, <3>4 DEF FindTurn
      <4> QED
        BY <3>1, <4>1 DEF TabStop
    <3> QED
      BY <1>3, <3>3, <3>4 DEF FindTurn
  <2> QED
    BY <1>3, <2>1 DEF FindTurn, Stay, cursor, Types
<1>4. CASE FindEnd
  BY <1>4 DEF FindEnd, Stay, cursor, Types
<1>5. CASE CheckQuote
  BY <1>5 DEF CheckQuote, Checked, Stay, cursor, Types
<1>6. CASE OptionalSpace
  BY <1>6 DEF OptionalSpace, TakeSpace, Matched, Checked, Stay, cursor, Types
<1>7. CASE CheckItem
  BY <1>7, BlockTyped DEF CheckItem, Checking, Block, Matched, Checked, Stay, cursor, Types
<1>8. CASE CheckCode
  BY <1>8 DEF CheckCode, Matched, Checked, Stay, cursor, Types
<1>9. CASE CheckFence
  BY <1>9 DEF CheckFence, Checked, Stay, cursor, Types
<1>10. CASE SkipFence
  BY <1>10 DEF SkipFence, Matched, Checked, Stay, cursor, Types
<1>11. CASE CloseFence
  BY <1>11 DEF CloseFence, Stay, cursor, Types
<1>12. CASE LineClosed
  BY <1>12 DEF LineClosed, Stay, cursor, Types
<1>13. CASE CheckParagraph
  BY <1>13 DEF CheckParagraph, Matched, Checked, Stay, cursor, Types
<1>14. CASE Mismatch
  BY <1>14 DEF Mismatch, Checked, Stay, cursor, Types
<1>15. CASE OpenQuote
  BY <1>15 DEF OpenQuote, ToMarkerEnd, Begun, Stay, cursor, Types
<1>16. CASE OpenFence
  BY <1>16 DEF OpenFence, ToMarkerEnd, Begun, Stay, cursor, Types
<1>17. CASE OpenItem
  BY <1>17 DEF OpenItem, ToMarkerEnd, Begun, Stay, cursor, Types
<1>18. CASE SaveCursor
  BY <1>18 DEF SaveCursor, Begun, Stay, cursor, Types
<1>19. CASE PadTurn
  BY <1>19 DEF PadTurn, Begun, Stay, cursor, Types
<1>20. CASE PadEnd
  <2>1. (UNCHANGED <<first, indent, step>>) \/ (step' = "find" /\ UNCHANGED <<first, indent>>)
    BY <1>20 DEF PadEnd
  <2>2. CASE Restore /\ Advance(1, TRUE)
    BY <1>20, <2>1, <2>2 DEF PadEnd, At, Restore, Types
  <2>3. CASE UNCHANGED <<cursor, todo>>
    BY <1>20, <2>1, <2>3 DEF PadEnd, cursor, Types
  <2> QED
    BY <1>20, <2>2, <2>3 DEF PadEnd
<1>21. CASE OpenCode
  BY <1>21 DEF OpenCode, Begun, Stay, cursor, Types
<1>22. CASE StopOpening
  BY <1>22 DEF StopOpening, Begun, Stay, cursor, Types
<1>23. CASE LazyLine \/ LeafLine \/ BlankLine
  BY <1>23 DEF LazyLine, LeafLine, BlankLine, Placed, Stay, cursor, Types
<1>24. CASE TextLine
  BY <1>24 DEF TextLine, Placed, Stay, cursor, Types
<1>25. CASE AddLine
  BY <1>25 DEF AddLine, Types
<1> QED
  BY <1>1, <1>2, <1>3, <1>4, <1>5, <1>6, <1>7, <1>8, <1>9, <1>10, <1>11, <1>12, <1>13, <1>14,
     <1>15, <1>16, <1>17, <1>18, <1>19, <1>20, <1>21, <1>22, <1>23, <1>24, <1>25 DEF ProcessSteps

-----------------------------------------------------------------------------
(* The blocks. *)

LEMMA MatchedKept ==
  ASSUME Walk, step \notin Over, where = "check", Matched, UNCHANGED <<open, opened>>
  PROVE  Walk'
BY DEF Walk, Over, Matched

\* A block is opened in the part that comes after the check.
LEMMA OpenKept ==
  ASSUME Walk, step \notin Over, NEW b, b.kind = "item" => b.width \in Int, Open(b),
         step' # "skip", UNCHANGED <<open, matched>>
  PROVE  Walk'
<1>1. Blocked(opened')
  BY BlockedAppend DEF Open, Walk
<1>2. where' # "check"
  BY DEF Open
<1> QED
  BY <1>1, <1>2 DEF Walk

LEMMA RemainingBlocked ==
  ASSUME Walk, step \notin Over
  PROVE  Blocked(Remaining)
<1> DEFINE kept == SubSeq(open, 1, matched)
<1>1. Blocked(kept) /\ Blocked(opened)
  BY BlockedSubSeq DEF Walk
<1>2. kept # <<>> => Blocked(Front(kept))
  BY <1>1, BlockedFront
<1>3. Blocked(kept \o opened) /\ (kept # <<>> => Blocked(Front(kept) \o opened))
  BY <1>1, <1>2, BlockedConcat
<1> QED
  BY <1>3 DEF Remaining

LEMMA WalkKept ==
  ASSUME Types, Walk, ProcessSteps
  PROVE  Walk'
<1>1. CASE AdvanceTurn \/ FindFirst \/ FindTurn \/ FindEnd \/ LineClosed \/ SaveCursor \/ PadTurn \/ AddLine
  BY <1>1 DEF AdvanceTurn, FindFirst, FindTurn, FindEnd, LineClosed, SaveCursor, PadTurn, AddLine,
              At, Begun, blocks, Walk, Over
<1>2. CASE CheckQuote \/ CheckFence \/ Mismatch
  BY <1>2 DEF CheckQuote, CheckFence, Mismatch, Checking, Checked, Walk, Over
<1>3. CASE OptionalSpace
  <2>1. CASE where = "check"
    BY <1>3, <2>1, MatchedKept DEF OptionalSpace, Checked, At, Over
  <2>2. CASE where # "check"
    BY <1>3, <2>2 DEF OptionalSpace, Checked, At, Walk, Over
  <2> QED
    BY <2>1, <2>2
<1>4. CASE CheckItem \/ CheckCode \/ CheckParagraph
  <2>1. /\ Matched /\ step \notin Over /\ where = "check"
        /\ UNCHANGED <<open, opened>>
    BY <1>4 DEF CheckItem, CheckCode, CheckParagraph, Checking, Checked, Over
  <2> QED
    BY <2>1, MatchedKept
<1>5. CASE SkipFence
  <2>1. where = "check" /\ step \notin Over /\ UNCHANGED <<open, opened>>
    BY <1>5 DEF SkipFence, Checked, At, Walk, Over
  <2>2. CASE Matched
    BY <2>1, <2>2, MatchedKept
  <2>3. CASE UNCHANGED <<step, where, matched>>
    BY <2>1, <2>3 DEF Walk
  <2> QED
    BY <1>5, <2>2, <2>3 DEF SkipFence
<1>6. CASE CloseFence
  <2>1. open # <<>>
    BY <1>6 DEF CloseFence, Checking, Walk, Over
  <2>2. Blocked(open')
    BY <1>6, <2>1, BlockedFront DEF CloseFence, Walk
  <2> QED
    BY <1>6, <2>2 DEF CloseFence, Walk, Over
<1>7. CASE OpenQuote \/ OpenFence \/ OpenCode
  <2>1. \E b : /\ b.kind # "item" /\ Open(b) /\ UNCHANGED <<open, matched>>
               /\ step' # "skip" /\ step \notin Over
    BY <1>7 DEF OpenQuote, OpenFence, OpenCode, Opening, Begun, blocks, Over
  <2> QED
    BY <2>1, OpenKept
<1>8. CASE OpenItem \/ StopOpening
  BY <1>8 DEF OpenItem, StopOpening, Opening, Begun, blocks, Walk, Over
<1>9. CASE PadEnd
  <2>1. PICK b : b.kind = "item" /\ b.width \in Int /\ Open(b)
    <3>1. column - saved.column \in Int /\ indent \in Int
      BY <1>9 DEF PadEnd, At, Types
    <3> QED
      BY <1>9, <3>1 DEF PadEnd
  <2>2. UNCHANGED <<open, matched>> /\ step' = "find" /\ step \notin Over
    BY <1>9 DEF PadEnd, At, blocks, Over
  <2> QED
    BY <2>1, <2>2, OpenKept
<1>10. CASE LazyLine
  BY <1>10 DEF LazyLine, Placed, Walk, Over
<1>11. CASE LeafLine \/ BlankLine
  BY <1>11, RemainingBlocked DEF LeafLine, BlankLine, Adding, Placed, Walk, Over
<1>12. CASE TextLine
  <2>1. Blocked(Remaining)
    BY <1>12, RemainingBlocked DEF TextLine, Adding, Over
  <2>2. Blocked(Append(Remaining, [kind |-> "paragraph"]))
    BY <2>1, BlockedAppend
  <2>3. Blocked(open')
    BY <1>12, <2>1, <2>2 DEF TextLine
  <2> QED
    BY <1>12, <2>3 DEF TextLine, Placed, Walk, Over
<1> QED
  BY <1>1, <1>2, <1>3, <1>4, <1>5, <1>6, <1>7, <1>8, <1>9, <1>10, <1>11, <1>12
     DEF ProcessSteps

-----------------------------------------------------------------------------
(* The position. *)

\* A step that neither moves nor leads to one of the three places of which
\* more is known keeps the position sound.
LEMMA PositionStays ==
  ASSUME Position, Stay, step # "idle", step' \notin {"pad", "finding", "decide"}
  PROVE  Position'
BY DEF Position, Stay, cursor, Agree, Cols

LEMMA PositionAdvances ==
  ASSUME CursorInv, AdvanceTurn, line \in DOMAIN ColumnOf
  PROVE  Agree(offset, column, partial)'
<1> DEFINE tab  == line[offset + 1] = "tab"
           part == tab /\ todo.columns /\ TabsLeft > todo.n
           cols == IF ~tab THEN 1 ELSE IF todo.columns THEN Min({todo.n, TabsLeft}) ELSE TabsLeft
<1>1. /\ Agree(offset, column, partial)
      /\ todo.n \in Int /\ todo.n > 0 /\ offset < Len(line) /\ offset \in 0 .. Len(line)
      /\ TabsLeft \in Int /\ column \in Int
      /\ partial' = part /\ offset' = (IF part THEN offset ELSE offset + 1) /\ column' = column + cols
      /\ line' = line
  BY NumbersInInt DEF CursorInv, Position, AdvanceTurn, Advancing, Types, Agree
<1>2. CASE ~tab
  <2>1. ~partial /\ column = Cols[offset] /\ Cols[offset + 1] = Cols[offset] + 1
    BY <1>1, <1>2, Columned DEF Agree
  <2>2. partial' = FALSE /\ offset' = offset + 1 /\ column' = Cols[offset + 1]
    BY <1>1, <1>2, <2>1
  <2>3. offset + 1 \in 0 .. Len(line)
    BY <1>1, Columned
  <2> QED
    BY <1>1, <2>2, <2>3 DEF Agree, Cols
<1>3. CASE tab
  <2>1. /\ offset + 1 \in 0 .. Len(line)
        /\ Cols[offset] <= column /\ column < Cols[offset + 1]
        /\ column + TabsLeft = Cols[offset + 1]
        /\ Cols[offset] \in Nat /\ Cols[offset + 1] \in Nat
    BY <1>1, <1>3, InTab, Columned DEF CursorInv
  <2>2. CASE part
    <3>1. cols = todo.n
      BY <1>1, <2>2, MinOfTwo
    <3>2. Cols[offset] < column' /\ column' < Cols[offset + 1]
      BY <1>1, <2>1, <2>2, <3>1
    <3> QED
      BY <1>1, <1>3, <2>2, <3>2 DEF Agree, Cols
  <2>3. CASE ~part
    <3>1. cols = TabsLeft
      BY <1>1, <1>3, <2>3, MinOfTwo
    <3>2. column' = Cols[offset + 1]
      BY <1>1, <2>1, <3>1
    <3> QED
      BY <1>1, <2>1, <2>3, <3>2 DEF Agree, Cols
  <2> QED
    BY <2>2, <2>3
<1> QED
  BY <1>2, <1>3

\* One byte further in the search for the first that is not blank.
LEMMA FoundOneMore ==
  ASSUME CursorInv, FindTurn, line \in DOMAIN ColumnOf, FoundSoFar, Agree(offset, column, partial)
  PROVE  FoundSoFar'
<1>1. /\ offset \in 0 .. Len(line) /\ Len(line) \in Nat
      /\ first.offset \in offset .. Len(line)
      /\ first.column \in Int /\ column \in Int
      /\ UNCHANGED <<line, offset, column, todo>>
  BY Columned DEF CursorInv, Types, Agree, FoundSoFar, FindTurn, Stay, cursor
<1>2. /\ first.offset < Len(line) /\ line[first.offset + 1] \in SpaceOrTab
      /\ Peek(first.offset) = line[first.offset + 1]
  BY <1>1 DEF FindTurn, Peek, SpaceOrTab
<1>3. \/ /\ Peek(first.offset) = " "
         /\ first'.offset = first.offset + 1 /\ first'.column = first.column + 1
         /\ first'.toTab = IF first.toTab = 1 THEN TabStop ELSE first.toTab - 1
      \/ /\ Peek(first.offset) = "tab"
         /\ first'.offset = first.offset + 1 /\ first'.column = first.column + first.toTab
         /\ first'.toTab = TabStop
  <2>1. CASE Peek(first.offset) = " "
    <3>1. first' = [offset |-> first.offset + 1, column |-> first.column + 1,
                    toTab |-> IF first.toTab = 1 THEN TabStop ELSE first.toTab - 1]
      BY <2>1 DEF FindTurn
    <3> QED
      BY <2>1, <3>1
  <2>2. CASE Peek(first.offset) = "tab"
    <3>1. first' = [offset |-> first.offset + 1, column |-> first.column + first.toTab,
                    toTab |-> TabStop]
      BY <2>2 DEF FindTurn
    <3> QED
      BY <2>2, <3>1
  <2> QED
    BY <2>1, <2>2 DEF FindTurn
<1>4. /\ Cols[first.offset] \in Nat /\ Cols[first.offset + 1] \in Nat
      /\ Cols[first.offset + 1] = IF line[first.offset + 1] = "tab"
           THEN Cols[first.offset] + (4 - (Cols[first.offset] % 4)) ELSE Cols[first.offset] + 1
  BY <1>1, <1>2, Columned
<1>5. /\ first'.column = Cols[first.offset + 1]
      /\ first'.toTab = TabStop - (first'.column % TabStop)
  <2>1. CASE line[first.offset + 1] = " "
    <3>1. first.column = Cols[first.offset]
      BY <1>1, <1>2, <2>1 DEF FoundSoFar, Agree
    <3>2. first'.column = Cols[first.offset] + 1
      BY <1>2, <1>3, <2>1, <3>1
    <3>3. first'.toTab = IF first.toTab = 1 THEN 4 ELSE first.toTab - 1
      BY <1>2, <1>3, <2>1 DEF TabStop
    <3>4. first.toTab = 4 - (Cols[first.offset] % 4)
      BY <3>1 DEF FoundSoFar, TabStop
    <3>5. Cols[first.offset + 1] = Cols[first.offset] + 1
      BY <1>4, <2>1
    <3> QED
      BY <1>4, <3>2, <3>3, <3>4, <3>5, NextInTab DEF TabStop
  <2>2. CASE line[first.offset + 1] = "tab"
    <3>1. /\ first'.column = first.column + (4 - (first.column % 4))
          /\ first'.toTab = 4
      BY <1>2, <1>3, <2>2 DEF FoundSoFar, TabStop
    <3>2. first.column + (4 - (first.column % 4)) = Cols[first.offset + 1]
      <4>1. CASE first.offset = offset
        BY <1>1, <1>2, <2>2, <4>1, InTab DEF CursorInv, FoundSoFar, TabsLeft, TabStop
      <4>2. CASE first.offset # offset
        BY <1>4, <2>2, <4>2 DEF FoundSoFar
      <4> QED
        BY <4>1, <4>2
    <3>3. (first.column + (4 - (first.column % 4))) % 4 = 0
      BY <1>1, StopDivides
    <3> QED
      BY <3>1, <3>2, <3>3 DEF TabStop
  <2> QED
    BY <1>2, <2>1, <2>2 DEF SpaceOrTab
<1>6. ~Advancing'
  BY <1>1 DEF FoundSoFar, Advancing
<1>7. first'.offset \in offset .. Len(line) /\ first'.offset # offset
  <2>1. first'.offset = first.offset + 1
    BY <1>3
  <2> QED
    BY <1>1, <1>2, <2>1
<1>8. first'.column = Cols[first'.offset]
  BY <1>3, <1>5
<1>9. /\ first'.offset \in offset' .. Len(line')
      /\ first'.column = IF first'.offset = offset' THEN column' ELSE Cols'[first'.offset]
  BY <1>1, <1>7, <1>8 DEF Cols
<1> QED
  BY <1>5, <1>6, <1>9 DEF FoundSoFar

LEMMA PositionKept ==
  ASSUME CursorInv, ProcessSteps
  PROVE  Position'
<1> USE DEF CursorInv
<1>1. SUFFICES ASSUME line' \in DOMAIN ColumnOf, step' # "idle"
               PROVE  Position'
  BY DEF Position
<1>2. CASE AdvanceTurn
  <2>1. line' = line /\ step' = step /\ saved' = saved
    BY <1>2 DEF AdvanceTurn
  <2>2. Agree(offset, column, partial)'
    BY <1>1, <1>2, <2>1, PositionAdvances
  <2>3. step' \notin {"finding", "decide"}
    BY <1>1, <1>2, <2>1 DEF Position, FoundSoFar, FoundFirst, AdvanceTurn
  <2>4. step = "pad" => Agree(saved.offset, saved.column, saved.partial)'
    BY <1>1, <2>1 DEF Position, Agree, Cols
  <2> QED
    BY <2>1, <2>2, <2>3, <2>4 DEF Position
<1>3. CASE FindFirst
  <2>1. /\ ~Advancing /\ UNCHANGED <<line, offset, column, partial, todo>>
        /\ first'.offset = offset /\ first'.column = column /\ first'.toTab = TabsLeft
        /\ step = "find" /\ step' = "finding"
    BY <1>3 DEF FindFirst, At, Stay, cursor
  <2>2. Agree(offset, column, partial)'
    BY <1>1, <2>1 DEF Position, Agree, Cols
  <2>3. FoundSoFar'
    BY <1>1, <2>1, <2>2, Columned DEF FoundSoFar, Advancing, TabsLeft, Agree
  <2> QED
    BY <2>1, <2>2, <2>3 DEF Position
<1>4. CASE FindTurn
  <2>1. UNCHANGED <<line, offset, column, partial, step>> /\ step = "finding"
    BY <1>4 DEF FindTurn, Stay, cursor
  <2>2. Agree(offset, column, partial) /\ Agree(offset, column, partial)' /\ FoundSoFar
    BY <1>1, <2>1 DEF Position, Agree, Cols
  <2>3. FoundSoFar'
    BY <1>1, <1>4, <2>1, <2>2, FoundOneMore
  <2> QED
    BY <2>1, <2>2, <2>3 DEF Position
<1>5. CASE FindEnd
  <2>1. /\ UNCHANGED <<line, offset, column, partial, first, todo>>
        /\ step = "finding" /\ step' = "decide" /\ indent' = first.column - column
        /\ Peek(first.offset) \notin SpaceOrTab
    BY <1>5 DEF FindEnd, Stay, cursor
  <2>2. Agree(offset, column, partial) /\ Agree(offset, column, partial)' /\ FoundSoFar
    BY <1>1, <2>1 DEF Position, Agree, Cols
  <2>3. first.column = Cols[first.offset]
    <3>1. CASE first.offset = offset
      <4>1. ~partial
        BY <2>1, <2>2, <3>1 DEF Agree, Peek, SpaceOrTab
      <4> QED
        BY <2>2, <3>1, <4>1 DEF Agree, FoundSoFar
    <3> QED
      BY <2>2, <3>1 DEF FoundSoFar
  <2>4. FoundFirst'
    BY <2>1, <2>2, <2>3 DEF FoundFirst, FoundSoFar, Advancing, Cols
  <2> QED
    BY <2>1, <2>2, <2>4 DEF Position
<1>6. CASE CheckQuote \/ OptionalSpace \/ CheckItem \/ CheckCode \/ CheckFence \/ CheckParagraph \/ Mismatch
  <2>1. Stay /\ step # "idle" /\ step' \notin {"pad", "finding", "decide"}
    BY <1>6 DEF CheckQuote, OptionalSpace, CheckItem, CheckCode, CheckFence, CheckParagraph, Mismatch,
                Checking, Checked, Matched, At
  <2> QED
    BY <2>1, PositionStays
<1>7. CASE SkipFence
  <2>1. Stay /\ step # "idle" /\ step' \notin {"pad", "finding", "decide"}
    BY <1>7 DEF SkipFence, Checked, Matched, At
  <2> QED
    BY <2>1, PositionStays
<1>8. CASE CloseFence \/ LineClosed
  <2>1. Stay /\ step # "idle" /\ step' \notin {"pad", "finding", "decide"}
    BY <1>8 DEF CloseFence, LineClosed, Checking, At
  <2> QED
    BY <2>1, PositionStays
<1>9. CASE OpenQuote \/ OpenFence \/ OpenItem \/ OpenCode \/ StopOpening
  <2>1. Stay /\ step # "idle" /\ step' \notin {"pad", "finding", "decide"}
    BY <1>9 DEF OpenQuote, OpenFence, OpenItem, OpenCode, StopOpening, Opening, Begun
  <2> QED
    BY <2>1, PositionStays
<1>10. CASE SaveCursor
  <2>1. /\ UNCHANGED <<line, offset, column, partial>> /\ step = "mark" /\ step' = "pad"
        /\ saved'.offset = offset /\ saved'.column = column /\ saved'.partial = partial
    BY <1>10 DEF SaveCursor, At, Begun, Stay, cursor
  <2> QED
    BY <1>1, <2>1 DEF Position, Agree, Cols
<1>11. CASE PadTurn
  <2>1. UNCHANGED <<line, offset, column, partial, step, saved>> /\ step = "pad"
    BY <1>11 DEF PadTurn, At, Begun, Stay, cursor
  <2> QED
    BY <1>1, <2>1 DEF Position, Agree, Cols
<1>12. CASE PadEnd
  <2>1. line' = line /\ step = "pad" /\ step' = "find"
    BY <1>12 DEF PadEnd, At
  <2>2. Agree(offset, column, partial) /\ Agree(saved.offset, saved.column, saved.partial)
    BY <1>1, <2>1 DEF Position
  <2>3. Restore \/ UNCHANGED cursor
    BY <1>12 DEF PadEnd
  <2>4. Agree(offset, column, partial)'
    BY <2>1, <2>2, <2>3 DEF Restore, cursor, Agree, Cols
  <2> QED
    BY <2>1, <2>4 DEF Position
<1>13. CASE LazyLine \/ LeafLine \/ BlankLine \/ TextLine
  <2>1. Stay /\ step # "idle" /\ step' \notin {"pad", "finding", "decide"}
    BY <1>13 DEF LazyLine, LeafLine, BlankLine, TextLine, Adding, Placed
  <2> QED
    BY <2>1, PositionStays
<1>14. CASE AddLine
  BY <1>1, <1>14 DEF AddLine
<1> QED
  BY <1>2, <1>3, <1>4, <1>5, <1>6, <1>7, <1>8, <1>9, <1>10, <1>11, <1>12, <1>13, <1>14 DEF ProcessSteps

-----------------------------------------------------------------------------
(* The theorem. *)

LEMMA CursorInvInit == ColumnsInit => CursorInv
<1> SUFFICES ASSUME ColumnsInit PROVE CursorInv
  OBVIOUS
<1>1. Types
  <2>1. Nothing \in [n : Int, columns : BOOLEAN]
    BY DEF Nothing
  <2>2. [offset |-> 0, column |-> 0, toTab |-> TabStop] \in [offset : Int, column : Int, toTab : Int]
    BY DEF TabStop
  <2>3. step # "pad"
    BY DEF ColumnsInit
  <2> QED
    BY <2>1, <2>2, <2>3 DEF ColumnsInit, Types
<1>2. Walk
  BY BlockedEmpty DEF ColumnsInit, Walk, Over
<1>3. Position
  BY DEF ColumnsInit, Position
<1> QED
  BY <1>1, <1>2, <1>3 DEF CursorInv

LEMMA BeginLineSound ==
  ASSUME CursorInv, NEW text, BeginLine(text)
  PROVE  CursorInv'
<1>1. Types'
  <2>1. Nothing \in [n : Int, columns : BOOLEAN]
    BY DEF Nothing
  <2>2. partial' \in BOOLEAN
    BY Zenon DEF BeginLine
  <2>3. /\ offset' = 0 /\ column' = 0 /\ todo' = Nothing
        /\ step' # "pad" /\ UNCHANGED <<first, indent>>
    BY DEF BeginLine
  <2> QED
    BY <2>1, <2>2, <2>3 DEF CursorInv, Types
<1>2. Walk'
  <2>1. Blocked(open) /\ Blocked(opened')
    BY BlockedEmpty DEF CursorInv, Walk, BeginLine
  <2>2. Len(open) \in Nat /\ (open # <<>> => 0 < Len(open))
    BY <2>1, EmptySeq, LenProperties DEF Blocked
  <2> QED
    BY <2>1, <2>2 DEF BeginLine, Walk
<1>3. Position'
  <2>1. ASSUME line' \in DOMAIN ColumnOf
        PROVE  Len(line') \in Nat /\ ColumnOf[line'][0] = 0
    BY <2>1, ColumnsAssumption
  <2> QED
    BY <2>1 DEF BeginLine, Position, Agree, Cols
<1> QED
  BY <1>1, <1>2, <1>3 DEF CursorInv

LEMMA CursorInvUnchanged ==
  ASSUME CursorInv, UNCHANGED colVars
  PROVE  CursorInv'
BY DEF CursorInv, colVars, cursor, blocks, Types, Walk, Over, Position, Agree, Cols,
       FoundSoFar, FoundFirst, Advancing

LEMMA CursorInvNext ==
  ASSUME CursorInv, [ColumnsNext]_allVars
  PROVE  CursorInv'
<1>1. CASE FeedStep
  BY <1>1, BeginLineSound, CursorInvUnchanged DEF FeedStep
<1>2. CASE ProcessSteps
  BY <1>2, TypesKept, WalkKept, PositionKept DEF CursorInv
<1>3. CASE UNCHANGED allVars
  BY <1>3, CursorInvUnchanged DEF allVars
<1> QED
  BY <1>1, <1>2, <1>3 DEF ColumnsNext

\* The position is sound in every state: see CursorSound. For all texts, and
\* all ways to feed them.
THEOREM AlwaysCursorSound == ColumnsSpec => []CursorSound
<1>1. CursorInv /\ [ColumnsNext]_allVars => CursorInv'
  BY CursorInvNext
<1>2. CursorInv => CursorSound
  BY DEF CursorInv, Position, FoundFirst, CursorSound
<1> QED
  BY <1>1, <1>2, CursorInvInit, PTL DEF ColumnsSpec

-----------------------------------------------------------------------------
(* Tabs as spaces. The inductive invariant says where the position will be *)
(* when what S_advance_offset has still to do is done: at want. It adds    *)
(* what the search for the first byte that is not blank has found, how far *)
(* the loops after a list marker and before a fenced line have come, and   *)
(* that the widths of the open items are those of the line without tabs.   *)

Measured(b) == /\ b.kind = "item" => b.width \in Nat \ {0} /\ b.width = b.content
               /\ b.kind = "fence" => b.offset \in Nat /\ b.content \in Nat
Crooked(b) == b.kind = "fence" /\ b.offset # b.content
\* The first n blocks have no leaf; only the last block is a leaf.
NoLeaf(s, n) == \A i \in 1 .. n : s[i].kind \notin Leaf
Nested(s) == (\A i \in 1 .. Len(s) : Measured(s[i])) /\ NoLeaf(s, Len(s) - 1)
Shape ==
  /\ Nested(open)
  /\ step \notin Over =>
       /\ Nested(opened)
       /\ where # "add" => NoLeaf(opened, Len(opened))
       /\ where = "check" => opened = <<>>
       /\ where = "open" \/ opened # <<>> => NoLeaf(open, matched)
  /\ step \in {"mark", "pad"} => where = "open"
  /\ step = "skip" => Block.kind = "fence"

\* The line goes on in a fence that was opened behind a tab.
Exempt == \/ step = "skip" /\ Crooked(Block)
          \/ where = "add" /\ matched > 0 /\ Crooked(open[matched])

End == Cols[Len(line)]
\* The position when all is done that S_advance_offset has to do
Heads(c) ==
  IF ~Advancing THEN column = c
  ELSE IF todo.columns THEN column + todo.n = c /\ c <= End
  ELSE offset + todo.n <= Len(line) /\ Cols[offset + todo.n] = c
Blanks(c, d) == \A e \in c .. d - 1 : SpaceAt(e)

AtFirst == /\ first.offset \in offset .. Len(line)
           /\ first.column = Nonspace(column)
\* A list marker has been read, with a blank after it.
AtMarker ==
  /\ first.offset \in 0 .. Len(line) - 1 /\ line[first.offset + 1] = "-"
  /\ want = Cols[first.offset + 1] /\ SpaceAt(want)
  /\ indent \in Nat /\ saved.marker = indent + 1
Padding == \E c \in want .. End : Heads(c) /\ Blanks(want, c)
Skipping == \E c \in 0 .. End : Heads(c) /\ want = Min({c + skip, Nonspace(c)})

Aim ==
  /\ step \in {"find", "finding", "decide", "space"} => Exempt \/ Heads(want)
  /\ step = "finding" => Blanks(column, first.column)
  /\ step = "decide" => AtFirst
  /\ step = "skip" => skip \in Nat /\ (Exempt \/ Skipping)
  /\ step \in {"mark", "pad"} => AtMarker
  /\ step = "mark" => Heads(want)
  /\ step = "pad" => saved.column = want /\ Padding
  /\ step = "store" => FenceBehindTab \/ Heads(want)
  /\ step # "idle" => stored.from = 0
  /\ step = "idle" /\ stored.from > 0 => FenceBehindTab \/ want + stored.spaces = Cols[stored.from]
TabsInv ==
  /\ lines \in Seq(ToSet(lines))
  /\ LinesGiven =>
       /\ step # "idle" \/ stored.from > 0 => line \in DOMAIN ColumnOf
       /\ Shape
       /\ Aim

\* Each byte is at least one column.
LEMMA ColumnsGrow ==
  ASSUME line \in DOMAIN ColumnOf,
         NEW i \in 0 .. Len(line), NEW j \in 0 .. Len(line), i < j
  PROVE  Cols[i] < Cols[j]
<1> DEFINE T == {k \in 0 .. Len(line) : k > i /\ Cols[i] >= Cols[k]}
<1>1. Len(line) \in Nat /\ \A k \in 0 .. Len(line) : Cols[k] \in Nat
  BY Columned
<1>2. ASSUME NEW k \in 0 .. Len(line) - 1
      PROVE  Cols[k] < Cols[k + 1]
  <2>1. k \in 0 .. Len(line)
    BY <1>1
  <2>2. Cols[k] \in Nat
    BY <1>1, <2>1
  <2> QED
    BY <1>2, <2>2, Columned
<1>3. SUFFICES ASSUME T # {} PROVE FALSE
  BY <1>1
<1>4. PICK m \in T : \A k \in T : m <= k
  <2>1. T \subseteq Nat
    OBVIOUS
  <2> HIDE DEF T
  <2> QED
    BY <1>3, <2>1, LeastNat
<1>5. m - 1 \in 0 .. Len(line) - 1 /\ Cols[m - 1] < Cols[m]
  <2>1. m - 1 \in 0 .. Len(line) - 1 /\ (m - 1) + 1 = m
    BY <1>1, <1>4
  <2> QED
    BY <1>2, <2>1
<1>6. CASE m - 1 = i
  BY <1>1, <1>4, <1>5, <1>6
<1>7. CASE m - 1 # i
  <2>1. m - 1 \notin T
    BY <1>1, <1>4
  <2>2. Cols[i] < Cols[m - 1]
    BY <1>1, <1>4, <1>5, <1>7, <2>1
  <2> QED
    BY <1>1, <1>4, <1>5, <2>2
<1> QED
  BY <1>6, <1>7

LEMMA ColumnsUpToEnd ==
  ASSUME line \in DOMAIN ColumnOf, NEW i \in 0 .. Len(line)
  PROVE  /\ Cols[i] \in 0 .. End /\ End \in Nat
         /\ i < Len(line) => Cols[i] < Cols[i + 1] /\ Cols[i + 1] \in 0 .. End
<1>1. Len(line) \in Nat /\ \A k \in 0 .. Len(line) : Cols[k] \in Nat
  BY Columned
<1>2. \A k \in 0 .. Len(line) : Cols[k] \in 0 .. End
  <2> TAKE k \in 0 .. Len(line)
  <2>1. k < Len(line) => Cols[k] < Cols[Len(line)]
    BY <1>1, ColumnsGrow
  <2> QED
    BY <1>1, <2>1 DEF End
<1>3. i < Len(line) => i + 1 \in 0 .. Len(line)
  BY <1>1
<1>4. i < Len(line) => Cols[i] < Cols[i + 1]
  BY <1>1, <1>3, ColumnsGrow
<1> QED
  BY <1>1, <1>2, <1>3, <1>4 DEF End

\* A column is white space if the byte that it is in is.
LEMMA SpaceAtIs ==
  ASSUME line \in DOMAIN ColumnOf, NEW o \in 0 .. Len(line) - 1, NEW c \in Int,
         Cols[o] <= c, c < Cols[o + 1]
  PROVE  SpaceAt(c) <=> line[o + 1] \in SpaceOrTab
<1>1. /\ Len(line) \in Nat /\ DOMAIN line = 1 .. Len(line)
      /\ \A k \in 0 .. Len(line) : Cols[k] \in Nat
  BY Columned
<1>2. o \in 0 .. Len(line) /\ o + 1 \in DOMAIN line /\ (o + 1) - 1 = o /\ o + 1 \in 0 .. Len(line)
  BY <1>1
<1>3. c \in Cols[(o + 1) - 1] .. Cols[o + 1] - 1
  BY <1>1, <1>2
<1>4. ASSUME NEW i \in DOMAIN line, c \in Cols[i - 1] .. Cols[i] - 1
      PROVE  i = o + 1
  <2>1. i - 1 \in 0 .. Len(line) /\ i \in 0 .. Len(line)
    BY <1>1
  <2>2. Cols[i - 1] \in Nat /\ Cols[i] \in Nat /\ Cols[o] \in Nat /\ Cols[o + 1] \in Nat
    BY <1>1, <1>2, <2>1
  <2>3. Cols[i - 1] < Cols[o + 1] /\ Cols[o] < Cols[i]
    BY <1>4, <2>2
  <2>4. CASE i > o + 1
    <3>1. i - 1 = o + 1 \/ Cols[o + 1] < Cols[i - 1]
      BY <1>1, <1>2, <2>1, <2>4, ColumnsGrow
    <3> QED
      BY <2>2, <2>3, <3>1
  <2>5. CASE i < o + 1
    <3>1. i = o \/ Cols[i] < Cols[o]
      BY <1>1, <1>2, <2>1, <2>5, ColumnsGrow
    <3> QED
      BY <2>2, <2>3, <3>1
  <2> QED
    BY <1>1, <1>2, <2>4, <2>5
<1> QED
  BY <1>2, <1>3, <1>4 DEF SpaceAt

LEMMA SpaceInside ==
  ASSUME line \in DOMAIN ColumnOf, NEW c, SpaceAt(c)
  PROVE  c \in Nat /\ c < End
<1>1. PICK i \in DOMAIN line : c \in Cols[i - 1] .. Cols[i] - 1
  BY DEF SpaceAt
<1>2. /\ i - 1 \in 0 .. Len(line) /\ i \in 0 .. Len(line)
      /\ Cols[i - 1] \in Nat /\ Cols[i] \in Nat
  BY Columned
<1>3. Cols[i] \in 0 .. End /\ End \in Nat
  BY <1>2, ColumnsUpToEnd
<1> QED
  BY <1>1, <1>2, <1>3

\* The column of the next byte that is not white space.
LEMMA NonspaceRange ==
  ASSUME line \in DOMAIN ColumnOf, NEW c \in 0 .. End
  PROVE  Nonspace(c) \in c .. End /\ ~SpaceAt(Nonspace(c)) /\ Blanks(c, Nonspace(c))
<1> DEFINE S == {d \in c .. End : ~SpaceAt(d)}
<1>1. End \in Nat
  BY Columned, ColumnsUpToEnd
<1>2. ~SpaceAt(End)
  BY <1>1, SpaceInside
<1>3. S \subseteq Nat /\ S # {}
  BY <1>1, <1>2
<1>4. Min(S) \in S /\ \A d \in S : Min(S) <= d
  BY <1>3, MinOf
<1>5. Nonspace(c) = Min(S)
  BY DEF Nonspace, End
<1>6. \A e \in c .. Min(S) - 1 : e \in c .. End /\ e \notin S
  BY <1>1, <1>4
<1> QED
  BY <1>4, <1>5, <1>6 DEF Blanks

LEMMA NonspaceIs ==
  ASSUME line \in DOMAIN ColumnOf, NEW c \in 0 .. End, NEW d \in c .. End,
         Blanks(c, d), ~SpaceAt(d)
  PROVE  Nonspace(c) = d
<1>1. /\ Nonspace(c) \in c .. End /\ ~SpaceAt(Nonspace(c)) /\ Blanks(c, Nonspace(c))
      /\ End \in Nat
  BY NonspaceRange, Columned, ColumnsUpToEnd
<1>2. ~(Nonspace(c) < d)
  BY <1>1 DEF Blanks
<1>3. ~(d < Nonspace(c))
  BY <1>1 DEF Blanks
<1> QED
  BY <1>1, <1>2, <1>3

\* What the byte at the position says of its column.
LEMMA PositionIn ==
  ASSUME line \in DOMAIN ColumnOf, NEW o, NEW c \in Int, NEW p \in BOOLEAN, Agree(o, c, p)
  PROVE  /\ o \in 0 .. Len(line) /\ c \in 0 .. End /\ End \in Nat
         /\ o < Len(line) => Cols[o] <= c /\ c < Cols[o + 1] /\ c < End
         /\ o = Len(line) => c = End
         /\ SpaceAt(c) <=> Peek(o) \in SpaceOrTab
<1>1. o \in 0 .. Len(line) /\ Len(line) \in Nat
  BY Columned DEF Agree
<1>2. Cols[o] \in 0 .. End /\ End \in Nat
  BY <1>1, ColumnsUpToEnd
<1>3. CASE o < Len(line)
  <2>1. Cols[o] < Cols[o + 1] /\ Cols[o + 1] \in 0 .. End
    BY <1>1, <1>3, ColumnsUpToEnd
  <2>2. Cols[o] <= c /\ c < Cols[o + 1]
    BY <1>2, <2>1 DEF Agree
  <2>3. SpaceAt(c) <=> line[o + 1] \in SpaceOrTab
    BY <1>1, <1>3, <2>2, SpaceAtIs
  <2>4. Peek(o) = line[o + 1]
    BY <1>3 DEF Peek
  <2>5. c \in 0 .. End /\ c < End
    BY <1>2, <2>1, <2>2
  <2> QED
    BY <1>1, <1>2, <1>3, <2>2, <2>3, <2>4, <2>5
<1>4. CASE o = Len(line)
  <2>1. c = End
    BY <1>1, <1>4 DEF Agree, End
  <2>2. ~SpaceAt(c)
    BY <1>2, <2>1, SpaceInside
  <2>3. Peek(o) = "nul"
    BY <1>1, <1>4 DEF Peek
  <2> QED
    BY <1>1, <1>2, <1>4, <2>1, <2>2, <2>3 DEF SpaceOrTab
<1> QED
  BY <1>1, <1>3, <1>4

-----------------------------------------------------------------------------
(* Advancing. *)

LEMMA TurnHeads ==
  ASSUME CursorInv, AdvanceTurn, line \in DOMAIN ColumnOf, NEW c, Heads(c)
  PROVE  Heads(c)'
<1> DEFINE tab  == line[offset + 1] = "tab"
           part == tab /\ todo.columns /\ TabsLeft > todo.n
           cols == IF ~tab THEN 1 ELSE IF todo.columns THEN Min({todo.n, TabsLeft}) ELSE TabsLeft
<1>1. /\ Agree(offset, column, partial) /\ column \in Int /\ partial \in BOOLEAN
      /\ todo.n \in Int /\ todo.n > 0 /\ offset \in 0 .. Len(line) - 1 /\ Len(line) \in Nat
      /\ TabsLeft \in Int /\ todo.columns \in BOOLEAN
      /\ partial' = part /\ offset' = (IF part THEN offset ELSE offset + 1) /\ column' = column + cols
      /\ line' = line
      /\ todo'.n = todo.n - (IF tab /\ todo.columns THEN cols ELSE 1) /\ todo'.columns = todo.columns
  <2>1. /\ Agree(offset, column, partial) /\ column \in Int /\ partial \in BOOLEAN
        /\ TabsLeft \in Int /\ todo \in [n : Int, columns : BOOLEAN] /\ Len(line) \in Nat
    BY NumbersInInt, Columned DEF CursorInv, Position, AdvanceTurn, Types
  <2> QED
    BY <2>1 DEF AdvanceTurn, Advancing, Agree
<1>2. Advancing
  BY <1>1 DEF Advancing
<1>3. /\ column \in Nat /\ Cols[offset + 1] \in 0 .. End /\ End \in Nat /\ Cols[offset] \in 0 .. End
      /\ column < Cols[offset + 1]
  BY <1>1, PositionIn, ColumnsUpToEnd
<1>4. offset' = offset + 1 => column' = Cols[offset + 1]
  <2>1. Agree(offset, column, partial)'
    BY PositionAdvances
  <2>2. CASE part
    BY <1>1, <2>2
  <2>3. CASE ~part
    BY <1>1, <2>1, <2>3 DEF Agree, Cols
  <2> QED
    BY <2>2, <2>3
<1>5. CASE todo.columns
  <2>1. column + todo.n = c /\ c <= End
    BY <1>2, <1>5 DEF Heads
  <2>2. todo'.n = todo.n - cols
    BY <1>1, <1>5
  <2>3. cols \in Int /\ column' + todo'.n = c
    <3>1. cols \in Int
      BY <1>1, MinOfTwo
    <3> QED
      BY <1>1, <2>1, <2>2, <3>1
  <2>4. todo'.n >= 0
    BY <1>1, <1>5, <2>2, MinOfTwo
  <2>5. CASE Advancing'
    BY <1>1, <1>5, <2>1, <2>3, <2>5 DEF Heads, End, Cols
  <2>6. CASE ~Advancing'
    <3>1. CASE todo'.n = 0
      BY <1>1, <2>3, <2>6, <3>1 DEF Heads
    <3>2. CASE todo'.n > 0
      <4>1. offset' >= Len(line)
        BY <1>1, <2>6, <3>2 DEF Advancing
      <4>2. offset' = offset + 1 /\ offset + 1 = Len(line)
        BY <1>1, <4>1
      <4>3. column' = End
        BY <1>4, <4>2 DEF End
      <4> QED
        BY <1>1, <1>3, <2>1, <2>3, <3>2, <4>3
    <3> QED
      BY <1>1, <2>2, <2>3, <2>4, <3>1, <3>2
  <2> QED
    BY <2>5, <2>6
<1>6. CASE ~todo.columns
  <2>1. offset + todo.n <= Len(line) /\ Cols[offset + todo.n] = c
    BY <1>2, <1>6 DEF Heads
  <2>2. offset' = offset + 1 /\ todo'.n = todo.n - 1 /\ column' = Cols[offset + 1]
    BY <1>1, <1>4, <1>6
  <2>3. offset' + todo'.n = offset + todo.n
    BY <1>1, <2>2
  <2>4. CASE todo.n = 1
    <3>1. ~Advancing'
      BY <2>2, <2>4 DEF Advancing
    <3> QED
      BY <2>1, <2>2, <2>4, <3>1 DEF Heads
  <2>5. CASE todo.n # 1
    <3>1. Advancing'
      BY <1>1, <2>1, <2>2, <2>5 DEF Advancing
    <3> QED
      BY <1>1, <1>6, <2>1, <2>3, <3>1 DEF Heads, Cols
  <2> QED
    BY <2>4, <2>5
<1> QED
  BY <1>1, <1>5, <1>6

LEMMA SameHeads ==
  ASSUME UNCHANGED <<line, offset, column, todo>>, NEW c, Heads(c)
  PROVE  Heads(c)'
BY DEF Heads, Advancing, End, Cols

\* What S_advance_offset is called for, by columns and by bytes.
LEMMA ColumnsAhead ==
  ASSUME line \in DOMAIN ColumnOf, Types, Agree(offset, column, partial), ~Advancing,
         UNCHANGED <<line, offset, column>>,
         NEW n \in Nat, column + n <= End, Advance(n, TRUE)
  PROVE  \A c : c = column + n => Heads(c)'
<1>1. todo'.n = n /\ todo'.columns = TRUE
  BY DEF Advance
<1>0. column \in Int /\ partial \in BOOLEAN
  BY DEF Types
<1>2. /\ offset \in 0 .. Len(line) /\ column \in 0 .. End /\ End \in Nat /\ Len(line) \in Nat
      /\ offset = Len(line) => column = End
  BY <1>0, PositionIn, Columned
<1>3. CASE n = 0
  BY <1>1, <1>2, <1>3 DEF Heads, Advancing
<1>4. CASE n # 0
  <2>1. Advancing'
    BY <1>1, <1>2, <1>4 DEF Advancing
  <2> QED
    BY <1>1, <2>1 DEF Heads, End, Cols
<1> QED
  BY <1>3, <1>4

LEMMA BytesAhead ==
  ASSUME line \in DOMAIN ColumnOf, Types, Agree(offset, column, partial), ~Advancing,
         UNCHANGED <<line, offset, column>>,
         NEW n \in Nat, offset + n <= Len(line), n = 0 => ~partial, Advance(n, FALSE)
  PROVE  \A c : c = Cols[offset + n] => Heads(c)'
<1>1. todo'.n = n /\ todo'.columns = FALSE
  BY DEF Advance
<1>0. column \in Int /\ partial \in BOOLEAN
  BY DEF Types
<1>2. offset \in 0 .. Len(line) /\ Len(line) \in Nat
  BY <1>0, PositionIn, Columned
<1>3. CASE n = 0
  BY <1>1, <1>2, <1>3 DEF Heads, Advancing, Agree
<1>4. CASE n # 0
  <2>1. Advancing'
    BY <1>1, <1>2, <1>4 DEF Advancing
  <2> QED
    BY <1>1, <2>1 DEF Heads, Cols
<1> QED
  BY <1>3, <1>4

\* Where a handler decides: the first byte that is not white space.
\* Where a handler decides: the first byte that is not white space.
LEMMA Deciding ==
  ASSUME CursorInv, line \in DOMAIN ColumnOf, step = "decide", AtFirst
  PROVE  /\ ~Advancing /\ Agree(offset, column, partial)
         /\ offset \in 0 .. Len(line) /\ first.offset \in offset .. Len(line) /\ Len(line) \in Nat
         /\ column \in 0 .. End /\ End \in Nat /\ indent \in Nat
         /\ Nonspace(column) = column + indent /\ Nonspace(column) = Cols[first.offset]
         /\ Nonspace(column) \in column .. End
         /\ first.offset = offset => ~partial
<1>1. /\ ~Advancing /\ Agree(offset, column, partial)
      /\ first.column = Cols[first.offset] /\ indent = first.column - column
      /\ column \in Int /\ partial \in BOOLEAN /\ Len(line) \in Nat
  BY Columned DEF CursorInv, Position, FoundFirst, Types
<1>2. offset \in 0 .. Len(line) /\ column \in 0 .. End /\ End \in Nat
  BY <1>1, PositionIn
<1>3. first.offset \in offset .. Len(line) /\ first.column = Nonspace(column)
  BY DEF AtFirst
<1>4. Nonspace(column) \in column .. End
  BY <1>2, NonspaceRange
<1>5. first.offset = offset => ~partial
  <2>1. Cols[offset] \in 0 .. End
    BY <1>2, ColumnsUpToEnd
  <2>2. partial => Cols[offset] < column
    BY <1>1 DEF Agree
  <2>3. first.offset = offset => Cols[offset] \in column .. End
    BY <1>1, <1>3, <1>4
  <2> QED
    BY <1>2, <2>1, <2>2, <2>3
<1> QED
  BY <1>1, <1>2, <1>3, <1>4, <1>5

LEMMA DecidingToken ==
  ASSUME CursorInv, line \in DOMAIN ColumnOf, step = "decide", AtFirst, Token \in {">", "-", "fence"}
  PROVE  /\ first.offset \in 0 .. Len(line) - 1
         /\ line[first.offset + 1] = Token
         /\ Cols[first.offset + 1] = Nonspace(column) + 1
         /\ Nonspace(column) + 1 <= End
         /\ first.offset + 1 \in 0 .. Len(line)
<1>1. /\ offset \in 0 .. Len(line) /\ first.offset \in offset .. Len(line) /\ Len(line) \in Nat
      /\ Nonspace(column) = Cols[first.offset]
  BY Deciding
<1>2. first.offset < Len(line) /\ line[first.offset + 1] = Token
  BY <1>1 DEF Token, Peek
<1>3. first.offset \in 0 .. Len(line) - 1 /\ first.offset \in 0 .. Len(line) /\ first.offset + 1 \in 0 .. Len(line)
  BY <1>1, <1>2
<1>4. line[first.offset + 1] # "tab"
  BY <1>2
<1>5. Cols[first.offset + 1] = Cols[first.offset] + 1
  BY <1>3, <1>4, Columned
<1>6. Cols[first.offset + 1] \in 0 .. End /\ End \in Nat
  BY <1>3, ColumnsUpToEnd
<1> QED
  BY <1>1, <1>2, <1>3, <1>5, <1>6

\* The three ways in which a handler moves the position: to the first byte that
\* is not white space, behind the marker there, or by columns.
LEMMA AheadToFirst ==
  ASSUME CursorInv, line \in DOMAIN ColumnOf, step = "decide", AtFirst, Heads(want), Stay,
         Advance(first.offset - offset, FALSE), want' = Nonspace(want)
  PROVE  Heads(want)'
<1>1. column = want
  BY Deciding DEF Heads
<1>2. first.offset - offset \in Nat /\ offset + (first.offset - offset) = first.offset
  BY Deciding
<1>3. PICK c : c = Nonspace(column)
  OBVIOUS
<1>4. Types /\ UNCHANGED <<line, offset, column>>
  BY DEF CursorInv, Stay, cursor
<1>5. Heads(c)'
  <2>1. /\ ~Advancing /\ Agree(offset, column, partial)
        /\ c = Cols[offset + (first.offset - offset)]
        /\ offset + (first.offset - offset) <= Len(line)
        /\ first.offset - offset = 0 => ~partial
    BY <1>2, <1>3, Deciding
  <2> QED
    BY <1>2, <1>4, <2>1, BytesAhead
<1> QED
  BY <1>1, <1>3, <1>5 DEF Heads

LEMMA AheadOfMarker ==
  ASSUME CursorInv, line \in DOMAIN ColumnOf, step = "decide", AtFirst, Token \in {">", "-", "fence"},
         Heads(want), Stay, ToMarkerEnd
  PROVE  Heads(want)' /\ want' = Cols[first.offset + 1]
<1>1. column = want /\ want' = Nonspace(column) + 1
  BY Deciding DEF Heads, ToMarkerEnd
<1>2. /\ first.offset + 1 - offset \in Nat /\ first.offset + 1 - offset # 0
      /\ offset + (first.offset + 1 - offset) = first.offset + 1
      /\ first.offset + 1 <= Len(line)
  <2>1. first.offset \in offset .. Len(line) /\ offset \in 0 .. Len(line) /\ Len(line) \in Nat
    BY Deciding
  <2>2. first.offset \in 0 .. Len(line) - 1
    BY DecidingToken
  <2> QED
    BY <2>1, <2>2
<1>3. PICK c : c = Nonspace(column) + 1
  OBVIOUS
<1>4. Types /\ UNCHANGED <<line, offset, column>>
  BY DEF CursorInv, Stay, cursor
<1>5. Heads(c)'
  BY <1>2, <1>3, <1>4, Deciding, DecidingToken, BytesAhead DEF ToMarkerEnd
<1> QED
  BY <1>1, <1>3, <1>5, DecidingToken DEF Heads

LEMMA AheadByColumns ==
  ASSUME CursorInv, line \in DOMAIN ColumnOf, step = "decide", AtFirst, Heads(want), Stay,
         NEW n \in Nat, want + n <= End, Advance(n, TRUE), want' = want + n
  PROVE  Heads(want)'
<1>1. column = want
  BY Deciding DEF Heads
<1>2. PICK c : c = column + n
  OBVIOUS
<1>3. Types /\ UNCHANGED <<line, offset, column>>
  BY DEF CursorInv, Stay, cursor
<1>4. Heads(c)'
  BY <1>1, <1>2, <1>3, Deciding, ColumnsAhead
<1> QED
  BY <1>1, <1>2, <1>4 DEF Heads

\* A handler that leaves the position where it is
LEMMA AheadStays ==
  ASSUME Heads(want), Stay, UNCHANGED <<todo, want>>
  PROVE  Heads(want)'
BY DEF Heads, Stay, cursor, Advancing, End, Cols

\* One column of white space at the position
LEMMA AheadOneSpace ==
  ASSUME CursorInv, line \in DOMAIN ColumnOf, step # "idle", ~Advancing, Stay,
         Peek(offset) \in SpaceOrTab, Advance(1, TRUE)
  PROVE  /\ column \in 0 .. End - 1 /\ SpaceAt(column) /\ End \in Nat
         /\ \A c : c = column + 1 => Heads(c)'
<1>1. /\ Agree(offset, column, partial) /\ column \in Int /\ partial \in BOOLEAN /\ Types
      /\ UNCHANGED <<line, offset, column>>
  BY DEF CursorInv, Position, Types, Stay, cursor
<1>2. /\ column \in 0 .. End /\ End \in Nat /\ SpaceAt(column)
  BY <1>1, PositionIn
<1>3. column < End
  BY <1>2, SpaceInside
<1>4. column + 1 <= End /\ 1 \in Nat
  BY <1>2, <1>3
<1>5. \A c : c = column + 1 => Heads(c)'
  BY <1>1, <1>4, ColumnsAhead
<1> QED
  BY <1>2, <1>3, <1>5

-----------------------------------------------------------------------------
(* The padding of an item. *)

\* A line does not end in the white space after a list marker.
LEMMA TextAfterMarker ==
  ASSUME line \in DOMAIN ColumnOf, NEW k \in 0 .. Len(line) - 1, line[k + 1] = "-",
         NEW o, NEW c \in Int, NEW p \in BOOLEAN, Agree(o, c, p), Blanks(Cols[k + 1], c)
  PROVE  Peek(o) # "eol"
<1>1. /\ Len(line) \in Nat /\ DOMAIN line = 1 .. Len(line) /\ o \in 0 .. Len(line)
      /\ k + 1 \in DOMAIN line
  BY Columned DEF Agree
<1>2. SUFFICES ASSUME Peek(o) = "eol" PROVE FALSE
  OBVIOUS
<1>3. o < Len(line) /\ line[o + 1] = "eol" /\ o + 1 \in DOMAIN line
  BY <1>1, <1>2 DEF Peek
<1>4. o + 1 = Len(line)
  BY <1>3, MarkersAssumption
<1>5. PICK j \in k + 2 .. Len(line) : line[j] \notin {" ", "tab", "-", "eol"}
  <2>1. \E j \in (k + 1) + 1 .. Len(line) : line[j] \notin {" ", "tab", "-", "eol"}
    BY <1>1, MarkersAssumption
  <2>2. (k + 1) + 1 = k + 2
    BY <1>1
  <2> QED
    BY <2>1, <2>2
<1>6. j # Len(line)
  BY <1>3, <1>4, <1>5
<1>7. /\ j - 1 \in 0 .. Len(line) - 1 /\ j - 1 \in 0 .. Len(line) /\ j \in 0 .. Len(line)
      /\ (j - 1) + 1 = j /\ k + 1 \in 0 .. Len(line) /\ k + 1 <= j - 1 /\ j <= o
  <2> DEFINE n == Len(line)
  <2>1. n \in Nat /\ o \in 0 .. n /\ k \in 0 .. n - 1 /\ j \in k + 2 .. n /\ j # n /\ o + 1 = n
    BY <1>1, <1>4, <1>5, <1>6
  <2> HIDE DEF n
  <2>2. /\ j - 1 \in 0 .. n - 1 /\ j - 1 \in 0 .. n /\ j \in 0 .. n
        /\ (j - 1) + 1 = j /\ k + 1 \in 0 .. n /\ k + 1 <= j - 1 /\ j <= o
    BY <2>1
  <2> QED
    BY <2>2 DEF n
<1>8. /\ Cols[j - 1] \in Nat /\ Cols[j] \in Nat /\ Cols[k + 1] \in Nat /\ Cols[o] \in Nat
      /\ Cols[j - 1] < Cols[j]
      /\ k + 1 = j - 1 \/ Cols[k + 1] < Cols[j - 1]
      /\ j = o \/ Cols[j] < Cols[o]
  <2>1. /\ Cols[j - 1] \in Nat /\ Cols[j] \in Nat /\ Cols[k + 1] \in Nat /\ Cols[o] \in Nat
    BY <1>1, <1>7, Columned
  <2>2. Cols[j - 1] < Cols[j]
    BY <1>7, ColumnsGrow
  <2>3. k + 1 = j - 1 \/ Cols[k + 1] < Cols[j - 1]
    BY <1>7, ColumnsGrow
  <2>4. j = o \/ Cols[j] < Cols[o]
    BY <1>1, <1>7, ColumnsGrow
  <2> QED
    BY <2>1, <2>2, <2>3, <2>4
<1>9. Cols[o] <= c
  BY <1>8 DEF Agree
<1>10. Cols[j - 1] \in Cols[k + 1] .. c - 1
  BY <1>8, <1>9
<1>11. SpaceAt(Cols[j - 1])
  BY <1>10 DEF Blanks
<1>12. line[j] \in SpaceOrTab
  BY <1>7, <1>8, <1>11, SpaceAtIs
<1> QED
  BY <1>5, <1>12 DEF SpaceOrTab

\* The content of an item begins where the line without tabs has it.
LEMMA PaddingRight ==
  ASSUME CursorInv, line \in DOMAIN ColumnOf, Aim, PadEnd
  PROVE  /\ \E b : b.kind = "item" /\ Measured(b) /\ Open(b)
         /\ Heads(want)'
<1> DEFINE i    == column - saved.column
           pad  == Nonspace(want) - want
           some == IF pad \in 1 .. 4 THEN pad ELSE 1
           wide == i >= 5 \/ Peek(offset) = "eol"
           item == [kind |-> "item", width |-> indent + 1 + IF wide THEN 1 ELSE i,
                    content |-> saved.marker + some]
<1>1. /\ step = "pad" /\ ~Advancing /\ line' = line
      /\ ~(i <= 5 /\ Peek(offset) \in SpaceOrTab)
      /\ IF wide THEN Restore /\ Advance(1, TRUE) ELSE UNCHANGED <<cursor, todo>>
      /\ Open(item)
      /\ want' = want + some
  BY DEF PadEnd, At
<1>2. /\ Agree(offset, column, partial) /\ Agree(saved.offset, saved.column, saved.partial)
      /\ column \in Int /\ partial \in BOOLEAN
      /\ saved.offset \in Int /\ saved.column \in Int /\ saved.partial \in BOOLEAN
  BY <1>1 DEF CursorInv, Position, Types
<1>3. AtMarker /\ saved.column = want /\ Padding
  BY <1>1 DEF Aim
<1>4. /\ column \in want .. End /\ Blanks(want, column)
      /\ want \in 0 .. End - 1 /\ End \in Nat /\ Len(line) \in Nat
  <2>1. column \in want .. End /\ Blanks(want, column)
    BY <1>1, <1>3 DEF Padding, Heads
  <2>2. want \in Nat /\ want < End
    BY <1>3, SpaceInside DEF AtMarker
  <2> QED
    BY <1>2, <2>1, <2>2, Columned, PositionIn
<1>5. Nonspace(want) \in want .. End /\ ~SpaceAt(Nonspace(want))
  BY <1>4, NonspaceRange
<1>6. Nonspace(want) >= column /\ pad >= 1
  <2>1. Nonspace(want) \notin want .. column - 1
    BY <1>4, <1>5 DEF Blanks
  <2>2. Nonspace(want) # want
    BY <1>3, <1>5 DEF AtMarker
  <2> QED
    BY <1>4, <1>5, <2>1, <2>2
<1>7. Peek(offset) # "eol"
  BY <1>2, <1>3, <1>4, TextAfterMarker DEF AtMarker
<1>8. indent \in Nat /\ saved.marker = indent + 1
  BY <1>3 DEF AtMarker
<1>9. CASE i >= 5
  <2>1. wide /\ some = 1
    BY <1>3, <1>4, <1>5, <1>6, <1>9
  <2>2. item.width = indent + 2 /\ item.content = indent + 2
    BY <1>8, <2>1
  <2>3. Measured(item)
    BY <1>8, <2>2 DEF Measured
  <2>4. /\ offset' = saved.offset /\ column' = want /\ todo'.n = 1 /\ todo'.columns = TRUE
        /\ want' = want + 1
    BY <1>1, <1>3, <2>1 DEF Restore, Advance
  <2>5. saved.offset < Len(line)
    <3>1. saved.offset \in 0 .. Len(line) /\ (saved.offset = Len(line) => saved.column = End)
      BY <1>2, PositionIn
    <3> QED
      BY <1>3, <1>4, <3>1
  <2>6. Advancing'
    BY <1>1, <2>4, <2>5 DEF Advancing
  <2>7. want + 1 <= End
    BY <1>4
  <2>8. Heads(want)'
    BY <1>1, <2>4, <2>6, <2>7 DEF Heads, End, Cols
  <2> QED
    BY <1>1, <2>3, <2>8
<1>10. CASE i < 5
  <2>1. ~wide /\ Peek(offset) \notin SpaceOrTab
    BY <1>1, <1>2, <1>3, <1>4, <1>7, <1>10
  <2>2. Nonspace(want) = column
    BY <1>2, <1>4, <2>1, NonspaceIs, PositionIn
  <2>3. pad = i /\ some = i /\ i \in 1 .. 4
    BY <1>3, <1>4, <1>6, <1>10, <2>2
  <2>4. item.width = indent + 1 + i /\ item.content = indent + 1 + i
    BY <1>8, <2>1, <2>3
  <2>5. Measured(item)
    BY <1>8, <2>3, <2>4 DEF Measured
  <2>6. want' = column /\ UNCHANGED <<line, offset, column, todo>>
    BY <1>1, <1>3, <1>4, <2>1, <2>3 DEF cursor
  <2>7. Heads(want)'
    BY <1>1, <2>6 DEF Heads, Advancing
  <2> QED
    BY <1>1, <2>5, <2>7
<1> QED
  BY <1>2, <1>3, <1>4, <1>9, <1>10

-----------------------------------------------------------------------------
(* The blocks. *)

LEMMA NestedAppend ==
  ASSUME NEW s, Blocked(s), Nested(s), NEW b, Measured(b), NoLeaf(s, Len(s))
  PROVE  /\ Nested(Append(s, b))
         /\ b.kind \notin Leaf => NoLeaf(Append(s, b), Len(Append(s, b)))
<1> DEFINE S == ToSet(s) \cup {b}
           t == Append(s, b)
<1>1. s \in Seq(S) /\ b \in S /\ Len(s) \in Nat
  BY DEF Blocked
<1>2. Len(t) = Len(s) + 1 /\ \A i \in 1 .. Len(t) : t[i] = IF i = Len(s) + 1 THEN b ELSE s[i]
  BY <1>1
<1>3. \A i \in 1 .. Len(s) : i \in 1 .. Len(t) /\ t[i] = s[i] /\ s[i].kind \notin Leaf /\ Measured(s[i])
  BY <1>1, <1>2 DEF NoLeaf, Nested
<1>4. t[Len(t)] = b
  BY <1>1, <1>2
<1>5. \A i \in 1 .. Len(t) : i = Len(t) \/ i \in 1 .. Len(s)
  BY <1>1, <1>2
<1> HIDE DEF t
<1>6. Nested(t)
  <2>1. \A i \in 1 .. Len(t) : Measured(t[i])
    BY <1>3, <1>4, <1>5
  <2>2. Len(t) - 1 = Len(s)
    BY <1>1, <1>2
  <2> QED
    BY <1>3, <2>1, <2>2 DEF Nested, NoLeaf
<1>7. b.kind \notin Leaf => NoLeaf(t, Len(t))
  BY <1>3, <1>4, <1>5 DEF NoLeaf
<1> QED
  BY <1>6, <1>7 DEF t

LEMMA NestedSubSeq ==
  ASSUME NEW s, Blocked(s), Nested(s), NEW m \in Nat, m <= Len(s)
  PROVE  /\ Nested(SubSeq(s, 1, m))
         /\ NoLeaf(s, m) => NoLeaf(SubSeq(s, 1, m), m)
<1> DEFINE t == SubSeq(s, 1, m)
<1>1. s \in Seq(ToSet(s)) /\ Len(s) \in Nat
  BY DEF Blocked
<1>2. Len(t) = m /\ \A i \in 1 .. m : t[i] = s[i]
  BY <1>1
<1>3. \A i \in 1 .. m : i \in 1 .. Len(s)
  BY <1>1
<1>4. \A i \in 1 .. m - 1 : i \in 1 .. Len(s) - 1 /\ i \in 1 .. m
  BY <1>1
<1> HIDE DEF t
<1>5. Nested(t)
  BY <1>2, <1>3, <1>4 DEF Nested, NoLeaf
<1>6. NoLeaf(s, m) => NoLeaf(t, m)
  BY <1>2 DEF NoLeaf
<1> QED
  BY <1>5, <1>6 DEF t

LEMMA NestedFront ==
  ASSUME NEW s, Blocked(s), Nested(s), s # <<>>
  PROVE  /\ Nested(Front(s)) /\ NoLeaf(Front(s), Len(Front(s)))
         /\ Len(Front(s)) = Len(s) - 1
         /\ \A i \in 1 .. Len(s) - 1 : Front(s)[i] = s[i]
<1>1. s \in Seq(ToSet(s)) /\ Len(s) - 1 \in Nat /\ Len(s) - 1 <= Len(s)
  BY EmptySeq DEF Blocked
<1>2. Front(s) = SubSeq(s, 1, Len(s) - 1) /\ Len(Front(s)) = Len(s) - 1
  BY BlockedFront DEF Front
<1>3. \A i \in 1 .. Len(s) - 1 : SubSeq(s, 1, Len(s) - 1)[i] = s[i]
  BY <1>1
<1>4. NoLeaf(s, Len(s) - 1)
  BY DEF Nested
<1> QED
  BY <1>1, <1>2, <1>3, <1>4, NestedSubSeq

LEMMA NestedConcat ==
  ASSUME NEW s, Blocked(s), Nested(s), NEW t, Blocked(t), Nested(t),
         t # <<>> => NoLeaf(s, Len(s))
  PROVE  Nested(s \o t)
<1> DEFINE S == ToSet(s) \cup ToSet(t)
           u == s \o t
<1>1. s \in Seq(S) /\ t \in Seq(S) /\ Len(s) \in Nat /\ Len(t) \in Nat
  BY DEF Blocked
<1>2. /\ Len(u) = Len(s) + Len(t)
      /\ \A i \in 1 .. Len(u) : u[i] = IF i <= Len(s) THEN s[i] ELSE t[i - Len(s)]
  BY <1>1
<1>3. CASE t = <<>>
  BY <1>1, <1>3, ConcatEmptySeq
<1>4. CASE t # <<>>
  <2>1. Len(t) > 0
    BY <1>1, <1>4, EmptySeq
  <2>2. \A i \in 1 .. Len(u) : i \in 1 .. Len(s) \/ (i > Len(s) /\ i - Len(s) \in 1 .. Len(t))
    BY <1>1, <1>2
  <2>3. \A i \in 1 .. Len(u) - 1 :
          i \in 1 .. Len(u) /\ (i \in 1 .. Len(s) \/ (i > Len(s) /\ i - Len(s) \in 1 .. Len(t) - 1))
    BY <1>1, <1>2, <2>1
  <2>4. \A i \in 1 .. Len(s) : i <= Len(s)
    OBVIOUS
  <2>5. \A i \in 1 .. Len(u) : i > Len(s) => ~(i <= Len(s))
    BY <1>1
  <2> HIDE DEF u
  <2>6. \A i \in 1 .. Len(u) : Measured(u[i])
    BY <1>2, <2>2, <2>4, <2>5 DEF Nested
  <2>7. NoLeaf(u, Len(u) - 1)
    BY <1>2, <1>4, <2>3, <2>4, <2>5 DEF Nested, NoLeaf
  <2> QED
    BY <2>6, <2>7 DEF Nested, u
<1> QED
  BY <1>3, <1>4

\* The blocks that are still open are nested as well, and the one that the line
\* went on in last is among them unless it is a paragraph.
LEMMA RemainingNested ==
  ASSUME Walk, Shape, step \notin Over
  PROVE  Nested(Remaining) /\ Blocked(Remaining)
<1> DEFINE kept == SubSeq(open, 1, matched)
<1>1. /\ Blocked(open) /\ Blocked(opened) /\ matched \in Nat /\ matched <= Len(open)
      /\ Nested(open) /\ Nested(opened)
      /\ opened # <<>> => NoLeaf(open, matched)
  BY DEF Walk, Shape
<1>2. /\ Blocked(kept) /\ Len(kept) = matched /\ Nested(kept)
      /\ opened # <<>> => NoLeaf(kept, Len(kept))
  BY <1>1, BlockedSubSeq, NestedSubSeq
<1>3. ASSUME kept # <<>>
      PROVE  Nested(Front(kept)) /\ NoLeaf(Front(kept), Len(Front(kept))) /\ Blocked(Front(kept))
  BY <1>2, <1>3, NestedFront, BlockedFront
<1> HIDE DEF kept
<1>4. Nested(kept \o opened)
  BY <1>1, <1>2, NestedConcat
<1>5. kept # <<>> => Nested(Front(kept) \o opened)
  BY <1>1, <1>3, NestedConcat
<1>6. Nested(Remaining)
  BY <1>4, <1>5 DEF Remaining, kept
<1> QED
  BY <1>6, RemainingBlocked

LEMMA RemainingHolds ==
  ASSUME Walk, step \notin Over, matched > 0, Crooked(open[matched])
  PROVE  \E b \in ToSet(Remaining) : Crooked(b)
<1> DEFINE kept == SubSeq(open, 1, matched)
<1>1. Blocked(open) /\ Blocked(opened) /\ matched \in Nat /\ matched <= Len(open)
  BY DEF Walk
<1>2. /\ open \in Seq(ToSet(open)) /\ opened \in Seq(ToSet(opened))
      /\ Len(kept) = matched /\ kept[matched] = open[matched] /\ kept \in Seq(ToSet(open))
  BY <1>1 DEF Blocked
<1>3. kept[matched].kind # "paragraph" /\ Last(kept) = kept[matched]
  BY <1>2 DEF Crooked, Last
<1>4. Remaining = kept \o opened
  BY <1>3 DEF Remaining
<1> DEFINE S == ToSet(open) \cup ToSet(opened)
<1>5. kept \in Seq(S) /\ opened \in Seq(S)
  BY <1>2
<1> HIDE DEF kept
<1>6. Len(kept \o opened) = Len(kept) + Len(opened) /\ (kept \o opened)[matched] = kept[matched]
      /\ matched \in DOMAIN (kept \o opened)
  BY <1>1, <1>2, <1>5
<1> QED
  BY <1>2, <1>4, <1>6 DEF ToSet

LEMMA MatchedShape ==
  ASSUME Walk, Shape, step \notin Over, where = "check", Matched, UNCHANGED <<open, opened>>
  PROVE  Shape'
<1>1. /\ Blocked(open) /\ Nested(open) /\ opened = <<>> /\ Nested(opened)
      /\ matched \in Nat /\ matched < Len(open) /\ Len(open) \in Nat
  BY DEF Walk, Shape, Blocked
<1>2. /\ matched' = matched + 1 /\ step' = "find"
      /\ where' = IF matched + 1 < Len(open) THEN "check"
                  ELSE IF Last(open).kind \in Leaf THEN "add" ELSE "open"
  BY DEF Matched
<1>3. ASSUME where' = "open"
      PROVE  NoLeaf(open, matched + 1)
  <2>1. matched + 1 = Len(open) /\ open[Len(open)].kind \notin Leaf
    BY <1>1, <1>2, <1>3 DEF Last
  <2>2. \A i \in 1 .. Len(open) : i = Len(open) \/ i \in 1 .. Len(open) - 1
    BY <1>1
  <2> QED
    BY <1>1, <2>1, <2>2 DEF Nested, NoLeaf
<1>4. NoLeaf(opened, Len(opened))
  BY <1>1 DEF NoLeaf
<1> QED
  BY <1>1, <1>2, <1>3, <1>4 DEF Shape, Over

LEMMA OpenShape ==
  ASSUME Walk, Shape, step \notin Over, where = "open", NEW b, Measured(b), Open(b),
         step' \in {"find", "space"}, UNCHANGED <<open, matched>>
  PROVE  Shape'
<1>1. /\ Nested(open) /\ NoLeaf(open, matched)
      /\ Blocked(opened) /\ Nested(opened) /\ NoLeaf(opened, Len(opened))
  BY DEF Shape, Walk
<1>2. opened' = Append(opened, b) /\ where' = IF b.kind \in Leaf THEN "add" ELSE "open"
  BY DEF Open
<1>3. /\ Nested(opened')
      /\ where' # "add" => NoLeaf(opened', Len(opened'))
  BY <1>1, <1>2, NestedAppend
<1> QED
  BY <1>1, <1>2, <1>3 DEF Shape, Over

LEMMA ShapeKept ==
  ASSUME CursorInv, line \in DOMAIN ColumnOf, Shape, Aim, ProcessSteps
  PROVE  Shape'
<1> USE DEF CursorInv
<1>1. CASE AdvanceTurn \/ FindFirst \/ FindTurn \/ FindEnd \/ LineClosed \/ SaveCursor \/ PadTurn \/ AddLine
  <2>1. UNCHANGED <<where, open, matched, opened>>
    BY <1>1 DEF AdvanceTurn, FindFirst, FindTurn, FindEnd, LineClosed, SaveCursor, PadTurn, AddLine, Begun, blocks
  <2>2. step' = step \/ step' \in {"finding", "decide", "idle"} \/ (step = "mark" /\ step' = "pad")
    BY <1>1 DEF AdvanceTurn, FindFirst, FindTurn, FindEnd, LineClosed, SaveCursor, PadTurn, AddLine, At, Begun
  <2>3. step' \notin Over => step \notin Over
    BY <1>1 DEF AdvanceTurn, FindFirst, FindTurn, FindEnd, LineClosed, SaveCursor, PadTurn, AddLine, At, Begun, Over
  <2> QED
    BY <2>1, <2>2, <2>3 DEF Shape, Block
<1>2. CASE CheckQuote
  BY <1>2 DEF CheckQuote, Checking, Checked, Shape, Over
<1>3. CASE CheckFence
  BY <1>3 DEF CheckFence, Checking, Checked, Shape, Over, Block
<1>4. CASE Mismatch
  <2>1. /\ step \notin Over /\ where = "check" /\ where' = "open" /\ step' = "find"
        /\ UNCHANGED <<open, opened, matched>>
    BY <1>4 DEF Mismatch, Checked, Over
  <2>2. matched \in Nat /\ matched < Len(open) /\ Len(open) \in Nat /\ NoLeaf(open, Len(open) - 1)
    BY <2>1 DEF Walk, Blocked, Shape, Nested
  <2>3. NoLeaf(open, matched)
    BY <2>2 DEF NoLeaf
  <2> QED
    BY <2>1, <2>3 DEF Shape, Over
<1>5. CASE OptionalSpace
  <2>1. step \notin Over /\ UNCHANGED <<open, opened>> /\ step' = "find"
    BY <1>5 DEF OptionalSpace, Matched, Checked, At, Over
  <2>2. CASE where = "check"
    BY <1>5, <2>1, <2>2, MatchedShape DEF OptionalSpace
  <2>3. CASE where # "check"
    <3>1. UNCHANGED <<where, matched>>
      BY <1>5, <2>3 DEF OptionalSpace
    <3> QED
      BY <2>1, <3>1 DEF Shape, Over
  <2> QED
    BY <2>2, <2>3
<1>6. CASE CheckItem \/ CheckCode \/ CheckParagraph
  <2>1. Matched /\ step \notin Over /\ where = "check" /\ UNCHANGED <<open, opened>>
    BY <1>6 DEF CheckItem, CheckCode, CheckParagraph, Checking, Checked, Over
  <2> QED
    BY <2>1, MatchedShape
<1>7. CASE SkipFence
  <2>1. step = "skip" /\ where = "check" /\ step \notin Over /\ UNCHANGED <<open, opened>>
    BY <1>7 DEF SkipFence, Checked, At, Walk, Over
  <2>2. CASE Matched
    BY <2>1, <2>2, MatchedShape
  <2>3. CASE UNCHANGED <<step, where, matched>>
    BY <2>1, <2>3 DEF Shape, Block
  <2> QED
    BY <1>7, <2>2, <2>3 DEF SkipFence
<1>8. CASE CloseFence
  <2>1. open # <<>> /\ Blocked(open) /\ Nested(open) /\ open' = Front(open) /\ step' = "closed"
    BY <1>8 DEF CloseFence, Checking, Walk, Over, Shape
  <2>2. Nested(open')
    BY <2>1, NestedFront
  <2> QED
    BY <2>1, <2>2 DEF Shape, Over
<1>9. CASE OpenQuote \/ OpenCode
  <2>1. \E b : b.kind \notin {"item", "fence"} /\ Open(b)
    BY <1>9 DEF OpenQuote, OpenCode
  <2>2. step \notin Over /\ where = "open" /\ step' \in {"find", "space"} /\ UNCHANGED <<open, matched>>
    BY <1>9 DEF OpenQuote, OpenCode, Opening, Begun, blocks, Over
  <2> QED
    BY <2>1, <2>2, OpenShape DEF Measured
<1>10. CASE OpenFence
  <2> DEFINE b == [kind |-> "fence", offset |-> first.offset - offset, content |-> Nonspace(want) - want]
  <2>1. /\ step = "decide" /\ where = "open" /\ step' = "find" /\ UNCHANGED <<open, matched>> /\ Open(b)
    BY <1>10 DEF OpenFence, Opening, Begun, blocks
  <2>2. AtFirst /\ Heads(want)
    BY <2>1 DEF Aim, Exempt
  <2>3. column = want
    BY <2>1, <2>2, Deciding DEF Heads
  <2>4. b.offset \in Nat /\ b.content \in Nat
    <3>1. first.offset - offset \in Nat
      BY <2>1, <2>2, Deciding
    <3>2. Nonspace(want) - want \in Nat
      BY <2>1, <2>2, <2>3, Deciding
    <3> QED
      BY <3>1, <3>2
  <2>5. Measured(b)
    BY <2>4 DEF Measured
  <2> QED
    BY <2>1, <2>5, OpenShape DEF Over
<1>11. CASE OpenItem
  BY <1>11 DEF OpenItem, Opening, Begun, blocks, Shape, Over
<1>12. CASE StopOpening
  BY <1>12 DEF StopOpening, Opening, Begun, blocks, Shape, Over
<1>13. CASE PadEnd
  <2>1. /\ step = "pad" /\ step' = "find" /\ UNCHANGED <<open, matched>>
    BY <1>13 DEF PadEnd, At, blocks
  <2>2. where = "open" /\ step \notin Over
    BY <2>1 DEF Shape, Over
  <2>3. PICK b : Measured(b) /\ Open(b)
    BY <1>13, PaddingRight
  <2> QED
    BY <2>1, <2>2, <2>3, OpenShape
<1>14. CASE LazyLine
  BY <1>14 DEF LazyLine, Placed, Shape, Over
<1>15. CASE LeafLine \/ BlankLine
  BY <1>15, RemainingNested DEF LeafLine, BlankLine, Adding, Shape, Over
<1>16. CASE TextLine
  <2> DEFINE p == [kind |-> "paragraph"]
  <2>1. Blocked(Remaining) /\ Nested(Remaining)
    BY <1>16, RemainingNested DEF TextLine, Adding, Over
  <2>2. NoLeaf(Remaining, Len(Remaining))
    <3>1. Len(Remaining) \in Nat /\ NoLeaf(Remaining, Len(Remaining) - 1)
      BY <2>1 DEF Blocked, Nested
    <3>2. Remaining = <<>> \/ Remaining[Len(Remaining)].kind \notin Leaf
      BY <1>16 DEF TextLine, InLeaf, Last
    <3>3. \A i \in 1 .. Len(Remaining) : i = Len(Remaining) \/ i \in 1 .. Len(Remaining) - 1
      BY <3>1
    <3>4. Remaining = <<>> => Len(Remaining) = 0
      OBVIOUS
    <3> QED
      BY <3>1, <3>2, <3>3, <3>4 DEF NoLeaf
  <2>3. Measured(p)
    BY DEF Measured
  <2>4. Nested(Append(Remaining, p))
    BY <2>1, <2>2, <2>3, NestedAppend
  <2>5. Nested(open') /\ step' = "store"
    BY <1>16, <2>1, <2>4 DEF TextLine
  <2> QED
    BY <2>5 DEF Shape, Over
<1> QED
  BY <1>1, <1>2, <1>3, <1>4, <1>5, <1>6, <1>7, <1>8, <1>9, <1>10, <1>11, <1>12, <1>13, <1>14,
     <1>15, <1>16 DEF ProcessSteps

-----------------------------------------------------------------------------
(* The position in the line without tabs. *)

\* Only a line that goes on in a fence can be exempt.
LEMMA NotExempt ==
  ASSUME where \in {"check", "open"}, step # "skip"
  PROVE  ~Exempt
BY DEF Exempt

\* A handler is done, or has done its part.
LEMMA AimedAt ==
  ASSUME Aim, step # "idle", UNCHANGED stored, step' \in {"find", "space"}, Exempt' \/ Heads(want)'
  PROVE  Aim'
BY DEF Aim

LEMMA AimStored ==
  ASSUME Aim, step # "idle", UNCHANGED stored, step' = "store", FenceBehindTab' \/ Heads(want)'
  PROVE  Aim'
BY DEF Aim

LEMMA AimClosed ==
  ASSUME Aim, step # "idle", UNCHANGED stored, step' \in {"closed", "idle"}
  PROVE  Aim'
BY DEF Aim

LEMMA AdvanceAim ==
  ASSUME CursorInv, line \in DOMAIN ColumnOf, Aim, AdvanceTurn
  PROVE  Aim'
<1>1. /\ UNCHANGED <<step, where, line, first, indent, open, matched, opened, saved, skip, stored, want>>
      /\ Advancing /\ step # "idle"
  BY DEF AdvanceTurn, blocks
<1>2. step \notin {"finding", "decide"}
  BY <1>1 DEF CursorInv, Position, FoundSoFar, FoundFirst
<1>3. /\ Exempt' = Exempt /\ FenceBehindTab' = FenceBehindTab /\ AtMarker' = AtMarker
  BY <1>1 DEF Exempt, Block, FenceBehindTab, AtMarker, SpaceAt, Cols
<1>4. Heads(want) => Heads(want)'
  <2> SUFFICES ASSUME Heads(want) PROVE Heads(want)'
    OBVIOUS
  <2>1. PICK c : c = want
    OBVIOUS
  <2>2. Heads(c)'
    BY <2>1, TurnHeads
  <2> QED
    BY <1>1, <2>1, <2>2 DEF Heads
<1>5. Padding => Padding'
  <2> SUFFICES ASSUME Padding PROVE Padding'
    OBVIOUS
  <2>1. PICK c \in want .. End : Heads(c) /\ Blanks(want, c)
    BY DEF Padding
  <2>2. Heads(c)'
    BY <2>1, TurnHeads
  <2>3. End' = End /\ Blanks(want, c)'
    BY <1>1, <2>1 DEF Blanks, SpaceAt, End, Cols
  <2> QED
    BY <1>1, <2>1, <2>2, <2>3 DEF Padding
<1>6. Skipping => Skipping'
  <2> SUFFICES ASSUME Skipping PROVE Skipping'
    OBVIOUS
  <2>1. PICK c \in 0 .. End : Heads(c) /\ want = Min({c + skip, Nonspace(c)})
    BY DEF Skipping
  <2>2. Heads(c)'
    BY <2>1, TurnHeads
  <2>3. End' = End /\ Nonspace(c)' = Nonspace(c)
    BY <1>1 DEF Nonspace, SpaceAt, End, Cols
  <2> QED
    BY <1>1, <2>1, <2>2, <2>3 DEF Skipping
<1> QED
  BY <1>1, <1>2, <1>3, <1>4, <1>5, <1>6 DEF Aim

LEMMA FindAim ==
  ASSUME CursorInv, CursorInv', line \in DOMAIN ColumnOf, Aim, FindFirst \/ FindTurn \/ FindEnd
  PROVE  Aim'
<1>1. UNCHANGED <<line, offset, column, partial, todo, where, open, matched, opened, stored, want>>
  BY DEF FindFirst, FindTurn, FindEnd, Stay, cursor, blocks
<1>2. step # "skip" /\ step' # "skip" /\ step \in {"find", "finding"} /\ step' \in {"finding", "decide"}
  BY DEF FindFirst, FindTurn, FindEnd, At
<1>3. Exempt' \/ Heads(want)'
  <2>1. Exempt' = Exempt
    BY <1>1, <1>2 DEF Exempt
  <2>2. Heads(want) => Heads(want)'
    BY <1>1 DEF Heads, Advancing, End, Cols
  <2> QED
    BY <1>2, <2>1, <2>2 DEF Aim
<1>4. stored.from = 0
  BY <1>2 DEF Aim
<1>5. /\ Agree(offset, column, partial) /\ column \in Int /\ partial \in BOOLEAN
      /\ Len(line) \in Nat
  BY <1>2, Columned DEF CursorInv, Position, Types
<1>6. /\ offset \in 0 .. Len(line) /\ column \in 0 .. End /\ End \in Nat
      /\ offset < Len(line) => Cols[offset] <= column /\ column < Cols[offset + 1]
  BY <1>5, PositionIn
<1>7. CASE FindFirst
  <2>1. step' = "finding" /\ first'.column = column
    BY <1>7 DEF FindFirst
  <2>2. Blanks(column, first.column)'
    BY <1>1, <1>6, <2>1 DEF Blanks
  <2> QED
    BY <1>1, <1>3, <1>4, <2>1, <2>2 DEF Aim
<1>8. CASE FindTurn
  <2>1. step = "finding" /\ step' = "finding" /\ first'.offset = first.offset + 1
        /\ Peek(first.offset) \in SpaceOrTab
    <3>1. CASE Peek(first.offset) = " "
      <4>1. first' = [offset |-> first.offset + 1, column |-> first.column + 1,
                      toTab |-> IF first.toTab = 1 THEN TabStop ELSE first.toTab - 1]
        BY <1>8, <3>1 DEF FindTurn
      <4> QED
        BY <1>8, <3>1, <4>1 DEF FindTurn, SpaceOrTab
    <3>2. CASE Peek(first.offset) = "tab"
      <4>1. first' = [offset |-> first.offset + 1, column |-> first.column + first.toTab,
                      toTab |-> TabStop]
        BY <1>8, <3>2 DEF FindTurn
      <4> QED
        BY <1>8, <3>2, <4>1 DEF FindTurn, SpaceOrTab
    <3> QED
      BY <1>8, <3>1, <3>2 DEF FindTurn
  <2>2. FoundSoFar /\ FoundSoFar' /\ Blanks(column, first.column) /\ first.column \in Int
    BY <1>1, <2>1 DEF CursorInv, Position, Types, Aim
  <2>3. first.offset \in offset .. Len(line) /\ first.offset < Len(line) /\ line[first.offset + 1] \in SpaceOrTab
    BY <1>5, <1>6, <2>1, <2>2 DEF FoundSoFar, Peek, SpaceOrTab
  <2>4. first.offset \in 0 .. Len(line) - 1 /\ first.offset \in 0 .. Len(line)
    BY <1>5, <1>6, <2>3
  <2>5. first'.column = Cols[first.offset + 1]
    <3>1. first.offset + 1 # offset
      BY <1>6, <2>3
    <3> QED
      BY <1>1, <2>1, <2>2, <3>1 DEF FoundSoFar, Cols
  <2>6. Cols[first.offset] <= first.column /\ Cols[first.offset] \in 0 .. End /\ Cols[first.offset + 1] \in 0 .. End
    <3>1. Cols[first.offset] \in 0 .. End /\ Cols[first.offset + 1] \in 0 .. End
      BY <2>3, <2>4, ColumnsUpToEnd
    <3>2. first.column = IF first.offset = offset THEN column ELSE Cols[first.offset]
      BY <2>2 DEF FoundSoFar
    <3> QED
      BY <1>6, <2>3, <3>1, <3>2
  <2>7. ASSUME NEW e \in column .. Cols[first.offset + 1] - 1
        PROVE  SpaceAt(e)
    <3>1. CASE e < first.column
      <4>1. e \in column .. first.column - 1
        BY <1>6, <2>2, <3>1
      <4> QED
        BY <2>2, <4>1 DEF Blanks
    <3>2. CASE e >= first.column
      <4>1. e \in Int /\ Cols[first.offset] <= e /\ e < Cols[first.offset + 1]
        BY <1>6, <2>2, <2>6, <3>2
      <4> QED
        BY <2>3, <2>4, <4>1, SpaceAtIs
    <3> QED
      BY <1>6, <2>2, <3>1, <3>2
  <2>8. Blanks(column, first.column)'
    BY <1>1, <2>5, <2>7 DEF Blanks, SpaceAt, Cols
  <2> QED
    BY <1>1, <1>3, <1>4, <2>1, <2>8 DEF Aim
<1>9. CASE FindEnd
  <2>1. step = "finding" /\ step' = "decide" /\ Peek(first.offset) \notin SpaceOrTab /\ first' = first
    BY <1>9 DEF FindEnd
  <2>2. FoundSoFar /\ FoundFirst' /\ Blanks(column, first.column) /\ first.column \in Int
    BY <1>1, <2>1 DEF CursorInv, Position, Types, Aim
  <2>3. first.offset \in offset .. Len(line) /\ first.column = Cols[first.offset]
    BY <1>1, <2>1, <2>2 DEF FoundSoFar, FoundFirst, Cols
  <2>4. Agree(first.offset, first.column, FALSE)
    BY <1>5, <1>6, <2>3 DEF Agree
  <2>5. first.column \in 0 .. End /\ ~SpaceAt(first.column)
    BY <2>1, <2>2, <2>4, PositionIn
  <2>6. column <= first.column
    <3>1. CASE first.offset = offset
      BY <1>6, <2>2, <3>1 DEF FoundSoFar
    <3>2. CASE first.offset # offset
      <4>1. offset < Len(line) /\ offset + 1 \in 0 .. Len(line) /\ first.offset \in 0 .. Len(line)
            /\ (offset + 1 = first.offset \/ offset + 1 < first.offset)
        BY <1>5, <1>6, <2>3, <3>2
      <4>2. offset + 1 = first.offset \/ Cols[offset + 1] < Cols[first.offset]
        BY <4>1, ColumnsGrow
      <4>3. Cols[offset + 1] \in 0 .. End
        BY <4>1, ColumnsUpToEnd
      <4> QED
        BY <1>6, <2>2, <2>3, <4>1, <4>2, <4>3
    <3> QED
      BY <3>1, <3>2
  <2>7. Nonspace(column) = first.column
    <3>1. first.column \in column .. End
      BY <1>6, <2>5, <2>6
    <3> QED
      BY <1>6, <2>2, <2>5, <3>1, NonspaceIs
  <2>8. AtFirst'
    BY <1>1, <2>1, <2>3, <2>7 DEF AtFirst, Nonspace, SpaceAt, Cols
  <2> QED
    BY <1>1, <1>3, <1>4, <2>1, <2>8 DEF Aim
<1> QED
  BY <1>7, <1>8, <1>9

\* The position and the white space there, where a handler decides and the
\* line is not exempt.
LEMMA DecidingAim ==
  ASSUME CursorInv, line \in DOMAIN ColumnOf, Aim, step = "decide", ~Exempt
  PROVE  /\ AtFirst /\ Heads(want) /\ column = want
         /\ want \in 0 .. End /\ End \in Nat /\ indent \in Nat
         /\ Nonspace(want) = want + indent /\ Nonspace(want) <= End
<1>1. AtFirst /\ Heads(want)
  BY DEF Aim
<1>2. column = want
  BY <1>1, Deciding DEF Heads
<1> QED
  BY <1>1, <1>2, Deciding

\* check_open_blocks
LEMMA CheckAim ==
  ASSUME CursorInv, line \in DOMAIN ColumnOf, Shape, Aim,
         CheckQuote \/ CheckItem \/ CheckCode \/ CheckParagraph \/ Mismatch
  PROVE  Aim'
<1>1. step = "decide" /\ where = "check" /\ Stay /\ UNCHANGED stored /\ step' \in {"find", "space"}
  BY DEF CheckQuote, CheckItem, CheckCode, CheckParagraph, Mismatch, Checking, Checked, Matched
<1>2. ~Exempt
  BY <1>1, NotExempt
<1>3. /\ AtFirst /\ Heads(want) /\ column = want
      /\ want \in 0 .. End /\ End \in Nat /\ indent \in Nat
      /\ Nonspace(want) = want + indent /\ Nonspace(want) <= End
  BY <1>1, <1>2, DecidingAim
<1>4. CASE CheckQuote
  <2>1. Token = ">" /\ Advance(indent + 1, TRUE) /\ want' = want + (indent + 1)
    <3>1. Token = ">" /\ Advance(indent + 1, TRUE) /\ want' = Nonspace(want) + 1
      BY <1>4 DEF CheckQuote
    <3>2. want \in Int /\ (want + indent) + 1 = want + (indent + 1)
      BY <1>3
    <3> QED
      BY <1>3, <3>1, <3>2
  <2>2. indent + 1 \in Nat /\ want + (indent + 1) <= End
    BY <1>1, <1>3, <2>1, DecidingToken
  <2>3. Heads(want)'
    BY <1>1, <1>3, <2>1, <2>2, AheadByColumns
  <2> QED
    BY <1>1, <2>3, AimedAt
<1>5. CASE CheckItem
  <2>1. Block.kind = "item" /\ Measured(Block)
    <3>1. matched + 1 \in 1 .. Len(open)
      BY <1>1 DEF CursorInv, Walk, Over, Blocked
    <3> QED
      BY <1>5, <3>1 DEF CheckItem, Checking, Shape, Nested, Block
  <2>2. CASE indent >= Block.width /\ Advance(Block.width, TRUE) /\ want' = want + Block.content
    <3>1. Block.width \in Nat /\ Block.content = Block.width
      BY <2>1 DEF Measured
    <3>2. want + Block.width <= End
      BY <1>3, <2>2, <3>1
    <3>3. Heads(want)'
      BY <1>1, <1>3, <2>2, <3>1, <3>2, AheadByColumns
    <3> QED
      BY <1>1, <3>3, AimedAt
  <2>3. CASE Advance(first.offset - offset, FALSE) /\ want' = Nonspace(want)
    BY <1>1, <1>3, <2>3, AheadToFirst, AimedAt
  <2> QED
    BY <1>5, <2>2, <2>3 DEF CheckItem
<1>6. CASE CheckCode
  <2>1. CASE Indented /\ Advance(CodeIndent, TRUE) /\ want' = want + CodeIndent
    <3>1. CodeIndent \in Nat /\ want + CodeIndent <= End
      BY <1>3, <2>1 DEF Indented, CodeIndent
    <3>2. Heads(want)'
      BY <1>1, <1>3, <2>1, <3>1, AheadByColumns
    <3> QED
      BY <1>1, <3>2, AimedAt
  <2>2. CASE Advance(first.offset - offset, FALSE) /\ want' = Nonspace(want)
    BY <1>1, <1>3, <2>2, AheadToFirst, AimedAt
  <2> QED
    BY <1>6, <2>1, <2>2 DEF CheckCode
<1>7. CASE CheckParagraph \/ Mismatch
  <2>1. UNCHANGED <<todo, want>>
    BY <1>7 DEF CheckParagraph, Mismatch
  <2> QED
    BY <1>1, <1>3, <2>1, AheadStays, AimedAt
<1> QED
  BY <1>4, <1>5, <1>6, <1>7

LEMMA OptionalSpaceAim ==
  ASSUME CursorInv, line \in DOMAIN ColumnOf, Aim, OptionalSpace
  PROVE  Aim'
<1>1. /\ step = "space" /\ ~Advancing /\ Stay /\ UNCHANGED <<open, stored>> /\ step' = "find"
  BY DEF OptionalSpace, At, Checked, Matched
<1>2. CASE Exempt
  <2>1. UNCHANGED <<where, matched>>
    BY <1>1, <1>2 DEF OptionalSpace, Exempt
  <2>2. Exempt'
    BY <1>1, <1>2, <2>1 DEF Exempt
  <2> QED
    BY <1>1, <2>2, AimedAt
<1>3. CASE Heads(want)
  <2>1. column = want
    BY <1>1, <1>3 DEF Heads
  <2>2. Agree(offset, column, partial) /\ column \in Int /\ partial \in BOOLEAN
    BY <1>1 DEF CursorInv, Position, Types
  <2>3. CASE Peek(offset) \in SpaceOrTab
    <3>1. Advance(1, TRUE)
      BY <2>3 DEF OptionalSpace, TakeSpace
    <3>2. SpaceAt(want) /\ \A c : c = column + 1 => Heads(c)'
      BY <1>1, <2>1, <2>3, <3>1, AheadOneSpace
    <3>3. want' = want + 1
      BY <3>2 DEF OptionalSpace
    <3>4. PICK c : c = column + 1
      OBVIOUS
    <3>5. Heads(want)'
      BY <2>1, <3>2, <3>3, <3>4 DEF Heads
    <3> QED
      BY <1>1, <3>5, AimedAt
  <2>4. CASE Peek(offset) \notin SpaceOrTab
    <3>1. ~SpaceAt(want)
      BY <2>1, <2>2, <2>4, PositionIn
    <3>2. UNCHANGED <<todo, want>>
      BY <2>4, <3>1 DEF OptionalSpace
    <3> QED
      BY <1>1, <1>3, <3>2, AheadStays, AimedAt
  <2> QED
    BY <2>3, <2>4
<1> QED
  BY <1>1, <1>2, <1>3 DEF Aim

LEMMA MinOfWidths ==
  ASSUME NEW c \in Nat, NEW k \in Nat, NEW n \in Nat, c <= n
  PROVE  /\ k = 0 \/ n = c => Min({c + k, n}) = c
         /\ k > 0 => Min({(c + 1) + (k - 1), n}) = Min({c + k, n})
<1>1. Min({c + k, n}) = IF c + k <= n THEN c + k ELSE n
  BY MinOfTwo
<1>2. (c + 1) + (k - 1) = c + k
  OBVIOUS
<1> QED
  BY <1>1, <1>2

\* The lines of a fence
LEMMA CheckFenceAim ==
  ASSUME CursorInv, line \in DOMAIN ColumnOf, Shape, Aim, CheckFence
  PROVE  Aim'
<1>1. /\ step = "decide" /\ where = "check" /\ step' = "skip" /\ Stay
      /\ UNCHANGED <<stored, open, matched, todo>> /\ skip' = Block.offset /\ Block.kind = "fence"
      /\ want' = Min({want + Block.content, Nonspace(want)})
  BY DEF CheckFence, Checking, Checked, Block
<1>2. /\ AtFirst /\ Heads(want) /\ column = want
      /\ want \in 0 .. End /\ End \in Nat
  <2>1. ~Exempt
    BY <1>1, NotExempt
  <2> QED
    BY <1>1, <2>1, DecidingAim
<1>3. Measured(Block)
  <2>1. matched + 1 \in 1 .. Len(open)
    BY <1>1 DEF CursorInv, Walk, Over, Blocked
  <2> QED
    BY <2>1 DEF Shape, Nested, Block
<1>4. skip' \in Nat
  BY <1>1, <1>3 DEF Measured
<1>5. CASE Crooked(Block)
  <2>1. Exempt'
    BY <1>1, <1>5 DEF Exempt, Block
  <2> QED
    BY <1>1, <1>4, <2>1 DEF Aim
<1>6. CASE ~Crooked(Block)
  <2>1. Block.content = Block.offset
    BY <1>1, <1>6 DEF Crooked
  <2>2. PICK c \in 0 .. End : c = want
    BY <1>2
  <2>3. Heads(c)'
    BY <1>1, <1>2, <2>2 DEF Heads, Stay, cursor, Advancing, End, Cols
  <2>4. /\ End' = End /\ Nonspace(c)' = Nonspace(c)
    BY <1>1 DEF Stay, End, Nonspace, SpaceAt, Cols
  <2>5. Skipping'
    BY <1>1, <2>1, <2>2, <2>3, <2>4 DEF Skipping
  <2> QED
    BY <1>1, <1>4, <2>5 DEF Aim
<1> QED
  BY <1>5, <1>6

LEMMA SkipFenceAim ==
  ASSUME CursorInv, line \in DOMAIN ColumnOf, Shape, Aim, SkipFence
  PROVE  Aim'
<1>1. /\ step = "skip" /\ where = "check" /\ ~Advancing /\ Stay /\ UNCHANGED <<stored, open, want>>
      /\ Block.kind = "fence" /\ skip \in Nat
      /\ matched \in Nat /\ matched < Len(open) /\ Len(open) \in Nat
  BY DEF SkipFence, At, Checked, CursorInv, Walk, Shape, Aim, Over, Blocked
<1>2. CASE skip > 0 /\ Peek(offset) \in SpaceOrTab
  <2>1. Advance(1, TRUE) /\ skip' = skip - 1 /\ UNCHANGED <<step, where, matched>>
    BY <1>2 DEF SkipFence
  <2>2. /\ column \in 0 .. End - 1 /\ SpaceAt(column) /\ End \in Nat
        /\ \A c : c = column + 1 => Heads(c)'
    BY <1>1, <1>2, <2>1, AheadOneSpace
  <2>3. Exempt => Exempt'
    BY <1>1, <2>1 DEF Exempt, Block
  <2>4. Skipping => Skipping'
    <3> SUFFICES ASSUME Skipping PROVE Skipping'
      OBVIOUS
    <3>1. want = Min({column + skip, Nonspace(column)})
      BY <1>1 DEF Skipping, Heads
    <3>2. /\ Nonspace(column) \in column .. End /\ ~SpaceAt(Nonspace(column)) /\ Blanks(column, Nonspace(column))
      BY <2>2, NonspaceRange
    <3>3. Nonspace(column) \in column + 1 .. End /\ Blanks(column + 1, Nonspace(column))
      BY <2>2, <3>2 DEF Blanks
    <3>4. Nonspace(column + 1) = Nonspace(column)
      BY <2>2, <3>2, <3>3, NonspaceIs
    <3>5. PICK c \in 0 .. End : c = column + 1
      BY <2>2
    <3>6. Heads(c)'
      BY <2>2, <3>5
    <3>7. want = Min({c + (skip - 1), Nonspace(c)})
      <4>1. column \in Nat /\ Nonspace(column) \in Nat /\ column <= Nonspace(column)
        BY <2>2, <3>2
      <4>2. Min({(column + 1) + (skip - 1), Nonspace(column)}) = Min({column + skip, Nonspace(column)})
        BY <1>1, <1>2, <4>1, MinOfWidths
      <4> QED
        BY <3>1, <3>4, <3>5, <4>2
    <3>8. End' = End /\ Nonspace(c)' = Nonspace(c)
      BY <1>1 DEF Stay, End, Nonspace, SpaceAt, Cols
    <3> QED
      BY <1>1, <2>1, <3>6, <3>7, <3>8 DEF Skipping
  <2>5. skip' \in Nat
    BY <1>1, <1>2, <2>1
  <2> QED
    BY <1>1, <2>1, <2>3, <2>4, <2>5 DEF Aim
<1>3. CASE ~(skip > 0 /\ Peek(offset) \in SpaceOrTab)
  <2>1. Matched /\ UNCHANGED todo
    BY <1>3 DEF SkipFence
  <2>2. /\ matched' = matched + 1 /\ step' = "find"
        /\ where' = IF matched + 1 < Len(open) THEN "check"
                    ELSE IF open[Len(open)].kind \in Leaf THEN "add" ELSE "open"
    BY <2>1 DEF Matched, Last
  <2>3. CASE Exempt
    <3>1. Crooked(open[matched + 1]) /\ open[matched + 1].kind \in Leaf
      BY <1>1, <2>3 DEF Exempt, Block, Crooked, Leaf
    <3>2. ~(matched + 1 < Len(open))
      <4>1. NoLeaf(open, Len(open) - 1)
        BY DEF Shape, Nested
      <4> QED
        BY <1>1, <3>1, <4>1 DEF NoLeaf
    <3>3. matched + 1 = Len(open)
      BY <1>1, <3>2
    <3>4. where' = "add" /\ matched' > 0 /\ Crooked(open[matched + 1])
      BY <1>1, <2>2, <3>1, <3>2, <3>3
    <3>5. Exempt'
      BY <1>1, <2>2, <3>4 DEF Exempt, Crooked
    <3> QED
      BY <1>1, <2>2, <3>5, AimedAt
  <2>4. CASE Skipping
    <3>1. column \in 0 .. End /\ want = Min({column + skip, Nonspace(column)})
      BY <1>1, <2>4 DEF Skipping, Heads
    <3>2. /\ Agree(offset, column, partial) /\ column \in Int /\ partial \in BOOLEAN
      BY <1>1 DEF CursorInv, Position, Types
    <3>3. End \in Nat /\ (SpaceAt(column) <=> Peek(offset) \in SpaceOrTab)
      BY <3>2, PositionIn
    <3>4. Nonspace(column) \in column .. End
      BY <3>1, NonspaceRange
    <3>5. skip = 0 \/ Nonspace(column) = column
      <4>1. ASSUME skip # 0
            PROVE  Nonspace(column) = column
        <5>1. ~SpaceAt(column)
          BY <1>1, <1>3, <3>3, <4>1
        <5>2. column \in column .. End /\ Blanks(column, column)
          BY <3>1, <3>3 DEF Blanks
        <5> QED
          BY <3>1, <5>1, <5>2, NonspaceIs
      <4> QED
        BY <4>1
    <3>6. want = column
      <4>1. column \in Nat /\ Nonspace(column) \in Nat /\ column <= Nonspace(column)
        BY <3>1, <3>3, <3>4
      <4> QED
        BY <1>1, <3>1, <3>5, <4>1, MinOfWidths
    <3>7. Heads(want)'
      BY <1>1, <2>1, <3>6 DEF Heads, Stay, cursor, Advancing
    <3> QED
      BY <1>1, <2>2, <3>7, AimedAt
  <2> QED
    BY <1>1, <2>3, <2>4 DEF Aim
<1> QED
  BY <1>2, <1>3

\* open_new_blocks
LEMMA OpeningAim ==
  ASSUME CursorInv, line \in DOMAIN ColumnOf, Aim, OpenQuote \/ OpenFence \/ OpenCode \/ StopOpening
  PROVE  Aim'
<1>1. step = "decide" /\ where = "open" /\ Stay /\ UNCHANGED stored /\ step' \in {"find", "space"}
  BY DEF OpenQuote, OpenFence, OpenCode, StopOpening, Opening, Begun
<1>2. ~Exempt
  BY <1>1, NotExempt
<1>3. /\ AtFirst /\ Heads(want) /\ column = want
      /\ want \in 0 .. End /\ End \in Nat /\ indent \in Nat
      /\ Nonspace(want) = want + indent /\ Nonspace(want) <= End
  BY <1>1, <1>2, DecidingAim
<1>4. CASE OpenQuote \/ OpenFence
  <2>1. Token \in {">", "fence"} /\ ToMarkerEnd
    BY <1>4 DEF OpenQuote, OpenFence
  <2>2. Heads(want)'
    BY <1>1, <1>3, <2>1, AheadOfMarker
  <2> QED
    BY <1>1, <2>2, AimedAt
<1>5. CASE OpenCode
  <2>1. Indented /\ Advance(CodeIndent, TRUE) /\ want' = want + CodeIndent
    BY <1>5 DEF OpenCode
  <2>2. CodeIndent \in Nat /\ want + CodeIndent <= End
    BY <1>3, <2>1 DEF Indented, CodeIndent
  <2>3. Heads(want)'
    BY <1>1, <1>3, <2>1, <2>2, AheadByColumns
  <2> QED
    BY <1>1, <2>3, AimedAt
<1>6. CASE StopOpening
  <2>1. UNCHANGED <<todo, want>>
    BY <1>6 DEF StopOpening
  <2> QED
    BY <1>1, <1>3, <2>1, AheadStays, AimedAt
<1> QED
  BY <1>4, <1>5, <1>6

LEMMA OpenItemAim ==
  ASSUME CursorInv, line \in DOMAIN ColumnOf, Aim, OpenItem
  PROVE  Aim'
<1>1. /\ step = "decide" /\ where = "open" /\ step' = "mark" /\ Stay /\ UNCHANGED <<first, indent, stored>>
      /\ IsMarker /\ ToMarkerEnd
  BY DEF OpenItem, Opening, Begun
<1>2. saved'.marker = Nonspace(want) - want + 1
  <2>1. saved' = [marker |-> Nonspace(want) - want + 1]
    BY DEF OpenItem
  <2> QED
    BY <2>1
<1>3. /\ AtFirst /\ Heads(want) /\ column = want
      /\ want \in 0 .. End /\ End \in Nat /\ indent \in Nat
      /\ Nonspace(want) = want + indent /\ Nonspace(want) <= End
  <2>1. ~Exempt
    BY <1>1, NotExempt
  <2> QED
    BY <1>1, <2>1, DecidingAim
<1>4. Token = "-" /\ Peek(first.offset + 1) \in SpaceOrTab
  BY <1>1 DEF IsMarker
<1>5. Heads(want)' /\ want' = Cols[first.offset + 1]
  BY <1>1, <1>3, <1>4, AheadOfMarker
<1>6. /\ first.offset \in 0 .. Len(line) - 1 /\ line[first.offset + 1] = "-"
      /\ first.offset + 1 \in 0 .. Len(line)
  BY <1>1, <1>3, <1>4, DecidingToken
<1>7. SpaceAt(want')
  <2>1. want' \in Int
    BY <1>5, <1>6, ColumnsUpToEnd
  <2>2. Agree(first.offset + 1, want', FALSE)
    BY <1>5, <1>6 DEF Agree
  <2> QED
    BY <1>4, <2>1, <2>2, PositionIn
<1>8. saved'.marker = indent + 1
  BY <1>2, <1>3
<1>9. line' = line
  BY <1>1 DEF Stay
<1>10. SpaceAt(want)'
  BY <1>7, <1>9 DEF SpaceAt, Cols
<1>11. AtMarker'
  BY <1>1, <1>3, <1>5, <1>6, <1>8, <1>9, <1>10 DEF AtMarker, Cols
<1> QED
  BY <1>1, <1>5, <1>11 DEF Aim

LEMMA MarkerAim ==
  ASSUME CursorInv, line \in DOMAIN ColumnOf, Aim, SaveCursor \/ PadTurn
  PROVE  Aim'
<1>1. /\ step \in {"mark", "pad"} /\ step' = "pad" /\ ~Advancing /\ Stay
      /\ UNCHANGED <<first, indent, stored, want>> /\ saved'.marker = saved.marker
  <2>1. CASE SaveCursor
    <3>1. saved' = [marker |-> saved.marker, offset |-> offset, column |-> column, partial |-> partial]
      BY <2>1 DEF SaveCursor
    <3>2. saved'.marker = saved.marker
      BY <3>1
    <3> QED
      BY <2>1, <3>2 DEF SaveCursor, At, Begun
  <2>2. CASE PadTurn
    BY <2>2 DEF PadTurn, At, Begun
  <2> QED
    BY <2>1, <2>2
<1>2. /\ line' = line /\ AtMarker /\ column \in Int /\ partial \in BOOLEAN /\ Types
      /\ Agree(offset, column, partial)
  BY <1>1 DEF Stay, Aim, CursorInv, Types, Position
<1>3. AtMarker'
  BY <1>1, <1>2 DEF AtMarker, SpaceAt, Cols
<1>4. End' = End /\ column \in 0 .. End /\ End \in Nat
  BY <1>2, PositionIn DEF End, Cols
<1>5. CASE SaveCursor
  <2>1. step = "mark" /\ saved'.column = column /\ todo' = todo
    BY <1>5 DEF SaveCursor, At
  <2>2. Heads(want) /\ column = want
    BY <1>1, <2>1 DEF Aim, Heads
  <2>3. PICK c \in want .. End : c = want
    BY <1>4, <2>2
  <2>4. Heads(c)'
    BY <1>1, <2>1, <2>2, <2>3 DEF Heads, Stay, cursor, Advancing
  <2>5. Blanks(want, c)'
    BY <1>1, <1>4, <2>2, <2>3 DEF Blanks
  <2>6. Padding'
    BY <1>1, <1>4, <2>3, <2>4, <2>5 DEF Padding
  <2> QED
    BY <1>1, <1>3, <2>1, <2>2, <2>6 DEF Aim
<1>6. CASE PadTurn
  <2>1. step = "pad" /\ saved' = saved /\ Peek(offset) \in SpaceOrTab /\ Advance(1, TRUE)
    BY <1>6 DEF PadTurn, At
  <2>2. saved.column = want /\ column \in want .. End /\ Blanks(want, column) /\ want \in Int
    BY <1>1, <1>2, <2>1 DEF Aim, Padding, Heads, Types
  <2>3. /\ column \in 0 .. End - 1 /\ SpaceAt(column)
        /\ \A c : c = column + 1 => Heads(c)'
    BY <1>1, <2>1, AheadOneSpace
  <2>4. PICK c \in want .. End : c = column + 1
    BY <1>4, <2>2, <2>3
  <2>5. Blanks(want, c)
    <3>1. \A e \in want .. c - 1 : e \in want .. column - 1 \/ e = column
      BY <1>2, <2>2, <2>4
    <3> QED
      BY <2>2, <2>3, <3>1 DEF Blanks
  <2>6. Blanks(want, c)'
    BY <1>1, <1>2, <2>5 DEF Blanks, SpaceAt, Cols
  <2>7. Padding'
    BY <1>1, <1>4, <2>3, <2>4, <2>6 DEF Padding
  <2> QED
    BY <1>1, <1>3, <2>1, <2>2, <2>7 DEF Aim
<1> QED
  BY <1>5, <1>6

LEMMA PadEndAim ==
  ASSUME CursorInv, line \in DOMAIN ColumnOf, Aim, PadEnd
  PROVE  Aim'
<1>1. step = "pad" /\ step' = "find" /\ UNCHANGED stored
  BY DEF PadEnd, At
<1> QED
  BY <1>1, PaddingRight, AimedAt

LEMMA CrookedConcat ==
  ASSUME NEW s, Blocked(s), NEW t, Blocked(t), \E b \in ToSet(s) : Crooked(b)
  PROVE  \E b \in ToSet(s \o t) : Crooked(b)
<1> DEFINE S == ToSet(s) \cup ToSet(t)
<1>1. s \in Seq(S) /\ t \in Seq(S)
  BY DEF Blocked
<1>2. \A i \in DOMAIN s : i \in DOMAIN (s \o t) /\ (s \o t)[i] = s[i]
  BY <1>1
<1> QED
  BY <1>2 DEF ToSet

\* add_text_to_container
LEMMA AddingAim ==
  ASSUME CursorInv, line \in DOMAIN ColumnOf, Shape, Aim, LazyLine \/ LeafLine \/ BlankLine \/ TextLine
  PROVE  Aim'
<1>1. /\ step = "decide" /\ where = "add" /\ Stay /\ UNCHANGED <<where, stored, matched, opened>>
      /\ step \notin Over /\ Walk
  BY DEF LazyLine, LeafLine, BlankLine, TextLine, Adding, Placed, CursorInv, Over
<1>2. CASE BlankLine
  BY <1>1, <1>2, AimClosed DEF BlankLine
<1>3. CASE LazyLine \/ LeafLine \/ TextLine
  <2>1. step' = "store"
    BY <1>3 DEF LazyLine, LeafLine, TextLine
  <2>2. CASE Exempt
    <3>1. /\ matched \in Nat /\ matched > 0 /\ matched <= Len(open) /\ Crooked(open[matched])
          /\ Blocked(open) /\ Blocked(opened)
      BY <1>1, <2>2 DEF Exempt, Walk
    <3>2. \E b \in ToSet(open') : Crooked(b)
      <4>1. \E b \in ToSet(Remaining) : Crooked(b)
        BY <1>1, <3>1, RemainingHolds
      <4>2. \E b \in ToSet(open) : Crooked(b)
        <5>1. matched \in DOMAIN open
          BY <3>1 DEF Blocked
        <5> QED
          BY <3>1, <5>1 DEF ToSet
      <4>3. Blocked(Remaining)
        BY <1>1, RemainingBlocked
      <4>4. \A b \in ToSet(Remaining) : b \in ToSet(Append(Remaining, [kind |-> "paragraph"]))
        <5> DEFINE R == Remaining
                   p == [kind |-> "paragraph"]
        <5>1. R \in Seq(ToSet(R) \cup {p}) /\ p \in ToSet(R) \cup {p}
          BY <4>3 DEF Blocked
        <5> HIDE DEF R, p
        <5>2. \A i \in DOMAIN R : i \in DOMAIN Append(R, p) /\ Append(R, p)[i] = R[i]
          BY <5>1
        <5>3. \A b \in ToSet(R) : b \in ToSet(Append(R, p))
          BY <5>2 DEF ToSet
        <5> QED
          BY <5>3 DEF R, p
      <4>5. open' \in {open, Remaining, Append(Remaining, [kind |-> "paragraph"])}
        BY <1>3 DEF LazyLine, LeafLine, TextLine
      <4> QED
        BY <4>1, <4>2, <4>4, <4>5
    <3>3. Blocked(open')
      <4>1. CursorInv'
        BY <1>3, TypesKept, WalkKept, PositionKept DEF CursorInv, ProcessSteps
      <4> QED
        BY <4>1 DEF CursorInv, Walk
    <3>4. FenceBehindTab'
      <4>1. \E b \in ToSet(open' \o opened') : Crooked(b)
        BY <1>1, <3>1, <3>2, <3>3, CrookedConcat
      <4> QED
        BY <4>1 DEF FenceBehindTab, Crooked
    <3> QED
      BY <1>1, <2>1, <3>4, AimStored
  <2>3. CASE ~Exempt
    <3>1. AtFirst /\ Heads(want)
      BY <1>1, <2>3, DecidingAim
    <3>2. CASE UNCHANGED <<todo, want>>
      BY <1>1, <2>1, <3>1, <3>2, AheadStays, AimStored
    <3>3. CASE Advance(first.offset - offset, FALSE) /\ want' = Nonspace(want)
      BY <1>1, <2>1, <3>1, <3>3, AheadToFirst, AimStored
    <3> QED
      BY <1>3, <3>2, <3>3 DEF LazyLine, LeafLine, TextLine
  <2> QED
    BY <2>2, <2>3
<1> QED
  BY <1>2, <1>3

LEMMA AddLineAim ==
  ASSUME CursorInv, line \in DOMAIN ColumnOf, Aim, AddLine
  PROVE  Aim'
<1>1. /\ step = "store" /\ ~Advancing /\ step' = "idle"
      /\ UNCHANGED <<line, open, opened, want>>
  BY DEF AddLine, At, blocks
<1>2. /\ stored'.spaces = IF partial THEN TabsLeft ELSE 0
      /\ stored'.from = IF partial THEN offset + 1 ELSE offset
  <2>1. stored' = [spaces |-> IF partial THEN TabsLeft ELSE 0,
                   from   |-> IF partial THEN offset + 1 ELSE offset]
    BY DEF AddLine
  <2> QED
    BY <2>1
<1>3. FenceBehindTab' = FenceBehindTab
  BY <1>1 DEF FenceBehindTab
<1>4. ASSUME Heads(want)
      PROVE  (want + stored.spaces = Cols[stored.from])'
  <2>1. /\ column = want /\ Types /\ Agree(offset, column, partial) /\ column \in Int
    BY <1>1, <1>4 DEF Heads, CursorInv, Position, Types
  <2>2. CASE partial
    <3>1. column + TabsLeft = Cols[offset + 1]
      BY <2>1, <2>2, InTab DEF Agree
    <3> QED
      BY <1>1, <1>2, <2>1, <2>2, <3>1 DEF Cols
  <2>3. CASE ~partial
    BY <1>1, <1>2, <2>1, <2>3 DEF Cols, Agree
  <2> QED
    BY <2>2, <2>3
<1> QED
  BY <1>1, <1>3, <1>4 DEF Aim

LEMMA AimKept ==
  ASSUME CursorInv, CursorInv', line \in DOMAIN ColumnOf, Shape, Aim, ProcessSteps
  PROVE  Aim'
<1>1. CASE CloseFence \/ LineClosed
  BY <1>1, AimClosed DEF CloseFence, LineClosed, Checking, At
<1> QED
  BY <1>1, AdvanceAim, FindAim, CheckAim, OptionalSpaceAim, CheckFenceAim, SkipFenceAim, OpeningAim,
     OpenItemAim, MarkerAim, PadEndAim, AddingAim, AddLineAim DEF ProcessSteps

-----------------------------------------------------------------------------
(* The theorem. *)

LEMMA LineAdded ==
  ASSUME Next
  PROVE  lines' = lines \/ \E text : lines' = Append(lines, text)
BY DEF Next, Feed, Turn, LineEnds, NulByte, BufferEnds, ProcessLine, Keep, Return, Finish, Done, vars

LEMMA TabsInvInit == ColumnsInit => TabsInv
<1> SUFFICES ASSUME ColumnsInit PROVE TabsInv
  OBVIOUS
<1>1. lines = <<>> /\ step = "idle" /\ stored.from = 0 /\ open = <<>>
  BY DEF ColumnsInit, Init
<1>2. lines \in Seq(ToSet(lines))
  BY <1>1
<1>3. Shape
  <2>1. Len(open) = 0
    BY <1>1
  <2> QED
    BY <1>1, <2>1 DEF Shape, Over, Nested, NoLeaf
<1>4. Aim
  BY <1>1 DEF Aim
<1> QED
  BY <1>1, <1>2, <1>3, <1>4 DEF TabsInv

LEMMA FeedStepTabs ==
  ASSUME CursorInv, TabsInv, FeedStep
  PROVE  TabsInv'
<1>1. step = "idle" /\ Next /\ lines \in Seq(ToSet(lines))
  BY DEF FeedStep, TabsInv
<1>2. CASE lines' = lines
  <2>1. UNCHANGED colVars
    BY <1>2 DEF FeedStep
  <2>2. UNCHANGED <<step, where, line, offset, column, partial, first, indent, todo, open, matched,
                    opened, saved, skip, stored, want>>
    BY <2>1 DEF colVars, cursor, blocks
  <2>3. LinesGiven' = LinesGiven /\ Shape' = Shape
    BY <1>2, <2>2 DEF LinesGiven, Shape, Block
  <2>4. Aim => Aim'
    BY <1>1, <2>2 DEF Aim, FenceBehindTab, Cols
  <2> QED
    BY <1>2, <2>2, <2>3, <2>4 DEF TabsInv
<1>3. CASE lines' # lines
  <2>1. PICK text : lines' = Append(lines, text)
    BY <1>1, <1>3, LineAdded
  <2> DEFINE S == ToSet(lines) \cup {text}
             all == Append(lines, text)
  <2>2. lines \in Seq(S) /\ text \in S
    BY <1>1
  <2>3. /\ all \in Seq(S) /\ Len(all) = Len(lines) + 1 /\ all[Len(all)] = text
        /\ DOMAIN all = 1 .. Len(all)
        /\ \A i \in DOMAIN lines : i \in DOMAIN all /\ all[i] = lines[i]
    BY <2>2
  <2>4. lines' \in Seq(ToSet(lines')) /\ Last(lines') = text
    BY <2>1, <2>3, InOwn DEF Last
  <2>5. BeginLine(text)
    BY <1>3, <2>4 DEF FeedStep
  <2>6. SUFFICES ASSUME LinesGiven'
                 PROVE  line' \in DOMAIN ColumnOf /\ Shape' /\ Aim'
    BY <2>4, <2>6 DEF TabsInv
  <2>7. LinesGiven /\ Append(text, "eol") \in DOMAIN ColumnOf
    <3>1. \A i \in DOMAIN all : Append(all[i], "eol") \in DOMAIN ColumnOf
      BY <2>1, <2>6 DEF LinesGiven
    <3>2. Len(all) \in DOMAIN all
      BY <2>2, <2>3
    <3> QED
      BY <2>3, <3>1, <3>2 DEF LinesGiven
  <2>8. line' \in DOMAIN ColumnOf
    BY <2>5, <2>7 DEF BeginLine
  <2>9. /\ step' = "find" /\ where' # "add" /\ where' \in {"check", "open"}
        /\ opened' = <<>> /\ matched' = 0 /\ open' = open /\ todo' = Nothing /\ column' = 0 /\ want' = 0
    BY <2>5 DEF BeginLine
  <2>10. stored'.from = 0
    BY <2>5 DEF BeginLine
  <2>11. Shape'
    <3>1. Nested(open)
      BY <2>7 DEF TabsInv, Shape
    <3>2. Len(opened') = 0
      BY <2>9
    <3> QED
      BY <2>9, <3>1, <3>2 DEF Shape, Over, Nested, NoLeaf
  <2>12. Heads(want)'
    BY <2>9 DEF Heads, Advancing, Nothing
  <2>13. Aim'
    BY <2>9, <2>10, <2>12 DEF Aim
  <2> QED
    BY <2>8, <2>11, <2>13
<1> QED
  BY <1>2, <1>3

LEMMA StepTabs ==
  ASSUME CursorInv, CursorInv', TabsInv, ProcessSteps, UNCHANGED lines
  PROVE  TabsInv'
<1>1. lines' \in Seq(ToSet(lines'))
  BY DEF TabsInv
<1>2. SUFFICES ASSUME LinesGiven
               PROVE  /\ step' # "idle" \/ stored'.from > 0 => line' \in DOMAIN ColumnOf
                      /\ Shape' /\ Aim'
  BY <1>1 DEF TabsInv, LinesGiven
<1>3. step # "idle" /\ line' = line
  BY DEF ProcessSteps, AdvanceTurn, FindFirst, FindTurn, FindEnd, CheckQuote, OptionalSpace, CheckItem,
         CheckCode, CheckFence, SkipFence, CloseFence, LineClosed, CheckParagraph, Mismatch, OpenQuote,
         OpenFence, OpenItem, SaveCursor, PadTurn, PadEnd, OpenCode, StopOpening, LazyLine, LeafLine,
         BlankLine, TextLine, AddLine, At, Checking, Opening, Adding, Checked, Begun, Placed, Stay
<1>4. line \in DOMAIN ColumnOf /\ Shape /\ Aim
  BY <1>2, <1>3 DEF TabsInv
<1> QED
  BY <1>3, <1>4, ShapeKept, AimKept

LEMMA TabsInvGives ==
  ASSUME CursorInv, TabsInv
  PROVE  TabsAsSpaces
<1> SUFFICES ASSUME LinesGiven, ~FenceBehindTab
             PROVE  /\ step = "decide" => column = want /\ indent = Nonspace(want) - want
                    /\ step = "idle" /\ stored.from > 0 => want + stored.spaces = Cols[stored.from]
  BY DEF TabsAsSpaces
<1>1. Aim
  BY DEF TabsInv
<1>2. ASSUME step = "decide"
      PROVE  column = want /\ indent = Nonspace(want) - want
  <2>1. line \in DOMAIN ColumnOf
    BY <1>2 DEF TabsInv
  <2>2. ~Exempt
    <3> SUFFICES ASSUME Exempt PROVE FALSE
      OBVIOUS
    <3>1. /\ Blocked(open) /\ Blocked(opened)
          /\ matched \in 1 .. Len(open) /\ Crooked(open[matched])
      BY <1>2 DEF Exempt, CursorInv, Walk, Over
    <3>2. \E b \in ToSet(open) : Crooked(b)
      <4>1. matched \in DOMAIN open
        BY <3>1 DEF Blocked
      <4> QED
        BY <3>1, <4>1 DEF ToSet
    <3>3. \E b \in ToSet(open \o opened) : Crooked(b)
      BY <3>1, <3>2, CrookedConcat
    <3> QED
      BY <3>3 DEF FenceBehindTab, Crooked
  <2>3. /\ column = want /\ want \in 0 .. End /\ End \in Nat /\ indent \in Nat
        /\ Nonspace(want) = want + indent
    BY <1>1, <1>2, <2>1, <2>2, DecidingAim
  <2> QED
    BY <2>3
<1> QED
  BY <1>1, <1>2 DEF Aim

\* Tabs behave as spaces up to the next tab stop: see TabsAsSpaces. For all
\* texts, however they are fed, with lines of any length and blocks nested to
\* any depth.
THEOREM TabsBehaveAsSpaces == ColumnsSpec => []TabsAsSpaces
<1> DEFINE Inv == CursorInv /\ TabsInv
<1>1. ColumnsInit => Inv
  BY CursorInvInit, TabsInvInit
<1>2. Inv /\ [ColumnsNext]_allVars => Inv'
  <2> SUFFICES ASSUME CursorInv, TabsInv, [ColumnsNext]_allVars PROVE Inv'
    OBVIOUS
  <2>1. CursorInv'
    BY CursorInvNext
  <2>2. CASE FeedStep
    BY <2>1, <2>2, FeedStepTabs
  <2>3. CASE ProcessSteps /\ UNCHANGED vars
    BY <2>1, <2>3, StepTabs DEF vars
  <2>4. CASE UNCHANGED allVars
    <3>1. UNCHANGED <<lines, step, where, line, offset, column, partial, first, indent, todo, open, matched,
                      opened, saved, skip, stored, want>>
      BY <2>4 DEF allVars, vars, colVars, cursor, blocks
    <3>2. LinesGiven' = LinesGiven /\ Shape' = Shape
      BY <3>1 DEF LinesGiven, Shape, Block
    <3>3. Aim' = Aim
      BY <3>1 DEF Aim, Exempt, Block, Heads, Advancing, End, Cols, Blanks, SpaceAt, AtFirst, Nonspace,
                  AtMarker, Padding, Skipping, FenceBehindTab
    <3> QED
      BY <2>1, <3>1, <3>2, <3>3 DEF TabsInv
  <2> QED
    BY <2>2, <2>3, <2>4 DEF ColumnsNext
<1>3. Inv => TabsAsSpaces
  BY TabsInvGives
<1> QED
  BY <1>1, <1>2, <1>3, PTL DEF ColumnsSpec

=============================================================================
