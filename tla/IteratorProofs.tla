--------------------------- MODULE IteratorProofs ---------------------------
(***************************************************************************)
(* Proofs about Iterator, for any finite set of nodes. What is left of a   *)
(* walk is a Route: a sequence of events that the pointers lead along,     *)
(* each node of which still has its later events ahead. That is enough to  *)
(* show that a change made to a node the walk has left (Aside) is not      *)
(* noticed on the way (Unnoticed), and that the walk over a tree, which is *)
(* defined by recursion, is a Route to begin with (WalkWhole).             *)
(*                                                                         *)
(* The fold of Merged is unfolded one turn at a time, to show that joining *)
(* two text nodes that stand side by side does not change what it gives;   *)
(* so the wish of cmark_consolidate_text_nodes is kept while it works      *)
(* (TextInv), and no run is left when its walk has ended.                  *)
(***************************************************************************)
EXTENDS Iterator, NodeTreeProofs

-----------------------------------------------------------------------------
(* Events, and what is left of a walk. *)

Lf(k, x) == k[x] \in LeafKind
Enter(x) == Event("enter", x)
Exit(x)  == Event("exit", x)
\* The last event of a node
Leaving(k, x) == IF Lf(k, x) THEN Enter(x) ELSE Exit(x)
Entering(k, e) == e.ev = "enter" /\ ~Lf(k, e.node)
EventsOf(k) == {Enter(x) : x \in LiveIn(k)} \cup {Exit(x) : x \in {y \in LiveIn(k) : ~Lf(k, y)}}

\* Following, before the end of the walk
Roll(t, k, e) ==
  IF Entering(k, e)
  THEN IF t.first[e.node] = NULL THEN Exit(e.node) ELSE Enter(t.first[e.node])
  ELSE IF t.next[e.node] # NULL THEN Enter(t.next[e.node]) ELSE Exit(t.parent[e.node])

Later(p, i, e) == \E j \in i + 1 .. Len(p) : p[j] = e

\* p has the events of a walk below r from some event on.
Downward(t, k, p) == \A i \in 1 .. Len(p) : Entering(k, p[i]) =>
                       /\ Later(p, i, Exit(p[i].node))
                       /\ \A y \in Node : t.parent[y] = p[i].node => Later(p, i, Enter(y))
Onward(t, k, p, r) == \A i \in 1 .. Len(p) :
                        ~Entering(k, p[i]) /\ p[i].node # r /\ t.next[p[i].node] # NULL =>
                          Later(p, i, Enter(t.next[p[i].node]))
Upward(t, p, r) == \A i \in 1 .. Len(p) : p[i].node # r =>
                     t.parent[p[i].node] # NULL /\ Later(p, i, Exit(t.parent[p[i].node]))
Rolling(t, k, p, r) == \A i \in 1 .. Len(p) - 1 :
                         p[i] # Leaving(k, r) /\ p[i + 1] = Roll(t, k, p[i])
Route(t, k, p, r) ==
  /\ p \in Seq(EventsOf(k))
  /\ Distinct(p)
  /\ Downward(t, k, p)
  /\ Onward(t, k, p, r)
  /\ Upward(t, p, r)
  /\ Rolling(t, k, p, r)
  /\ p # <<>> => p[Len(p)] = Leaving(k, r)

\* The walk has left c behind, which is not above its root.
Aside(t, p, r, c) ==
  /\ \A i \in 1 .. Len(p) : p[i].node # c
  /\ p # <<>> => ~Reaches(t, r, c)

LEMMA EventFields ==
  ASSUME NEW x
  PROVE  /\ Enter(x).ev = "enter" /\ Enter(x).node = x
         /\ Exit(x).ev = "exit" /\ Exit(x).node = x
         /\ \A k : Leaving(k, x).node = x /\ ~Entering(k, Leaving(k, x))
         /\ \A k : ~Lf(k, x) => Entering(k, Enter(x)) /\ Leaving(k, x) = Exit(x)
BY DEF Enter, Exit, Event, Leaving, Entering

LEMMA EventIs ==
  ASSUME NEW k, NEW e \in EventsOf(k)
  PROVE  /\ e.node \in LiveIn(k) /\ e.node \in Node
         /\ Entering(k, e) => e = Enter(e.node) /\ ~Lf(k, e.node)
         /\ ~Entering(k, e) => e = Leaving(k, e.node)
         /\ e.ev \in {"enter", "exit"}
         /\ e = Exit(e.node) \/ e = Enter(e.node)
         /\ e.ev = "exit" => e = Exit(e.node) /\ ~Lf(k, e.node)
<1>1. CASE \E x \in LiveIn(k) : e = Enter(x)
  <2>1. PICK x \in LiveIn(k) : e = Enter(x)
    BY <1>1
  <2> QED BY <2>1, EventFields DEF Entering, Leaving, LiveIn
<1>2. CASE \E x \in LiveIn(k) : e = Exit(x) /\ ~Lf(k, x)
  <2>1. PICK x \in LiveIn(k) : e = Exit(x) /\ ~Lf(k, x)
    BY <1>2
  <2> QED BY <2>1, EventFields DEF Entering, Leaving, LiveIn
<1> QED BY <1>1, <1>2 DEF EventsOf

LEMMA RouteEvents ==
  ASSUME NEW t, NEW k, NEW p, NEW r, Route(t, k, p, r)
  PROVE  /\ Len(p) \in Nat
         /\ p # <<>> => Len(p) \in 1 .. Len(p) /\ Len(p) # 0
         /\ \A i \in 1 .. Len(p) : p[i] \in EventsOf(k)
<1>1. p \in Seq(EventsOf(k))
  BY DEF Route
<1> QED BY <1>1, EmptySeq

\* Every node on the way is left later on.
LEMMA LeavesLater ==
  ASSUME NEW t, NEW k, NEW p, NEW r, Route(t, k, p, r), NEW i \in 1 .. Len(p)
  PROVE  \E j \in i .. Len(p) : p[j] = Leaving(k, p[i].node)
<1>1. p[i] \in EventsOf(k) /\ Len(p) \in Nat
  BY RouteEvents
<1>2. CASE Entering(k, p[i])
  <2>1. Later(p, i, Exit(p[i].node)) /\ Leaving(k, p[i].node) = Exit(p[i].node)
    BY <1>1, <1>2, EventIs, EventFields DEF Route, Downward
  <2> QED BY <1>1, <2>1 DEF Later
<1>3. CASE ~Entering(k, p[i])
  BY <1>1, <1>3, EventIs
<1> QED BY <1>2, <1>3

\* The rest of a walk from a later event on.
LEMMA Remainder ==
  ASSUME NEW t, NEW k, NEW p, NEW r, Route(t, k, p, r), NEW m \in 1 .. Len(p)
  PROVE  LET q == SubSeq(p, m + 1, Len(p)) IN
         /\ Route(t, k, q, r)
         /\ Len(q) = Len(p) - m
         /\ \A i \in 1 .. Len(q) : q[i] = p[m + i]
<1> DEFINE q == SubSeq(p, m + 1, Len(p))
<1>1. p \in Seq(EventsOf(k)) /\ Len(p) \in Nat /\ m \in Nat
  BY RouteEvents DEF Route
<1>2. /\ q \in Seq(EventsOf(k)) /\ Len(q) = Len(p) - (m + 1) + 1
      /\ \A i \in 1 .. Len(p) - (m + 1) + 1 : q[i] = p[m + 1 + i - 1]
  <2>1. m + 1 \in 1 .. Len(p) + 1 /\ Len(p) \in 0 .. Len(p) /\ m + 1 <= Len(p) + 1
    BY <1>1
  <2> QED BY <1>1, <2>1, PartIs
<1> HIDE DEF q
<1>3. Len(q) = Len(p) - m /\ Len(q) \in Nat
  BY <1>1, <1>2
<1>4. \A i \in 1 .. Len(q) : q[i] = p[m + i] /\ m + i \in 1 .. Len(p) /\ i \in Nat
  <2> TAKE i \in 1 .. Len(q)
  <2>1. i \in Nat /\ m + 1 + i - 1 = m + i /\ m + i \in 1 .. Len(p)
    BY <1>1, <1>3
  <2>2. i \in 1 .. Len(p) - (m + 1) + 1
    BY <1>1, <1>3
  <2> QED BY <1>2, <2>1, <2>2
<1>5. ASSUME NEW i \in 1 .. Len(q), NEW e, Later(p, m + i, e)
      PROVE  Later(q, i, e)
  <2>1. PICK j \in m + i + 1 .. Len(p) : p[j] = e
    BY <1>5 DEF Later
  <2>2. j - m \in i + 1 .. Len(q) /\ j - m \in 1 .. Len(q) /\ m + (j - m) = j
    BY <1>1, <1>3, <1>4
  <2>3. q[j - m] = e
    BY <1>4, <2>1, <2>2
  <2> QED BY <2>2, <2>3 DEF Later
<1>6. Distinct(q)
  <2> SUFFICES ASSUME NEW i \in 1 .. Len(q), NEW j \in 1 .. Len(q), q[i] = q[j]
               PROVE  i = j
    BY DEF Distinct
  <2>1. m + i = m + j
    BY <1>4 DEF Route, Distinct
  <2> QED BY <1>1, <1>4, <2>1
<1>7. Downward(t, k, q) /\ Onward(t, k, q, r) /\ Upward(t, q, r)
  BY <1>4, <1>5 DEF Route, Downward, Onward, Upward
<1>8. Rolling(t, k, q, r)
  <2> SUFFICES ASSUME NEW i \in 1 .. Len(q) - 1
               PROVE  q[i] # Leaving(k, r) /\ q[i + 1] = Roll(t, k, q[i])
    BY DEF Rolling
  <2>1. i \in 1 .. Len(q) /\ i + 1 \in 1 .. Len(q) /\ m + i \in 1 .. Len(p) - 1
        /\ m + (i + 1) = m + i + 1
    BY <1>1, <1>3
  <2>2. q[i] = p[m + i] /\ q[i + 1] = p[m + i + 1]
    BY <1>4, <2>1
  <2> QED BY <2>1, <2>2 DEF Route, Rolling
<1>9. q # <<>> => q[Len(q)] = Leaving(k, r)
  <2>1. q # <<>> => Len(q) \in 1 .. Len(q) /\ m + Len(q) = Len(p) /\ p # <<>>
    BY <1>1, <1>2, <1>3, EmptySeq
  <2> QED BY <1>4, <2>1 DEF Route
<1> QED BY <1>2, <1>3, <1>4, <1>6, <1>7, <1>8, <1>9 DEF Route, q

-----------------------------------------------------------------------------
(* Where a walk is in the tree. *)

\* Above r there is nothing that is below it.
LEMMA Antisymmetric ==
  ASSUME NEW t \in Links, NoCycle(t), NEW a \in Node, NEW b \in Node,
         Reaches(t, a, b), Reaches(t, b, a)
  PROVE  a = b
<1> SUFFICES ASSUME a # b
             PROVE  FALSE
  OBVIOUS
<1>1. a \in Subtree(t, b) /\ b \in Subtree(t, a)
  BY DEF Subtree
<1>2. t.parent[a] \in Subtree(t, b)
  BY <1>1, SubtreeClosed
<1>3. t.parent[a] \in Node /\ Reaches(t, t.parent[a], b)
  BY <1>2 DEF Subtree
<1>4. Reaches(t, t.parent[a], a)
  <2> SUFFICES ASSUME NEW S \in SUBSET Node, t.parent[a] \in S, UpClosed(t, S)
               PROVE  a \in S
    BY DEF Reaches
  <2>1. b \in S
    BY <1>3 DEF Reaches
  <2> QED BY <2>1 DEF Reaches
<1>5. t.parent[a] # NULL
  BY <1>3, NullAssumption
<1> QED BY <1>4, <1>5 DEF NoCycle

\* The nodes of a walk, and what is above them, up to its root and beyond
LEMMA Above ==
  ASSUME NEW t, NEW k, Good(t, k), NEW p, NEW r, Route(t, k, p, r), NEW i \in 1 .. Len(p)
  PROVE  /\ r \in LiveIn(k) /\ r \in Node
         /\ Reaches(t, p[i].node, r)
         /\ \A x \in Node : Reaches(t, p[i].node, x) =>
              Reaches(t, r, x) \/ \E j \in 1 .. Len(p) : p[j].node = x
<1> DEFINE A == {p[j].node : j \in 1 .. Len(p)}
<1>1. t \in Links /\ NoCycle(t)
  BY DEF Good
<1>2. Len(p) \in Nat /\ \A j \in 1 .. Len(p) : p[j] \in EventsOf(k) /\ p[j].node \in LiveIn(k)
  BY RouteEvents, EventIs
<1>3. p # <<>> /\ Len(p) \in 1 .. Len(p) /\ p[Len(p)] = Leaving(k, r)
  <2>1. p # <<>>
    <3>1. p = <<>> => Len(p) = 0
      OBVIOUS
    <3> QED BY <1>2, <3>1
  <2> QED BY <2>1, RouteEvents DEF Route
<1>4. r \in A /\ A \subseteq LiveIn(k) /\ r \in LiveIn(k) /\ LiveIn(k) \subseteq Node
  <2>1. Leaving(k, r).node = r
    BY EventFields
  <2> QED BY <1>2, <1>3, <2>1 DEF LiveIn
<1>5. \A x \in A : x # r => t.parent[x] \in A
  <2> SUFFICES ASSUME NEW j \in 1 .. Len(p), p[j].node # r
               PROVE  t.parent[p[j].node] \in A
    OBVIOUS
  <2>1. PICK h \in j + 1 .. Len(p) : p[h] = Exit(t.parent[p[j].node])
    BY DEF Route, Upward, Later
  <2>2. h \in 1 .. Len(p)
    BY <1>2
  <2> QED BY <2>1, <2>2, EventFields
<1>6. Anc(t, r) \subseteq Node /\ UpClosed(t, Anc(t, r)) /\ r \in Anc(t, r)
  BY <1>1, <1>4, AncLeast DEF Anc
<1>7. UpClosed(t, A \cup Anc(t, r))
  BY <1>5, <1>6 DEF UpClosed
<1>8. \A x \in Node : Reaches(t, p[i].node, x) => x \in A \cup Anc(t, r)
  <2>1. p[i].node \in A \cup Anc(t, r) /\ A \cup Anc(t, r) \in SUBSET Node
    BY <1>4, <1>6
  <2> QED BY <1>7, <2>1 DEF Reaches
<1>9. \A x \in A \cup Anc(t, r) : Reaches(t, r, x) \/ \E j \in 1 .. Len(p) : p[j].node = x
  BY DEF Anc
<1>10. Reaches(t, p[i].node, r)
  <2> SUFFICES ASSUME NEW S \in SUBSET Node, p[i].node \in S, UpClosed(t, S), r \notin S
               PROVE  FALSE
    BY DEF Reaches
  <2> DEFINE T == {Len(p) - j : j \in {h \in 1 .. Len(p) : p[h].node \in S}}
  <2>1. T \subseteq Nat /\ T # {}
    BY <1>2
  <2>2. PICK m \in T : \A h \in T : m <= h
    BY <2>1, Least
  <2>3. PICK j \in 1 .. Len(p) : m = Len(p) - j /\ p[j].node \in S
    BY <2>2
  <2>4. /\ t.parent[p[j].node] # NULL
        /\ \E h \in j + 1 .. Len(p) : p[h] = Exit(t.parent[p[j].node])
    BY <2>3 DEF Route, Upward, Later
  <2>5. PICK h \in j + 1 .. Len(p) : p[h] = Exit(t.parent[p[j].node])
    BY <2>4
  <2>6. p[h].node \in S
    <3>1. t.parent[p[j].node] \in S
      BY <2>3, <2>4 DEF UpClosed
    <3> QED BY <2>5, <3>1, EventFields
  <2>7. h \in 1 .. Len(p) /\ j < h
    BY <1>2
  <2>8. Len(p) - h \in T
    BY <2>6, <2>7
  <2>9. Len(p) - j <= Len(p) - h
    BY <2>2, <2>3, <2>8
  <2> QED BY <1>2, <2>7, <2>9
<1> QED BY <1>4, <1>8, <1>9, <1>10

\* What was left does not come again, and nothing below it does.
LEMMA LeftBehind ==
  ASSUME NEW t, NEW k, Good(t, k), NEW p, NEW r, Route(t, k, p, r),
         NEW m \in 1 .. Len(p), ~Entering(k, p[m])
  PROVE  Aside(t, SubSeq(p, m + 1, Len(p)), r, p[m].node)
<1> DEFINE q == SubSeq(p, m + 1, Len(p))
           c == p[m].node
<1>1. /\ Len(p) \in Nat /\ m \in Nat /\ p[m] \in EventsOf(k) /\ p[m] = Leaving(k, c)
      /\ c \in Node
  BY RouteEvents, EventIs
<1>2. Len(q) = Len(p) - m /\ \A i \in 1 .. Len(q) : q[i] = p[m + i]
  BY Remainder
<1> HIDE DEF q
<1>3. ASSUME NEW i \in 1 .. Len(q), q[i].node = c
      PROVE  FALSE
  <2>1. m + i \in 1 .. Len(p) /\ p[m + i].node = c /\ i \in Nat /\ i > 0
    BY <1>1, <1>2, <1>3
  <2>2. PICK j \in m + i .. Len(p) : p[j] = Leaving(k, c)
    BY <2>1, LeavesLater
  <2>3. j \in 1 .. Len(p) /\ j # m
    BY <1>1, <2>1
  <2> QED BY <1>1, <2>2, <2>3 DEF Route, Distinct
<1>4. ASSUME q # <<>>, Reaches(t, r, c)
      PROVE  FALSE
  <2>1. m \in 1 .. Len(p) - 1
    <3>1. q \in Seq(EventsOf(k))
      BY Remainder DEF Route, q
    <3>2. Len(q) # 0 /\ Len(q) \in Nat
      BY <1>4, <3>1, EmptySeq
    <3> QED BY <1>1, <1>2, <3>2
  <2>2. p[m] # Leaving(k, r)
    BY <2>1 DEF Route, Rolling
  <2>3. Reaches(t, c, r) /\ r \in Node
    BY Above
  <2>4. c = r
    BY <1>1, <1>4, <2>3, Antisymmetric DEF Good
  <2> QED BY <1>1, <2>2, <2>4
<1> QED BY <1>3, <1>4 DEF Aside, q

\* Nothing that a walk goes through is below a node it has left behind.
LEMMA NothingBelow ==
  ASSUME NEW t, NEW k, Good(t, k), NEW p, NEW r, Route(t, k, p, r), NEW c \in Node, Aside(t, p, r, c),
         NEW i \in 1 .. Len(p)
  PROVE  ~Reaches(t, p[i].node, c)
<1>1. p # <<>>
  <2>1. Len(p) \in Nat /\ (p = <<>> => Len(p) = 0)
    BY RouteEvents
  <2> QED BY <2>1
<1> QED BY <1>1, Above DEF Aside

-----------------------------------------------------------------------------
(* Changes of the tree that a walk does not notice. *)

\* The pointers t and types k were changed into u and j.
Unnoticed(t, k, u, j, p, r) == \A i \in 1 .. Len(p) :
  LET x == p[i].node IN
  /\ j[x] = k[x]
  /\ x # r => u.parent[x] = t.parent[x] /\ u.next[x] = t.next[x]
  /\ Entering(k, p[i]) => /\ u.first[x] = t.first[x]
                          /\ \A y \in Node : u.parent[y] = x => t.parent[y] = x

LEMMA RouteStays ==
  ASSUME NEW t, NEW k, NEW u, NEW j, NEW p, NEW r, Route(t, k, p, r), Unnoticed(t, k, u, j, p, r)
  PROVE  Route(u, j, p, r)
<1>1. /\ Len(p) \in Nat /\ p \in Seq(EventsOf(k))
      /\ \A i \in 1 .. Len(p) : p[i] \in EventsOf(k)
  BY RouteEvents DEF Route
<1>2. \A i \in 1 .. Len(p) : LET x == p[i].node IN
        /\ Lf(j, x) = Lf(k, x) /\ Leaving(j, x) = Leaving(k, x)
        /\ Entering(j, p[i]) = Entering(k, p[i])
        /\ x \in LiveIn(k) => x \in LiveIn(j)
  BY DEF Unnoticed, Lf, Leaving, Entering, LiveIn
<1>3. \A i \in 1 .. Len(p) : p[i] \in EventsOf(j)
  <2> TAKE i \in 1 .. Len(p)
  <2> DEFINE x == p[i].node
  <2>1. x \in LiveIn(j) /\ Lf(j, x) = Lf(k, x)
    BY <1>1, <1>2, EventIs
  <2>2. p[i] = Enter(x) \/ (p[i] = Exit(x) /\ ~Lf(k, x))
    BY <1>1, EventIs, EventFields
  <2> QED BY <2>1, <2>2 DEF EventsOf
<1>4. p \in Seq(EventsOf(j))
  <2>1. p = [i \in 1 .. Len(p) |-> p[i]]
    BY <1>1
  <2> QED BY <1>1, <1>3, <2>1
<1>5. Downward(u, j, p)
  BY <1>2 DEF Route, Downward, Unnoticed
<1>6. Onward(u, j, p, r) /\ Upward(u, p, r)
  BY <1>2 DEF Route, Onward, Upward, Unnoticed
<1>7. p # <<>> => Leaving(j, r) = Leaving(k, r)
  <2> SUFFICES ASSUME p # <<>>
               PROVE  Leaving(j, r) = Leaving(k, r)
    OBVIOUS
  <2>1. Len(p) \in 1 .. Len(p) /\ p[Len(p)] = Leaving(k, r)
    BY RouteEvents DEF Route
  <2>2. p[Len(p)].node = r
    <3>1. Leaving(k, r).node = r
      BY EventFields
    <3> QED BY <2>1, <3>1
  <2> QED BY <1>2, <2>1, <2>2
<1>8. Rolling(u, j, p, r)
  <2> SUFFICES ASSUME NEW i \in 1 .. Len(p) - 1
               PROVE  p[i] # Leaving(j, r) /\ p[i + 1] = Roll(u, j, p[i])
    BY DEF Rolling
  <2>1. i \in 1 .. Len(p) /\ p # <<>>
    BY <1>1
  <2>2. p[i] # Leaving(k, r) /\ p[i + 1] = Roll(t, k, p[i])
    BY DEF Route, Rolling
  <2>3. CASE Entering(k, p[i])
    BY <1>2, <2>1, <2>2, <2>3, <1>7 DEF Roll, Unnoticed
  <2>4. CASE ~Entering(k, p[i])
    <3>1. p[i].node # r
      BY <1>1, <2>1, <2>2, <2>4, EventIs
    <3> QED BY <1>2, <2>1, <2>2, <2>4, <1>7, <3>1 DEF Roll, Unnoticed
  <2> QED BY <2>3, <2>4
<1> QED BY <1>4, <1>5, <1>6, <1>7, <1>8 DEF Route

\* What leads from a node on the way comes later, so it is none that was left.
LEMMA Neighbours ==
  ASSUME NEW t, NEW k, NEW p, NEW r, Route(t, k, p, r), NEW c \in Node, Aside(t, p, r, c),
         NEW i \in 1 .. Len(p)
  PROVE  /\ p[i].node # c
         /\ Entering(k, p[i]) => t.parent[c] # p[i].node
         /\ p[i].node # r => t.next[p[i].node] # c /\ t.parent[p[i].node] # c
<1>1. Len(p) \in Nat /\ p[i] \in EventsOf(k)
  BY RouteEvents
<1>2. p[i].node # c
  BY DEF Aside
<1>3. ASSUME NEW h \in 1 .. Len(p), NEW e, e.node = c
      PROVE  ~Later(p, h, e)
  <2> SUFFICES ASSUME NEW m \in h + 1 .. Len(p), p[m] = e
               PROVE  FALSE
    BY DEF Later
  <2>1. m \in 1 .. Len(p)
    BY <1>1
  <2> QED BY <1>3, <2>1 DEF Aside
<1>4. Entering(k, p[i]) => t.parent[c] # p[i].node
  BY <1>3, EventFields DEF Route, Downward
<1>5. p[i].node # r => t.parent[p[i].node] # c
  BY <1>3, EventFields DEF Route, Upward
<1>6. p[i].node # r => t.next[p[i].node] # c
  <2> SUFFICES ASSUME p[i].node # r, t.next[p[i].node] = c
               PROVE  FALSE
    OBVIOUS
  <2>1. PICK h \in i .. Len(p) : p[h] = Leaving(k, p[i].node)
    BY LeavesLater
  <2>2. h \in 1 .. Len(p) /\ p[h].node = p[i].node /\ ~Entering(k, p[h])
    <3>1. /\ Leaving(k, p[i].node).node = p[i].node
          /\ ~Entering(k, Leaving(k, p[i].node))
      BY EventFields
    <3> QED BY <1>1, <2>1, <3>1
  <2>3. c # NULL
    BY NullAssumption
  <2>4. Later(p, h, Enter(c))
    BY <2>2, <2>3, <2>1 DEF Route, Onward
  <2> QED BY <1>3, <2>2, <2>4, EventFields
<1> QED BY <1>2, <1>4, <1>5, <1>6

\* No new way up from r
LEMMA StillAside ==
  ASSUME NEW t \in Links, NEW u \in Links, NEW p, NEW r \in Node, NEW c, Aside(t, p, r, c),
         \A x \in Node : Reaches(t, r, x) => u.parent[x] = NULL \/ u.parent[x] = t.parent[x]
  PROVE  Aside(u, p, r, c)
<1>1. Anc(t, r) \in SUBSET Node /\ r \in Anc(t, r) /\ UpClosed(t, Anc(t, r))
  BY AncLeast DEF Anc
<1>2. UpClosed(u, Anc(t, r))
  BY <1>1 DEF UpClosed, Anc
<1>3. Reaches(u, r, c) => Reaches(t, r, c)
  <2>1. Reaches(u, r, c) => c \in Anc(t, r)
    BY <1>1, <1>2 DEF Reaches
  <2> QED BY <2>1 DEF Anc
<1> QED BY <1>3 DEF Aside

\* Unlinking a node that was left
LEMMA CutUnnoticed ==
  ASSUME NEW t, NEW k, Good(t, k), NEW p, NEW r \in Node, Route(t, k, p, r),
         NEW c \in Node, Aside(t, p, r, c)
  PROVE  Route(Cut(t, c), k, p, r) /\ Aside(Cut(t, c), p, r, c)
<1> DEFINE u == Cut(t, c)
<1>1. t \in Links /\ u \in Links /\ Consistent(t) /\ CutEffect(t, u, c)
  BY CutType, CutFields DEF Good
<1> HIDE DEF u
<1>2. \A i \in 1 .. Len(p) : p[i].node \in Node
  BY RouteEvents, EventIs
<1>3. Unnoticed(t, k, u, k, p, r)
  <2> SUFFICES ASSUME NEW i \in 1 .. Len(p), NEW x \in Node, x = p[i].node
               PROVE  /\ x # r => u.parent[x] = t.parent[x] /\ u.next[x] = t.next[x]
                      /\ Entering(k, p[i]) => /\ u.first[x] = t.first[x]
                                              /\ \A y \in Node : u.parent[y] = x => t.parent[y] = x
    BY <1>2 DEF Unnoticed
  <2>1. /\ x # c
        /\ Entering(k, p[i]) => t.parent[c] # x
        /\ x # r => t.next[x] # c /\ t.parent[x] # c
    BY Neighbours
  <2>2. x # r => u.parent[x] = t.parent[x] /\ u.next[x] = t.next[x]
    <3>1. x = t.prev[c] => t.next[x] = c
      BY <1>1, NullAssumption DEF Consistent, PrevBack
    <3> QED BY <1>1, <2>1, <3>1 DEF CutEffect
  <2>3. Entering(k, p[i]) => u.first[x] = t.first[x]
    BY <1>1, <2>1 DEF CutEffect
  <2>4. \A y \in Node : u.parent[y] = x => t.parent[y] = x
    BY <1>1, NullAssumption DEF CutEffect
  <2> QED BY <2>2, <2>3, <2>4
<1>4. Route(u, k, p, r)
  BY <1>3, RouteStays
<1>5. Aside(u, p, r, c)
  BY <1>1, StillAside DEF CutEffect
<1> QED BY <1>4, <1>5 DEF u

\* Putting a node where the walk has been
LEMMA PlaceUnnoticed ==
  ASSUME NEW t, NEW k, Good(t, k), NEW p, NEW r \in Node, Route(t, k, p, r),
         NEW c \in Node, Aside(t, p, r, c),
         NEW n \in Node, t.parent[n] = NULL, ~Reaches(t, r, n),
         NEW q \in Node, \A i \in 1 .. Len(p) : Entering(k, p[i]) => p[i].node # q,
         NEW b \in Ptr, \A i \in 1 .. Len(p) : p[i].node # r => p[i].node # b, NEW a \in Ptr
  PROVE  LET u == Place(Detach(t, n), n, q, b, a) IN
         Route(u, k, p, r) /\ Aside(u, p, r, c)
<1> DEFINE v == Cut(t, n)
           u == Place(v, n, q, b, a)
<1>1. /\ t \in Links /\ v \in Links /\ Consistent(t) /\ CutEffect(t, v, n)
      /\ Place(Detach(t, n), n, q, b, a) = u
  BY CutType, CutFields, PlaceAfterDetach DEF Good
<1>2. u \in Links /\ PlaceEffect(v, u, n, q, b, a)
  BY <1>1, PlaceType, PlaceFields
<1> HIDE DEF u, v
<1>3. \A i \in 1 .. Len(p) : p[i].node \in Node /\ Reaches(t, p[i].node, r)
  BY RouteEvents, EventIs, Above
<1>4. \A i \in 1 .. Len(p) : p[i].node # n
  <2> SUFFICES ASSUME NEW i \in 1 .. Len(p), p[i].node = n
               PROVE  FALSE
    OBVIOUS
  <2>1. CASE n = r
    BY <2>1 DEF Reaches
  <2>2. CASE n # r
    BY <2>2 DEF Route, Upward
  <2> QED BY <2>1, <2>2
<1>5. t.next[n] = NULL /\ t.prev[n] = NULL
  BY <1>1 DEF Consistent, RootsAlone
<1>6. \A x \in Node : x # n => /\ u.parent[x] = t.parent[x]
                               /\ x # b => u.next[x] = t.next[x]
                               /\ x # q => u.first[x] = t.first[x]
  <2> TAKE x \in Node
  <2>1. /\ v.parent[x] = IF x = n THEN NULL ELSE t.parent[x]
        /\ x # n => v.next[x] = t.next[x]
        /\ v.first[x] = t.first[x]
    BY <1>1, <1>5, NullAssumption DEF CutEffect
  <2> QED BY <1>2, <2>1 DEF PlaceEffect
<1>7. u.parent[n] = q
  BY <1>2 DEF PlaceEffect
<1>8. Unnoticed(t, k, u, k, p, r)
  <2> SUFFICES ASSUME NEW i \in 1 .. Len(p), NEW x \in Node, x = p[i].node
               PROVE  /\ x # r => u.parent[x] = t.parent[x] /\ u.next[x] = t.next[x]
                      /\ Entering(k, p[i]) => /\ u.first[x] = t.first[x]
                                              /\ \A y \in Node : u.parent[y] = x => t.parent[y] = x
    BY <1>3 DEF Unnoticed
  <2>1. x # n /\ (x # r => x # b) /\ (Entering(k, p[i]) => x # q)
    BY <1>4
  <2> QED BY <1>6, <1>7, <2>1
<1>9. Route(u, k, p, r)
  BY <1>8, RouteStays
<1>10. Aside(u, p, r, c)
  <2>1. \A x \in Node : Reaches(t, r, x) => u.parent[x] = NULL \/ u.parent[x] = t.parent[x]
    BY <1>6
  <2> QED BY <1>1, <1>2, <2>1, StillAside
<1> QED BY <1>1, <1>9, <1>10

\* Freeing a node that was left
LEMMA FreeUnnoticed ==
  ASSUME NEW t, NEW k, Good(t, k), NEW p, NEW r \in Node, Route(t, k, p, r),
         NEW c \in Node, Aside(t, p, r, c)
  PROVE  LET D == Subtree(t, c) IN
         Route(Clear(Cut(t, c), D), [m \in Node |-> IF m \in D THEN "free" ELSE k[m]], p, r)
<1> DEFINE D == Subtree(t, c)
           v == Cut(t, c)
           u == Clear(v, D)
           j == [m \in Node |-> IF m \in D THEN "free" ELSE k[m]]
<1>1. v \in Links /\ Route(v, k, p, r)
  BY CutType, CutUnnoticed DEF Good
<1> HIDE DEF v
<1>2. \A x \in Node : /\ u.next[x]   = IF x \in D THEN NULL ELSE v.next[x]
                      /\ u.parent[x] = IF x \in D THEN NULL ELSE v.parent[x]
                      /\ u.first[x]  = IF x \in D THEN NULL ELSE v.first[x]
  BY <1>1, ClearFields
<1> HIDE DEF u
<1>3. \A i \in 1 .. Len(p) : p[i].node \in Node /\ p[i].node \notin D
  <2> TAKE i \in 1 .. Len(p)
  <2>1. p[i].node \in Node
    BY RouteEvents, EventIs
  <2>2. ~Reaches(t, p[i].node, c)
    BY NothingBelow
  <2> QED BY <2>1, <2>2 DEF Subtree
<1>4. \A i \in 1 .. Len(p) : j[p[i].node] = k[p[i].node]
  BY <1>3
<1> HIDE DEF j, D
<1>5. Unnoticed(v, k, u, j, p, r)
  BY <1>2, <1>3, <1>4, NullAssumption DEF Unnoticed
<1>6. Route(u, j, p, r)
  BY <1>1, <1>5, RouteStays
<1> QED BY <1>6 DEF u, v, j, D

-----------------------------------------------------------------------------
(* The inductive invariant. *)

\* What the iterator gives next begins what is left of the walk.
Walking == user # "nobody" =>
             /\ iter.root \in Node
             /\ Route(links, kind, plan, iter.root)
             /\ iter.next = IF plan = <<>> THEN End ELSE plan[1]

\* The node that a program may modify was left by the walk; one that it
\* may skip is still to be left.
Handing == held =>
             /\ user = "program"
             /\ iter.cur.node \in Live
             /\ ~Entering(kind, iter.cur) => Aside(links, plan, iter.root, iter.cur.node)
             /\ Entering(kind, iter.cur) => \E i \in 1 .. Len(plan) : plan[i] = Exit(iter.cur.node)

\* The iterator moves on to each node before it is merged.
Merging == user = "merge" =>
             /\ tmp \in Ptr
             /\ plan # <<>> /\ IsText(tmp) => plan[1] = Enter(tmp)

IterInv ==
  /\ Shape
  /\ iter = [root |-> iter.root, cur |-> iter.cur, next |-> iter.next]
  /\ user = "nobody" => iter.next = Nothing
  /\ Walking /\ Handing /\ Merging

LEMMA InitIterInv == IterInit => IterInv
<1> SUFFICES ASSUME IterInit
             PROVE  IterInv
  OBVIOUS
<1>1. Shape
  BY ShapeInit DEF IterInit
<1> QED BY <1>1 DEF IterInit, IterInv, Walking, Handing, Merging

LEMMA IterFacts ==
  ASSUME IterInv
  PROVE  /\ Good(links, kind) /\ links \in Links
         /\ \A x : Leaf(x) <=> Lf(kind, x)
         /\ Live = LiveIn(kind) /\ Live \subseteq Node
BY DEF IterInv, Shape, IInv, Good, Leaf, Lf, Live, LiveIn

\* The iterator follows the walk.
LEMMA FollowingIs ==
  ASSUME NEW p, NEW i, Route(links, kind, p, i.root), NEW m \in 1 .. Len(p)
  PROVE  Following(i, p[m].ev, p[m].node) = IF m = Len(p) THEN End ELSE p[m + 1]
<1> DEFINE e == p[m]
           x == e.node
<1>1. Len(p) \in Nat /\ p # <<>> /\ e \in EventsOf(kind)
  <2>1. p = <<>> => Len(p) = 0
    OBVIOUS
  <2> QED BY <2>1, RouteEvents
<1>2. /\ Entering(kind, e) => e = Enter(x)
      /\ ~Entering(kind, e) => e = Leaving(kind, x)
      /\ Entering(kind, e) <=> e.ev = "enter" /\ ~Leaf(x)
  BY <1>1, EventIs DEF Entering, Leaf, Lf
<1>3. ~Entering(kind, Leaving(kind, i.root)) /\ Leaving(kind, i.root).node = i.root
  BY EventFields
<1>4. CASE m = Len(p)
  <2>1. e = Leaving(kind, i.root)
    BY <1>1, <1>4 DEF Route
  <2> QED BY <1>2, <1>3, <1>4, <2>1 DEF Following
<1>5. CASE m # Len(p)
  <2>1. m \in 1 .. Len(p) - 1
    BY <1>1, <1>5
  <2>2. e # Leaving(kind, i.root) /\ p[m + 1] = Roll(links, kind, e)
    BY <2>1 DEF Route, Rolling
  <2>3. CASE Entering(kind, e)
    BY <1>2, <1>5, <2>2, <2>3 DEF Following, Roll, Enter, Exit
  <2>4. CASE ~Entering(kind, e)
    <3>1. x # i.root
      BY <1>2, <2>2, <2>4
    <3>2. links.parent[x] # NULL
      BY <3>1 DEF Route, Upward
    <3> QED BY <1>2, <1>5, <2>2, <2>4, <3>1, <3>2 DEF Following, Roll, Enter, Exit
  <2> QED BY <2>3, <2>4
<1> QED BY <1>4, <1>5

\* A call of cmark_iter_next
Moved == /\ iter' = [root |-> iter.root, cur |-> iter'.cur, next |-> iter'.next]
         /\ iter'.root = iter.root
         /\ Route(links, kind, plan', iter.root)
         /\ iter'.next = IF plan' = <<>> THEN End ELSE plan'[1]

LEMMA TailIs ==
  ASSUME NEW S, NEW p \in Seq(S), p # <<>>
  PROVE  Tail(p) = SubSeq(p, 1 + 1, Len(p))
<1>1. Len(p) \in Nat /\ Len(p) # 0
  BY EmptySeq
<1>2. Tail(p) \in Seq(S) /\ Len(Tail(p)) = Len(p) - 1 /\ \A i \in 1 .. Len(p) - 1 : Tail(p)[i] = p[i + 1]
  BY <1>1, HeadTailProperties
<1> DEFINE q == SubSeq(p, 1 + 1, Len(p))
<1>3. /\ q \in Seq(S) /\ Len(q) = Len(p) - (1 + 1) + 1
      /\ \A i \in 1 .. Len(p) - (1 + 1) + 1 : q[i] = p[1 + 1 + i - 1]
  <2>1. 1 + 1 \in 1 .. Len(p) + 1 /\ Len(p) \in 0 .. Len(p) /\ 1 + 1 <= Len(p) + 1
    BY <1>1
  <2> QED BY <2>1, PartIs
<1> HIDE DEF q
<1>4. \A i \in 1 .. Len(p) - 1 : q[i] = p[i + 1]
  <2> TAKE i \in 1 .. Len(p) - 1
  <2>1. 1 + 1 + i - 1 = i + 1 /\ i \in 1 .. Len(p) - (1 + 1) + 1
    BY <1>1
  <2> QED BY <1>3, <2>1
<1>5. Len(q) = Len(p) - 1
  BY <1>1, <1>3
<1>6. q = Tail(p)
  BY <1>2, <1>3, <1>4, <1>5, SeqEqual
<1> QED BY <1>6 DEF q

LEMMA AdvanceMoves ==
  ASSUME IterInv, user # "nobody", Advance
  PROVE  /\ Moved
         /\ plan = <<>> => iter'.cur = End /\ plan' = <<>>
         /\ plan # <<>> =>
              /\ iter'.cur = plan[1] /\ plan[1] \in EventsOf(kind)
              /\ plan' = SubSeq(plan, 1 + 1, Len(plan))
              /\ \A i \in 1 .. Len(plan') : plan'[i] = plan[1 + i]
              /\ ~Entering(kind, plan[1]) => Aside(links, plan', iter.root, plan[1].node)
              /\ Entering(kind, plan[1]) => \E i \in 1 .. Len(plan') : plan'[i] = Exit(plan[1].node)
<1>1. /\ Route(links, kind, plan, iter.root)
      /\ iter.next = IF plan = <<>> THEN End ELSE plan[1]
      /\ iter = [root |-> iter.root, cur |-> iter.cur, next |-> iter.next]
  BY DEF IterInv, Walking
<1>2. /\ plan' = IF plan = <<>> THEN <<>> ELSE Tail(plan)
      /\ iter' = [root |-> iter.root, cur |-> iter.next,
                  next |-> IF iter.next.ev = "done" THEN iter.next
                           ELSE Following(iter, iter.next.ev, iter.next.node)]
  BY <1>1 DEF Advance, IterNext
<1>3. CASE plan = <<>>
  <2>1. iter.next = End /\ End.ev = "done"
    BY <1>1, <1>3 DEF End, Event
  <2> QED BY <1>1, <1>2, <1>3, <2>1 DEF Moved
<1>4. CASE plan # <<>>
  <2>1. Len(plan) \in Nat /\ 1 \in 1 .. Len(plan) /\ plan[1] \in EventsOf(kind)
    <3>1. Len(plan) \in Nat /\ Len(plan) # 0
      BY <1>1, <1>4, RouteEvents
    <3>2. 1 \in 1 .. Len(plan)
      BY <3>1
    <3> QED BY <1>1, <3>1, <3>2, RouteEvents
  <2>2. plan[1].ev # "done"
    BY <2>1, EventIs
  <2>3. plan' = SubSeq(plan, 1 + 1, Len(plan))
    BY <1>1, <1>2, <1>4, TailIs DEF Route
  <2>4. /\ Route(links, kind, plan', iter.root)
        /\ Len(plan') = Len(plan) - 1
        /\ \A i \in 1 .. Len(plan') : plan'[i] = plan[1 + i]
    <3>1. PICK m \in 1 .. Len(plan) : m = 1
      BY <2>1
    <3> DEFINE q == SubSeq(plan, m + 1, Len(plan))
    <3>2. /\ Route(links, kind, q, iter.root)
          /\ Len(q) = Len(plan) - m
          /\ \A i \in 1 .. Len(q) : q[i] = plan[m + i]
      BY <1>1, Remainder
    <3>3. plan' = q
      BY <2>3, <3>1
    <3> HIDE DEF q
    <3> QED BY <3>1, <3>2, <3>3
  <2>5. Following(iter, plan[1].ev, plan[1].node) = IF 1 = Len(plan) THEN End ELSE plan[1 + 1]
    BY <1>1, <2>1, FollowingIs
  <2>6. /\ plan' = <<>> <=> 1 = Len(plan)
        /\ plan' # <<>> => plan'[1] = plan[1 + 1]
    <3>1. plan' = <<>> <=> Len(plan') = 0
      BY <2>4, EmptySeq DEF Route
    <3>2. Len(plan') # 0 => 1 \in 1 .. Len(plan')
      BY <2>1, <2>4
    <3> QED BY <2>1, <2>4, <3>1, <3>2
  <2>7. ~Entering(kind, plan[1]) => Aside(links, plan', iter.root, plan[1].node)
    BY <1>1, <2>1, <2>3, LeftBehind, IterFacts
  <2>8. Entering(kind, plan[1]) => \E i \in 1 .. Len(plan') : plan'[i] = Exit(plan[1].node)
    <3> SUFFICES ASSUME Entering(kind, plan[1])
                 PROVE  \E i \in 1 .. Len(plan') : plan'[i] = Exit(plan[1].node)
      OBVIOUS
    <3>1. PICK j \in 1 + 1 .. Len(plan) : plan[j] = Exit(plan[1].node)
      BY <1>1, <2>1 DEF Route, Downward, Later
    <3>2. j - 1 \in 1 .. Len(plan') /\ 1 + (j - 1) = j
      BY <2>1, <2>4
    <3> QED BY <2>4, <3>1, <3>2
  <2> QED BY <1>1, <1>2, <1>4, <2>1, <2>2, <2>3, <2>4, <2>5, <2>6, <2>7, <2>8 DEF Moved
<1> QED BY <1>3, <1>4

\* The neighbours of other nodes are the same after a root was detached.
LEMMA RootDetached ==
  ASSUME NEW t \in Links, Consistent(t), NEW n \in Node, t.parent[n] = NULL, NEW x \in Node, x # n
  PROVE  LET d == Detach(t, n) IN
         /\ d.parent[x] = t.parent[x] /\ d.next[x] = t.next[x] /\ d.prev[x] = t.prev[x]
         /\ d.first[x] = t.first[x] /\ d.last[x] = t.last[x]
<1>1. t.next[n] = NULL /\ t.prev[n] = NULL
  BY DEF Consistent, RootsAlone
<1> DEFINE c == Cut(t, n)
<1>2. CutEffect(t, c, n)
  BY CutFields
<1>3. /\ Detach(t, n).parent[x] = t.parent[x]
      /\ Detach(t, n).next[x] = c.next[x] /\ Detach(t, n).prev[x] = c.prev[x]
      /\ Detach(t, n).first = c.first /\ Detach(t, n).last = c.last
  BY CutOthers
<1>4. /\ c.next[x] = t.next[x] /\ c.prev[x] = t.prev[x]
      /\ c.first[x] = t.first[x] /\ c.last[x] = t.last[x]
  <2> HIDE DEF c
  <2> QED BY <1>1, <1>2, NullAssumption DEF CutEffect
<1> QED BY <1>3, <1>4

\* The places next to a node that was left and below it, for a new node n
LEMMA InsertUnnoticed ==
  ASSUME NEW t, NEW k, Good(t, k), NEW p, NEW r \in Node, Route(t, k, p, r),
         NEW c \in Node, Aside(t, p, r, c),
         NEW n \in Node, n # c, t.parent[n] = NULL, ~Reaches(t, r, n)
  PROVE  /\ t.parent[c] # NULL => /\ Route(PlaceBefore(t, c, n), k, p, r)
                                  /\ Aside(PlaceBefore(t, c, n), p, r, c)
                                  /\ Route(PlaceAfter(t, c, n), k, p, r)
                                  /\ Aside(PlaceAfter(t, c, n), p, r, c)
         /\ Route(PlaceFirst(t, c, n), k, p, r) /\ Aside(PlaceFirst(t, c, n), p, r, c)
         /\ Route(PlaceLast(t, c, n), k, p, r) /\ Aside(PlaceLast(t, c, n), p, r, c)
<1> DEFINE d == Detach(t, n)
<1>1. /\ t \in Links /\ Consistent(t)
      /\ t.next[c] \in Ptr /\ t.prev[c] \in Ptr /\ t.parent[c] \in Ptr
      /\ t.first[c] \in Ptr /\ t.last[c] \in Ptr /\ NULL \in Ptr /\ c \in Ptr
  BY DEF Good, Links, Fields, Ptr
<1>2. /\ d.parent[c] = t.parent[c] /\ d.next[c] = t.next[c] /\ d.prev[c] = t.prev[c]
      /\ d.first[c] = t.first[c] /\ d.last[c] = t.last[c]
  BY <1>1, RootDetached
<1>3. \A i \in 1 .. Len(p) : p[i].node \in Node /\ p[i].node # NULL
  BY RouteEvents, EventIs, NullAssumption
<1>4. \A i \in 1 .. Len(p) :
        /\ p[i].node # c
        /\ Entering(k, p[i]) => t.parent[c] # p[i].node
        /\ p[i].node # r => t.next[p[i].node] # c /\ t.parent[p[i].node] # c
  BY Neighbours
<1>5. \A i \in 1 .. Len(p) : p[i].node # r => p[i].node # t.prev[c] /\ p[i].node # t.last[c]
  BY <1>1, <1>3, <1>4 DEF Consistent, PrevBack, LastBack
<1> HIDE DEF d
<1>6. ASSUME t.parent[c] # NULL
      PROVE  /\ Route(Place(d, n, t.parent[c], t.prev[c], c), k, p, r)
             /\ Aside(Place(d, n, t.parent[c], t.prev[c], c), p, r, c)
             /\ Route(Place(d, n, t.parent[c], c, t.next[c]), k, p, r)
             /\ Aside(Place(d, n, t.parent[c], c, t.next[c]), p, r, c)
  <2>1. PICK q \in Node : q = t.parent[c]
    BY <1>1, <1>6 DEF Ptr
  <2>2. PICK b \in Ptr, a \in Ptr : b = t.prev[c] /\ a = t.next[c]
    BY <1>1
  <2>3. \A i \in 1 .. Len(p) : Entering(k, p[i]) => p[i].node # q
    BY <1>4, <2>1
  <2>4. \A i \in 1 .. Len(p) : p[i].node # r => p[i].node # b
    BY <1>5, <2>2
  <2>5. \A i \in 1 .. Len(p) : p[i].node # r => p[i].node # c
    BY <1>4
  <2>6. Route(Place(d, n, q, b, c), k, p, r) /\ Aside(Place(d, n, q, b, c), p, r, c)
    BY <1>1, <2>3, <2>4, PlaceUnnoticed DEF d
  <2>7. Route(Place(d, n, q, c, a), k, p, r) /\ Aside(Place(d, n, q, c, a), p, r, c)
    BY <1>1, <2>3, <2>5, PlaceUnnoticed DEF d
  <2> QED BY <2>1, <2>2, <2>6, <2>7
<1>7. /\ Route(Place(d, n, c, NULL, t.first[c]), k, p, r)
      /\ Aside(Place(d, n, c, NULL, t.first[c]), p, r, c)
      /\ Route(Place(d, n, c, t.last[c], NULL), k, p, r)
      /\ Aside(Place(d, n, c, t.last[c], NULL), p, r, c)
  <2>1. PICK b \in Ptr, a \in Ptr, z \in Ptr : b = t.last[c] /\ a = t.first[c] /\ z = NULL
    BY <1>1
  <2>2. \A i \in 1 .. Len(p) : Entering(k, p[i]) => p[i].node # c
    BY <1>4
  <2>3. \A i \in 1 .. Len(p) : p[i].node # r => p[i].node # b
    BY <1>5, <2>1
  <2>4. \A i \in 1 .. Len(p) : p[i].node # r => p[i].node # z
    BY <1>3, <2>1
  <2>5. Route(Place(d, n, c, z, a), k, p, r) /\ Aside(Place(d, n, c, z, a), p, r, c)
    BY <2>2, <2>4, PlaceUnnoticed DEF d
  <2>6. Route(Place(d, n, c, b, z), k, p, r) /\ Aside(Place(d, n, c, b, z), p, r, c)
    BY <2>2, <2>3, PlaceUnnoticed DEF d
  <2> QED BY <2>1, <2>5, <2>6
<1> QED BY <1>2, <1>6, <1>7 DEF d, PlaceBefore, PlaceAfter, PlaceFirst, PlaceLast

LEMMA ReplaceUnnoticed ==
  ASSUME NEW t, NEW k, Good(t, k), NEW p, NEW r \in Node, Route(t, k, p, r),
         NEW c \in LiveIn(k), Aside(t, p, r, c),
         NEW n \in LiveIn(k), n # c, t.parent[n] = NULL, ~Reaches(t, r, n), t.parent[c] # NULL,
         ~Reaches(t, t.parent[c], n), Holds(k[t.parent[c]], k[n])
  PROVE  LET u == Cut(PlaceBefore(t, c, n), c) IN
         Route(u, k, p, r) /\ Aside(u, p, r, c)
<1>1. c \in Node /\ n \in Node
  BY DEF LiveIn
<1>2. PICK v : v = PlaceBefore(t, c, n)
  OBVIOUS
<1>3. Good(v, k)
  BY <1>2, BeforeGood
<1>4. Route(v, k, p, r) /\ Aside(v, p, r, c)
  BY <1>1, <1>2, InsertUnnoticed
<1>5. Route(Cut(v, c), k, p, r) /\ Aside(Cut(v, c), p, r, c)
  BY <1>1, <1>3, <1>4, CutUnnoticed
<1> QED BY <1>2, <1>5

-----------------------------------------------------------------------------
(* The steps. *)

LEMMA ModifyStep ==
  ASSUME IterInv, Modify
  PROVE  IterInv'
<1> DEFINE c == iter.cur.node
           r == iter.root
<1>1. /\ user = "program" /\ held /\ (iter.cur.ev = "exit" \/ Leaf(c))
      /\ UNCHANGED <<iter, user, plan, tmp>>
  BY DEF Modify, MayModify, textVars
<1>2. Good(links, kind) /\ links \in Links /\ Live = LiveIn(kind) /\ Live \subseteq Node
  BY IterFacts
<1>3. ~Entering(kind, iter.cur)
  BY <1>1, IterFacts DEF Entering
<1>4. /\ r \in Node /\ Route(links, kind, plan, r)
      /\ c \in Live /\ Aside(links, plan, r, c)
  BY <1>1, <1>3 DEF IterInv, Walking, Handing
<1> HIDE DEF c, r
<1>5. \/ Unlink(c) /\ UNCHANGED held
      \/ Free(c) /\ held' = FALSE
      \/ \E n \in Node : /\ IsRoot(n) /\ n # c /\ r \notin Subtree(links, n)
                         /\ \/ InsertBefore(c, n) \/ InsertAfter(c, n)
                            \/ Replace(c, n)
                            \/ PrependChild(c, n) \/ AppendChild(c, n)
                         /\ UNCHANGED held
  BY DEF Modify, c, r
<1>6. Next
  BY <1>2, <1>4, <1>5 DEF Next, IsRoot
<1>7. Shape'
  BY <1>6, ShapeNext DEF IterInv
<1>8. ASSUME kind' = kind, Route(links', kind, plan, r), Aside(links', plan, r, c)
      PROVE  IterInv'
  <2>1. Live' = Live
    BY <1>8 DEF Live
  <2>2. Walking'
    BY <1>1, <1>4, <1>8 DEF IterInv, Walking, r
  <2>3. Handing'
    BY <1>1, <1>3, <1>4, <1>8, <2>1 DEF Handing, c, r
  <2> QED BY <1>1, <1>7, <2>2, <2>3 DEF IterInv, Merging
<1>9. CASE Unlink(c)
  <2>1. Route(Cut(links, c), kind, plan, r) /\ Aside(Cut(links, c), plan, r, c)
    BY <1>2, <1>4, CutUnnoticed
  <2> QED BY <1>8, <1>9, <2>1 DEF Unlink
<1>10. CASE Free(c) /\ held' = FALSE
  <2>1. Route(links', kind', plan, r)
    <3>1. c \in Node
      BY <1>2, <1>4
    <3>2. Route(Clear(Cut(links, c), Subtree(links, c)),
                [m \in Node |-> IF m \in Subtree(links, c) THEN "free" ELSE kind[m]], plan, r)
      BY <1>2, <1>4, <3>1, FreeUnnoticed
    <3> QED BY <1>10, <3>2 DEF Free
  <2>2. Walking'
    BY <1>1, <1>4, <2>1 DEF IterInv, Walking, r
  <2> QED BY <1>1, <1>7, <1>10, <2>2 DEF IterInv, Handing, Merging
<1>11. ASSUME NEW n \in Node, IsRoot(n), n # c, r \notin Subtree(links, n),
              \/ InsertBefore(c, n) \/ InsertAfter(c, n)
              \/ Replace(c, n)
              \/ PrependChild(c, n) \/ AppendChild(c, n)
       PROVE  IterInv'
  <2>1. n \in Live /\ links.parent[n] = NULL /\ ~Reaches(links, r, n)
    BY <1>4, <1>11 DEF IsRoot, Subtree
  <2>2. /\ links.parent[c] # NULL => /\ Route(PlaceBefore(links, c, n), kind, plan, r)
                                     /\ Aside(PlaceBefore(links, c, n), plan, r, c)
                                     /\ Route(PlaceAfter(links, c, n), kind, plan, r)
                                     /\ Aside(PlaceAfter(links, c, n), plan, r, c)
        /\ Route(PlaceFirst(links, c, n), kind, plan, r) /\ Aside(PlaceFirst(links, c, n), plan, r, c)
        /\ Route(PlaceLast(links, c, n), kind, plan, r) /\ Aside(PlaceLast(links, c, n), plan, r, c)
    BY <1>2, <1>4, <1>11, <2>1, InsertUnnoticed
  <2>3. CASE Replace(c, n)
    <3>1. /\ links.parent[c] # NULL /\ ~Reaches(links, links.parent[c], n)
          /\ Holds(kind[links.parent[c]], kind[n])
      BY <2>3 DEF Replace, CanContain
    <3> DEFINE u == Cut(PlaceBefore(links, c, n), c)
    <3>2. Route(u, kind, plan, r) /\ Aside(u, plan, r, c)
      BY <1>2, <1>4, <1>11, <2>1, <3>1, ReplaceUnnoticed
    <3> QED BY <1>8, <2>3, <3>2 DEF Replace
  <2>4. CASE InsertBefore(c, n)
    BY <1>8, <2>2, <2>4 DEF InsertBefore
  <2>5. CASE InsertAfter(c, n)
    BY <1>8, <2>2, <2>5 DEF InsertAfter
  <2>6. CASE PrependChild(c, n)
    BY <1>8, <2>2, <2>6 DEF PrependChild
  <2>7. CASE AppendChild(c, n)
    BY <1>8, <2>2, <2>7 DEF AppendChild
  <2> QED BY <1>11, <2>3, <2>4, <2>5, <2>6, <2>7
<1> QED BY <1>5, <1>9, <1>10, <1>11

LEMMA StepStep ==
  ASSUME IterInv, Step
  PROVE  IterInv'
<1>1. /\ user = "program" /\ Advance /\ held' = (iter'.cur.ev # "done")
      /\ UNCHANGED <<user, links, kind, tmp>>
  BY DEF Step, treeVars, textVars
<1>2. Shape' /\ Live' = Live /\ Good(links, kind) /\ Live = LiveIn(kind)
  BY <1>1, IterFacts DEF IterInv, Shape, IInv, Live
<1>3. /\ Moved
      /\ plan = <<>> => iter'.cur = End
      /\ plan # <<>> =>
           /\ iter'.cur = plan[1] /\ plan[1] \in EventsOf(kind)
           /\ ~Entering(kind, plan[1]) => Aside(links, plan', iter.root, plan[1].node)
           /\ Entering(kind, plan[1]) => \E i \in 1 .. Len(plan') : plan'[i] = Exit(plan[1].node)
  BY <1>1, AdvanceMoves
<1>4. iter.root \in Node
  BY <1>1 DEF IterInv, Walking
<1>5. Walking'
  BY <1>1, <1>3, <1>4 DEF Walking, Moved
<1>6. Handing'
  <2>1. CASE plan = <<>>
    <3>1. iter'.cur.ev = "done"
      BY <1>3, <2>1 DEF End, Event
    <3>2. ~held'
      BY <1>1, <3>1
    <3> QED BY <3>2 DEF Handing
  <2>2. CASE plan # <<>>
    <3>1. plan[1].node \in Live
      BY <1>2, <1>3, <2>2, EventIs
    <3> QED BY <1>1, <1>2, <1>3, <2>2, <3>1 DEF Handing, Moved
  <2> QED BY <2>1, <2>2
<1> QED BY <1>1, <1>2, <1>3, <1>5, <1>6 DEF IterInv, Moved, Merging

LEMMA VisitStep ==
  ASSUME IterInv, Visit
  PROVE  IterInv'
<1> DEFINE e == iter'.cur
<1>1. /\ user = "visit" /\ Advance /\ UNCHANGED <<held, links, kind>>
      /\ IF StartsRun(e) THEN user' = "merge" /\ tmp' = links.next[e.node]
         ELSE user' \in {"over", "visit"}
  BY DEF Visit, treeVars
<1>2. Shape' /\ Good(links, kind) /\ ~held
  BY <1>1, IterFacts DEF IterInv, Shape, IInv, Handing
<1>3. /\ Moved
      /\ plan = <<>> => e = End
      /\ plan # <<>> => /\ e = plan[1] /\ plan[1] \in EventsOf(kind)
                        /\ \A i \in 1 .. Len(plan') : plan'[i] = plan[1 + i]
                        /\ plan' = SubSeq(plan, 1 + 1, Len(plan))
  BY <1>1, AdvanceMoves
<1>4. iter.root \in Node /\ Route(links, kind, plan, iter.root)
  BY <1>1 DEF IterInv, Walking
<1>5. Walking'
  BY <1>1, <1>3, <1>4 DEF Walking, Moved
<1>6. ASSUME StartsRun(e)
      PROVE  tmp' \in Ptr /\ (plan' # <<>> /\ IsText(tmp)' => plan'[1] = Enter(tmp'))
  <2>1. plan # <<>>
    BY <1>3, <1>6 DEF StartsRun, End, Event
  <2>2. e \in EventsOf(kind) /\ e.node \in Node /\ e = plan[1] /\ kind[e.node] = "text"
        /\ e.ev = "enter" /\ links.next[e.node] # NULL
    BY <1>3, <1>6, <2>1, EventIs DEF StartsRun, IsText
  <2>3. ~Entering(kind, plan[1])
    BY <2>2 DEF Entering, Lf, LeafKind
  <2>4. tmp' \in Ptr
    BY <1>1, <1>2, <1>6, <2>2 DEF Good, Links, Fields
  <2>5. ASSUME plan' # <<>>
        PROVE  plan'[1] = Enter(tmp')
    <3>1. Len(plan) \in Nat /\ 1 \in 1 .. Len(plan)
      <4>1. Len(plan) \in Nat /\ Len(plan) # 0
        BY <1>4, <2>1, RouteEvents
      <4> QED BY <4>1
    <3>2. PICK m \in 1 .. Len(plan) : m = 1
      BY <3>1
    <3> DEFINE q == SubSeq(plan, m + 1, Len(plan))
    <3>3. Route(links, kind, q, iter.root) /\ Len(q) = Len(plan) - m
      BY <1>4, Remainder
    <3>4. plan' = q
      BY <1>3, <2>1, <3>2
    <3> HIDE DEF q
    <3>5. Len(q) \in Nat /\ Len(q) # 0
      BY <2>5, <3>3, <3>4, RouteEvents
    <3>6. 1 \in 1 .. Len(plan) - 1 /\ 1 \in 1 .. Len(plan')
      BY <3>1, <3>2, <3>3, <3>4, <3>5
    <3>7. plan[1 + 1] = Roll(links, kind, plan[1])
      BY <1>4, <3>6 DEF Route, Rolling
    <3>8. plan'[1] = plan[1 + 1]
      BY <1>3, <2>1, <3>6
    <3> QED BY <1>1, <1>6, <2>2, <2>3, <3>7, <3>8 DEF Roll
  <2> QED BY <2>4, <2>5
<1>7. Merging'
  BY <1>1, <1>6 DEF Merging
<1> QED BY <1>1, <1>2, <1>3, <1>5, <1>7 DEF IterInv, Moved, Handing

LEMMA SkipStep ==
  ASSUME IterInv, Skip
  PROVE  IterInv'
<1> DEFINE c == iter.cur.node
           r == iter.root
<1>1. /\ user = "program" /\ held /\ iter.cur.ev = "enter" /\ ~Leaf(c)
      /\ iter' = IterReset(iter, c, "exit")
      /\ plan' = LET out == SelectInSeq(plan, LAMBDA e : e = iter'.cur)
                 IN  SubSeq(plan, out + 1, Len(plan))
      /\ UNCHANGED <<user, held, links, kind, tmp>>
  BY DEF Skip, treeVars, textVars
<1>2. Shape' /\ Live' = Live /\ Good(links, kind)
  BY <1>1, IterFacts DEF IterInv, Shape, IInv, Live
<1>3. Entering(kind, iter.cur)
  BY <1>1, IterFacts DEF Entering
<1>4. r \in Node /\ Route(links, kind, plan, r) /\ c \in Live
  BY <1>1 DEF IterInv, Walking, Handing
<1>5. PICK i \in 1 .. Len(plan) : plan[i] = Exit(c)
  BY <1>1, <1>3 DEF IterInv, Handing
<1>6. iter' = [root |-> r, cur |-> Exit(c), next |-> Following([iter EXCEPT !.next = Exit(c)], "exit", c)]
  <2>1. iter = [root |-> r, cur |-> iter.cur, next |-> iter.next]
    BY DEF IterInv
  <2> QED BY <1>1, <2>1 DEF IterReset, IterNext, Exit, Event
<1>7. PICK m \in 1 .. Len(plan) : plan[m] = Exit(c) /\ plan' = SubSeq(plan, m + 1, Len(plan))
  <2> DEFINE I == {j \in 1 .. Len(plan) : plan[j] = Exit(c)}
  <2>1. SelectInSeq(plan, LAMBDA e : e = iter'.cur) = IF I # {} THEN Min(I) ELSE 0
    <3>1. iter'.cur = Exit(c)
      BY <1>6
    <3> QED BY <3>1 DEF SelectInSeq
  <2>2. I # {} /\ I \subseteq Nat
    BY <1>5
  <2>3. Min(I) \in I
    <3>1. \E j \in I : \A h \in I : j <= h
      <4> HIDE DEF I
      <4> QED BY <2>2, Least
    <3> HIDE DEF I
    <3> QED BY <3>1 DEF Min
  <2>4. PICK out \in I : out = SelectInSeq(plan, LAMBDA e : e = iter'.cur)
    BY <2>1, <2>2, <2>3
  <2> QED BY <1>1, <2>4
<1> HIDE DEF c, r
<1>8. Route(links, kind, plan', r) /\ Len(plan') = Len(plan) - m
      /\ \A h \in 1 .. Len(plan') : plan'[h] = plan[m + h]
  <2> DEFINE q == SubSeq(plan, m + 1, Len(plan))
  <2>1. /\ Route(links, kind, q, r) /\ Len(q) = Len(plan) - m
        /\ \A h \in 1 .. Len(q) : q[h] = plan[m + h]
    BY <1>4, <1>7, Remainder
  <2> HIDE DEF q
  <2> QED BY <1>7, <2>1 DEF q
<1>9. Len(plan) \in Nat /\ Len(plan') \in Nat /\ (plan' = <<>> <=> Len(plan') = 0)
  BY <1>4, <1>8, RouteEvents, EmptySeq DEF Route
<1>10. plan[m].ev = "exit" /\ plan[m].node = c /\ ~Entering(kind, plan[m]) /\ Exit(c).ev = "exit" /\ Exit(c).node = c
  BY <1>7, EventFields DEF Entering
<1>11. iter'.next = IF plan' = <<>> THEN End ELSE plan'[1]
  <2>1. Following([iter EXCEPT !.next = Exit(c)], plan[m].ev, plan[m].node)
          = IF m = Len(plan) THEN End ELSE plan[m + 1]
    <3> DEFINE h == [iter EXCEPT !.next = Exit(c)]
    <3>1. iter = [root |-> r, cur |-> iter.cur, next |-> iter.next]
      BY DEF IterInv, r
    <3>2. h.root = r
      BY <3>1
    <3> HIDE DEF h
    <3>3. Route(links, kind, plan, h.root)
      BY <1>4, <3>2
    <3>4. Following(h, plan[m].ev, plan[m].node) = IF m = Len(plan) THEN End ELSE plan[m + 1]
      BY <3>3, FollowingIs
    <3> QED BY <3>4 DEF h
  <2>2. plan' = <<>> <=> m = Len(plan)
    BY <1>8, <1>9
  <2>3. m # Len(plan) => 1 \in 1 .. Len(plan')
    BY <1>8, <1>9
  <2> QED BY <1>6, <1>8, <1>10, <2>1, <2>2, <2>3
<1>12. Aside(links, plan', r, c)
  <2>1. Aside(links, SubSeq(plan, m + 1, Len(plan)), r, plan[m].node)
    BY <1>2, <1>4, <1>10, LeftBehind
  <2> QED BY <1>7, <1>10, <2>1
<1>13. Walking'
  <2>1. iter'.root = r
    BY <1>6
  <2>2. PICK q : q = plan'
    OBVIOUS
  <2>3. links' = links /\ kind' = kind
    BY <1>1
  <2> QED BY <1>4, <1>8, <1>11, <2>1, <2>2, <2>3 DEF Walking
<1>14. Handing'
  <2>1. iter'.cur = Exit(c) /\ iter'.root = r /\ ~Entering(kind', iter'.cur)
    BY <1>6, <1>10 DEF Entering
  <2> QED BY <1>1, <1>2, <1>4, <1>10, <1>12, <2>1 DEF Handing
<1>15. iter' = [root |-> iter'.root, cur |-> iter'.cur, next |-> iter'.next]
  BY <1>6
<1> QED BY <1>1, <1>2, <1>13, <1>14, <1>15 DEF IterInv, Merging

LEMMA MergeStep ==
  ASSUME IterInv, Merge
  PROVE  IterInv'
<1> DEFINE r == iter.root
<1>1. /\ user = "merge" /\ IsText(tmp) /\ Advance /\ Free(tmp)
      /\ tmp' = links.next[tmp] /\ UNCHANGED <<user, held>>
  BY DEF Merge
<1>2. /\ Good(links, kind) /\ links \in Links /\ Live = LiveIn(kind) /\ Live \subseteq Node
      /\ r \in Node /\ Route(links, kind, plan, r)
      /\ plan # <<>> => plan[1] = Enter(tmp)
      /\ ~held
  BY <1>1, IterFacts DEF IterInv, Walking, Merging, Handing
<1>3. tmp \in Node /\ kind[tmp] = "text" /\ tmp \in Live
  BY <1>1 DEF IterInv, Merging, IsText, Ptr, Live
<1>4. Shape'
  <2>1. Next
    BY <1>1, <1>3 DEF Next
  <2> QED BY <2>1, ShapeNext DEF IterInv
<1>5. /\ Moved
      /\ plan = <<>> => plan' = <<>>
      /\ plan # <<>> => /\ \A i \in 1 .. Len(plan') : plan'[i] = plan[1 + i]
                        /\ plan' = SubSeq(plan, 1 + 1, Len(plan))
                        /\ ~Entering(kind, plan[1]) => Aside(links, plan', r, plan[1].node)
  BY <1>1, AdvanceMoves
<1>6. ~Entering(kind, Enter(tmp)) /\ Enter(tmp).node = tmp
  BY <1>3, EventFields DEF Entering, Lf, LeafKind
<1>7. tmp' \in Ptr
  BY <1>1, <1>2, <1>3 DEF Links, Fields
<1> HIDE DEF r
<1>8. Route(links', kind', plan', r)
  <2>1. CASE plan = <<>>
    <3>1. plan' = <<>> /\ Len(<<>>) = 0
      BY <1>5, <2>1
    <3> QED BY <3>1 DEF Route, Distinct, Downward, Onward, Upward, Rolling
  <2>2. CASE plan # <<>>
    <3>1. PICK q : q = plan'
      OBVIOUS
    <3>2. Route(links, kind, q, r) /\ Aside(links, q, r, tmp)
      BY <1>2, <1>5, <1>6, <2>2, <3>1 DEF Moved, r
    <3>3. Route(Clear(Cut(links, tmp), Subtree(links, tmp)),
                [m \in Node |-> IF m \in Subtree(links, tmp) THEN "free" ELSE kind[m]], q, r)
      BY <1>2, <1>3, <3>2, FreeUnnoticed
    <3> QED BY <1>1, <3>1, <3>3 DEF Free
  <2> QED BY <2>1, <2>2
<1>9. Walking'
  BY <1>1, <1>2, <1>5, <1>8 DEF Walking, Moved, r
<1>10. ASSUME plan' # <<>>, IsText(tmp)'
       PROVE  plan'[1] = Enter(tmp')
  <2>1. plan # <<>>
    BY <1>5, <1>10
  <2>2. Len(plan) \in Nat /\ 1 \in 1 .. Len(plan)
    <3>1. Len(plan) \in Nat /\ Len(plan) # 0
      BY <1>2, <2>1, RouteEvents
    <3> QED BY <3>1
  <2>3. PICK m \in 1 .. Len(plan) : m = 1
    BY <2>2
  <2> DEFINE q == SubSeq(plan, m + 1, Len(plan))
  <2>4. Route(links, kind, q, r) /\ Len(q) = Len(plan) - m
    BY <1>2, Remainder
  <2>5. plan' = q
    BY <1>5, <2>1, <2>3
  <2> HIDE DEF q
  <2>6. Len(q) \in Nat /\ Len(q) # 0
    BY <1>10, <2>4, <2>5, RouteEvents
  <2>7. 1 \in 1 .. Len(plan) - 1 /\ 1 \in 1 .. Len(plan')
    BY <2>2, <2>3, <2>4, <2>5, <2>6
  <2>8. plan[1 + 1] = Roll(links, kind, plan[1]) /\ plan'[1] = plan[1 + 1]
    BY <1>2, <1>5, <2>1, <2>7 DEF Route, Rolling
  <2>9. links.next[tmp] # NULL
    BY <1>1, <1>10 DEF IsText
  <2> QED BY <1>1, <1>2, <1>6, <2>1, <2>8, <2>9 DEF Roll
<1>11. Merging'
  BY <1>7, <1>10 DEF Merging
<1> QED BY <1>1, <1>2, <1>4, <1>5, <1>9, <1>11 DEF IterInv, Moved, Handing

\* Steps of cmark_consolidate_text_nodes that leave tree and iterator alone
LEMMA QuietStep ==
  ASSUME IterInv, UNCHANGED <<links, kind, iter, held, tmp, plan>>,
         user' = user \/ (user = "merge" /\ user' = "visit")
  PROVE  IterInv'
<1>1. Shape' /\ Live' = Live
  BY DEF IterInv, Shape, IInv, Live
<1>2. Walking' /\ Handing' /\ Merging'
  BY <1>1 DEF IterInv, Walking, Handing, Merging, IsText
<1> QED BY <1>1, <1>2 DEF IterInv

LEMMA GrowStep ==
  ASSUME IterInv, NEW k \in Kind, NEW p \in Live \cup {NULL}, Grow(k, p)
  PROVE  IterInv'
<1> DEFINE n == CHOOSE m \in Node : kind[m] = "free"
           j == [kind EXCEPT ![n] = k]
<1>1. /\ user \in {"nobody", "program"} /\ Live # Node
      /\ p # NULL => user = "nobody" /\ Holds(kind[p], k)
      /\ kind' = j
      /\ links' = IF p = NULL THEN links ELSE PlaceLast(links, p, n)
      /\ UNCHANGED <<iter, user, held, plan, tmp>>
  BY DEF Grow, textVars
<1>2. /\ Good(links, kind) /\ links \in Links /\ Live = LiveIn(kind) /\ Live \subseteq Node
      /\ kind \in [Node -> Kind \cup {"free"}] /\ Consistent(links) /\ Confined(links, Live)
  BY IterFacts DEF Good
<1>3. n \in Node /\ kind[n] = "free"
  <2>1. \E m \in Node : kind[m] = "free"
    BY <1>1 DEF Live
  <2> QED BY <2>1
<1> HIDE DEF n
<1>4. /\ Good(links, j) /\ LiveIn(j) = Live \cup {n}
      /\ links.next[n] = NULL /\ links.prev[n] = NULL /\ links.parent[n] = NULL
      /\ links.first[n] = NULL /\ links.last[n] = NULL
  BY <1>2, <1>3, NewGood
<1>5. \A x \in Node : j[x] = IF x = n THEN k ELSE kind[x]
  BY <1>2, <1>3
<1>6. n \notin Live
  BY <1>3 DEF Live
<1> HIDE DEF j
<1>7. Live' = Live \cup {n}
  BY <1>1, <1>4 DEF Live, LiveIn
<1>8. PICK f : Kids(links, f)
  BY DEF IterInv, Shape
<1>9. Shape'
  <2>1. CASE p = NULL
    BY <1>1, <1>4, <1>8, <2>1 DEF Shape, IInv
  <2>2. CASE p # NULL
    <3>1. p \in Live /\ p \in Node /\ p # n /\ links' = PlaceLast(links, p, n)
      BY <1>1, <1>2, <1>6, <2>2
    <3>2. ~Reaches(links, p, n)
      <4>1. UpClosed(links, Live)
        BY <1>2 DEF Confined, UpClosed
      <4> QED BY <1>2, <1>6, <3>1, <4>1 DEF Reaches
    <3>3. Holds(j[p], j[n])
      BY <1>1, <1>3, <1>5, <2>2, <3>1
    <3>4. Good(links', j)
      BY <1>4, <3>1, <3>2, <3>3, LastGood
    <3> DEFINE s == Cutting(f, n)[p]
    <3>5. Kids(PlaceLast(links, p, n), Moving(f, n, p, Len(s) + 1))
      BY <1>2, <1>3, <1>8, <3>1, EndKids
    <3> QED BY <1>1, <3>1, <3>4, <3>5 DEF Shape, IInv
  <2> QED BY <2>1, <2>2
<1>10. CASE user = "nobody"
  <2>1. ~held
    BY <1>10 DEF IterInv, Handing
  <2> QED BY <1>1, <1>9, <1>10, <2>1 DEF IterInv, Walking, Handing, Merging
<1>11. CASE user = "program"
  <2> DEFINE r == iter.root
  <2>1. links' = links /\ r \in Node /\ Route(links, kind, plan, r)
    BY <1>1, <1>11 DEF IterInv, Walking
  <2>2. \A x \in Live : j[x] = kind[x] /\ (Lf(j, x) <=> Lf(kind, x))
    BY <1>2, <1>5, <1>6 DEF Lf
  <2>3. Unnoticed(links, kind, links, j, plan, r)
    <3>1. \A i \in 1 .. Len(plan) : plan[i].node \in Live
      BY <1>2, <2>1, RouteEvents, EventIs
    <3> QED BY <2>2, <3>1 DEF Unnoticed
  <2>4. Route(links, j, plan, r)
    BY <2>1, <2>3, RouteStays
  <2>5. Walking'
    BY <1>1, <2>1, <2>4 DEF IterInv, Walking
  <2>6. Handing'
    <3>1. iter.cur.node \in Live => (Entering(j, iter.cur) <=> Entering(kind, iter.cur))
      BY <2>2 DEF Entering
    <3> QED BY <1>1, <1>7, <2>1, <3>1 DEF IterInv, Handing
  <2> QED BY <1>1, <1>9, <1>11, <2>5, <2>6 DEF IterInv, Merging
<1> QED BY <1>1, <1>10, <1>11

-----------------------------------------------------------------------------
(* The walk over a tree is a Route. *)

\* No node is below two siblings.
LEMMA Siblings ==
  ASSUME NEW t \in Links, NoCycle(t), NEW a \in Node, NEW b \in Node, a # b,
         t.parent[a] = t.parent[b], t.parent[a] # NULL, NEW x \in Node, Reaches(t, x, a)
  PROVE  ~Reaches(t, x, b)
<1> SUFFICES ASSUME Reaches(t, x, b)
             PROVE  FALSE
  OBVIOUS
<1> DEFINE X == Subtree(t, a) \cap Subtree(t, b)
<1>1. a \notin Subtree(t, b) /\ b \notin Subtree(t, a)
  <2>1. /\ a \in Subtree(t, b) => t.parent[a] \in Subtree(t, b)
        /\ b \in Subtree(t, a) => t.parent[b] \in Subtree(t, a)
    BY SubtreeClosed
  <2> QED BY <2>1 DEF Subtree, NoCycle
<1>2. \A y \in X : t.parent[y] \in X
  BY <1>1, SubtreeClosed
<1>3. x \in X /\ X \in SUBSET Node /\ UpClosed(t, X)
  BY <1>2 DEF Subtree, UpClosed
<1>4. a \in X
  BY <1>3 DEF Reaches
<1> QED BY <1>1, <1>4

\* u is p followed by q.
Joins(u, p, q) ==
  /\ Len(u) = Len(p) + Len(q)
  /\ \A i \in 1 .. Len(p) : u[i] = p[i]
  /\ \A i \in 1 .. Len(q) : u[Len(p) + i] = q[i]

LEMMA Joined ==
  ASSUME NEW S, NEW p \in Seq(S), NEW q \in Seq(S)
  PROVE  p \o q \in Seq(S) /\ Joins(p \o q, p, q)
<1>1. /\ p \o q \in Seq(S) /\ Len(p \o q) = Len(p) + Len(q)
      /\ \A i \in 1 .. Len(p) + Len(q) : (p \o q)[i] = IF i <= Len(p) THEN p[i] ELSE q[i - Len(p)]
  BY ConcatProperties
<1>2. PICK u : u = p \o q
  OBVIOUS
<1>3. Len(p) \in Nat /\ Len(q) \in Nat
  OBVIOUS
<1>4. \A i \in 1 .. Len(p) : u[i] = p[i]
  BY <1>1, <1>2, <1>3
<1>5. ASSUME NEW i \in 1 .. Len(q)
      PROVE  u[Len(p) + i] = q[i]
  <2>1. Len(p) + i \in 1 .. Len(p) + Len(q) /\ ~(Len(p) + i <= Len(p)) /\ Len(p) + i - Len(p) = i
    BY <1>3
  <2> QED BY <1>1, <1>2, <2>1
<1> QED BY <1>1, <1>2, <1>4, <1>5 DEF Joins

LEMMA JoinFacts ==
  ASSUME NEW p, NEW q, NEW u, Joins(u, p, q), Len(p) \in Nat, Len(q) \in Nat
  PROVE  /\ Len(u) \in Nat
         /\ \A i \in 1 .. Len(p) : u[i] = p[i] /\ i \in 1 .. Len(u)
         /\ \A i \in 1 .. Len(q) : u[Len(p) + i] = q[i] /\ Len(p) + i \in 1 .. Len(u)
         /\ \A i \in 1 .. Len(u) : \/ i \in 1 .. Len(p) /\ u[i] = p[i]
                                   \/ i - Len(p) \in 1 .. Len(q) /\ u[i] = q[i - Len(p)]
                                      /\ i = Len(p) + (i - Len(p))
         /\ \A e : \A i \in 1 .. Len(p) : Later(p, i, e) => Later(u, i, e)
         /\ \A i \in 1 .. Len(p), h \in 1 .. Len(q) : Later(u, i, q[h])
         /\ \A e : \A i \in 1 .. Len(q) : Later(q, i, e) => Later(u, Len(p) + i, e)
<1>1. /\ Len(u) = Len(p) + Len(q)
      /\ \A i \in 1 .. Len(p) : u[i] = p[i]
      /\ \A i \in 1 .. Len(q) : u[Len(p) + i] = q[i]
  BY DEF Joins
<1>2. /\ Len(u) \in Nat
      /\ \A i \in 1 .. Len(p) : u[i] = p[i] /\ i \in 1 .. Len(u)
      /\ \A i \in 1 .. Len(q) : u[Len(p) + i] = q[i] /\ Len(p) + i \in 1 .. Len(u)
  BY <1>1
<1>3. ASSUME NEW i \in 1 .. Len(u), i \notin 1 .. Len(p)
      PROVE  i - Len(p) \in 1 .. Len(q) /\ u[i] = q[i - Len(p)] /\ i = Len(p) + (i - Len(p))
  <2>1. i - Len(p) \in 1 .. Len(q) /\ i = Len(p) + (i - Len(p))
    BY <1>1, <1>3
  <2> QED BY <1>1, <2>1
<1>4. ASSUME NEW i \in 1 .. Len(p), NEW e, Later(p, i, e)
      PROVE  Later(u, i, e)
  <2>1. PICK j \in i + 1 .. Len(p) : p[j] = e
    BY <1>4 DEF Later
  <2>2. j \in 1 .. Len(p) /\ j \in i + 1 .. Len(u)
    BY <1>1
  <2> QED BY <1>1, <2>1, <2>2 DEF Later
<1>5. ASSUME NEW i \in 1 .. Len(p), NEW h \in 1 .. Len(q)
      PROVE  Later(u, i, q[h])
  <2>1. Len(p) + h \in i + 1 .. Len(u)
    BY <1>1
  <2> QED BY <1>1, <2>1 DEF Later
<1>6. ASSUME NEW i \in 1 .. Len(q), NEW e, Later(q, i, e)
      PROVE  Later(u, Len(p) + i, e)
  <2>1. PICK j \in i + 1 .. Len(q) : q[j] = e
    BY <1>6 DEF Later
  <2>2. j \in 1 .. Len(q) /\ Len(p) + j \in Len(p) + i + 1 .. Len(u)
    BY <1>1
  <2> QED BY <1>1, <2>1, <2>2 DEF Later
<1> QED BY <1>2, <1>3, <1>4, <1>5, <1>6

\* q walks over the first i children of m, which are s.
Part(t, k, s, m, i, q) ==
  /\ q \in Seq(EventsOf(k))
  /\ Distinct(q)
  /\ \A j \in 1 .. Len(q) : \E h \in 1 .. i : Reaches(t, q[j].node, s[h])
  /\ \A h \in 1 .. i : \E j \in 1 .. Len(q) : q[j] = Enter(s[h])
  /\ Downward(t, k, q)
  /\ \A j \in 1 .. Len(q) : ~Entering(k, q[j]) /\ q[j].node # s[i] /\ t.next[q[j].node] # NULL =>
                              Later(q, j, Enter(t.next[q[j].node]))
  /\ \A j \in 1 .. Len(q) : /\ t.parent[q[j].node] # NULL
                            /\ t.parent[q[j].node] # m => Later(q, j, Exit(t.parent[q[j].node]))
  /\ \A j \in 1 .. Len(q) - 1 : q[j + 1] = Roll(t, k, q[j])
  /\ i # 0 => q # <<>> /\ q[1] = Enter(s[1]) /\ q[Len(q)] = Leaving(k, s[i])

\* p walks over the tree below r.
Whole(t, k, r, p) == Route(t, k, p, r) /\ p # <<>> /\ p[1] = Enter(r)

LEMMA NonEmpty ==
  ASSUME NEW S, NEW p \in Seq(S)
  PROVE  /\ Len(p) \in Nat /\ (p = <<>> <=> Len(p) = 0)
         /\ p # <<>> => 1 \in 1 .. Len(p) /\ Len(p) \in 1 .. Len(p)
<1>1. Len(p) \in Nat /\ (p = <<>> <=> Len(p) = 0)
  BY EmptySeq
<1> QED BY <1>1

\* The next child is walked over.
LEMMA PartStep ==
  ASSUME NEW t, NEW k, Good(t, k), NEW m \in LiveIn(k), NEW s, Kin(t, m, s),
         NEW i \in 0 .. Len(s), i + 1 \in 1 .. Len(s), NEW q, Part(t, k, s, m, i, q),
         NEW v, Whole(t, k, s[i + 1], v), NEW u, u = q \o v
  PROVE  Part(t, k, s, m, i + 1, u)
<1> DEFINE b == s[i + 1]
           E == EventsOf(k)
<1>1. t \in Links /\ NoCycle(t) /\ m \in Node /\ m # NULL /\ Len(s) \in Nat
  BY NullAssumption, KinType DEF Good, LiveIn
<1>2. \A h \in 1 .. Len(s) : s[h] \in Node /\ s[h] # NULL /\ t.parent[s[h]] = m
  BY KinType, NullAssumption DEF Kin
<1>3. /\ q \in Seq(E) /\ Len(q) \in Nat /\ v \in Seq(E) /\ Len(v) \in Nat
      /\ 1 \in 1 .. Len(v) /\ v[1] = Enter(b) /\ v[Len(v)] = Leaving(k, b) /\ v # <<>>
      /\ Route(t, k, v, b)
      /\ q # <<>> => Len(q) \in 1 .. Len(q) /\ 1 \in 1 .. Len(q)
      /\ q = <<>> => Len(q) = 0
  BY NonEmpty DEF Part, Whole, Route
<1>4. u \in Seq(E) /\ Joins(u, q, v)
  BY <1>3, Joined
<1>5. /\ Len(u) \in Nat
      /\ \A j \in 1 .. Len(q) : u[j] = q[j] /\ j \in 1 .. Len(u)
      /\ \A j \in 1 .. Len(v) : u[Len(q) + j] = v[j] /\ Len(q) + j \in 1 .. Len(u)
      /\ \A j \in 1 .. Len(u) : \/ j \in 1 .. Len(q) /\ u[j] = q[j]
                                \/ j - Len(q) \in 1 .. Len(v) /\ u[j] = v[j - Len(q)]
                                   /\ j = Len(q) + (j - Len(q))
      /\ \A e : \A j \in 1 .. Len(q) : Later(q, j, e) => Later(u, j, e)
      /\ \A j \in 1 .. Len(q), h \in 1 .. Len(v) : Later(u, j, v[h])
      /\ \A e : \A j \in 1 .. Len(v) : Later(v, j, e) => Later(u, Len(q) + j, e)
  BY <1>3, <1>4, JoinFacts
<1>6. Len(u) = Len(q) + Len(v)
  BY <1>4 DEF Joins
<1>7. \A j \in 1 .. Len(q) : q[j] \in E /\ q[j].node \in Node
  <2> TAKE j \in 1 .. Len(q)
  <2>1. q[j] \in E
    BY <1>3
  <2> QED BY <2>1, EventIs
<1>8. \A j \in 1 .. Len(v) : v[j] \in E /\ v[j].node \in Node /\ Reaches(t, v[j].node, b)
  <2> TAKE j \in 1 .. Len(v)
  <2>1. v[j] \in E
    BY <1>3
  <2> QED BY <1>3, <2>1, EventIs, Above
<1>9. \A j \in 1 .. Len(q) : ~Reaches(t, q[j].node, b) /\ q[j].node # b
  <2> SUFFICES ASSUME NEW j \in 1 .. Len(q)
               PROVE  ~Reaches(t, q[j].node, b) /\ q[j].node # b
    OBVIOUS
  <2>1. PICK h \in 1 .. i : Reaches(t, q[j].node, s[h])
    BY DEF Part
  <2>2. h \in 1 .. Len(s) /\ h # i + 1
    BY <1>1
  <2>3. s[h] # b
    BY <2>2 DEF Kin, Distinct
  <2>4. ~Reaches(t, q[j].node, b)
    BY <1>1, <1>2, <1>7, <2>1, <2>2, <2>3, Siblings
  <2> QED BY <2>4 DEF Reaches
<1>10. b \in Node /\ b # NULL /\ t.parent[b] = m
  BY <1>2
<1>11. i # 0 => t.next[s[i]] = b /\ s[i] \in Node /\ t.next[s[i]] # NULL
  <2> SUFFICES ASSUME i # 0
               PROVE  t.next[s[i]] = b
    BY <1>1, <1>2, <1>10
  <2>1. i \in 1 .. Len(s) /\ i # Len(s)
    BY <1>1
  <2> QED BY <2>1 DEF Kin
<1>12. i = 0 => Len(q) = 0
  <2> SUFFICES ASSUME i = 0, Len(q) # 0
               PROVE  FALSE
    OBVIOUS
  <2>1. 1 \in 1 .. Len(q)
    BY <1>3
  <2>2. \E h \in 1 .. i : Reaches(t, q[1].node, s[h])
    BY <2>1 DEF Part
  <2> QED BY <2>2
<1> HIDE DEF b, E
<1>13. Distinct(u)
  <2> SUFFICES ASSUME NEW j \in 1 .. Len(u), NEW h \in 1 .. Len(u), u[j] = u[h]
               PROVE  j = h
    BY DEF Distinct
  <2>1. CASE j \in 1 .. Len(q) /\ h \in 1 .. Len(q)
    BY <1>5, <2>1 DEF Part, Distinct
  <2>2. CASE j \in 1 .. Len(q) /\ h \notin 1 .. Len(q)
    <3>1. PICK g \in 1 .. Len(v) : u[h] = v[g]
      BY <1>5, <2>2
    <3> QED BY <1>5, <1>8, <1>9, <2>2, <3>1
  <2>3. CASE j \notin 1 .. Len(q) /\ h \in 1 .. Len(q)
    <3>1. PICK g \in 1 .. Len(v) : u[j] = v[g]
      BY <1>5, <2>3
    <3> QED BY <1>5, <1>8, <1>9, <2>3, <3>1
  <2>4. CASE j \notin 1 .. Len(q) /\ h \notin 1 .. Len(q)
    <3>1. /\ j - Len(q) \in 1 .. Len(v) /\ u[j] = v[j - Len(q)]
          /\ h - Len(q) \in 1 .. Len(v) /\ u[h] = v[h - Len(q)]
      BY <1>5, <2>4
    <3>2. j - Len(q) = h - Len(q)
      BY <1>3, <3>1 DEF Route, Distinct
    <3> QED BY <1>3, <1>5, <3>2
  <2> QED BY <2>1, <2>2, <2>3, <2>4
<1>14. \A j \in 1 .. Len(u) : \E h \in 1 .. i + 1 : Reaches(t, u[j].node, s[h])
  <2> SUFFICES ASSUME NEW j \in 1 .. Len(u)
               PROVE  \E h \in 1 .. i + 1 : Reaches(t, u[j].node, s[h])
    OBVIOUS
  <2>1. CASE j \in 1 .. Len(q)
    <3>1. PICK h \in 1 .. i : Reaches(t, q[j].node, s[h])
      BY <2>1 DEF Part
    <3> QED BY <1>5, <2>1, <3>1
  <2>2. CASE j \notin 1 .. Len(q)
    <3>1. Reaches(t, u[j].node, s[i + 1])
      BY <1>5, <1>8, <2>2 DEF b
    <3>2. i + 1 \in 1 .. i + 1
      OBVIOUS
    <3> QED BY <3>1, <3>2
  <2> QED BY <2>1, <2>2
<1>15. \A h \in 1 .. i + 1 : \E j \in 1 .. Len(u) : u[j] = Enter(s[h])
  <2> SUFFICES ASSUME NEW h \in 1 .. i + 1
               PROVE  \E j \in 1 .. Len(u) : u[j] = Enter(s[h])
    OBVIOUS
  <2>1. CASE h = i + 1
    <3>1. u[Len(q) + 1] = v[1] /\ Len(q) + 1 \in 1 .. Len(u)
      BY <1>3, <1>5
    <3> QED BY <1>3, <2>1, <3>1 DEF b
  <2>2. CASE h # i + 1
    <3>1. h \in 1 .. i
      BY <2>2
    <3>2. PICK j \in 1 .. Len(q) : q[j] = Enter(s[h])
      BY <3>1 DEF Part
    <3> QED BY <1>5, <3>2
  <2> QED BY <2>1, <2>2
<1>16. Downward(t, k, u)
  <2> SUFFICES ASSUME NEW j \in 1 .. Len(u), Entering(k, u[j])
               PROVE  /\ Later(u, j, Exit(u[j].node))
                      /\ \A y \in Node : t.parent[y] = u[j].node => Later(u, j, Enter(y))
    BY DEF Downward
  <2>1. CASE j \in 1 .. Len(q)
    BY <1>5, <2>1 DEF Part, Downward
  <2>2. CASE j \notin 1 .. Len(q)
    <3>1. PICK h \in 1 .. Len(v) : u[j] = v[h] /\ j = Len(q) + h
      BY <1>5, <2>2
    <3>2. /\ Later(v, h, Exit(u[j].node))
          /\ \A y \in Node : t.parent[y] = u[j].node => Later(v, h, Enter(y))
      BY <1>3, <3>1 DEF Route, Downward
    <3> QED BY <1>5, <3>1, <3>2
  <2> QED BY <2>1, <2>2
<1>17. \A j \in 1 .. Len(u) : ~Entering(k, u[j]) /\ u[j].node # s[i + 1] /\ t.next[u[j].node] # NULL =>
                                Later(u, j, Enter(t.next[u[j].node]))
  <2> SUFFICES ASSUME NEW j \in 1 .. Len(u), ~Entering(k, u[j]), u[j].node # b, t.next[u[j].node] # NULL
               PROVE  Later(u, j, Enter(t.next[u[j].node]))
    BY DEF b
  <2>1. CASE j \in 1 .. Len(q) /\ q[j].node # s[i]
    BY <1>5, <2>1 DEF Part
  <2>2. CASE j \in 1 .. Len(q) /\ q[j].node = s[i]
    <3>1. t.next[u[j].node] = b
      BY <1>3, <1>5, <1>11, <1>12, <2>2
    <3>2. Later(u, j, v[1])
      BY <1>3, <1>5, <2>2
    <3> QED BY <1>3, <3>1, <3>2
  <2>3. CASE j \notin 1 .. Len(q)
    <3>1. PICK h \in 1 .. Len(v) : u[j] = v[h] /\ j = Len(q) + h
      BY <1>5, <2>3
    <3>2. Later(v, h, Enter(t.next[u[j].node]))
      BY <1>3, <3>1 DEF Route, Onward
    <3> QED BY <1>5, <3>1, <3>2
  <2> QED BY <2>1, <2>2, <2>3
<1>18. \A j \in 1 .. Len(u) : /\ t.parent[u[j].node] # NULL
                              /\ t.parent[u[j].node] # m => Later(u, j, Exit(t.parent[u[j].node]))
  <2> SUFFICES ASSUME NEW j \in 1 .. Len(u)
               PROVE  /\ t.parent[u[j].node] # NULL
                      /\ t.parent[u[j].node] # m => Later(u, j, Exit(t.parent[u[j].node]))
    OBVIOUS
  <2>1. CASE j \in 1 .. Len(q)
    BY <1>5, <2>1 DEF Part
  <2>2. CASE j \notin 1 .. Len(q)
    <3>1. PICK h \in 1 .. Len(v) : u[j] = v[h] /\ j = Len(q) + h
      BY <1>5, <2>2
    <3>2. CASE v[h].node = b
      BY <1>1, <1>10, <3>1, <3>2
    <3>3. CASE v[h].node # b
      <4>1. t.parent[v[h].node] # NULL /\ Later(v, h, Exit(t.parent[v[h].node]))
        BY <1>3, <3>3 DEF Route, Upward
      <4> QED BY <1>5, <3>1, <4>1
    <3> QED BY <3>2, <3>3
  <2> QED BY <2>1, <2>2
<1>19. \A j \in 1 .. Len(u) - 1 : u[j + 1] = Roll(t, k, u[j])
  <2> SUFFICES ASSUME NEW j \in 1 .. Len(u) - 1
               PROVE  u[j + 1] = Roll(t, k, u[j])
    OBVIOUS
  <2>1. CASE j \in 1 .. Len(q) - 1
    <3>1. j \in 1 .. Len(q) /\ j + 1 \in 1 .. Len(q)
      BY <1>3, <2>1
    <3> QED BY <1>5, <2>1, <3>1 DEF Part
  <2>2. CASE j = Len(q)
    <3>1. j \in 1 .. Len(q) /\ q # <<>> /\ i # 0
      BY <1>3, <1>12, <2>2
    <3>2. q[j] = Leaving(k, s[i])
      BY <2>2, <3>1 DEF Part
    <3>3. Leaving(k, s[i]).node = s[i] /\ ~Entering(k, Leaving(k, s[i]))
      BY EventFields
    <3>4. Roll(t, k, u[j]) = Enter(b)
      BY <1>5, <1>11, <3>1, <3>2, <3>3 DEF Roll
    <3>5. u[j + 1] = v[1]
      BY <1>3, <1>5, <2>2
    <3> QED BY <1>3, <3>4, <3>5
  <2>3. CASE j > Len(q)
    <3>1. /\ j - Len(q) \in 1 .. Len(v) - 1 /\ j - Len(q) \in 1 .. Len(v) /\ j - Len(q) + 1 \in 1 .. Len(v)
          /\ Len(q) + (j - Len(q)) = j /\ Len(q) + (j - Len(q) + 1) = j + 1
      BY <1>3, <1>6, <2>3
    <3>2. u[j] = v[j - Len(q)] /\ u[j + 1] = v[j - Len(q) + 1]
      BY <1>5, <3>1
    <3>3. v[j - Len(q) + 1] = Roll(t, k, v[j - Len(q)])
      BY <1>3, <3>1 DEF Route, Rolling
    <3> QED BY <3>2, <3>3
  <2>4. j \in Nat
    BY <1>5
  <2> QED BY <1>3, <2>1, <2>2, <2>3, <2>4
<1>20. u # <<>> /\ u[1] = Enter(s[1]) /\ u[Len(u)] = Leaving(k, s[i + 1])
  <2>1. Len(u) # 0
    BY <1>3, <1>6
  <2>2. u # <<>>
    BY <1>4, <2>1, NonEmpty
  <2>3. u[Len(u)] = Leaving(k, s[i + 1])
    <3>1. Len(v) \in 1 .. Len(v)
      BY <1>3
    <3> QED BY <1>3, <1>5, <1>6, <3>1 DEF b
  <2>4. CASE i = 0
    <3>1. u[Len(q) + 1] = v[1] /\ Len(q) + 1 = 1 /\ i + 1 = 1
      BY <1>3, <1>5, <1>12, <2>4
    <3> QED BY <1>3, <2>2, <2>3, <3>1 DEF b
  <2>5. CASE i # 0
    <3>1. q # <<>> /\ q[1] = Enter(s[1])
      BY <2>5 DEF Part
    <3> QED BY <1>3, <1>5, <2>2, <2>3, <3>1
  <2> QED BY <2>4, <2>5
<1> QED BY <1>4, <1>13, <1>14, <1>15, <1>16, <1>17, <1>18, <1>19, <1>20 DEF Part, E

\* The walk over a node that is no leaf
LEMMA PartWhole ==
  ASSUME NEW t, NEW k, Good(t, k), NEW m \in LiveIn(k), ~Lf(k, m), NEW s, Kin(t, m, s),
         NEW q, Part(t, k, s, m, Len(s), q),
         NEW p, p = (<<Enter(m)>> \o q) \o <<Exit(m)>>
  PROVE  Whole(t, k, m, p)
<1> DEFINE E == EventsOf(k)
           L == Len(s)
           u == <<Enter(m)>> \o q
           M == Len(q)
<1>1. t \in Links /\ NoCycle(t) /\ m \in Node /\ m # NULL /\ L \in Nat
  BY NullAssumption, KinType DEF Good, LiveIn
<1>2. \A h \in 1 .. L : s[h] \in Node /\ s[h] # NULL /\ t.parent[s[h]] = m
  BY KinType, NullAssumption DEF Kin
<1>3. /\ q \in Seq(E) /\ M \in Nat /\ (q = <<>> <=> M = 0)
      /\ q # <<>> => M \in 1 .. M /\ 1 \in 1 .. M
  BY NonEmpty DEF Part
<1>4. Enter(m) \in E /\ Exit(m) \in E /\ <<Enter(m)>> \in Seq(E) /\ <<Exit(m)>> \in Seq(E)
      /\ Len(<<Enter(m)>>) = 1 /\ Len(<<Exit(m)>>) = 1
      /\ <<Enter(m)>>[1] = Enter(m) /\ <<Exit(m)>>[1] = Exit(m)
  <2>1. Enter(m) \in E /\ Exit(m) \in E
    BY DEF EventsOf
  <2> HIDE DEF E
  <2> QED BY <2>1
<1> HIDE DEF E
<1>5. u \in Seq(E) /\ Joins(u, <<Enter(m)>>, q)
  BY <1>3, <1>4, Joined
<1>6. p \in Seq(E) /\ Joins(p, u, <<Exit(m)>>)
  BY <1>4, <1>5, Joined
<1> HIDE DEF u
<1>7. /\ Len(u) = M + 1 /\ Len(p) = M + 2
      /\ p[1] = Enter(m) /\ p[M + 2] = Exit(m)
      /\ \A j \in 1 .. M : p[1 + j] = q[j]
  <2>1. Len(u) = M + 1 /\ u[1] = Enter(m) /\ \A j \in 1 .. M : u[1 + j] = q[j]
    BY <1>3, <1>4, <1>5 DEF Joins
  <2>2. Len(p) = M + 2 /\ (\A j \in 1 .. M + 1 : p[j] = u[j]) /\ p[M + 2] = Exit(m)
    <3>1. 1 \in 1 .. Len(<<Exit(m)>>)
      BY <1>4
    <3>2. p[Len(u) + 1] = <<Exit(m)>>[1]
      BY <1>6, <3>1 DEF Joins
    <3>3. Len(p) = Len(u) + 1 /\ \A j \in 1 .. Len(u) : p[j] = u[j]
      BY <1>4, <1>6 DEF Joins
    <3> QED BY <1>3, <1>4, <2>1, <3>2, <3>3
  <2>3. ASSUME NEW j \in 1 .. M
        PROVE  p[1 + j] = q[j]
    <3>1. 1 + j \in 1 .. M + 1
      BY <1>3
    <3> QED BY <2>1, <2>2, <3>1
  <2>4. 1 \in 1 .. M + 1
    BY <1>3
  <2> QED BY <2>1, <2>2, <2>3, <2>4
<1>8. \A j \in 1 .. Len(p) : \/ j = 1 /\ p[j] = Enter(m)
                             \/ j = M + 2 /\ p[j] = Exit(m)
                             \/ \E h \in 1 .. M : j = 1 + h /\ p[j] = q[h]
  <2> SUFFICES ASSUME NEW j \in 1 .. Len(p), j # 1, j # M + 2
               PROVE  \E h \in 1 .. M : j = 1 + h /\ p[j] = q[h]
    BY <1>7
  <2>1. j - 1 \in 1 .. M /\ j = 1 + (j - 1)
    BY <1>3, <1>7
  <2> QED BY <1>7, <2>1
<1>9. \A j \in 1 .. M : q[j] \in E /\ q[j].node \in Node /\ q[j].node # m
  <2> SUFFICES ASSUME NEW j \in 1 .. M
               PROVE  q[j] \in E /\ q[j].node \in Node /\ q[j].node # m
    OBVIOUS
  <2>1. q[j] \in E
    BY <1>3
  <2>2. PICK h \in 1 .. L : Reaches(t, q[j].node, s[h])
    BY DEF Part
  <2>3. ~Reaches(t, m, s[h])
    BY <1>1, <1>2 DEF NoCycle
  <2> QED BY <2>1, <2>2, <2>3, EventIs DEF E
<1>10. /\ Entering(k, Enter(m)) /\ Leaving(k, m) = Exit(m) /\ ~Entering(k, Exit(m))
       /\ Enter(m).node = m /\ Exit(m).node = m /\ Enter(m) # Exit(m)
  BY EventFields DEF Entering
<1>11. \A j \in 1 .. Len(p) : j # M + 2 => Later(p, j, Exit(m))
  <2> SUFFICES ASSUME NEW j \in 1 .. Len(p), j # M + 2
               PROVE  Later(p, j, Exit(m))
    OBVIOUS
  <2>1. M + 2 \in j + 1 .. Len(p)
    BY <1>3, <1>7
  <2> QED BY <1>7, <2>1 DEF Later
<1>12. \A e : \A j \in 1 .. M : Later(q, j, e) => Later(p, 1 + j, e)
  <2> SUFFICES ASSUME NEW j \in 1 .. M, NEW e, Later(q, j, e)
               PROVE  Later(p, 1 + j, e)
    OBVIOUS
  <2>1. PICK h \in j + 1 .. M : q[h] = e
    BY DEF Later
  <2>2. h \in 1 .. M /\ 1 + h \in 1 + j + 1 .. Len(p)
    BY <1>3, <1>7
  <2> QED BY <1>7, <2>1, <2>2 DEF Later
<1>13. 1 \in 1 .. Len(p) /\ M + 2 \in 1 .. Len(p) /\ Len(p) \in Nat /\ 1 # M + 2
       /\ \A j \in 1 .. M : 1 + j \in 1 .. Len(p) /\ 1 + j # M + 2
  BY <1>3, <1>7
<1>14. Distinct(p)
  <2> SUFFICES ASSUME NEW j \in 1 .. Len(p), NEW h \in 1 .. Len(p), p[j] = p[h]
               PROVE  j = h
    BY DEF Distinct
  <2>1. CASE p[j] = Enter(m) \/ p[j] = Exit(m)
    BY <1>8, <1>9, <1>10, <2>1
  <2>2. CASE ~(p[j] = Enter(m) \/ p[j] = Exit(m))
    <3>1. PICK a \in 1 .. M : j = 1 + a /\ p[j] = q[a]
      BY <1>8, <2>2
    <3>2. PICK b \in 1 .. M : h = 1 + b /\ p[h] = q[b]
      BY <1>8, <2>2
    <3> QED BY <3>1, <3>2 DEF Part, Distinct
  <2> QED BY <2>1, <2>2
<1>15. Downward(t, k, p)
  <2> SUFFICES ASSUME NEW j \in 1 .. Len(p), Entering(k, p[j])
               PROVE  /\ Later(p, j, Exit(p[j].node))
                      /\ \A y \in Node : t.parent[y] = p[j].node => Later(p, j, Enter(y))
    BY DEF Downward
  <2>1. CASE j = 1
    <3>1. Later(p, j, Exit(p[j].node))
      BY <1>7, <1>10, <1>11, <1>13, <2>1
    <3>2. ASSUME NEW y \in Node, t.parent[y] = m
          PROVE  Later(p, 1, Enter(y))
      <4>1. PICK h \in 1 .. L : s[h] = y
        BY <3>2 DEF Kin
      <4>2. PICK a \in 1 .. M : q[a] = Enter(y)
        BY <4>1 DEF Part
      <4>3. 1 + a \in 1 + 1 .. Len(p)
        BY <1>3, <1>7
      <4> QED BY <1>7, <4>2, <4>3 DEF Later
    <3> QED BY <1>7, <1>10, <2>1, <3>1, <3>2
  <2>2. CASE \E h \in 1 .. M : j = 1 + h /\ p[j] = q[h]
    <3>1. PICK h \in 1 .. M : j = 1 + h /\ p[j] = q[h]
      BY <2>2
    <3>2. /\ Later(q, h, Exit(p[j].node))
          /\ \A y \in Node : t.parent[y] = p[j].node => Later(q, h, Enter(y))
      BY <3>1 DEF Part, Downward
    <3> QED BY <1>12, <3>1, <3>2
  <2> QED BY <1>8, <1>10, <2>1, <2>2
<1>16. Onward(t, k, p, m)
  <2> SUFFICES ASSUME NEW j \in 1 .. Len(p), ~Entering(k, p[j]), p[j].node # m, t.next[p[j].node] # NULL
               PROVE  Later(p, j, Enter(t.next[p[j].node]))
    BY DEF Onward
  <2>1. PICK h \in 1 .. M : j = 1 + h /\ p[j] = q[h]
    BY <1>8, <1>10
  <2>2. q[h].node # s[L]
    <3>1. L # 0
      <4>1. \E g \in 1 .. L : Reaches(t, q[h].node, s[g])
        BY DEF Part
      <4> QED BY <4>1
    <3>2. L \in 1 .. L
      BY <1>1, <3>1
    <3>3. t.next[s[L]] = NULL
      BY <3>2 DEF Kin
    <3> QED BY <2>1, <3>3
  <2>3. Later(q, h, Enter(t.next[p[j].node]))
    BY <2>1, <2>2 DEF Part
  <2> QED BY <1>12, <2>1, <2>3
<1>17. Upward(t, p, m)
  <2> SUFFICES ASSUME NEW j \in 1 .. Len(p), p[j].node # m
               PROVE  t.parent[p[j].node] # NULL /\ Later(p, j, Exit(t.parent[p[j].node]))
    BY DEF Upward
  <2>1. PICK h \in 1 .. M : j = 1 + h /\ p[j] = q[h]
    BY <1>8, <1>10
  <2>2. /\ t.parent[q[h].node] # NULL
        /\ t.parent[q[h].node] # m => Later(q, h, Exit(t.parent[q[h].node]))
    BY DEF Part
  <2> QED BY <1>11, <1>12, <1>13, <2>1, <2>2
<1>18. Rolling(t, k, p, m)
  <2> SUFFICES ASSUME NEW j \in 1 .. Len(p) - 1
               PROVE  p[j] # Leaving(k, m) /\ p[j + 1] = Roll(t, k, p[j])
    BY DEF Rolling
  <2>1. j \in 1 .. Len(p) /\ j # M + 2
    BY <1>3, <1>7
  <2>2. CASE j = 1
    <3>1. p[j] = Enter(m)
      BY <1>7, <2>2
    <3>2. t.first[m] = IF L = 0 THEN NULL ELSE s[1]
      BY DEF Kin
    <3>3. CASE L = 0
      <4>1. M = 0
        <5>1. \A g \in 1 .. M : \E h \in 1 .. L : Reaches(t, q[g].node, s[h])
          BY DEF Part
        <5>2. M # 0 => 1 \in 1 .. M
          BY <1>3
        <5> QED BY <1>1, <3>3, <5>1, <5>2
      <4> QED BY <1>7, <1>10, <2>2, <3>1, <3>2, <3>3, <4>1 DEF Roll
    <3>4. CASE L # 0
      <4>1. q # <<>> /\ q[1] = Enter(s[1])
        BY <3>4 DEF Part
      <4>2. s[1] # NULL
        <5>1. 1 \in 1 .. L
          BY <1>1, <3>4
        <5> QED BY <1>2, <5>1
      <4>3. p[1 + 1] = q[1]
        BY <1>3, <1>7, <4>1
      <4> QED BY <1>10, <2>2, <3>1, <3>2, <3>4, <4>1, <4>2, <4>3 DEF Roll
    <3> QED BY <3>3, <3>4
  <2>3. CASE j # 1
    <3>1. PICK h \in 1 .. M : j = 1 + h /\ p[j] = q[h]
      BY <1>8, <2>1, <2>3
    <3>2. p[j] # Leaving(k, m)
      BY <1>9, <1>10, <3>1
    <3>3. CASE h \in 1 .. M - 1
      <4>1. h + 1 \in 1 .. M /\ j + 1 = 1 + (h + 1)
        BY <1>3, <3>1, <3>3
      <4>2. p[j + 1] = q[h + 1]
        BY <1>7, <4>1
      <4> QED BY <3>1, <3>2, <3>3, <4>2 DEF Part
    <3>4. CASE h = M
      <4>1. L # 0 /\ j + 1 = M + 2
        <5>1. \E g \in 1 .. L : Reaches(t, q[h].node, s[g])
          BY DEF Part
        <5> QED BY <1>3, <3>1, <3>4, <5>1
      <4>2. q[M] = Leaving(k, s[L])
        BY <4>1 DEF Part
      <4>3. Leaving(k, s[L]).node = s[L] /\ ~Entering(k, Leaving(k, s[L]))
        BY EventFields
      <4>4. t.next[s[L]] = NULL /\ t.parent[s[L]] = m
        <5>1. L \in 1 .. L
          BY <1>1, <4>1
        <5> QED BY <5>1 DEF Kin
      <4>5. Roll(t, k, p[j]) = Exit(m)
        BY <3>1, <3>4, <4>2, <4>3, <4>4 DEF Roll
      <4> QED BY <1>7, <3>2, <4>1, <4>5
    <3> QED BY <1>3, <3>3, <3>4
  <2> QED BY <2>2, <2>3
<1>19. p # <<>> /\ p[Len(p)] = Leaving(k, m)
  <2>1. Len(p) # 0
    BY <1>3, <1>7
  <2> QED BY <1>6, <1>7, <1>10, <2>1, NonEmpty
<1> QED BY <1>6, <1>7, <1>14, <1>15, <1>16, <1>17, <1>18, <1>19 DEF Whole, Route, E

\* The walk over a leaf
LEMMA LeafWhole ==
  ASSUME NEW t, NEW k, NEW m \in LiveIn(k), Lf(k, m)
  PROVE  Whole(t, k, m, <<Enter(m)>>)
<1> DEFINE E == EventsOf(k)
<1>1. Enter(m) \in E
  BY DEF EventsOf
<1>2. Leaving(k, m) = Enter(m) /\ Enter(m).node = m /\ ~Entering(k, Enter(m))
  BY EventFields DEF Leaving, Entering
<1> HIDE DEF E
<1>3. PICK p : p = <<Enter(m)>>
  OBVIOUS
<1>4. p \in Seq(E) /\ Len(p) = 1 /\ p[1] = Enter(m) /\ p # <<>>
  BY <1>1, <1>3
<1>5. \A j \in 1 .. Len(p) : j = 1 /\ p[j] = Enter(m)
  BY <1>4
<1>6. Distinct(p) /\ Downward(t, k, p) /\ Onward(t, k, p, m) /\ Upward(t, p, m) /\ Rolling(t, k, p, m)
  <2>1. 1 .. Len(p) - 1 = {}
    BY <1>4
  <2> QED BY <1>2, <1>5, <2>1 DEF Distinct, Downward, Onward, Upward, Rolling
<1>7. p[Len(p)] = Leaving(k, m)
  BY <1>2, <1>4
<1> QED BY <1>3, <1>4, <1>6, <1>7 DEF Whole, Route, E

\* The functions that FlattenSeq and Walk define by recursion exist.
Flattens(h, g, N) == h = [i \in 1 .. N |-> IF i = 1 THEN g[i] ELSE h[i - 1] \o g[i]]

LEMMA FlattensNext ==
  ASSUME NEW g, NEW N \in Nat, NEW h, Flattens(h, g, N)
  PROVE  \E a : Flattens(a, g, N + 1)
<1> DEFINE a == [i \in 1 .. N + 1 |-> IF i = 1 THEN g[1] ELSE h[i - 1] \o g[i]]
           b == [i \in 1 .. N + 1 |-> IF i = 1 THEN g[i] ELSE a[i - 1] \o g[i]]
<1>1. \A i \in 1 .. N : h[i] = IF i = 1 THEN g[i] ELSE h[i - 1] \o g[i]
  BY DEF Flattens
<1>2. \A i \in 1 .. N : a[i] = h[i]
  <2> TAKE i \in 1 .. N
  <2>1. i \in 1 .. N + 1
    OBVIOUS
  <2> QED BY <1>1, <2>1
<1>3. \A i \in 1 .. N + 1 : a[i] = b[i]
  <2> TAKE i \in 1 .. N + 1
  <2>1. i # 1 => i - 1 \in 1 .. N
    OBVIOUS
  <2>2. a[i] = IF i = 1 THEN g[i] ELSE h[i - 1] \o g[i]
    OBVIOUS
  <2>3. b[i] = IF i = 1 THEN g[i] ELSE a[i - 1] \o g[i]
    <3> HIDE DEF a
    <3> QED OBVIOUS
  <2> HIDE DEF a, b
  <2> QED BY <1>2, <2>1, <2>2, <2>3
<1>4. a = b
  <2> DEFINE x(i) == IF i = 1 THEN g[1] ELSE h[i - 1] \o g[i]
             y(i) == IF i = 1 THEN g[i] ELSE a[i - 1] \o g[i]
  <2>1. \A i \in 1 .. N + 1 : a[i] = x(i)
    OBVIOUS
  <2>2. \A i \in 1 .. N + 1 : b[i] = y(i)
    <3> HIDE DEF a
    <3> QED OBVIOUS
  <2>3. a = [i \in 1 .. N + 1 |-> x(i)] /\ b = [i \in 1 .. N + 1 |-> y(i)]
    OBVIOUS
  <2> HIDE DEF a, b, x, y
  <2> QED BY <1>3, <2>1, <2>2, <2>3
<1>5. Flattens(a, g, N + 1)
  <2> HIDE DEF a
  <2> QED BY <1>4 DEF Flattens
<1> QED BY <1>5

LEMMA FlattensExists ==
  ASSUME NEW g, NEW N \in Nat
  PROVE  \E h : Flattens(h, g, N)
<1> DEFINE Bad == {n \in Nat : ~\E h : Flattens(h, g, n)}
<1> SUFFICES ASSUME Bad # {}
             PROVE  FALSE
  OBVIOUS
<1>1. PICK n \in Bad : \A j \in Bad : n <= j
  <2>1. Bad \subseteq Nat
    OBVIOUS
  <2> HIDE DEF Bad
  <2> QED BY <2>1, Least
<1>2. n \in Nat /\ ~\E h : Flattens(h, g, n)
  OBVIOUS
<1>3. n # 0
  <2>1. Flattens([i \in 1 .. 0 |-> 0], g, 0)
    BY DEF Flattens
  <2> QED BY <1>2, <2>1
<1>4. n - 1 \in Nat /\ n - 1 + 1 = n /\ ~(n <= n - 1)
  BY <1>2, <1>3
<1>5. n - 1 \notin Bad
  <2> HIDE DEF Bad
  <2> QED BY <1>1, <1>4
<1>6. PICK h : Flattens(h, g, n - 1)
  BY <1>4, <1>5
<1>7. PICK j \in Nat : j = n - 1
  BY <1>4
<1>8. \E a : Flattens(a, g, j + 1)
  BY <1>6, <1>7, FlattensNext
<1> QED BY <1>2, <1>4, <1>7, <1>8

\* The walks over the children, one after the other
LEMMA FlatPart ==
  ASSUME NEW t, NEW k, Good(t, k), NEW m \in LiveIn(k), NEW s, Kin(t, m, s),
         NEW g, DOMAIN g = 1 .. Len(s), Len(g) = Len(s), Len(s) = 0 => g = <<>>,
         \A i \in 1 .. Len(s) : Whole(t, k, s[i], g[i])
  PROVE  Part(t, k, s, m, Len(s), FlattenSeq(g))
<1> DEFINE L == Len(s)
           h == CHOOSE a : a = [i \in 1 .. Len(g) |-> IF i = 1 THEN g[i] ELSE a[i - 1] \o g[i]]
           q == [i \in 0 .. L |-> IF i = 0 THEN <<>> ELSE h[i]]
<1>1. FlattenSeq(g) = IF L = 0 THEN g ELSE h[Len(g)]
  BY DEF FlattenSeq
<1>2. L \in Nat
  BY KinType
<1>3. Flattens(h, g, L)
  <2>1. \E a : Flattens(a, g, L)
    BY <1>2, FlattensExists
  <2> QED BY <2>1 DEF Flattens
<1> HIDE DEF h
<1>4. FlattenSeq(g) = q[L]
  BY <1>1, <1>2
<1>5. q[0] = <<>>
  BY <1>2
<1>6. ASSUME NEW i \in 0 .. L, i + 1 \in 1 .. L, Part(t, k, s, m, i, q[i])
      PROVE  q[i + 1] = q[i] \o g[i + 1]
  <2>1. q[i] \in Seq(EventsOf(k)) /\ g[i + 1] \in Seq(EventsOf(k))
    BY <1>6 DEF Part, Whole, Route
  <2>2. i + 1 \in 0 .. L /\ i + 1 # 0
    BY <1>2, <1>6
  <2>3. q[i + 1] = h[i + 1]
    BY <2>2
  <2>4. h[i + 1] = IF i + 1 = 1 THEN g[i + 1] ELSE h[i + 1 - 1] \o g[i + 1]
    <3>1. \A j \in 1 .. L : h[j] = IF j = 1 THEN g[j] ELSE h[j - 1] \o g[j]
      BY <1>3 DEF Flattens
    <3>2. PICK j \in 1 .. L : j = i + 1
      BY <1>6
    <3> QED BY <3>1, <3>2
  <2>5. CASE i = 0
    BY <1>5, <2>1, <2>3, <2>4, <2>5, ConcatEmptySeq
  <2>6. CASE i # 0
    <3>1. i + 1 # 1 /\ i + 1 - 1 = i /\ q[i] = h[i]
      BY <1>2, <2>6
    <3> QED BY <2>3, <2>4, <3>1
  <2> QED BY <2>5, <2>6
<1> HIDE DEF q
<1>7. Part(t, k, s, m, 0, q[0])
  <2>1. Len(<<>>) = 0 /\ 1 .. 0 = {} /\ 1 .. 0 - 1 = {} /\ <<>> \in Seq(EventsOf(k))
    OBVIOUS
  <2>2. PICK e : e = <<>>
    OBVIOUS
  <2>3. Part(t, k, s, m, 0, e)
    BY <2>1, <2>2 DEF Part, Distinct, Downward
  <2> QED BY <1>5, <2>2, <2>3
<1>8. ASSUME NEW i \in 0 .. L, i + 1 \in 1 .. L, Part(t, k, s, m, i, q[i])
      PROVE  Part(t, k, s, m, i + 1, q[i + 1])
  <2>1. q[i + 1] = q[i] \o g[i + 1] /\ Whole(t, k, s[i + 1], g[i + 1])
    BY <1>6, <1>8
  <2>2. PICK a, b, u : a = q[i] /\ b = g[i + 1] /\ u = q[i + 1]
    OBVIOUS
  <2>3. u = a \o b /\ Part(t, k, s, m, i, a) /\ Whole(t, k, s[i + 1], b)
    BY <1>8, <2>1, <2>2
  <2>4. Part(t, k, s, m, i + 1, u)
    BY <1>8, <2>3, PartStep
  <2> QED BY <2>2, <2>4
<1> DEFINE Bad == {i \in 0 .. L : ~Part(t, k, s, m, i, q[i])}
<1>9. Bad = {}
  <2> SUFFICES ASSUME Bad # {}
               PROVE  FALSE
    OBVIOUS
  <2>1. PICK n \in Bad : \A j \in Bad : n <= j
    <3>1. Bad \subseteq Nat
      BY <1>2
    <3> HIDE DEF Bad
    <3> QED BY <3>1, Least
  <2>2. n \in 0 .. L /\ ~Part(t, k, s, m, n, q[n]) /\ n \in Nat
    BY <1>2
  <2>3. n # 0
    BY <1>7, <2>2
  <2>4. PICK j \in 0 .. L : j = n - 1 /\ j + 1 = n /\ j + 1 \in 1 .. L /\ ~(n <= j)
    BY <1>2, <2>2, <2>3
  <2>5. j \notin Bad
    <3> HIDE DEF Bad
    <3> QED BY <2>1, <2>4
  <2>6. Part(t, k, s, m, j, q[j])
    BY <2>5
  <2>7. Part(t, k, s, m, j + 1, q[j + 1])
    BY <1>8, <2>4, <2>6
  <2> QED BY <2>2, <2>4, <2>7
<1>10. L \in 0 .. L
  BY <1>2
<1> QED BY <1>4, <1>9, <1>10

\* One level of the recursion of Walk: v has the walks over the children.
Round(v, m) ==
  IF Leaf(m) THEN <<Event("enter", m)>>
  ELSE <<Event("enter", m)>>
         \o FlattenSeq([i \in DOMAIN Chain(m) |-> v[Chain(m)[i]]])
         \o <<Event("exit", m)>>
Walks(w, N) == w = [d \in 0 .. N |-> [m \in Node |-> IF d = 0 THEN <<>> ELSE Round(w[d - 1], m)]]

LEMMA WalksNext ==
  ASSUME NEW N \in Nat, NEW w, Walks(w, N)
  PROVE  \E a : Walks(a, N + 1)
<1> DEFINE A(d) == [m \in Node |-> IF d = 0 THEN <<>> ELSE Round(w[d - 1], m)]
           a == [d \in 0 .. N + 1 |-> A(d)]
           B(d) == [m \in Node |-> IF d = 0 THEN <<>> ELSE Round(a[d - 1], m)]
           b == [d \in 0 .. N + 1 |-> B(d)]
<1>1. \A d \in 0 .. N : w[d] = A(d)
  BY DEF Walks
<1>2. \A d \in 0 .. N : a[d] = w[d]
  <2> TAKE d \in 0 .. N
  <2>1. d \in 0 .. N + 1
    OBVIOUS
  <2>2. a[d] = A(d)
    <3> HIDE DEF A
    <3> QED BY <2>1
  <2> HIDE DEF A, a
  <2> QED BY <1>1, <2>2
<1>3. \A d \in 0 .. N + 1 : A(d) = B(d)
  <2> TAKE d \in 0 .. N + 1
  <2>1. CASE d = 0
    BY <2>1
  <2>2. CASE d # 0
    <3>1. d - 1 \in 0 .. N
      BY <2>2
    <3>2. a[d - 1] = w[d - 1]
      BY <1>2, <3>1
    <3> HIDE DEF a
    <3> QED BY <3>2
  <2> QED BY <2>1, <2>2
<1>4. a = b
  <2> HIDE DEF A, B
  <2> QED BY <1>3
<1>5. Walks(a, N + 1)
  <2> HIDE DEF a
  <2> QED BY <1>4 DEF Walks
<1> QED BY <1>5

LEMMA WalksExist ==
  ASSUME NEW N \in Nat
  PROVE  \E w : Walks(w, N)
<1> DEFINE Bad == {n \in Nat : ~\E w : Walks(w, n)}
<1> SUFFICES ASSUME Bad # {}
             PROVE  FALSE
  OBVIOUS
<1>1. PICK n \in Bad : \A j \in Bad : n <= j
  <2>1. Bad \subseteq Nat
    OBVIOUS
  <2> HIDE DEF Bad
  <2> QED BY <2>1, Least
<1>2. n \in Nat /\ ~\E w : Walks(w, n)
  OBVIOUS
<1>3. n # 0
  <2> DEFINE a == [d \in 0 .. 0 |-> [m \in Node |-> <<>>]]
             b == [d \in 0 .. 0 |-> [m \in Node |-> IF d = 0 THEN <<>> ELSE Round(a[d - 1], m)]]
  <2>1. \A d \in 0 .. 0 : [m \in Node |-> IF d = 0 THEN <<>> ELSE Round(a[d - 1], m)] = [m \in Node |-> <<>>]
    <3> HIDE DEF a
    <3> QED OBVIOUS
  <2>2. a = b
    <3> DEFINE x(d) == [m \in Node |-> IF d = 0 THEN <<>> ELSE Round(a[d - 1], m)]
               y == [m \in Node |-> <<>>]
    <3>1. \A d \in 0 .. 0 : x(d) = y
      BY <2>1
    <3>2. a = [d \in 0 .. 0 |-> y] /\ b = [d \in 0 .. 0 |-> x(d)]
      OBVIOUS
    <3> HIDE DEF a, b, x, y
    <3> QED BY <3>1, <3>2
  <2>3. Walks(a, 0)
    <3> HIDE DEF a
    <3> QED BY <2>2 DEF Walks
  <2> QED BY <1>2, <2>3
<1>4. PICK j \in Nat : j = n - 1 /\ j + 1 = n /\ ~(n <= j)
  BY <1>2, <1>3
<1>5. j \notin Bad
  <2> HIDE DEF Bad
  <2> QED BY <1>1, <1>4
<1>6. PICK w : Walks(w, j)
  BY <1>5
<1>7. \E a : Walks(a, j + 1)
  BY <1>6, WalksNext
<1> QED BY <1>2, <1>4, <1>7

\* The children of a node have fewer nodes below them.
LEMMA FewerBelow ==
  ASSUME NEW t, NEW k, Good(t, k), NEW m \in LiveIn(k), NEW x \in Node, t.parent[x] = m
  PROVE  /\ x \in LiveIn(k)
         /\ Cardinality(Subtree(t, x)) \in Nat /\ Cardinality(Subtree(t, m)) \in Nat
         /\ Cardinality(Subtree(t, x)) < Cardinality(Subtree(t, m))
<1>1. t \in Links /\ NoCycle(t) /\ Confined(t, LiveIn(k)) /\ m \in Node /\ m # NULL
  BY NullAssumption DEF Good, LiveIn
<1>2. x \in LiveIn(k)
  BY <1>1 DEF Confined
<1>3. Subtree(t, x) \subseteq Subtree(t, m)
  <2> SUFFICES ASSUME NEW y \in Subtree(t, x)
               PROVE  y \in Subtree(t, m)
    OBVIOUS
  <2>1. m \in Subtree(t, m) /\ x \in Subtree(t, m)
    BY <1>1, SubtreeClosed
  <2>2. \A S \in SUBSET Node : y \in S /\ UpClosed(t, S) => m \in S
    <3> SUFFICES ASSUME NEW S \in SUBSET Node, y \in S, UpClosed(t, S)
                 PROVE  m \in S
      OBVIOUS
    <3>1. x \in S
      BY DEF Subtree, Reaches
    <3> QED BY <1>1, <3>1 DEF UpClosed
  <2> QED BY <2>2 DEF Subtree, Reaches
<1>4. m \in Subtree(t, m) /\ m \notin Subtree(t, x)
  BY <1>1, SubtreeClosed DEF Subtree, NoCycle
<1>5. IsFiniteSet(Subtree(t, m))
  BY NodeAssumption, FS_Subset DEF Subtree
<1>6. IsFiniteSet(Subtree(t, x)) /\ Cardinality(Subtree(t, x)) <= Cardinality(Subtree(t, m))
      /\ (Cardinality(Subtree(t, x)) = Cardinality(Subtree(t, m)) => Subtree(t, x) = Subtree(t, m))
  BY <1>3, <1>5, FS_Subset
<1>7. Cardinality(Subtree(t, x)) \in Nat /\ Cardinality(Subtree(t, m)) \in Nat
  BY <1>5, <1>6, FS_CardinalityType
<1> QED BY <1>2, <1>4, <1>6, <1>7

LEMMA RoundWhole ==
  ASSUME Shape, NEW m \in Live, NEW v,
         \A x \in Live : Cardinality(Subtree(links, x)) < Cardinality(Subtree(links, m)) =>
                           Whole(links, kind, x, v[x])
  PROVE  Whole(links, kind, m, Round(v, m))
<1>1. PICK f : Kids(links, f)
  BY DEF Shape
<1>2. /\ Good(links, kind) /\ m \in LiveIn(kind) /\ Live = LiveIn(kind) /\ m \in Node
      /\ Leaf(m) <=> Lf(kind, m)
  BY DEF Shape, IInv, Live, LiveIn, Leaf, Lf
<1>3. CASE Leaf(m)
  <2>1. Round(v, m) = <<Enter(m)>>
    BY <1>3 DEF Round, Enter
  <2> QED BY <1>2, <1>3, <2>1, LeafWhole
<1>4. CASE ~Leaf(m)
  <2> DEFINE s == f[m]
             g == [i \in DOMAIN s |-> v[s[i]]]
  <2>1. Chain(m) = s
    <3>1. [p \in Node |-> Chain(p)] = f
      BY <1>1, ChainsNow DEF Shape
    <3>2. [p \in Node |-> Chain(p)][m] = f[m]
      BY <3>1
    <3> QED BY <1>2, <3>2
  <2>2. Kin(links, m, s)
    BY <1>1, <1>2 DEF Kids
  <2> HIDE DEF s
  <2>3. s \in Seq(Node) /\ Len(s) \in Nat /\ DOMAIN s = 1 .. Len(s)
        /\ \A i \in 1 .. Len(s) : s[i] \in Node /\ links.parent[s[i]] = m
    BY <2>2, KinType DEF Kin
  <2>4. Round(v, m) = (<<Enter(m)>> \o FlattenSeq(g)) \o <<Exit(m)>>
    BY <1>4, <2>1 DEF Round, Enter, Exit
  <2>5. DOMAIN g = 1 .. Len(s) /\ \A i \in 1 .. Len(s) : g[i] = v[s[i]]
    BY <2>3
  <2>6. Len(g) = Len(s) /\ (Len(s) = 0 => g = <<>>)
    <3>1. g = [i \in 1 .. Len(s) |-> v[s[i]]]
      BY <2>3
    <3> DEFINE e(i) == v[s[i]]
    <3>2. g = [i \in 1 .. Len(s) |-> e(i)]
      BY <3>1
    <3> HIDE DEF g, e
    <3> QED BY <2>3, <3>2
  <2>7. \A i \in 1 .. Len(s) : Whole(links, kind, s[i], g[i])
    <3> TAKE i \in 1 .. Len(s)
    <3>1. s[i] \in Node /\ links.parent[s[i]] = m
      BY <2>3
    <3>2. s[i] \in Live /\ Cardinality(Subtree(links, s[i])) < Cardinality(Subtree(links, m))
      BY <1>2, <3>1, FewerBelow
    <3> HIDE DEF g
    <3> QED BY <2>5, <3>2
  <2> HIDE DEF g
  <2>8. Part(links, kind, s, m, Len(s), FlattenSeq(g))
    BY <1>2, <2>2, <2>5, <2>6, <2>7, FlatPart
  <2>9. PICK q : q = FlattenSeq(g)
    OBVIOUS
  <2> QED BY <1>2, <1>4, <2>2, <2>4, <2>8, <2>9, PartWhole
<1> QED BY <1>3, <1>4

LEMMA WalkWhole ==
  ASSUME Shape, NEW r \in Live
  PROVE  Whole(links, kind, r, Walk(r))
<1> DEFINE N == Cardinality(Node)
           C(m) == Cardinality(Subtree(links, m))
           w == CHOOSE a : a = [d \in 0 .. N |-> [m \in Node |->
                  IF d = 0 THEN <<>>
                  ELSE IF Leaf(m) THEN <<Event("enter", m)>>
                  ELSE <<Event("enter", m)>>
                         \o FlattenSeq([i \in DOMAIN Chain(m) |-> a[d - 1][Chain(m)[i]]])
                         \o <<Event("exit", m)>>]]
<1>1. Walk(r) = w[N][r]
  BY DEF Walk
<1>2. N \in Nat
  BY NodeAssumption, FS_CardinalityType
<1>3. Walks(w, N)
  <2>1. \E a : Walks(a, N)
    <3> HIDE DEF N
    <3> QED BY <1>2, WalksExist
  <2> QED BY <2>1 DEF Walks, Round
<1> HIDE DEF w
<1>4. \A m \in Live : m \in Node /\ C(m) \in Nat /\ C(m) # 0 /\ C(m) <= N
  <2> TAKE m \in Live
  <2>1. m \in Node /\ m \in Subtree(links, m) /\ Subtree(links, m) \in SUBSET Node
    <3>1. m \in Node /\ links \in Links
      BY DEF Live, Shape, IInv, Good
    <3> QED BY <3>1, SubtreeClosed DEF Subtree
  <2>2. IsFiniteSet(Subtree(links, m)) /\ C(m) <= N
    BY <2>1, NodeAssumption, FS_Subset
  <2>3. C(m) \in Nat /\ C(m) # 0
    BY <2>1, <2>2, FS_CardinalityType, FS_EmptySet
  <2> QED BY <2>1, <2>2, <2>3
<1> HIDE DEF N, C
<1>5. \A d \in 0 .. N, m \in Node : d # 0 => w[d][m] = Round(w[d - 1], m)
  <2> TAKE d \in 0 .. N, m \in Node
  <2> DEFINE A(e) == [x \in Node |-> IF e = 0 THEN <<>> ELSE Round(w[e - 1], x)]
  <2>1. w[d] = A(d)
    <3>1. w = [e \in 0 .. N |-> A(e)]
      BY <1>3 DEF Walks
    <3> HIDE DEF A
    <3> QED BY <3>1
  <2>2. d # 0 => A(d)[m] = Round(w[d - 1], m)
    OBVIOUS
  <2> HIDE DEF A
  <2> QED BY <2>1, <2>2
<1> DEFINE Walked(d) == \A m \in Live : C(m) <= d => Whole(links, kind, m, w[d][m])
           Bad == {d \in 0 .. N : ~Walked(d)}
<1>6. ASSUME NEW d \in 0 .. N, NEW j \in 0 .. N, j = d - 1, d # 0, Walked(j)
      PROVE  Walked(d)
  <2> SUFFICES ASSUME NEW m \in Live, C(m) <= d
               PROVE  Whole(links, kind, m, w[d][m])
    OBVIOUS
  <2>1. ASSUME NEW x \in Live, C(x) < C(m)
        PROVE  Whole(links, kind, x, w[j][x])
    <3>1. C(x) <= j
      BY <1>2, <1>4, <1>6, <2>1
    <3> QED BY <1>6, <3>1
  <2>2. PICK v : v = w[j]
    OBVIOUS
  <2>3. \A x \in Live : Cardinality(Subtree(links, x)) < Cardinality(Subtree(links, m)) =>
                          Whole(links, kind, x, v[x])
    BY <2>1, <2>2 DEF C
  <2>4. Whole(links, kind, m, Round(v, m))
    BY <2>3, RoundWhole
  <2>5. w[d][m] = Round(v, m)
    BY <1>4, <1>5, <1>6, <2>2
  <2> QED BY <2>4, <2>5
<1>7. Walked(0)
  BY <1>4
<1>8. Bad = {}
  <2> SUFFICES ASSUME Bad # {}
               PROVE  FALSE
    OBVIOUS
  <2> HIDE DEF Walked
  <2>1. PICK d \in Bad : \A j \in Bad : d <= j
    <3>1. Bad \subseteq Nat
      BY <1>2
    <3> HIDE DEF Bad
    <3> QED BY <3>1, Least
  <2>2. d \in 0 .. N /\ ~Walked(d) /\ d \in Nat
    BY <1>2
  <2>3. d # 0
    BY <1>7, <2>2
  <2>4. PICK j \in 0 .. N : j = d - 1 /\ ~(d <= j)
    BY <1>2, <2>2, <2>3
  <2>5. j \notin Bad
    <3> HIDE DEF Bad
    <3> QED BY <2>1, <2>4
  <2>6. Walked(j)
    BY <2>5
  <2> QED BY <1>6, <2>2, <2>3, <2>4, <2>6
<1>9. N \in 0 .. N /\ C(r) <= N
  BY <1>2, <1>4
<1>10. Walked(N)
  <2> HIDE DEF Walked
  <2> QED BY <1>8, <1>9
<1> QED BY <1>1, <1>9, <1>10

-----------------------------------------------------------------------------
(* Every step. *)

LEMMA BeginStep ==
  ASSUME IterInv, NEW r \in Live, Start(r) \/ Consolidate(r)
  PROVE  IterInv'
<1>1. /\ user = "nobody" /\ user' \in {"program", "visit"}
      /\ iter' = IterNew(r) /\ plan' = Walk(r)
      /\ UNCHANGED <<held, links, kind>>
  BY DEF Start, Consolidate, Begin, treeVars, textVars
<1>2. Shape' /\ Whole(links, kind, r, Walk(r)) /\ r \in Node
  BY <1>1, WalkWhole DEF IterInv, Shape, IInv, Live
<1>3. iter' = [root |-> r, cur |-> Nothing, next |-> Enter(r)]
  BY <1>1 DEF IterNew, Enter
<1>4. Walking'
  <2>1. PICK q : q = plan'
    OBVIOUS
  <2>2. Whole(links, kind, r, q) /\ iter'.root = r /\ iter'.next = Enter(r)
    BY <1>1, <1>2, <1>3, <2>1
  <2>3. links' = links /\ kind' = kind
    BY <1>1
  <2> QED BY <1>2, <2>1, <2>2, <2>3 DEF Walking, Whole
<1>5. ~held'
  BY <1>1 DEF IterInv, Handing
<1>6. Handing'
  BY <1>5 DEF Handing
<1> QED BY <1>1, <1>2, <1>3, <1>4, <1>6 DEF IterInv, Merging

LEMMA NextIterInv == IterInv /\ [IterActs]_allVars => IterInv'
<1> SUFFICES ASSUME IterInv, [IterActs]_allVars
             PROVE  IterInv'
  OBVIOUS
<1>1. ASSUME NEW k \in Kind, NEW p \in Live \cup {NULL}, Grow(k, p)
      PROVE  IterInv'
  BY <1>1, GrowStep
<1>2. ASSUME NEW r \in Live, Start(r) \/ Consolidate(r)
      PROVE  IterInv'
  BY <1>2, BeginStep
<1>3. CASE Skip
  BY <1>3, SkipStep
<1>4. CASE Modify
  BY <1>4, ModifyStep
<1>5. CASE Step
  BY <1>5, StepStep
<1>6. CASE Visit
  BY <1>6, VisitStep
<1>7. CASE Merge
  BY <1>7, MergeStep
<1>8. CASE EndMerge
  BY <1>8, QuietStep DEF EndMerge, treeVars
<1>9. CASE Over \/ UNCHANGED allVars
  BY <1>9, QuietStep DEF Over, allVars, textVars
<1> QED BY <1>1, <1>2, <1>3, <1>4, <1>5, <1>6, <1>7, <1>8, <1>9 DEF IterActs, Loops

(* Whatever a program does to nodes that the walk has left, and whatever   *)
(* cmark_consolidate_text_nodes frees, the rest of the walk is one that    *)
(* the pointers lead along.                                                *)
THEOREM IterInvHolds == IterSpec => []IterInv
<1> QED BY InitIterInv, NextIterInv, PTL DEF IterSpec

(* The iterator gives the events of the walk over the tree as it was when  *)
(* the walk began, and its next node is never one that was freed           *)
(* (cmark_iter_next, cmark_iter_reset, cmark_consolidate_text_nodes).      *)
THEOREM WalksAreSound == IterSpec => []WalkSound
<1>1. IterInv => WalkSound
  <2> SUFFICES ASSUME IterInv
               PROVE  FollowsPlan /\ NextIsLive
    BY DEF WalkSound
  <2>1. FollowsPlan
    BY DEF IterInv, Walking, FollowsPlan
  <2>2. NextIsLive
    <3>1. CASE user = "nobody"
      BY <3>1 DEF IterInv, NextIsLive, Nothing, Event
    <3>2. CASE user # "nobody" /\ plan = <<>>
      BY <3>2 DEF IterInv, Walking, NextIsLive, End, Event
    <3>3. CASE user # "nobody" /\ plan # <<>>
      <4>1. Route(links, kind, plan, iter.root) /\ iter.next = plan[1]
        BY <3>3 DEF IterInv, Walking
      <4>2. 1 \in 1 .. Len(plan)
        BY <3>3, <4>1, NonEmpty DEF Route
      <4>3. plan[1].node \in Live
        BY <4>1, <4>2, RouteEvents, EventIs, IterFacts
      <4> QED BY <4>1, <4>3 DEF NextIsLive
    <3> QED BY <3>1, <3>2, <3>3
  <2> QED BY <2>1, <2>2
<1> QED BY <1>1, IterInvHolds, PTL

-----------------------------------------------------------------------------
(* A fold over a sequence c, as MapThenFoldSet defines it: by recursion on  *)
(* sets of places, of which the last one is taken.                          *)

FoldedFrom(it, b, g, c, N) ==
  it = [T \in SUBSET (1 .. N) |-> IF T = {} THEN b ELSE g[it[T \ {Max(T)}]][c[Max(T)]]]

\* The last place of a set of places
LEMMA LastOf ==
  ASSUME NEW N \in Nat, NEW T \in SUBSET (1 .. N), T # {}
  PROVE  Max(T) \in T /\ \A y \in T : Max(T) >= y
<1> DEFINE D == {N - j : j \in T}
<1>1. D \subseteq Nat /\ D # {}
  OBVIOUS
<1>2. PICK m \in D : \A k \in D : m <= k
  <2> HIDE DEF D
  <2> QED BY <1>1, Least
<1>3. PICK x \in T : m = N - x
  OBVIOUS
<1>4. \A y \in T : x >= y
  <2> TAKE y \in T
  <2>1. m <= N - y
    BY <1>2
  <2>2. x \in 1 .. N /\ y \in 1 .. N
    OBVIOUS
  <2> HIDE DEF D
  <2> QED BY <1>3, <2>1, <2>2
<1>5. \E z \in T : \A y \in T : z >= y
  BY <1>4
<1> QED BY <1>5 DEF Max

\* A fold over N elements extends to one over N + 1.
LEMMA FoldNext ==
  ASSUME NEW b, NEW g, NEW c, NEW N \in Nat, NEW it, FoldedFrom(it, b, g, c, N)
  PROVE  \E a : FoldedFrom(a, b, g, c, N + 1)
<1> DEFINE M == N + 1
           a == [T \in SUBSET (1 .. M) |-> IF M \in T THEN g[it[T \ {M}]][c[M]] ELSE it[T]]
           X(T) == IF T = {} THEN b ELSE g[a[T \ {Max(T)}]][c[Max(T)]]
<1>1. \A T \in SUBSET (1 .. N) : it[T] = IF T = {} THEN b ELSE g[it[T \ {Max(T)}]][c[Max(T)]]
  BY DEF FoldedFrom
<1>2. \A T \in SUBSET (1 .. M) : a[T] = IF M \in T THEN g[it[T \ {M}]][c[M]] ELSE it[T]
  OBVIOUS
<1>3. a = [T \in SUBSET (1 .. M) |-> a[T]]
  OBVIOUS
<1> HIDE DEF a
<1>4. ASSUME NEW T \in SUBSET (1 .. M)
      PROVE  a[T] = X(T)
  <2>1. CASE M \in T
    <3>1. Max(T) = M
      <4>1. Max(T) \in T /\ Max(T) >= M
        BY <2>1, LastOf
      <4>2. Max(T) \in 1 .. M
        BY <4>1
      <4> QED BY <4>1, <4>2
    <3>2. T \ {M} \in SUBSET (1 .. M) /\ M \notin T \ {M}
      OBVIOUS
    <3>3. a[T \ {M}] = it[T \ {M}]
      BY <1>2, <3>2
    <3>4. T # {}
      BY <2>1
    <3> HIDE DEF M
    <3> QED BY <1>2, <2>1, <3>1, <3>3, <3>4
  <2>2. CASE M \notin T
    <3>1. T \in SUBSET (1 .. N)
      BY <2>2
    <3>2. CASE T = {}
      BY <1>1, <1>2, <2>2, <3>1, <3>2
    <3>3. CASE T # {}
      <4>1. T \ {Max(T)} \in SUBSET (1 .. N) /\ T \ {Max(T)} \in SUBSET (1 .. M) /\ M \notin T \ {Max(T)}
        BY <2>2, <3>1
      <4>2. a[T \ {Max(T)}] = it[T \ {Max(T)}]
        BY <1>2, <4>1
      <4>3. a[T] = it[T]
        BY <1>2, <2>2
      <4> QED BY <1>1, <3>1, <3>3, <4>2, <4>3
    <3> QED BY <3>2, <3>3
  <2> QED BY <2>1, <2>2
<1>5. a = [T \in SUBSET (1 .. M) |-> X(T)]
  <2> HIDE DEF X
  <2> QED BY <1>3, <1>4
<1>6. FoldedFrom(a, b, g, c, M)
  BY <1>5 DEF FoldedFrom
<1> QED BY <1>6

\* There is such a fold for every N.
LEMMA FoldExists ==
  ASSUME NEW b, NEW g, NEW c, NEW N \in Nat
  PROVE  \E it : FoldedFrom(it, b, g, c, N)
<1> DEFINE Bad == {n \in Nat : ~\E it : FoldedFrom(it, b, g, c, n)}
<1> SUFFICES ASSUME Bad # {}
             PROVE  FALSE
  OBVIOUS
<1>1. PICK n \in Bad : \A j \in Bad : n <= j
  <2>1. Bad \subseteq Nat
    OBVIOUS
  <2> HIDE DEF Bad
  <2> QED BY <2>1, Least
<1>2. n \in Nat /\ ~\E it : FoldedFrom(it, b, g, c, n)
  OBVIOUS
<1>3. n # 0
  <2> DEFINE e == [T \in SUBSET (1 .. 0) |-> b]
  <2>1. \A T \in SUBSET (1 .. 0) : T = {}
    OBVIOUS
  <2>2. FoldedFrom(e, b, g, c, 0)
    <3> DEFINE X(T) == IF T = {} THEN b ELSE g[e[T \ {Max(T)}]][c[Max(T)]]
    <3>1. \A T \in SUBSET (1 .. 0) : X(T) = b
      BY <2>1
    <3>2. [T \in SUBSET (1 .. 0) |-> X(T)] = [T \in SUBSET (1 .. 0) |-> b]
      <4> HIDE DEF X
      <4> QED BY <3>1
    <3> QED BY <3>2 DEF FoldedFrom
  <2> HIDE DEF e
  <2> QED BY <1>2, <2>2
<1>4. n - 1 \in Nat /\ n - 1 + 1 = n /\ ~(n <= n - 1)
  BY <1>2, <1>3
<1>5. n - 1 \notin Bad
  <2> HIDE DEF Bad
  <2> QED BY <1>1, <1>4
<1>6. PICK j \in Nat : j = n - 1
  BY <1>4
<1>7. PICK it : FoldedFrom(it, b, g, c, j)
  BY <1>5, <1>6
<1>8. \E a : FoldedFrom(a, b, g, c, j + 1)
  BY <1>7, FoldNext
<1> QED BY <1>2, <1>4, <1>6, <1>8

\* The fold goes through the places one after the other.
\* On the places up to i the fold takes the i-th element last.
LEMMA FoldAlong ==
  ASSUME NEW b, NEW g, NEW c, NEW N \in Nat, NEW it, FoldedFrom(it, b, g, c, N)
  PROVE  /\ it[1 .. 0] = b
         /\ \A i \in 1 .. N : it[1 .. i] = g[it[1 .. i - 1]][c[i]]
<1>1. \A T \in SUBSET (1 .. N) : it[T] = IF T = {} THEN b ELSE g[it[T \ {Max(T)}]][c[Max(T)]]
  BY DEF FoldedFrom
<1>2. it[1 .. 0] = b
  <2>1. 1 .. 0 = {} /\ {} \in SUBSET (1 .. N)
    OBVIOUS
  <2> QED BY <1>1, <2>1
<1>3. ASSUME NEW i \in 1 .. N
      PROVE  it[1 .. i] = g[it[1 .. i - 1]][c[i]]
  <2>1. 1 .. i \in SUBSET (1 .. N) /\ 1 .. i # {} /\ i \in 1 .. i
    OBVIOUS
  <2>2. Max(1 .. i) = i
    <3>1. Max(1 .. i) \in 1 .. i /\ Max(1 .. i) >= i
      BY <2>1, LastOf
    <3>2. Max(1 .. i) \in Int /\ Max(1 .. i) <= i
      BY <3>1
    <3> QED BY <3>1, <3>2
  <2>3. (1 .. i) \ {i} = 1 .. i - 1
    OBVIOUS
  <2> QED BY <1>1, <2>1, <2>2, <2>3
<1> QED BY <1>2, <1>3

-----------------------------------------------------------------------------
(* A node at a time, runs of text nodes made one. *)

Items == [node : Ptr, text : Seq(Node)]
\* A turn of the fold: c comes after what is done. At the places of A a text
\* joins the text before it.
Onto(done, c, A) ==
  IF c.node = NULL /\ done # <<>> /\ Last(done).node = NULL /\ Len(done) \in A
  THEN Front(done) \o <<[c EXCEPT !.text = Last(done).text \o @]>>
  ELSE Append(done, c)
Runs(s, A) ==
  FoldLeft(LAMBDA done, c :
             IF c.node = NULL /\ done # <<>> /\ Last(done).node = NULL /\ Len(done) \in A
             THEN Front(done) \o <<[c EXCEPT !.text = Last(done).text \o @]>>
             ELSE Append(done, c),
           <<>>, s)
\* The turns of the fold over s
Turns(a, s, A) == /\ a[0] = <<>>
                  /\ \A i \in 0 .. Len(s) : a[i] \in Seq(Items)
                  /\ \A i \in 1 .. Len(s) : a[i] = Onto(a[i - 1], s[i], A)

\* What a turn makes of a sequence of items
LEMMA OntoType ==
  ASSUME NEW d \in Seq(Items), NEW x \in Items, NEW A
  PROVE  /\ Onto(d, x, A) \in Seq(Items)
         /\ d # <<>> => Len(d) \in 1 .. Len(d) /\ Last(d) \in Items
         /\ Front(d) \in Seq(Items)
<1>1. Len(d) \in Nat /\ (d = <<>> <=> Len(d) = 0)
  BY EmptySeq
<1>2. ASSUME d # <<>>
      PROVE  Len(d) \in 1 .. Len(d) /\ Last(d) \in Items /\ Front(d) \in Seq(Items)
  <2>1. Len(d) \in 1 .. Len(d) /\ 1 \in 1 .. Len(d) + 1 /\ Len(d) - 1 \in 0 .. Len(d) /\ 1 <= Len(d) - 1 + 1
    BY <1>1, <1>2
  <2>2. SubSeq(d, 1, Len(d) - 1) \in Seq(Items)
    BY <2>1, PartIs
  <2> QED BY <2>1, <2>2, ElementOfSeq DEF Last, Front
<1>3. d = <<>> => Front(d) = <<>>
  BY SubSeqEmpty DEF Front
<1>4. CASE x.node = NULL /\ d # <<>> /\ Last(d).node = NULL /\ Len(d) \in A
  <2> DEFINE y == [x EXCEPT !.text = Last(d).text \o x.text]
  <2>1. y \in Items
    <3>1. Last(d).text \in Seq(Node) /\ x.text \in Seq(Node)
      BY <1>2, <1>4 DEF Items
    <3>2. Last(d).text \o x.text \in Seq(Node)
      BY <3>1, ConcatProperties
    <3> QED BY <3>2 DEF Items
  <2>2. <<y>> \in Seq(Items)
    BY <2>1
  <2> HIDE DEF y
  <2>3. Front(d) \o <<y>> \in Seq(Items)
    BY <1>2, <1>4, <2>2, ConcatProperties
  <2> QED BY <1>2, <1>4, <2>3 DEF Onto, y
<1>5. CASE ~(x.node = NULL /\ d # <<>> /\ Last(d).node = NULL /\ Len(d) \in A)
  <2>1. Append(d, x) \in Seq(Items)
    BY AppendProperties
  <2>2. Onto(d, x, A) = Append(d, x)
    BY <1>5 DEF Onto
  <2>3. Front(d) \in Seq(Items)
    BY <1>2, <1>3
  <2> QED BY <1>2, <2>1, <2>2, <2>3
<1> QED BY <1>4, <1>5

\* The fold takes one turn for each item.
LEMMA RunsTurns ==
  ASSUME NEW s \in Seq(Items), NEW A
  PROVE  \E a : Turns(a, s, A) /\ Runs(s, A) = a[Len(s)]
<1> DEFINE N == Len(s)
           g == [d \in Seq(Items) |-> [x \in Items |-> Onto(d, x, A)]]
           F(it) == it = [T \in SUBSET (1 .. N) |->
                           IF T = {} THEN <<>> ELSE Onto(it[T \ {Max(T)}], s[Max(T)], A)]
           it == CHOOSE f : F(f)
<1>1. N \in Nat /\ DOMAIN s = 1 .. N /\ \A i \in 1 .. N : s[i] \in Items
  BY ElementOfSeq
<1>2. Runs(s, A) = it[1 .. N]
  <2>1. FoldLeft(LAMBDA done, c :
                   IF c.node = NULL /\ done # <<>> /\ Last(done).node = NULL /\ Len(done) \in A
                   THEN Front(done) \o <<[c EXCEPT !.text = Last(done).text \o @]>>
                   ELSE Append(done, c),
                 <<>>, s) = it[DOMAIN s]
    BY <1>1 DEF FoldLeft, MapThenFoldSet, Onto
  <2> QED BY <1>1, <2>1 DEF Runs
<1>g. \A d \in Seq(Items), x \in Items : g[d][x] = Onto(d, x, A)
  <2> HIDE DEF N, F, it
  <2> QED OBVIOUS
<1> HIDE DEF g, N
<1>3. \E f : F(f)
  <2>1. PICK f : FoldedFrom(f, <<>>, g, s, N)
    BY <1>1, FoldExists
  <2>2. f = [T \in SUBSET (1 .. N) |-> IF T = {} THEN <<>> ELSE g[f[T \ {Max(T)}]][s[Max(T)]]]
    <3> HIDE DEF F, it
    <3> QED BY <2>1 DEF FoldedFrom
  <2>3. f[1 .. 0] = <<>>
    <3> HIDE DEF F, it
    <3>1. 1 .. 0 = {} /\ {} \in SUBSET (1 .. N)
      BY <1>1
    <3> QED BY <2>2, <3>1
  <2> DEFINE Bad == {n \in 0 .. N : ~\A T \in SUBSET (1 .. n) : f[T] \in Seq(Items)}
  <2>4. ASSUME NEW T \in SUBSET (1 .. N), T # {}, f[T \ {Max(T)}] \in Seq(Items)
        PROVE  /\ f[T] = Onto(f[T \ {Max(T)}], s[Max(T)], A)
               /\ f[T] \in Seq(Items)
    <3> HIDE DEF F, it
    <3>1. f[T] = g[f[T \ {Max(T)}]][s[Max(T)]]
      BY <2>2, <2>4
    <3>2. Max(T) \in T
      BY <1>1, <2>4, LastOf
    <3>3. s[Max(T)] \in Items
      BY <1>1, <3>2
    <3>4. f[T] = Onto(f[T \ {Max(T)}], s[Max(T)], A)
      BY <1>g, <2>4, <3>1, <3>3
    <3> QED BY <2>4, <3>3, <3>4, OntoType
  <2>5. Bad = {}
    <3> SUFFICES ASSUME Bad # {}
                 PROVE  FALSE
      OBVIOUS
    <3>1. PICK n \in Bad : \A j \in Bad : n <= j
      <4>1. Bad \subseteq Nat
        BY <1>1
      <4> HIDE DEF Bad
      <4> QED BY <4>1, Least
    <3>2. n \in 0 .. N /\ n \in Nat
      BY <1>1
    <3>3. PICK T \in SUBSET (1 .. n) : f[T] \notin Seq(Items)
      OBVIOUS
    <3>4. T # {}
      <4>1. 1 .. 0 = {} /\ <<>> \in Seq(Items)
        OBVIOUS
      <4> QED BY <2>3, <3>3, <4>1
    <3>5. T \in SUBSET (1 .. N)
      BY <1>1, <3>2, <3>3
    <3>6. PICK m \in 1 .. n : m = Max(T) /\ \A y \in T : m >= y
      BY <3>2, <3>4, LastOf
    <3>7. T \ {Max(T)} \in SUBSET (1 .. m - 1)
      <4> SUFFICES ASSUME NEW y \in T, y # m
                   PROVE  y \in 1 .. m - 1
        BY <3>6
      <4>1. y \in 1 .. n /\ y <= m
        BY <3>6
      <4> QED BY <3>2, <4>1
    <3>8. m - 1 \in 0 .. N /\ ~(n <= m - 1)
      BY <1>1, <3>2
    <3>9. m - 1 \notin Bad
      <4> HIDE DEF Bad
      <4> QED BY <3>1, <3>8
    <3>10. f[T \ {Max(T)}] \in Seq(Items)
      BY <3>7, <3>8, <3>9
    <3> QED BY <2>4, <3>3, <3>4, <3>5, <3>10
  <2>6. \A T \in SUBSET (1 .. N) : f[T] \in Seq(Items)
    <3>1. N \in 0 .. N
      BY <1>1
    <3>2. N \notin Bad
      <4> HIDE DEF Bad
      <4> QED BY <2>5
    <3> QED BY <3>1, <3>2
  <2> DEFINE X(T) == IF T = {} THEN <<>> ELSE Onto(f[T \ {Max(T)}], s[Max(T)], A)
             Y(T) == IF T = {} THEN <<>> ELSE g[f[T \ {Max(T)}]][s[Max(T)]]
  <2>7. \A T \in SUBSET (1 .. N) : X(T) = Y(T)
    <3> TAKE T \in SUBSET (1 .. N)
    <3>1. T # {} => f[T \ {Max(T)}] \in Seq(Items) /\ Max(T) \in 1 .. N
      <4>1. T \ {Max(T)} \in SUBSET (1 .. N)
        OBVIOUS
      <4> QED BY <1>1, <2>6, <4>1, LastOf
    <3> QED BY <1>1, <1>g, <3>1
  <2>8. f = [T \in SUBSET (1 .. N) |-> X(T)]
    <3>1. f = [T \in SUBSET (1 .. N) |-> Y(T)]
      BY <2>2
    <3> HIDE DEF X, Y
    <3> QED BY <2>7, <3>1
  <2>9. F(f)
    BY <2>8
  <2> HIDE DEF F
  <2> QED BY <2>9
<1>4. F(it)
  <2> HIDE DEF F
  <2> QED BY <1>3
<1> HIDE DEF it
<1>5. \A T \in SUBSET (1 .. N) : it[T] = IF T = {} THEN <<>> ELSE Onto(it[T \ {Max(T)}], s[Max(T)], A)
  BY <1>4
<1> DEFINE a == [i \in 0 .. N |-> it[1 .. i]]
<1>6. a[0] = <<>>
  <2>1. 1 .. 0 = {} /\ {} \in SUBSET (1 .. N) /\ 0 \in 0 .. N
    BY <1>1
  <2> QED BY <1>5, <2>1
<1>7. ASSUME NEW i \in 1 .. N
      PROVE  a[i] = Onto(a[i - 1], s[i], A)
  <2>1. 1 .. i \in SUBSET (1 .. N) /\ 1 .. i # {} /\ i \in 1 .. i /\ i \in 0 .. N /\ i - 1 \in 0 .. N
    BY <1>1
  <2>2. Max(1 .. i) = i
    <3>1. Max(1 .. i) \in 1 .. i /\ Max(1 .. i) >= i
      BY <1>1, <2>1, LastOf
    <3>2. Max(1 .. i) \in Int /\ Max(1 .. i) <= i
      BY <3>1
    <3> QED BY <3>1, <3>2
  <2>3. (1 .. i) \ {i} = 1 .. i - 1
    OBVIOUS
  <2>4. it[1 .. i] = Onto(it[1 .. i - 1], s[i], A)
    BY <1>5, <2>1, <2>2, <2>3
  <2> QED BY <2>1, <2>4
<1> HIDE DEF a
<1> DEFINE Bad == {n \in 0 .. N : a[n] \notin Seq(Items)}
<1>8. Bad = {}
  <2> SUFFICES ASSUME Bad # {}
               PROVE  FALSE
    OBVIOUS
  <2>1. PICK n \in Bad : \A j \in Bad : n <= j
    <3>1. Bad \subseteq Nat
      BY <1>1
    <3> HIDE DEF Bad
    <3> QED BY <3>1, Least
  <2>2. n \in 0 .. N /\ a[n] \notin Seq(Items)
    OBVIOUS
  <2>3. n # 0
    <3> HIDE DEF Bad
    <3> QED BY <1>6, <2>2, EmptySeq
  <2>4. n \in 1 .. N /\ n - 1 \in 0 .. N /\ ~(n <= n - 1)
    BY <1>1, <2>2, <2>3
  <2>5. n - 1 \notin Bad
    <3> HIDE DEF Bad
    <3> QED BY <2>1, <2>4
  <2>6. a[n - 1] \in Seq(Items)
    BY <2>4, <2>5
  <2> QED BY <1>1, <1>7, <2>2, <2>4, <2>6, OntoType
<1>9. Turns(a, s, A)
  BY <1>6, <1>7, <1>8 DEF Turns, N
<1>10. a[N] = it[1 .. N]
  BY <1>1 DEF a
<1> QED BY <1>2, <1>9, <1>10 DEF N

TextItem(t) == [node |-> NULL, text |-> t]
EndsInText(d, A) == d # <<>> /\ Last(d).node = NULL /\ Len(d) \in A

LEMMA Appended ==
  ASSUME NEW d \in Seq(Items), NEW x \in Items
  PROVE  /\ Append(d, x) \in Seq(Items) /\ Append(d, x) # <<>>
         /\ Len(Append(d, x)) = Len(d) + 1
         /\ Last(Append(d, x)) = x /\ Front(Append(d, x)) = d
         /\ d \o <<x>> = Append(d, x)
<1> DEFINE e == Append(d, x)
<1>1. /\ e \in Seq(Items) /\ Len(e) = Len(d) + 1 /\ Len(d) \in Nat
      /\ e[Len(d) + 1] = x /\ \A i \in 1 .. Len(d) : e[i] = d[i]
  BY AppendProperties
<1> HIDE DEF e
<1>2. e # <<>>
  BY <1>1, EmptySeq
<1>3. Last(e) = x
  BY <1>1 DEF Last
<1>4. Front(e) = d
  <2>1. 1 \in 1 .. Len(e) + 1 /\ Len(d) \in 0 .. Len(e) /\ 1 <= Len(d) + 1 /\ Len(d) - 1 + 1 = Len(d)
    BY <1>1
  <2>2. /\ SubSeq(e, 1, Len(d)) \in Seq(Items) /\ Len(SubSeq(e, 1, Len(d))) = Len(d)
        /\ \A i \in 1 .. Len(d) : SubSeq(e, 1, Len(d))[i] = e[1 + i - 1]
    BY <1>1, <2>1, PartIs
  <2>3. \A i \in 1 .. Len(d) : SubSeq(e, 1, Len(d))[i] = d[i]
    BY <1>1, <2>2
  <2>4. SubSeq(e, 1, Len(d)) = d
    BY <2>2, <2>3, SeqEqual
  <2>5. Len(e) - 1 = Len(d)
    BY <1>1
  <2> QED BY <2>4, <2>5 DEF Front
<1>5. d \o <<x>> = e
  BY DEF e
<1> QED BY <1>1, <1>2, <1>3, <1>4, <1>5 DEF e

LEMMA TextItems ==
  ASSUME NEW x \in Items, x.node = NULL
  PROVE  /\ x = TextItem(x.text) /\ x.text \in Seq(Node)
         /\ \A t : [x EXCEPT !.text = t] = TextItem(t)
BY DEF Items, TextItem

\* A text comes after what is done.
LEMMA OntoText ==
  ASSUME NEW d \in Seq(Items), NEW t \in Seq(Node), NEW A
  PROVE  /\ TextItem(t) \in Items
         /\ EndsInText(d, A) => /\ Last(d).text \in Seq(Node) /\ Last(d).text \o t \in Seq(Node)
                                /\ Onto(d, TextItem(t), A) = Append(Front(d), TextItem(Last(d).text \o t))
         /\ ~EndsInText(d, A) => Onto(d, TextItem(t), A) = Append(d, TextItem(t))
<1>1. TextItem(t) \in Items /\ TextItem(t).node = NULL
  BY DEF TextItem, Items, Ptr
<1>2. ASSUME EndsInText(d, A)
      PROVE  /\ Last(d).text \in Seq(Node) /\ Last(d).text \o t \in Seq(Node)
             /\ Onto(d, TextItem(t), A) = Append(Front(d), TextItem(Last(d).text \o t))
  <2>1. Last(d) \in Items /\ Front(d) \in Seq(Items)
    BY <1>1, <1>2, OntoType DEF EndsInText
  <2>2. Last(d).text \in Seq(Node)
    BY <2>1 DEF Items
  <2>3. Last(d).text \o t \in Seq(Node)
    BY <2>2, ConcatProperties
  <2>4. TextItem(Last(d).text \o t) \in Items
    BY <2>3 DEF TextItem, Items, Ptr
  <2>5. Onto(d, TextItem(t), A) = Front(d) \o <<TextItem(Last(d).text \o t)>>
    <3>1. PICK x \in Items : x = TextItem(t) /\ x.node = NULL /\ x.text = t
      BY <1>1 DEF TextItem
    <3>2. [x EXCEPT !.text = Last(d).text \o x.text] = TextItem(Last(d).text \o t)
      BY <3>1, TextItems
    <3>3. Onto(d, x, A) = Front(d) \o <<[x EXCEPT !.text = Last(d).text \o x.text]>>
      BY <1>2, <3>1 DEF Onto, EndsInText
    <3> QED BY <3>1, <3>2, <3>3
  <2> QED BY <2>1, <2>2, <2>3, <2>4, <2>5, Appended
<1>3. ~EndsInText(d, A) => Onto(d, TextItem(t), A) = Append(d, TextItem(t))
  BY <1>1 DEF Onto, EndsInText
<1> QED BY <1>1, <1>2, <1>3

\* Two texts one after the other are as good as one, where they may join.
LEMMA OntoTwice ==
  ASSUME NEW d \in Seq(Items), NEW t \in Seq(Node), NEW u \in Seq(Node), NEW A,
         EndsInText(d, A) \/ Len(d) + 1 \in A
  PROVE  Onto(Onto(d, TextItem(t), A), TextItem(u), A) = Onto(d, TextItem(t \o u), A)
<1>0. t \o u \in Seq(Node)
  BY ConcatProperties
<1>1. ASSUME NEW e \in Seq(Items), NEW v \in Seq(Node), Len(e) + 1 \in A
      PROVE  Onto(Append(e, TextItem(v)), TextItem(u), A) = Append(e, TextItem(v \o u))
  <2>1. TextItem(v) \in Items /\ TextItem(v).node = NULL /\ TextItem(v).text = v
    BY OntoText DEF TextItem
  <2>2. PICK f \in Seq(Items) : /\ f = Append(e, TextItem(v)) /\ f # <<>> /\ Last(f) = TextItem(v) /\ Front(f) = e
                               /\ Len(f) = Len(e) + 1
    BY <2>1, Appended
  <2>3. EndsInText(f, A)
    BY <1>1, <2>1, <2>2 DEF EndsInText
  <2>4. Onto(f, TextItem(u), A) = Append(Front(f), TextItem(Last(f).text \o u))
    BY <2>3, OntoText
  <2> QED BY <2>1, <2>2, <2>4
<1>2. CASE EndsInText(d, A)
  <2>1. PICK v \in Seq(Node) : v = Last(d).text
    BY <1>2, OntoText
  <2>2. Front(d) \in Seq(Items) /\ v \o t \in Seq(Node)
    BY <1>2, <2>1, OntoText, OntoType
  <2>3. Onto(d, TextItem(t), A) = Append(Front(d), TextItem(v \o t))
    BY <1>2, <2>1, OntoText
  <2>4. Onto(Onto(d, TextItem(t), A), TextItem(u), A) = Append(Front(d), TextItem((v \o t) \o u))
    <3>1. Len(Front(d)) + 1 = Len(d) /\ Len(d) \in A
      <4>1. Len(d) \in Nat /\ Len(d) # 0
        BY <1>2, EmptySeq DEF EndsInText
      <4>2. 1 \in 1 .. Len(d) + 1 /\ Len(d) - 1 \in 0 .. Len(d) /\ 1 <= Len(d) - 1 + 1
        BY <4>1
      <4>3. Len(Front(d)) = Len(d) - 1 - 1 + 1
        BY <4>2, PartIs DEF Front
      <4> QED BY <1>2, <4>1, <4>3 DEF EndsInText
    <3>2. PICK e \in Seq(Items) : e = Front(d) /\ Len(e) + 1 \in A
      BY <2>2, <3>1
    <3>3. PICK w \in Seq(Node) : w = v \o t
      BY <2>2
    <3>4. Onto(Append(e, TextItem(w)), TextItem(u), A) = Append(e, TextItem(w \o u))
      BY <1>1, <3>2
    <3> QED BY <2>3, <3>2, <3>3, <3>4
  <2>5. Onto(d, TextItem(t \o u), A) = Append(Front(d), TextItem(v \o (t \o u)))
    BY <1>0, <1>2, <2>1, OntoText
  <2>6. (v \o t) \o u = v \o (t \o u)
    BY ConcatAssociative
  <2> QED BY <2>4, <2>5, <2>6
<1>3. CASE ~EndsInText(d, A)
  <2>1. Onto(d, TextItem(t), A) = Append(d, TextItem(t)) /\ Onto(d, TextItem(t \o u), A) = Append(d, TextItem(t \o u))
    BY <1>0, <1>3, OntoText
  <2>2. Len(d) + 1 \in A
    BY <1>3
  <2> QED BY <1>1, <2>1, <2>2
<1> QED BY <1>2, <1>3

\* As long as no two texts meet at the places of A nothing is joined.
LEMMA NoneJoined ==
  ASSUME NEW c \in Seq(Items), NEW A, NEW a, Turns(a, c, A), NEW m \in 0 .. Len(c),
         \A i \in 1 .. m - 1 : i \in A => ~(c[i].node = NULL /\ c[i + 1].node = NULL)
  PROVE  \A n \in 0 .. m : a[n] = SubSeq(c, 1, n) /\ Len(SubSeq(c, 1, n)) = n
<1>2. Len(c) \in Nat /\ m \in Nat /\ m <= Len(c)
  OBVIOUS
<1> DEFINE Bad == {i \in 0 .. m : a[i] # SubSeq(c, 1, i)}
<1>3. Bad = {}
  <2> SUFFICES ASSUME Bad # {}
               PROVE  FALSE
    OBVIOUS
  <2>1. PICK n \in Bad : \A k \in Bad : n <= k
    <3>1. Bad \subseteq Nat
      BY <1>2
    <3> HIDE DEF Bad
    <3> QED BY <3>1, Least
  <2>2. n \in 0 .. m /\ a[n] # SubSeq(c, 1, n)
    OBVIOUS
  <2>3. n # 0
    BY <2>2, SubSeqEmpty DEF Turns
  <2>4. n \in 1 .. Len(c) /\ n \in 1 .. m /\ n - 1 \in 0 .. m /\ ~(n <= n - 1) /\ c[n] \in Items
    BY <1>2, <2>2, <2>3, ElementOfSeq
  <2>5. a[n - 1] = SubSeq(c, 1, n - 1)
    <3>1. n - 1 \notin Bad
      <4> HIDE DEF Bad
      <4> QED BY <2>1, <2>4
    <3> QED BY <2>4, <3>1
  <2> HIDE DEF Bad
  <2>6. a[n] = Onto(a[n - 1], c[n], A)
    BY <2>4 DEF Turns
  <2>7. PICK d \in Seq(Items) : /\ d = SubSeq(c, 1, n - 1) /\ Len(d) = n - 1
                                /\ \A i \in 1 .. n - 1 : d[i] = c[1 + i - 1]
    <3>1. PICK h \in 0 .. Len(c) : h = n - 1
      BY <1>2, <2>4
    <3>2. 1 \in 1 .. Len(c) + 1 /\ 1 <= h + 1 /\ h - 1 + 1 = h
      BY <1>2
    <3>3. /\ SubSeq(c, 1, h) \in Seq(Items) /\ Len(SubSeq(c, 1, h)) = h - 1 + 1
          /\ \A i \in 1 .. h - 1 + 1 : SubSeq(c, 1, h)[i] = c[1 + i - 1]
      BY <3>2, PartIs
    <3> QED BY <3>1, <3>2, <3>3
  <2>8. ~(c[n].node = NULL /\ d # <<>> /\ Last(d).node = NULL /\ Len(d) \in A)
    <3> SUFFICES ASSUME d # <<>>, Len(d) \in A
                 PROVE  ~(c[n].node = NULL /\ Last(d).node = NULL)
      OBVIOUS
    <3>1. n - 1 # 0
      BY <2>7, EmptySeq
    <3>2. PICK k \in 1 .. m - 1 : k = n - 1 /\ k \in 1 .. n - 1 /\ 1 + k - 1 = k /\ k + 1 = n /\ k \in A
      BY <1>2, <2>4, <2>7, <3>1
    <3>3. Last(d) = c[k]
      BY <2>7, <3>2 DEF Last
    <3> QED BY <3>2, <3>3
  <2>9. a[n] = Append(d, c[n])
    BY <2>5, <2>6, <2>7, <2>8 DEF Onto
  <2>10. SubSeq(c, 1, n) = d \o <<c[n]>>
    <3>1. 1 \in 1 .. Len(c) /\ n \in 1 .. Len(c)
      BY <2>4
    <3> QED BY <2>7, <3>1, SubSeqRecursiveSecond
  <2> QED BY <2>2, <2>4, <2>7, <2>9, <2>10, Appended
<1>4. ASSUME NEW n \in 0 .. m
      PROVE  a[n] = SubSeq(c, 1, n) /\ Len(SubSeq(c, 1, n)) = n
  <2>1. n \notin Bad
    <3> HIDE DEF Bad
    <3> QED BY <1>3
  <2>2. 1 \in 1 .. Len(c) + 1 /\ n \in 0 .. Len(c) /\ 1 <= n + 1 /\ n - 1 + 1 = n
    BY <1>2
  <2>3. Len(SubSeq(c, 1, n)) = n - 1 + 1
    BY <2>2, PartIs
  <2> QED BY <2>1, <2>2, <2>3
<1> QED BY <1>4

\* Two texts side by side can be joined first.
LEMMA RunsJoin ==
  ASSUME NEW c \in Seq(Items), NEW e \in Seq(Items), NEW j \in 1 .. Len(e), Len(c) = Len(e) + 1,
         NEW t \in Seq(Node), NEW u \in Seq(Node),
         c[j] = TextItem(t), c[j + 1] = TextItem(u), e[j] = TextItem(t \o u),
         \A i \in 1 .. j - 1 : e[i] = c[i],
         \A i \in j + 1 .. Len(e) : e[i] = c[i + 1],
         NEW A, A = Nat \/ A = {j}
  PROVE  Runs(e, A) = Runs(c, A)
<1>1. PICK a : Turns(a, c, A) /\ Runs(c, A) = a[Len(c)]
  BY RunsTurns
<1>2. PICK b : Turns(b, e, A) /\ Runs(e, A) = b[Len(e)]
  BY RunsTurns
<1>3. Len(e) \in Nat /\ j \in Nat /\ j >= 1
  OBVIOUS
<1> DEFINE Bad == {i \in 0 .. Len(e) : IF i < j THEN b[i] # a[i] ELSE b[i] # a[i + 1]}
<1>4. Bad = {}
  <2> SUFFICES ASSUME Bad # {}
               PROVE  FALSE
    OBVIOUS
  <2>1. PICK n \in Bad : \A k \in Bad : n <= k
    <3>1. Bad \subseteq Nat
      BY <1>3
    <3> HIDE DEF Bad
    <3> QED BY <3>1, Least
  <2>2. n \in 0 .. Len(e) /\ (IF n < j THEN b[n] # a[n] ELSE b[n] # a[n + 1])
    OBVIOUS
  <2>3. n # 0
    BY <1>1, <1>2, <1>3, <2>2 DEF Turns
  <2>4. n \in 1 .. Len(e) /\ n - 1 \in 0 .. Len(e) /\ ~(n <= n - 1)
    BY <1>3, <2>2, <2>3
  <2>5. IF n - 1 < j THEN b[n - 1] = a[n - 1] ELSE b[n - 1] = a[n - 1 + 1]
    <3>1. n - 1 \notin Bad
      <4> HIDE DEF Bad
      <4> QED BY <2>1, <2>4
    <3> QED BY <2>4, <3>1
  <2> HIDE DEF Bad
  <2>6. b[n] = Onto(b[n - 1], e[n], A)
    BY <1>2, <2>4 DEF Turns
  <2>7. CASE n < j
    <3>1. n \in 1 .. Len(c) /\ n - 1 < j /\ n \in 1 .. j - 1
      BY <1>3, <2>4, <2>7
    <3>2. a[n] = Onto(a[n - 1], c[n], A)
      BY <1>1, <3>1 DEF Turns
    <3> QED BY <2>2, <2>5, <2>6, <2>7, <3>1, <3>2
  <2>8. CASE n = j
    <3>1. j \in 1 .. Len(c) /\ j + 1 \in 1 .. Len(c) /\ j + 1 - 1 = j /\ j - 1 \in 0 .. Len(c) /\ n - 1 < j /\ ~(n < j)
      BY <1>3, <2>8
    <3>2. a[j] = Onto(a[j - 1], c[j], A) /\ a[j + 1] = Onto(a[j], c[j + 1], A) /\ a[j - 1] \in Seq(Items)
      BY <1>1, <3>1 DEF Turns
    <3>3. a[j + 1] = Onto(a[j - 1], TextItem(t \o u), A)
      <4>1. Len(a[j - 1]) + 1 \in A
        <5>1. CASE A = Nat
          BY <3>2, <5>1
        <5>2. CASE A = {j}
          <6>1. PICK m \in 0 .. Len(c) : m = j - 1 /\ m \in 0 .. m
            BY <1>3
          <6>2. \A i \in 1 .. m - 1 : i \notin A
            BY <1>3, <5>2, <6>1
          <6>3. \A i \in 0 .. m : a[i] = SubSeq(c, 1, i) /\ Len(SubSeq(c, 1, i)) = i
            <7>1. \A i \in 1 .. m - 1 : i \in A => ~(c[i].node = NULL /\ c[i + 1].node = NULL)
              BY <6>2
            <7>2. c \in Seq(Items) /\ m \in 0 .. Len(c)
              BY <6>1
            <7>3. Turns(a, c, A)
              BY <1>1
            <7> HIDE DEF Bad
            <7> QED BY <7>1, <7>2, <7>3, NoneJoined, ZenonT(40)
          <6>4. Len(a[m]) = m
            BY <6>1, <6>3
          <6> QED BY <1>3, <5>2, <6>1, <6>4
        <5> QED BY <5>1, <5>2
      <4> QED BY <3>2, <4>1, OntoTwice
    <3> QED BY <2>2, <2>5, <2>6, <2>8, <3>1, <3>3
  <2>9. CASE n > j
    <3>1. n + 1 \in 1 .. Len(c) /\ n + 1 - 1 = n /\ n - 1 + 1 = n /\ ~(n - 1 < j) /\ ~(n < j) /\ n \in j + 1 .. Len(e)
      BY <1>3, <2>4, <2>9
    <3>2. a[n + 1] = Onto(a[n], c[n + 1], A)
      <4> PICK m : m = n + 1
        OBVIOUS
      <4>1. a[m] = Onto(a[m - 1], c[m], A)
        BY <1>1, <3>1 DEF Turns
      <4> QED BY <3>1, <4>1
    <3> QED BY <2>2, <2>5, <2>6, <3>1, <3>2
  <2> QED BY <1>3, <2>4, <2>7, <2>8, <2>9
<1>5. Len(e) \in 0 .. Len(e) /\ ~(Len(e) < j)
  BY <1>3
<1>6. b[Len(e)] = a[Len(e) + 1]
  <2>1. Len(e) \notin Bad
    <3> HIDE DEF Bad
    <3> QED BY <1>4
  <2> QED BY <1>5, <2>1
<1> QED BY <1>1, <1>2, <1>6

\* Where no two texts meet nothing is joined.
LEMMA NoRuns ==
  ASSUME NEW c \in Seq(Items), NEW A,
         \A i \in 1 .. Len(c) - 1 : i \in A => ~(c[i].node = NULL /\ c[i + 1].node = NULL)
  PROVE  Runs(c, A) = c
<1>1. PICK a : Turns(a, c, A) /\ Runs(c, A) = a[Len(c)]
  BY RunsTurns
<1>2. PICK m \in 0 .. Len(c) : m = Len(c) /\ m \in 0 .. m
  OBVIOUS
<1>3. a[m] = SubSeq(c, 1, m)
  BY <1>1, <1>2, NoneJoined
<1> QED BY <1>1, <1>2, <1>3, SubSeqFull

\* What the nodes s show, of types k and with literals l
ItemsOf(k, l, s) ==
  [i \in 1 .. Len(s) |-> IF k[s[i]] = "text" THEN TextItem(l[s[i]])
                         ELSE [node |-> s[i], text |-> <<>>]]

LEMMA ItemsType ==
  ASSUME NEW k, NEW l \in [Node -> Seq(Node)], NEW s \in Seq(Node)
  PROVE  /\ ItemsOf(k, l, s) \in Seq(Items) /\ Len(ItemsOf(k, l, s)) = Len(s)
         /\ \A i \in 1 .. Len(s) :
              ItemsOf(k, l, s)[i] = IF k[s[i]] = "text" THEN TextItem(l[s[i]])
                                    ELSE [node |-> s[i], text |-> <<>>]
<1> DEFINE It(i) == IF k[s[i]] = "text" THEN TextItem(l[s[i]]) ELSE [node |-> s[i], text |-> <<>>]
           c == [i \in 1 .. Len(s) |-> It(i)]
<1>1. Len(s) \in Nat /\ \A i \in 1 .. Len(s) : s[i] \in Node
  BY ElementOfSeq
<1>2. ASSUME NEW i \in 1 .. Len(s)
      PROVE  It(i) \in Items
  <2>1. s[i] \in Node /\ l[s[i]] \in Seq(Node)
    BY <1>1
  <2>2. TextItem(l[s[i]]) \in Items
    BY <2>1, OntoText, EmptySeq
  <2>3. [node |-> s[i], text |-> <<>>] \in Items
    BY <2>1 DEF Items, Ptr
  <2> QED BY <2>2, <2>3
<1>3. ItemsOf(k, l, s) = c
  BY DEF ItemsOf
<1> HIDE DEF It
<1>4. c \in Seq(Items) /\ Len(c) = Len(s)
  BY <1>1, <1>2
<1>5. \A i \in 1 .. Len(s) : c[i] = It(i)
  OBVIOUS
<1> HIDE DEF c
<1> QED BY <1>3, <1>4, <1>5 DEF It

\* The text of b joins that of a, which it comes after in s.
TextJoins(s, a, b, k, k2, l, l2) ==
  /\ s \in Seq(Node) /\ Distinct(s)
  /\ \E j \in 1 .. Len(s) - 1 : a = s[j] /\ b = s[j + 1]
  /\ k[a] = "text" /\ k[b] = "text" /\ \A x \in Node : x # b => k2[x] = k[x]
  /\ l \in [Node -> Seq(Node)] /\ l2 \in [Node -> Seq(Node)]
  /\ l2[a] = l[a] \o l[b] /\ \A x \in Node : x # a => l2[x] = l[x]

LEMMA MergeJoins ==
  ASSUME NEW s, NEW a, NEW b, NEW k, NEW k2, NEW l, NEW l2, TextJoins(s, a, b, k, k2, l, l2),
         NEW A, A = Nat \/ A = {i \in 1 .. Len(s) : s[i] = a}
  PROVE  Runs(ItemsOf(k2, l2, RemoveFirst(s, b)), A) = Runs(ItemsOf(k, l, s), A)
<1>j. PICK j \in 1 .. Len(s) - 1 : a = s[j] /\ b = s[j + 1]
  BY DEF TextJoins
<1>t. /\ s \in Seq(Node) /\ Distinct(s)
      /\ l \in [Node -> Seq(Node)] /\ l2 \in [Node -> Seq(Node)]
      /\ k[a] = "text" /\ k[b] = "text" /\ \A x \in Node : x # b => k2[x] = k[x]
      /\ l2[a] = l[a] \o l[b] /\ \A x \in Node : x # a => l2[x] = l[x]
  BY DEF TextJoins
<1>1. PICK u : u = RemoveFirst(s, b)
  OBVIOUS
<1>2. Len(s) \in Nat /\ j \in Nat /\ j \in 1 .. Len(s) /\ j + 1 \in 1 .. Len(s) /\ j # j + 1 /\ j < j + 1
  BY <1>j, <1>t
<1>3. a \in Node /\ b \in Node /\ a # b
  BY <1>j, <1>t, <1>2, ElementOfSeq DEF Distinct
<1>4. /\ u \in Seq(Node) /\ Len(u) = Len(s) - 1
      /\ \A i \in 1 .. Len(s) - 1 : u[i] = IF i < j + 1 THEN s[i] ELSE s[i + 1]
  <2>1. PICK m \in 1 .. Len(s) : m = j + 1
    BY <1>2
  <2>2. b = s[m]
    BY <1>j, <2>1
  <2>3. /\ RemoveFirst(s, b) \in Seq(Node) /\ Len(RemoveFirst(s, b)) = Len(s) - 1
        /\ \A i \in 1 .. Len(s) - 1 : RemoveFirst(s, b)[i] = IF i < m THEN s[i] ELSE s[i + 1]
    BY <1>t, <2>2, TakenOut
  <2> QED BY <1>1, <2>1, <2>3
<1> DEFINE It(q, m, x) == IF q[x] = "text" THEN TextItem(m[x]) ELSE [node |-> x, text |-> <<>>]
           c == ItemsOf(k, l, s)
           e == ItemsOf(k2, l2, u)
<1>5. c \in Seq(Items) /\ Len(c) = Len(s) /\ \A i \in 1 .. Len(s) : c[i] = It(k, l, s[i])
  BY <1>t, ItemsType
<1>6. e \in Seq(Items) /\ Len(e) = Len(u) /\ \A i \in 1 .. Len(u) : e[i] = It(k2, l2, u[i])
  <2>1. u \in Seq(Node)
    BY <1>4
  <2>2. e \in Seq(Items)
    BY <1>t, <2>1, ItemsType
  <2>3. Len(e) = Len(u)
    BY <1>t, <2>1, ItemsType
  <2>4. \A i \in 1 .. Len(u) : e[i] = It(k2, l2, u[i])
    <3> SUFFICES ASSUME NEW i \in 1 .. Len(u)
                 PROVE  e[i] = It(k2, l2, u[i])
      OBVIOUS
    <3>1. e = [h \in 1 .. Len(u) |-> It(k2, l2, u[h])]
      BY DEF ItemsOf
    <3> HIDE DEF e, It
    <3> QED BY <3>1
  <2> QED BY <2>2, <2>3, <2>4
<1>7. ASSUME NEW x \in Node, x # a, x # b
      PROVE  It(k2, l2, x) = It(k, l, x)
  BY <1>t, <1>7
<1>8. It(k, l, a) = TextItem(l[a]) /\ It(k, l, b) = TextItem(l[b]) /\ It(k2, l2, a) = TextItem(l[a] \o l[b])
  BY <1>t, <1>3
<1> HIDE DEF It, c, e
<1>9. c[j] = TextItem(l[a]) /\ c[j + 1] = TextItem(l[b])
  BY <1>j, <1>2, <1>5, <1>8
<1>10. e[j] = TextItem(l[a] \o l[b])
  <2>1. u[j] = a /\ j \in 1 .. Len(u)
    BY <1>j, <1>2, <1>4
  <2> QED BY <1>6, <1>8, <2>1
<1>11. ASSUME NEW i \in 1 .. Len(u), NEW h \in 1 .. Len(s), u[i] = s[h], h # j, h # j + 1
       PROVE  e[i] = c[h]
  <2>1. s[h] \in Node /\ s[h] # a /\ s[h] # b
    BY <1>j, <1>t, <1>2, <1>11, ElementOfSeq DEF Distinct
  <2> QED BY <1>5, <1>6, <1>7, <1>11, <2>1
<1>12. ASSUME NEW i \in 1 .. j - 1
       PROVE  e[i] = c[i]
  <2>0. i \in Int /\ 1 <= i /\ i <= j - 1
    BY <1>2
  <2>1. i \in 1 .. Len(s) - 1 /\ i \in 1 .. Len(s) /\ i # j /\ i # j + 1 /\ i < j + 1
    BY <1>2, <2>0
  <2>2. u[i] = s[i] /\ i \in 1 .. Len(u)
    BY <1>4, <2>1
  <2> QED BY <1>11, <2>1, <2>2
<1>13. ASSUME NEW i \in j + 1 .. Len(s) - 1
       PROVE  e[i] = c[i + 1]
  <2>1. PICK h \in 1 .. Len(s) : h = i + 1 /\ h # j /\ h # j + 1 /\ ~(i < j + 1)
    BY <1>2
  <2>2. i \in 1 .. Len(s) - 1
    BY <1>2
  <2>3. u[i] = s[h] /\ i \in 1 .. Len(u)
    BY <1>4, <2>1, <2>2
  <2> QED BY <1>11, <2>1, <2>3
<1>14. l[a] \in Seq(Node) /\ l[b] \in Seq(Node)
  BY <1>t, <1>3
<1>15. /\ j \in 1 .. Len(e) /\ Len(c) = Len(e) + 1
       /\ \A i \in 1 .. j - 1 : e[i] = c[i]
       /\ \A i \in j + 1 .. Len(e) : e[i] = c[i + 1]
  BY <1>2, <1>4, <1>5, <1>6, <1>12, <1>13
<1>17. A = Nat \/ A = {j}
  <2> SUFFICES ASSUME A = {i \in 1 .. Len(s) : s[i] = a}
               PROVE  A = {j}
    OBVIOUS
  <2> QED BY <1>j, <1>t, <1>2 DEF Distinct
<1>16. Runs(e, A) = Runs(c, A)
  <2>1. PICK t \in Seq(Node), v \in Seq(Node) : t = l[a] /\ v = l[b]
    BY <1>14
  <2>2. c[j] = TextItem(t) /\ c[j + 1] = TextItem(v) /\ e[j] = TextItem(t \o v)
    BY <1>9, <1>10, <2>1
  <2> QED BY <1>5, <1>6, <1>15, <1>17, <2>2, RunsJoin
<1> QED BY <1>1, <1>16 DEF c, e

\* A walk stays below its root: from each event Upward leads to the root.
LEMMA RouteBelow ==
  ASSUME NEW t, NEW k, NEW p, NEW r, Route(t, k, p, r), NEW i \in 1 .. Len(p)
  PROVE  p[i].node \in Subtree(t, r)
<1>1. Len(p) \in Nat /\ p[i].node \in Node
  BY RouteEvents, EventIs
<1> SUFFICES ASSUME NEW S \in SUBSET Node, p[i].node \in S, UpClosed(t, S), r \notin S
             PROVE  FALSE
  BY <1>1 DEF Subtree, Reaches
<1> DEFINE D == {n \in Nat : \E j \in 1 .. Len(p) : n = Len(p) - j /\ p[j].node \in S}
<1>2. Len(p) - i \in D
  BY <1>1
<1>3. PICK n \in D : \A m \in D : n <= m
  <2>1. D \subseteq Nat /\ D # {}
    BY <1>2
  <2> HIDE DEF D
  <2> QED BY <2>1, Least
<1>4. PICK j \in 1 .. Len(p) : n = Len(p) - j /\ p[j].node \in S
  OBVIOUS
<1>5. t.parent[p[j].node] # NULL /\ Later(p, j, Exit(t.parent[p[j].node]))
  BY <1>4 DEF Route, Upward
<1>6. PICK h \in j + 1 .. Len(p) : p[h] = Exit(t.parent[p[j].node])
  BY <1>5 DEF Later
<1>7. p[h].node \in S
  BY <1>4, <1>5, <1>6, EventFields DEF UpClosed
<1>8. h \in 1 .. Len(p) /\ Len(p) - h \in Nat /\ ~(n <= Len(p) - h)
  BY <1>1, <1>4, <1>6
<1>9. Len(p) - h \in D
  BY <1>7, <1>8
<1> HIDE DEF D
<1> QED BY <1>3, <1>8, <1>9

\* A walk enters every node below its root.
LEMMA EntersAll ==
  ASSUME NEW t, NEW k, Good(t, k), NEW r \in Node, NEW p, Whole(t, k, r, p), NEW x \in Subtree(t, r)
  PROVE  \E i \in 1 .. Len(p) : p[i] = Enter(x)
<1> DEFINE In(y) == \E i \in 1 .. Len(p) : p[i] = Enter(y)
           S == {y \in Subtree(t, r) : ~In(y)}
<1>1. t \in Links /\ Subtree(t, r) \in SUBSET Node
  BY DEF Good, Subtree
<1>2. Route(t, k, p, r) /\ Len(p) \in Nat /\ In(r)
  <2>1. p \in Seq(EventsOf(k)) /\ p # <<>> /\ p[1] = Enter(r)
    BY DEF Whole, Route
  <2> QED BY <2>1, NonEmpty DEF Whole
<1>3. ASSUME NEW y \in Subtree(t, r), ~In(y)
      PROVE  t.parent[y] \in Subtree(t, r) /\ ~In(t.parent[y])
  <2> DEFINE q == t.parent[y]
  <2>1. q \in Subtree(t, r) /\ q \in Node /\ y \in Node
    BY <1>1, <1>2, <1>3, SubtreeClosed
  <2>2. Holds(k[q], k[y])
    BY <2>1, NullAssumption DEF Good, WellTyped
  <2>3. ~Lf(k, q)
    BY <2>2 DEF Holds, Lf, LeafKind
  <2>4. ASSUME NEW i \in 1 .. Len(p), p[i] = Enter(q)
        PROVE  In(y)
    <3>1. Entering(k, p[i]) /\ p[i].node = q
      BY <2>3, <2>4, EventFields
    <3>2. Later(p, i, Enter(y))
      BY <1>2, <2>1, <3>1 DEF Route, Downward
    <3>3. PICK h \in i + 1 .. Len(p) : p[h] = Enter(y)
      BY <3>2 DEF Later
    <3>4. h \in 1 .. Len(p)
      BY <1>2
    <3> QED BY <3>3, <3>4
  <2> QED BY <1>3, <2>1, <2>4
<1>4. UpClosed(t, S) /\ S \in SUBSET Node
  BY <1>1, <1>3 DEF UpClosed
<1>5. ASSUME x \in S
      PROVE  r \in S
  BY <1>4, <1>5 DEF Subtree, Reaches
<1> QED BY <1>2, <1>5

-----------------------------------------------------------------------------
(* cmark_consolidate_text_nodes: what is done and what is left to do. *)

Gathering == user \in {"visit", "merge", "over"}
\* What the text nodes hold once the loop under way has ended
Lits == IF user = "merge" THEN [lit EXCEPT ![into] = buf] ELSE lit

\* The loop joins tmp to the node before it.
Joining == user = "merge" =>
             /\ buf \in Seq(Node)
             /\ into \in Live /\ kind[into] = "text" /\ links.next[into] = tmp
             /\ into \in Subtree(links, iter.root)
Kept == Gathering =>
          \A p \in Node : wish[p] = Runs(ItemsOf(kind, Lits, Chain(p)), Joinable(iter.root, p))
\* No run starts at a node that the walk has entered.
Passed == Gathering =>
            \A x \in Subtree(links, iter.root) :
              /\ kind[x] = "text"
              /\ user = "merge" => x # into
              /\ \A i \in 1 .. Len(plan) : plan[i] # Enter(x)
              => ~IsText(links.next[x])
TextInv == /\ lit \in [Node -> Seq(Node)]
           /\ Joining /\ Kept /\ Passed
           /\ user = "over" => plan = <<>>

LEMMA InitTextInv == IterInit => TextInv
<1> SUFFICES ASSUME IterInit
             PROVE  TextInv
  OBVIOUS
<1>1. lit = [n \in Node |-> <<n>>] /\ user = "nobody"
  BY DEF IterInit
<1>2. lit \in [Node -> Seq(Node)]
  BY <1>1
<1> QED BY <1>1, <1>2 DEF TextInv, Joining, Kept, Passed, Gathering

LEMMA SameItems ==
  ASSUME NEW s \in Seq(Node), NEW k, NEW k2, NEW l, NEW l2,
         \A i \in 1 .. Len(s) : k2[s[i]] = k[s[i]] /\ l2[s[i]] = l[s[i]]
  PROVE  ItemsOf(k2, l2, s) = ItemsOf(k, l, s)
<1> DEFINE It(q, m, x) == IF q[x] = "text" THEN TextItem(m[x]) ELSE [node |-> x, text |-> <<>>]
<1>1. ItemsOf(k2, l2, s) = [i \in 1 .. Len(s) |-> It(k2, l2, s[i])]
  BY DEF ItemsOf
<1>2. ItemsOf(k, l, s) = [i \in 1 .. Len(s) |-> It(k, l, s[i])]
  BY DEF ItemsOf
<1>3. \A i \in 1 .. Len(s) : It(k2, l2, s[i]) = It(k, l, s[i])
  OBVIOUS
<1> HIDE DEF It
<1> QED BY <1>1, <1>2, <1>3

\* The children of p and what they show
LEMMA ContentIs ==
  ASSUME Shape, NEW p \in Node
  PROVE  /\ Kin(links, p, Chain(p)) /\ Chain(p) \in Seq(Node)
         /\ Content(p) = ItemsOf(kind, lit, Chain(p))
         /\ \A A : Merged(p, A) = Runs(Content(p), A)
<1>1. PICK f : Kids(links, f) /\ [q \in Node |-> Chain(q)] = f
  BY ChainsNow DEF Shape
<1>2. Chain(p) = f[p]
  BY <1>1
<1>3. Kin(links, p, Chain(p)) /\ Chain(p) \in Seq(Node)
  BY <1>1, <1>2 DEF Kids
<1>4. PICK s : s = Chain(p)
  OBVIOUS
<1>5. s \in Seq(Node) /\ DOMAIN s = 1 .. Len(s) /\ \A i \in 1 .. Len(s) : s[i] # NULL
  BY <1>3, <1>4, ElementOfSeq, NullAssumption
<1> DEFINE It(x) == IF kind[x] = "text" THEN TextItem(lit[x]) ELSE [node |-> x, text |-> <<>>]
<1>6. \A i \in 1 .. Len(s) : Shown(s[i]) = It(s[i])
  BY <1>5 DEF Shown, IsText, TextItem
<1>7. Content(p) = [i \in 1 .. Len(s) |-> Shown(s[i])]
  BY <1>4, <1>5 DEF Content
<1>8. ItemsOf(kind, lit, s) = [i \in 1 .. Len(s) |-> It(s[i])]
  BY DEF ItemsOf
<1> HIDE DEF It
<1>9. Content(p) = ItemsOf(kind, lit, s)
  BY <1>6, <1>7, <1>8
<1>10. \A A : Merged(p, A) = Runs(Content(p), A)
  BY DEF Merged, Runs
<1> QED BY <1>3, <1>4, <1>9, <1>10

LEMMA ConsolidateText ==
  ASSUME IterInv, TextInv, NEW r \in Live, Consolidate(r)
  PROVE  TextInv'
<1>1. /\ user' = "visit" /\ iter' = IterNew(r) /\ plan' = Walk(r)
      /\ wish' = [p \in Node |-> Merged(p, Joinable(r, p))]
      /\ UNCHANGED <<links, kind, lit>>
  BY DEF Consolidate, Begin, treeVars
<1>2. Shape /\ Good(links, kind) /\ r \in Node /\ iter'.root = r
  BY <1>1, IterFacts DEF IterInv, Live, IterNew
<1>3. Kept'
  <2>1. \A p \in Node : wish'[p] = Runs(ItemsOf(kind, lit, Chain(p)), Joinable(r, p))
    BY <1>1, <1>2, ContentIs
  <2>2. \A p \in Node : Chain(p)' = Chain(p) /\ Joinable(iter.root, p)' = Joinable(r, p)
    BY <1>1, <1>2 DEF Chain, Joinable
  <2>3. Lits' = lit
    BY <1>1 DEF Lits
  <2> QED BY <1>1, <2>1, <2>2, <2>3 DEF Kept
<1>4. Passed'
  <2>1. PICK p : p = plan'
    OBVIOUS
  <2>2. Whole(links, kind, r, p)
    BY <1>1, <1>2, <2>1, WalkWhole
  <2>3. \A x \in Subtree(links, r) : \E i \in 1 .. Len(p) : p[i] = Enter(x)
    BY <1>2, <2>2, EntersAll
  <2> QED BY <1>1, <1>2, <2>1, <2>3 DEF Passed
<1> QED BY <1>1, <1>3, <1>4 DEF TextInv, Joining

LEMMA VisitText ==
  ASSUME IterInv, TextInv, Visit
  PROVE  TextInv'
<1> DEFINE e == iter'.cur
<1>1. /\ user = "visit" /\ Advance /\ UNCHANGED <<links, kind, lit, wish>>
      /\ StartsRun(e) => user' = "merge" /\ into' = e.node /\ tmp' = links.next[e.node] /\ buf' = lit[e.node]
      /\ ~StartsRun(e) => user' = IF e.ev = "done" THEN "over" ELSE "visit"
  BY DEF Visit, treeVars
<1>2. /\ Moved
      /\ plan = <<>> => e = End /\ plan' = <<>>
      /\ plan # <<>> => /\ e = plan[1] /\ plan[1] \in EventsOf(kind)
                        /\ plan' = SubSeq(plan, 1 + 1, Len(plan))
                        /\ \A i \in 1 .. Len(plan') : plan'[i] = plan[1 + i]
  BY <1>1, AdvanceMoves
<1>3. /\ Good(links, kind) /\ Live = LiveIn(kind) /\ Live \subseteq Node
      /\ iter.root \in Node /\ Route(links, kind, plan, iter.root) /\ iter'.root = iter.root
  BY <1>1, <1>2, IterFacts DEF IterInv, Walking, Moved
<1>4. plan # <<>> => e.node \in Live /\ e.ev \in {"enter", "exit"} /\ (e.ev = "enter" => e = Enter(e.node))
  <2> SUFFICES ASSUME plan # <<>>
               PROVE  e.node \in Live /\ e.ev \in {"enter", "exit"} /\ (e.ev = "enter" => e = Enter(e.node))
    OBVIOUS
  <2>1. e \in EventsOf(kind)
    BY <1>2
  <2> HIDE DEF e
  <2> QED BY <1>3, <2>1, EventIs, EventFields
<1>5. StartsRun(e) => plan # <<>> /\ e.node \in Live /\ e = Enter(e.node) /\ kind[e.node] = "text"
  BY <1>2, <1>4 DEF StartsRun, End, Event, IsText
<1>6. Joining'
  <2> SUFFICES ASSUME StartsRun(e)
               PROVE  e.node \in Subtree(links, iter.root)
    BY <1>1, <1>3, <1>5 DEF Joining, TextInv, Live
  <2>1. plan # <<>> /\ e = plan[1]
    BY <1>2, <1>5
  <2>2. 1 \in 1 .. Len(plan)
    BY <1>3, <2>1, NonEmpty DEF Route
  <2> QED BY <1>3, <2>1, <2>2, RouteBelow
<1>7. user' = "over" => plan' = <<>>
  BY <1>1, <1>2, <1>4
<1>8. Lits' = lit /\ Lits = lit
  <2>1. [lit EXCEPT ![e.node] = lit[e.node]] = lit
    BY DEF TextInv
  <2> QED BY <1>1, <2>1 DEF Lits
<1>9. Kept'
  <2>1. \A p \in Node : Chain(p)' = Chain(p) /\ Joinable(iter.root, p)' = Joinable(iter.root, p)
    BY <1>1, <1>3 DEF Chain, Joinable
  <2> QED BY <1>1, <1>8, <2>1 DEF TextInv, Kept, Gathering
<1>10. Passed'
  <2> SUFFICES ASSUME NEW x \in Subtree(links, iter.root), kind[x] = "text",
                      user' = "merge" => x # into',
                      \A i \in 1 .. Len(plan') : plan'[i] # Enter(x),
                      IsText(links.next[x])
               PROVE  FALSE
    BY <1>1, <1>3 DEF Passed, IsText
  <2>1. PICK i \in 1 .. Len(plan) : plan[i] = Enter(x)
    BY <1>1 DEF TextInv, Passed, Gathering
  <2>2. plan # <<>> /\ Len(plan) \in Nat
    BY <1>3, <2>1, RouteEvents DEF Route
  <2>3. CASE i = 1
    <3>1. e = Enter(x)
      BY <1>2, <2>1, <2>2, <2>3
    <3>2. e.ev = "enter" /\ e.node = x /\ x \in Node
      BY <3>1, EventFields DEF Subtree
    <3>3. StartsRun(e)
      BY <3>2, NullAssumption DEF StartsRun, IsText
    <3> QED BY <1>1, <3>2, <3>3
  <2>4. CASE i # 1
    <3>1. PICK m \in 1 .. Len(plan) : m = 1
      BY <2>1, <2>2
    <3> DEFINE q == SubSeq(plan, m + 1, Len(plan))
    <3>2. Len(q) = Len(plan) - m
      BY <1>3, Remainder
    <3>3. plan' = q
      BY <1>2, <2>2, <3>1
    <3> HIDE DEF q
    <3>4. i - 1 \in 1 .. Len(plan') /\ 1 + (i - 1) = i
      BY <2>1, <2>2, <2>4, <3>1, <3>2, <3>3
    <3> QED BY <1>2, <2>1, <2>2, <3>4
  <2> QED BY <2>3, <2>4
<1> QED BY <1>1, <1>6, <1>7, <1>9, <1>10 DEF TextInv

\* A node that is freed without children is taken out of its siblings.
LEMMA TextTaken ==
  ASSUME IterInv, TextInv, Merge
  PROVE  \E f : /\ Kids(links, f) /\ f[tmp] = <<>>
                /\ \A p \in Node : Chain(p) = f[p]
                /\ \A p \in Node : Chain(p)' = IF p = tmp THEN <<>> ELSE RemoveFirst(f[p], tmp)
                /\ \A x \in Node : kind'[x] = IF x = tmp THEN "free" ELSE kind[x]
                /\ \A x \in Node : x # tmp /\ x # into => links'.next[x] = links.next[x]
                /\ \A x \in Node : links'.parent[x] = IF x = tmp THEN NULL ELSE links.parent[x]
                /\ links'.next[into] = tmp' /\ into # tmp
<1>1. /\ user = "merge" /\ IsText(tmp) /\ Free(tmp) /\ tmp' = links.next[tmp]
      /\ Good(links, kind) /\ links \in Links /\ Consistent(links) /\ Shape
  BY IterFacts DEF Merge, IterInv, Good
<1>2. /\ tmp \in Node /\ kind[tmp] = "text" /\ into \in Node /\ links.next[into] = tmp
  BY <1>1 DEF IterInv, TextInv, Joining, Merging, IsText, Ptr, Live
<1>3. PICK f : Kids(links, f) /\ [p \in Node |-> Chain(p)] = f
  BY <1>1, ChainsNow DEF Shape
<1>4. \A p \in Node : Kin(links, p, f[p]) /\ f[p] \in Seq(Node) /\ Chain(p) = f[p]
  BY <1>3 DEF Kids
<1>5. f[tmp] = <<>>
  <2> SUFFICES ASSUME f[tmp] # <<>>
               PROVE  FALSE
    OBVIOUS
  <2>1. PICK s : s = f[tmp]
    OBVIOUS
  <2>2. Kin(links, tmp, s) /\ s \in Seq(Node) /\ s # <<>>
    BY <1>2, <1>4, <2>1
  <2>3. 1 \in 1 .. Len(s)
    BY <2>2, NonEmpty
  <2>4. s[1] \in Node /\ links.parent[s[1]] = tmp
    BY <2>2, <2>3, KinType DEF Kin
  <2>5. Holds("text", kind[s[1]])
    BY <1>1, <1>2, <2>4, NullAssumption DEF Good, WellTyped
  <2> QED BY <2>5 DEF Holds
<1> DEFINE D == Subtree(links, tmp)
<1>6. D = {tmp}
  <2>1. Closed({tmp}, f, tmp)
    BY <1>5 DEF Closed, ToSet
  <2>2. tmp \in D /\ (Closed({tmp}, f, tmp) => D \subseteq {tmp})
    <3>1. tmp \in D
      BY <1>1, <1>2, SubtreeClosed
    <3>2. \A Y \in SUBSET Node : Closed(Y, f, tmp) => D \subseteq Y
      BY <1>1, <1>2, <1>3, SubtreeLeast
    <3>3. {tmp} \in SUBSET Node
      BY <1>2
    <3> HIDE DEF D
    <3> QED BY <3>1, <3>2, <3>3
  <2> HIDE DEF D
  <2> QED BY <2>1, <2>2
<1>7. /\ links' = Clear(Cut(links, tmp), D)
      /\ kind' = [m \in Node |-> IF m \in D THEN "free" ELSE kind[m]]
  BY <1>1 DEF Free
<1>8. \A p \in Node : Chain(p)' = IF p = tmp THEN <<>> ELSE RemoveFirst(f[p], tmp)
  <2> DEFINE g == [q \in Node |-> IF q \in D THEN <<>> ELSE RemoveFirst(f[q], tmp)]
  <2>1. Kids(links', g)
    BY <1>1, <1>2, <1>3, <1>7, FreeKids
  <2>2. IInv'
    BY MergeStep DEF IterInv, Shape
  <2>3. PICK h : h = g
    OBVIOUS
  <2>4. [p \in Node |-> Chain(p)]' = h
    <3> HIDE DEF g
    <3> QED BY <2>1, <2>2, <2>3, ChainsNext
  <2>5. \A p \in Node : Chain(p)' = h[p]
    BY <2>4
  <2> QED BY <1>6, <2>3, <2>5
<1>9. /\ links.prev[tmp] = into /\ links.parent[tmp] = links.parent[into]
  BY <1>1, <1>2, NullAssumption DEF Consistent, NextBack
<1>10. into # tmp
  <2> SUFFICES ASSUME into = tmp
               PROVE  FALSE
    OBVIOUS
  <2>1. PICK q \in Node : q = links.parent[tmp]
    BY <1>1, <1>2, NullAssumption DEF Consistent, RootsAlone, Links, Fields, Ptr
  <2>2. PICK s : s = f[q]
    OBVIOUS
  <2>3. Kin(links, q, s) /\ Distinct(s) /\ s \in Seq(Node)
    <3>1. Kin(links, q, s) /\ s \in Seq(Node)
      BY <1>4, <2>2
    <3> QED BY <3>1 DEF Kin
  <2>4. PICK i \in 1 .. Len(s) : s[i] = tmp
    BY <1>2, <2>1, <2>3 DEF Kin
  <2>5. links.next[s[i]] = IF i = Len(s) THEN NULL ELSE s[i + 1]
    BY <2>3 DEF Kin
  <2>6. i # Len(s) /\ s[i + 1] = tmp
    BY <1>2, <2>4, <2>5, NullAssumption
  <2>7. i + 1 \in 1 .. Len(s) /\ i + 1 # i
    BY <2>3, <2>4, <2>6
  <2> QED BY <2>3, <2>4, <2>6, <2>7 DEF Distinct
<1>11. /\ \A x \in Node : x # tmp /\ x # into => links'.next[x] = links.next[x]
       /\ \A x \in Node : links'.parent[x] = IF x = tmp THEN NULL ELSE links.parent[x]
       /\ links'.next[into] = tmp'
  <2> DEFINE v == Cut(links, tmp)
             u == Clear(v, D)
  <2>1. CutEffect(links, v, tmp) /\ v \in Links
    BY <1>1, <1>2, CutFields, CutType
  <2> HIDE DEF v
  <2>2. \A x \in Node : /\ u.next[x]   = IF x \in D THEN NULL ELSE v.next[x]
                        /\ u.parent[x] = IF x \in D THEN NULL ELSE v.parent[x]
    BY <2>1, ClearFields
  <2>3. links' = u
    BY <1>7 DEF v
  <2> HIDE DEF u, D
  <2> QED BY <1>1, <1>2, <1>6, <1>9, <1>10, <2>1, <2>2, <2>3 DEF CutEffect
<1>12. \A x \in Node : kind'[x] = IF x = tmp THEN "free" ELSE kind[x]
  BY <1>6, <1>7
<1> QED BY <1>3, <1>4, <1>5, <1>8, <1>10, <1>11, <1>12

\* Where texts may join stays the same, as the node freed was a text.
LEMMA PlacesStay ==
  ASSUME IterInv, TextInv, Merge
  PROVE  /\ into \in Subtree(links', iter.root) /\ iter'.root = iter.root
         /\ \A p \in Node : p # tmp =>
              /\ Joinable(iter.root, p)' = Joinable(iter.root, p)
              /\ p = links.parent[into] =>
                   \/ Joinable(iter.root, p) = Nat
                   \/ Joinable(iter.root, p) = {i \in 1 .. Len(Chain(p)) : Chain(p)[i] = into}
<1> DEFINE r == iter.root
<1>1. /\ user = "merge" /\ IsText(tmp) /\ Advance /\ links \in Links /\ Consistent(links)
      /\ r \in Node /\ iter'.root = r
  BY IterFacts, AdvanceMoves DEF Merge, IterInv, Walking, Good, Moved
<1>2. /\ tmp \in Node /\ into \in Node /\ links.next[into] = tmp
      /\ into \in Subtree(links, r)
  BY <1>1 DEF IterInv, Merging, TextInv, Joining, Live, IsText, Ptr
<1>3. PICK f : /\ Kids(links, f) /\ f[tmp] = <<>> /\ into # tmp
               /\ \A p \in Node : Chain(p) = f[p]
               /\ \A p \in Node : Chain(p)' = IF p = tmp THEN <<>> ELSE RemoveFirst(f[p], tmp)
               /\ \A x \in Node : links'.parent[x] = IF x = tmp THEN NULL ELSE links.parent[x]
  BY TextTaken
<1> HIDE DEF r
<1>4. \A x \in Node : links.parent[x] # tmp
  <2>1. PICK s : s = f[tmp]
    OBVIOUS
  <2>2. Kin(links, tmp, s) /\ Len(s) = 0
    BY <1>2, <1>3, <2>1 DEF Kids
  <2>3. \A x \in Node : links.parent[x] = tmp => \E i \in 1 .. Len(s) : s[i] = x
    BY <2>2 DEF Kin
  <2>4. 1 .. Len(s) = {}
    BY <2>2
  <2> QED BY <2>3, <2>4
<1>5. ASSUME NEW x \in Node, x # tmp
      PROVE  x \in Subtree(links', r) <=> x \in Subtree(links, r)
  <2>1. ASSUME x \in Subtree(links', r), NEW S \in SUBSET Node, x \in S, UpClosed(links, S)
        PROVE  r \in S
    <3>1. UpClosed(links', S)
      BY <1>3, <2>1 DEF UpClosed
    <3> QED BY <2>1, <3>1 DEF Subtree, Reaches
  <2>2. ASSUME x \in Subtree(links, r), NEW S \in SUBSET Node, x \in S, UpClosed(links', S)
        PROVE  r \in S
    <3>1. PICK T \in SUBSET Node : T = S \ {tmp} /\ x \in T
      BY <1>5, <2>2
    <3>2. UpClosed(links, T)
      <4> SUFFICES ASSUME NEW y \in T, links.parent[y] # NULL
                   PROVE  links.parent[y] \in T
        BY DEF UpClosed
      <4>1. y \in Node /\ y \in S /\ y # tmp
        BY <3>1
      <4>2. links.parent[y] \in S
        BY <1>3, <2>2, <4>1 DEF UpClosed
      <4> QED BY <1>4, <3>1, <4>1, <4>2
    <3>3. r \in T
      BY <2>2, <3>1, <3>2 DEF Subtree, Reaches
    <3> QED BY <3>1, <3>3
  <2> QED BY <1>5, <2>1, <2>2 DEF Subtree, Reaches
<1>6. into \in Subtree(links', r)
  BY <1>2, <1>3, <1>5
<1>7. ASSUME NEW p \in Node, p # tmp
      PROVE  /\ Joinable(r, p)' = Joinable(r, p)
             /\ p = links.parent[into] =>
                  \/ Joinable(r, p) = Nat
                  \/ Joinable(r, p) = {i \in 1 .. Len(Chain(p)) : Chain(p)[i] = into}
  <2>0. r' = r
    BY <1>1 DEF r
  <2>1. CASE p \in Subtree(links, r)
    BY <1>5, <1>7, <2>0, <2>1 DEF Joinable
  <2>2. CASE p \notin Subtree(links, r)
    <3>1. PICK s : s = f[p] /\ s = Chain(p) /\ Chain(p)' = RemoveFirst(s, tmp)
      BY <1>3, <1>7
    <3>2. Kin(links, p, s) /\ s \in Seq(Node) /\ Distinct(s) /\ DOMAIN s = 1 .. Len(s) /\ Len(s) \in Nat
      <4>1. Kin(links, p, s)
        BY <1>3, <3>1 DEF Kids
      <4>2. s \in Seq(Node) /\ Distinct(s)
        BY <4>1 DEF Kin
      <4> QED BY <4>1, <4>2
    <3>3. PICK u : u = RemoveFirst(s, tmp)
      OBVIOUS
    <3>4. /\ Joinable(r, p) = {i \in DOMAIN s : s[i] = r}
          /\ Joinable(r, p)' = {i \in DOMAIN u : u[i] = r}
      BY <1>5, <1>7, <2>0, <2>2, <3>1, <3>3 DEF Joinable
    <3>5. CASE p # links.parent[into]
      <4>1. \A i \in 1 .. Len(s) : s[i] # tmp
        <5>1. links.parent[tmp] = links.parent[into]
          BY <1>1, <1>2, NullAssumption DEF Consistent, NextBack
        <5>2. \A i \in 1 .. Len(s) : links.parent[s[i]] = p
          BY <3>2 DEF Kin
        <5> QED BY <3>5, <5>1, <5>2
      <4>2. u = s
        BY <3>3, <4>1, NotTakenOut
      <4> QED BY <3>4, <3>5, <4>2
    <3>6. CASE p = links.parent[into]
      <4>1. into = r
        BY <1>1, <1>2, <2>2, <3>6, SubtreeClosed
      <4>2. PICK j \in 1 .. Len(s) : s[j] = into
        BY <1>2, <3>2, <3>6 DEF Kin
      <4>3. links.next[s[j]] = IF j = Len(s) THEN NULL ELSE s[j + 1]
        BY <3>2 DEF Kin
      <4>4. j # Len(s) /\ s[j + 1] = tmp
        BY <1>2, <4>2, <4>3, NullAssumption
      <4>10. j \in 1 .. Len(s) - 1 /\ j + 1 \in 1 .. Len(s) /\ j < j + 1
        <5>1. Len(s) \in Nat /\ j \in 1 .. Len(s) /\ j # Len(s)
          BY <3>2, <4>4
        <5> QED BY <5>1
      <4>5. PICK m \in 1 .. Len(s) : m = j + 1 /\ j < m
        BY <4>10
      <4>6. /\ u \in Seq(Node) /\ Len(u) = Len(s) - 1
            /\ \A i \in 1 .. Len(s) - 1 : u[i] = IF i < m THEN s[i] ELSE s[i + 1]
        <5>1. tmp = s[m]
          BY <4>4, <4>5
        <5> QED BY <3>2, <3>3, <5>1, TakenOut
      <4>7. DOMAIN u = 1 .. Len(s) - 1
        BY <4>6
      <4>8. {i \in DOMAIN s : s[i] = r} = {j}
        BY <3>2, <4>1, <4>2 DEF Distinct
      <4>9. {i \in DOMAIN u : u[i] = r} = {j}
        <5>1. j \in DOMAIN u /\ u[j] = r
          <6>1. j \in 1 .. Len(s) - 1 /\ j < m
            BY <4>5, <4>10
          <6> QED BY <4>1, <4>2, <4>6, <4>7, <6>1
        <5>2. ASSUME NEW i \in DOMAIN u, u[i] = r
              PROVE  i = j
          <6>1. i \in 1 .. Len(s) - 1 /\ i \in 1 .. Len(s) /\ i + 1 \in 1 .. Len(s)
            BY <3>2, <4>7
          <6>2. i < m => i = j
            BY <4>1, <4>2, <4>6, <5>2, <6>1, <3>2 DEF Distinct
          <6>3. ~(i < m) => i + 1 = j
            BY <4>1, <4>2, <4>6, <5>2, <6>1, <3>2 DEF Distinct
          <6> QED BY <4>5, <6>1, <6>2, <6>3
        <5> QED BY <5>1, <5>2
      <4> QED BY <3>1, <3>2, <3>4, <3>6, <4>1, <4>8, <4>9
    <3> QED BY <3>5, <3>6
  <2> QED BY <2>1, <2>2
<1> QED BY <1>1, <1>6, <1>7 DEF r

LEMMA MergeText ==
  ASSUME IterInv, TextInv, Merge
  PROVE  TextInv'
<1>1. /\ user = "merge" /\ user' = "merge" /\ IsText(tmp) /\ Advance
      /\ buf' = buf \o lit[tmp] /\ UNCHANGED <<lit, into, wish>>
  BY DEF Merge
<1>2. /\ Shape /\ links \in Links /\ Consistent(links) /\ iter.root \in Node
      /\ Route(links, kind, plan, iter.root)
      /\ tmp \in Node /\ kind[tmp] = "text"
      /\ plan # <<>> => plan[1] = Enter(tmp)
  BY <1>1, IterFacts DEF IterInv, Merging, Walking, IsText, Ptr, Good
<1>3. /\ lit \in [Node -> Seq(Node)] /\ buf \in Seq(Node)
      /\ into \in Node /\ kind[into] = "text" /\ links.next[into] = tmp
  BY <1>1 DEF TextInv, Joining, Live
<1>4. PICK f : /\ Kids(links, f) /\ f[tmp] = <<>>
               /\ \A p \in Node : Chain(p) = f[p]
               /\ \A p \in Node : Chain(p)' = IF p = tmp THEN <<>> ELSE RemoveFirst(f[p], tmp)
               /\ \A x \in Node : kind'[x] = IF x = tmp THEN "free" ELSE kind[x]
               /\ \A x \in Node : x # tmp /\ x # into => links'.next[x] = links.next[x]
               /\ \A x \in Node : links'.parent[x] = IF x = tmp THEN NULL ELSE links.parent[x]
               /\ links'.next[into] = tmp' /\ into # tmp
  BY TextTaken
<1>5. lit[tmp] \in Seq(Node) /\ buf' \in Seq(Node)
  BY <1>1, <1>2, <1>3, ConcatProperties
<1>6. Joining'
  BY <1>3, <1>4, <1>5, <1>1, PlacesStay DEF Joining, Live
<1>7. Kept'
  <2> DEFINE l == [lit EXCEPT ![into] = buf]
             l2 == [lit EXCEPT ![into] = buf \o lit[tmp]]
  <2>1. /\ Lits = l /\ Lits' = l2
    BY <1>1 DEF Lits
  <2>2. /\ l \in [Node -> Seq(Node)] /\ l2 \in [Node -> Seq(Node)]
        /\ l2[into] = l[into] \o l[tmp] /\ \A x \in Node : x # into => l2[x] = l[x]
    BY <1>1, <1>3, <1>4, <1>5
  <2> HIDE DEF l, l2
  <2>3. PICK q \in Node : q = links.parent[into] /\ q = links.parent[tmp]
    <3>1. links.parent[into] # NULL /\ links.parent[into] = links.parent[tmp]
      BY <1>2, <1>3, NullAssumption DEF Consistent, RootsAlone, NextBack
    <3> QED BY <1>2, <1>3, <3>1 DEF Links, Fields, Ptr
  <2> SUFFICES ASSUME NEW p \in Node
               PROVE  wish[p] = Runs(ItemsOf(kind', l2, Chain(p)'), Joinable(iter.root, p)')
    BY <1>1, <2>1 DEF Kept
  <2>0. PICK A : A = Joinable(iter.root, p)
    OBVIOUS
  <2>4. wish[p] = Runs(ItemsOf(kind, l, f[p]), A)
    BY <1>1, <1>4, <2>0, <2>1 DEF TextInv, Kept, Gathering
  <2>9. p # tmp => Joinable(iter.root, p)' = A
    BY <2>0, PlacesStay
  <2>5. PICK s : s = f[p]
    OBVIOUS
  <2>6. Kin(links, p, s) /\ s \in Seq(Node) /\ Distinct(s)
    <3>1. Kin(links, p, s)
      BY <1>4, <2>5 DEF Kids
    <3> QED BY <3>1 DEF Kin
  <2>7. CASE p = q
    <3>1. PICK j \in 1 .. Len(s) : s[j] = into
      BY <1>3, <2>3, <2>6, <2>7 DEF Kin
    <3>2. links.next[s[j]] = IF j = Len(s) THEN NULL ELSE s[j + 1]
      BY <2>6 DEF Kin
    <3>3. j # Len(s) /\ s[j + 1] = tmp
      BY <1>2, <1>3, <3>1, <3>2, NullAssumption
    <3>4. j \in 1 .. Len(s) - 1
      BY <2>6, <3>1, <3>3
    <3>6. p # tmp
      <4>1. s # <<>>
        BY <3>1
      <4> QED BY <1>4, <2>5, <4>1
    <3>7. A = Nat \/ A = {i \in 1 .. Len(s) : s[i] = into}
      BY <1>4, <2>0, <2>3, <2>5, <2>7, <3>6, PlacesStay
    <3>5. Runs(ItemsOf(kind', l2, RemoveFirst(s, tmp)), A) = Runs(ItemsOf(kind, l, s), A)
      <4>1. PICK k2 : k2 = kind'
        OBVIOUS
      <4>2. \A x \in Node : x # tmp => k2[x] = kind[x]
        BY <1>4, <4>1
      <4>3. TextJoins(s, into, tmp, kind, k2, l, l2)
        BY <1>2, <1>3, <2>2, <2>6, <3>1, <3>3, <3>4, <4>2 DEF TextJoins
      <4>4. Runs(ItemsOf(k2, l2, RemoveFirst(s, tmp)), A) = Runs(ItemsOf(kind, l, s), A)
        BY <3>7, <4>3, MergeJoins
      <4> QED BY <4>1, <4>4
    <3> QED BY <1>4, <2>4, <2>5, <2>9, <3>5, <3>6
  <2>8. CASE p # q
    <3>1. Chain(p)' = s
      <4>1. \A i \in 1 .. Len(s) : s[i] # tmp
        BY <2>3, <2>6, <2>8 DEF Kin
      <4>2. RemoveFirst(s, tmp) = s
        BY <4>1, NotTakenOut
      <4> QED BY <1>4, <2>5, <4>2
    <3>2. \A i \in 1 .. Len(s) : s[i] \in Node /\ s[i] # tmp /\ s[i] # into
      <4>1. \A i \in 1 .. Len(s) : links.parent[s[i]] = p
        BY <2>6 DEF Kin
      <4>2. \A i \in 1 .. Len(s) : s[i] \in Node
        BY <2>6, KinType
      <4> QED BY <2>3, <2>8, <4>1, <4>2
    <3>3. \A i \in 1 .. Len(s) : kind'[s[i]] = kind[s[i]] /\ l2[s[i]] = l[s[i]]
      BY <1>4, <2>2, <3>2
    <3>4. ItemsOf(kind', l2, s) = ItemsOf(kind, l, s)
      <4>1. PICK k2 : k2 = kind'
        OBVIOUS
      <4> QED BY <2>6, <3>3, <4>1, SameItems
    <3>5. CASE p # tmp
      BY <2>4, <2>5, <2>9, <3>1, <3>4, <3>5
    <3>6. CASE p = tmp
      <4>1. PICK c \in Seq(Items) : c = ItemsOf(kind, l, s) /\ Len(c) = Len(s)
        BY <2>2, <2>6, ItemsType
      <4>2. Len(c) = 0
        BY <1>4, <2>5, <3>6, <4>1
      <4>3. \A B : Runs(c, B) = c
        <5>1. \A i \in 1 .. Len(c) - 1 : ~(c[i].node = NULL /\ c[i + 1].node = NULL)
          BY <4>2
        <5> QED BY <5>1, NoRuns
      <4> QED BY <2>4, <2>5, <3>1, <3>4, <4>1, <4>3
    <3> QED BY <3>5, <3>6
  <2> QED BY <2>7, <2>8
<1>8. /\ iter'.root = iter.root
      /\ plan = <<>> => plan' = <<>>
      /\ plan # <<>> => /\ plan' = SubSeq(plan, 1 + 1, Len(plan))
                        /\ \A i \in 1 .. Len(plan') : plan'[i] = plan[1 + i]
  BY <1>1, AdvanceMoves DEF Moved
<1>9. Passed'
  <2> SUFFICES ASSUME NEW x \in Subtree(links', iter.root), kind'[x] = "text", x # into,
                      \A i \in 1 .. Len(plan') : plan'[i] # Enter(x),
                      links'.next[x] # NULL, kind'[links'.next[x]] = "text"
               PROVE  FALSE
    BY <1>1, <1>8 DEF Passed, IsText
  <2>1. x \in Node /\ x # tmp /\ kind[x] = "text"
    BY <1>4 DEF Subtree
  <2>2. x \in Subtree(links, iter.root)
    <3>1. \A y \in Node : links'.parent[y] \in {NULL, links.parent[y]}
      BY <1>3, <1>4
    <3>2. ASSUME NEW S \in SUBSET Node, x \in S, UpClosed(links, S)
          PROVE  iter.root \in S
      <4>1. UpClosed(links', S)
        BY <3>1, <3>2 DEF UpClosed
      <4> QED BY <3>2, <4>1 DEF Subtree, Reaches
    <3> QED BY <2>1, <3>2 DEF Subtree, Reaches
  <2>3. IsText(links.next[x])
    <3>1. links.next[x] = links'.next[x] /\ links.next[x] \in Node
      BY <1>2, <1>4, <2>1 DEF Links, Fields, Ptr
    <3> QED BY <1>4, <3>1 DEF IsText
  <2>4. PICK i \in 1 .. Len(plan) : plan[i] = Enter(x)
    BY <1>1, <2>1, <2>2, <2>3 DEF TextInv, Passed, Gathering
  <2>5. plan # <<>> /\ Len(plan) \in Nat
    BY <1>2, <2>4, RouteEvents DEF Route
  <2>6. i # 1
    BY <1>2, <2>1, <2>4, <2>5, EventFields
  <2>7. PICK m \in 1 .. Len(plan) : m = 1
    BY <2>4, <2>5
  <2> DEFINE q == SubSeq(plan, m + 1, Len(plan))
  <2>8. Len(q) = Len(plan) - m
    BY <1>2, Remainder
  <2>9. plan' = q
    BY <1>8, <2>5, <2>7
  <2> HIDE DEF q
  <2>10. i - 1 \in 1 .. Len(plan') /\ 1 + (i - 1) = i
    BY <2>4, <2>5, <2>6, <2>7, <2>8, <2>9
  <2> QED BY <1>8, <2>4, <2>5, <2>10
<1> QED BY <1>1, <1>3, <1>6, <1>7, <1>9 DEF TextInv

LEMMA EndMergeText ==
  ASSUME IterInv, TextInv, EndMerge
  PROVE  TextInv'
<1>1. /\ user = "merge" /\ ~IsText(tmp) /\ lit' = [lit EXCEPT ![into] = buf] /\ user' = "visit"
      /\ UNCHANGED <<iter, plan, links, kind, into, tmp, buf, wish>>
  BY DEF EndMerge, treeVars
<1>2. lit \in [Node -> Seq(Node)] /\ buf \in Seq(Node) /\ links.next[into] = tmp
  BY <1>1 DEF TextInv, Joining
<1>3. Lits' = Lits
  BY <1>1 DEF Lits
<1>4. Kept'
  <2>1. \A p \in Node : Chain(p)' = Chain(p) /\ Joinable(iter.root, p)' = Joinable(iter.root, p)
    BY <1>1 DEF Chain, Joinable
  <2> QED BY <1>1, <1>3, <2>1 DEF TextInv, Kept, Gathering
<1>5. Passed'
  BY <1>1, <1>2 DEF TextInv, Passed, Gathering, IsText
<1> QED BY <1>1, <1>2, <1>4, <1>5 DEF TextInv, Joining

LEMMA NextTextInv == IterInv /\ TextInv /\ [IterActs]_allVars => TextInv'
<1> SUFFICES ASSUME IterInv, TextInv, [IterActs]_allVars
             PROVE  TextInv'
  OBVIOUS
<1>1. ASSUME user' \in {"nobody", "program"}, lit' = lit
      PROVE  TextInv'
  BY <1>1 DEF TextInv, Joining, Kept, Passed, Gathering
<1>2. ASSUME NEW k \in Kind, NEW p \in Live \cup {NULL}, Grow(k, p)
      PROVE  TextInv'
  BY <1>1, <1>2 DEF Grow, textVars
<1>3. ASSUME NEW r \in Live, Start(r)
      PROVE  TextInv'
  BY <1>1, <1>3 DEF Start, textVars
<1>4. ASSUME NEW r \in Live, Consolidate(r)
      PROVE  TextInv'
  BY <1>4, ConsolidateText
<1>5. CASE Skip \/ Modify \/ Step
  BY <1>1, <1>5 DEF Skip, Modify, MayModify, Step, textVars
<1>6. CASE Visit
  BY <1>6, VisitText
<1>7. CASE Merge
  BY <1>7, MergeText
<1>8. CASE EndMerge
  BY <1>8, EndMergeText
<1>9. CASE Over \/ UNCHANGED allVars
  <2>1. UNCHANGED <<links, kind, iter, user, lit, into, tmp, buf, wish, plan>>
    BY <1>9 DEF Over, allVars, textVars
  <2>2. Lits' = Lits /\ \A p \in Node : Chain(p)' = Chain(p) /\ Joinable(iter.root, p)' = Joinable(iter.root, p)
    BY <2>1 DEF Lits, Chain, Joinable
  <2>3. Joining' /\ Kept' /\ Passed'
    BY <2>1, <2>2 DEF TextInv, Joining, Kept, Passed, Gathering, Live, IsText
  <2> QED BY <2>1, <2>3 DEF TextInv
<1> QED BY <1>2, <1>3, <1>4, <1>5, <1>6, <1>7, <1>8, <1>9 DEF IterActs, Loops

(* When cmark_consolidate_text_nodes returns, every node below its root    *)
(* has the children it had, with each run of text nodes made one that      *)
(* holds their text in order. All other nodes have the children they had,  *)
(* but for the text that follows a root which is a text itself.            *)
THEOREM TextsConsolidated == IterSpec => []Consolidated
<1>1. TextInv /\ IterInv => Consolidated
  <2> SUFFICES ASSUME TextInv, IterInv, user = "over", NEW p \in Node
               PROVE  Content(p) = wish[p]
    BY DEF Consolidated
  <2>1. /\ Shape /\ links \in Links /\ iter.root \in Node /\ Good(links, kind)
        /\ lit \in [Node -> Seq(Node)] /\ plan = <<>> /\ Lits = lit
    BY IterFacts DEF IterInv, Walking, TextInv, Lits
  <2>2. PICK s : s = Chain(p)
    OBVIOUS
  <2>3. Kin(links, p, s) /\ s \in Seq(Node) /\ Content(p) = ItemsOf(kind, lit, s)
    BY <2>1, <2>2, ContentIs
  <2>0. PICK A : A = Joinable(iter.root, p)
    OBVIOUS
  <2>4. wish[p] = Runs(ItemsOf(kind, lit, s), A)
    BY <2>0, <2>1, <2>2 DEF TextInv, Kept, Gathering
  <2>5. PICK c \in Seq(Items) :
          /\ c = ItemsOf(kind, lit, s) /\ Len(c) = Len(s)
          /\ \A i \in 1 .. Len(s) : c[i] = IF kind[s[i]] = "text" THEN TextItem(lit[s[i]])
                                           ELSE [node |-> s[i], text |-> <<>>]
    BY <2>1, <2>3, ItemsType
  <2>6. ASSUME NEW i \in 1 .. Len(s)
        PROVE  /\ s[i] \in Node /\ s[i] # NULL
               /\ i \in A => s[i] \in Subtree(links, iter.root)
               /\ c[i].node = NULL => kind[s[i]] = "text"
    <3>1. s[i] \in Node /\ links.parent[s[i]] = p /\ s[i] # NULL
      BY <2>3, KinType, NullAssumption DEF Kin
    <3>2. p \in Subtree(links, iter.root) => s[i] \in Subtree(links, iter.root)
      BY <2>1, <3>1, SubtreeClosed
    <3>3. ASSUME p \notin Subtree(links, iter.root), i \in A
          PROVE  s[i] \in Subtree(links, iter.root)
      <4>1. s[i] = iter.root
        BY <2>0, <2>2, <3>3 DEF Joinable
      <4> QED BY <2>1, <4>1, SubtreeClosed
    <3>4. ASSUME kind[s[i]] # "text"
          PROVE  c[i].node # NULL
      <4>1. c[i] = [node |-> s[i], text |-> <<>>]
        BY <2>5, <3>4
      <4> QED BY <3>1, <4>1
    <3>5. i \in A => s[i] \in Subtree(links, iter.root)
      BY <3>2, <3>3
    <3> QED BY <3>1, <3>4, <3>5
  <2>7. ASSUME NEW i \in 1 .. Len(c) - 1, i \in A, c[i].node = NULL, c[i + 1].node = NULL
        PROVE  FALSE
    <3>1. i \in 1 .. Len(s) /\ i + 1 \in 1 .. Len(s) /\ i # Len(s)
      BY <2>3, <2>5
    <3>2. links.next[s[i]] = s[i + 1]
      BY <2>3, <3>1 DEF Kin
    <3>3. kind[s[i]] = "text" /\ IsText(s[i + 1])
      BY <2>6, <2>7, <3>1 DEF IsText
    <3>4. \A h \in 1 .. Len(plan) : plan[h] # Enter(s[i])
      BY <2>1
    <3>5. s[i] \in Subtree(links, iter.root)
      BY <2>6, <2>7, <3>1
    <3> QED BY <2>1, <3>2, <3>3, <3>4, <3>5 DEF TextInv, Passed, Gathering
  <2>8. Runs(c, A) = c
    BY <2>7, NoRuns
  <2> QED BY <2>3, <2>4, <2>5, <2>8
<1>2. IterInv /\ TextInv /\ [IterActs]_allVars => TextInv'
  BY NextTextInv
<1>3. IterInit => TextInv
  BY InitTextInv
<1> QED BY <1>1, <1>2, <1>3, IterInvHolds, PTL DEF IterSpec
=============================================================================
