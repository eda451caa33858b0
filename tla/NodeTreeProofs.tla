--------------------------- MODULE NodeTreeProofs ---------------------------
(***************************************************************************)
(* Proofs about NodeTree, for any finite set of nodes and any set of node  *)
(* types. Three parts: the inductive invariant IInv and the properties     *)
(* that follow from it; the sequences of children that the pointers stand  *)
(* for (Kids), and that each operation of the code changes them as an      *)
(* operation of OrderedTree does; the list that S_free_nodes threads       *)
(* through the tree it frees (FreeInv).                                    *)
(***************************************************************************)
EXTENDS FreeNodes, SequenceTheorems, FiniteSetTheorems, WellFoundedInduction, TLAPS

USE DEF Ptr, Fields, Links

-----------------------------------------------------------------------------
(* Types. *)

LEMMA DetachType ==
  ASSUME NEW t \in Links, NEW n \in Node
  PROVE  Detach(t, n) \in Links
BY NullAssumption DEF Detach, Put

LEMMA CutType ==
  ASSUME NEW t \in Links, NEW n \in Node
  PROVE  Cut(t, n) \in Links
BY DetachType DEF Cut

LEMMA PlaceType ==
  ASSUME NEW t \in Links, NEW n \in Node, NEW p \in Node,
         NEW b \in Ptr, NEW a \in Ptr
  PROVE  Place(t, n, p, b, a) \in Links
BY NullAssumption DEF Place, Put

LEMMA ClearType ==
  ASSUME NEW t \in Links, NEW D
  PROVE  Clear(t, D) \in Links
BY DEF Clear

-----------------------------------------------------------------------------
(* The operations field by field. *)

CutEffect(t, u, n) == \A x \in Node :
  /\ u.next[x]   = IF x = n THEN NULL
                   ELSE IF x = t.prev[n] THEN t.next[n] ELSE t.next[x]
  /\ u.prev[x]   = IF x = n THEN NULL
                   ELSE IF x = t.next[n] THEN t.prev[n] ELSE t.prev[x]
  /\ u.parent[x] = IF x = n THEN NULL ELSE t.parent[x]
  /\ u.first[x]  = IF x = t.parent[n] /\ t.first[x] = n
                   THEN t.next[n] ELSE t.first[x]
  /\ u.last[x]   = IF x = t.parent[n] /\ t.last[x] = n
                   THEN t.prev[n] ELSE t.last[x]

LEMMA CutFields ==
  ASSUME NEW t \in Links, NEW n \in Node
  PROVE  CutEffect(t, Cut(t, n), n)
BY NullAssumption DEF CutEffect, Cut, Detach, Put

PlaceEffect(t, u, n, p, b, a) == \A x \in Node :
  /\ u.next[x]   = IF x = b THEN n ELSE IF x = n THEN a ELSE t.next[x]
  /\ u.prev[x]   = IF x = a THEN n ELSE IF x = n THEN b ELSE t.prev[x]
  /\ u.parent[x] = IF x = n THEN p ELSE t.parent[x]
  /\ u.first[x]  = IF b = NULL /\ x = p THEN n ELSE t.first[x]
  /\ u.last[x]   = IF a = NULL /\ x = p THEN n ELSE t.last[x]

LEMMA PlaceFields ==
  ASSUME NEW t \in Links, NEW n \in Node, NEW p \in Node,
         NEW b \in Ptr, NEW a \in Ptr
  PROVE  PlaceEffect(t, Place(t, n, p, b, a), n, p, b, a)
BY NullAssumption DEF PlaceEffect, Place, Put

(* The insertions overwrite the pointers S_node_unlink leaves stale: they  *)
(* act as if the node had been unlinked cleanly.                           *)
LEMMA PlaceAfterDetach ==
  ASSUME NEW t \in Links, NEW n \in Node, NEW p \in Node,
         NEW b \in Ptr, NEW a \in Ptr
  PROVE  Place(Detach(t, n), n, p, b, a) = Place(Cut(t, n), n, p, b, a)
<1> DEFINE d == Detach(t, n)
           c == Cut(t, n)
<1>1. d \in Links /\ c \in Links
  BY DetachType, CutType
<1>2. /\ [c.next EXCEPT ![n] = a] = [d.next EXCEPT ![n] = a]
      /\ [c.prev EXCEPT ![n] = b] = [d.prev EXCEPT ![n] = b]
      /\ [c.parent EXCEPT ![n] = p] = [d.parent EXCEPT ![n] = p]
      /\ c.first = d.first /\ c.last = d.last
  BY <1>1 DEF Cut
<1> QED
  BY <1>1, <1>2 DEF Place

-----------------------------------------------------------------------------
(* What the operations do to a consistent tree. *)

(* cmark_node_unlink leaves a consistent forest, with n as a root. *)
LEMMA CutConsistent ==
  ASSUME NEW t \in Links, NEW n \in Node, Consistent(t)
  PROVE  Consistent(Cut(t, n))
<1> DEFINE u == Cut(t, n)
<1>1. CutEffect(t, u, n)
  BY CutFields
<1>2. \A x \in Node :
        /\ t.next[x] \in Ptr /\ t.prev[x] \in Ptr /\ t.parent[x] \in Ptr
        /\ t.first[x] \in Ptr /\ t.last[x] \in Ptr
  OBVIOUS
<1> HIDE DEF u
<1>3. NextBack(u)
  BY <1>1, <1>2, NullAssumption DEF CutEffect, Consistent, NextBack, PrevBack, RootsAlone
<1>4. PrevBack(u)
  BY <1>1, <1>2, NullAssumption DEF CutEffect, Consistent, NextBack, PrevBack, RootsAlone
<1>5. FirstBack(u)
  BY <1>1, <1>2, NullAssumption DEF CutEffect, Consistent, NextBack, PrevBack, FirstBack
<1>6. LastBack(u)
  BY <1>1, <1>2, NullAssumption DEF CutEffect, Consistent, NextBack, PrevBack, LastBack
<1>7. Ends(u)
  BY <1>1, <1>2, NullAssumption DEF CutEffect, Consistent, NextBack, PrevBack, FirstBack, LastBack, Ends
<1>8. FirstLast(u)
  <2>1. ASSUME NEW x \in Node, u.first[x] = NULL PROVE u.last[x] = NULL
    BY <1>1, <1>2, <2>1, NullAssumption DEF CutEffect, Consistent, FirstBack, Ends, FirstLast
  <2>2. ASSUME NEW x \in Node, u.last[x] = NULL PROVE u.first[x] = NULL
    BY <1>1, <1>2, <2>2, NullAssumption DEF CutEffect, Consistent, LastBack, Ends, FirstLast
  <2> QED
    BY <2>1, <2>2 DEF FirstLast
<1>9. RootsAlone(u)
  BY <1>1, <1>2, NullAssumption DEF CutEffect, Consistent, NextBack, PrevBack, RootsAlone
<1> QED
  BY <1>3, <1>4, <1>5, <1>6, <1>7, <1>8, <1>9 DEF Consistent, u

(* b and a are neighbours under p, or an end of p's children and null. *)
Gap(t, p, b, a) == /\ b # NULL => t.parent[b] = p /\ t.next[b] = a
                   /\ a # NULL => t.parent[a] = p /\ t.prev[a] = b
                   /\ b = NULL => t.first[p] = a
                   /\ a = NULL => t.last[p] = b

(* Placing a root between two neighbours leaves a consistent forest. *)
LEMMA PlaceConsistent ==
  ASSUME NEW t \in Links, NEW n \in Node, NEW p \in Node,
         NEW b \in Ptr, NEW a \in Ptr,
         Consistent(t), t.parent[n] = NULL, Gap(t, p, b, a), n # b, n # a
  PROVE  Consistent(Place(t, n, p, b, a))
<1> DEFINE u == Place(t, n, p, b, a)
<1>1. PlaceEffect(t, u, n, p, b, a)
  BY PlaceFields
<1>2. \A x \in Node :
        /\ t.next[x] \in Ptr /\ t.prev[x] \in Ptr
        /\ t.first[x] \in Ptr /\ t.last[x] \in Ptr
  OBVIOUS
<1>3. t.next[n] = NULL /\ t.prev[n] = NULL
  BY DEF Consistent, RootsAlone
<1> HIDE DEF u
<1>4. NextBack(u)
  BY <1>1, <1>2, <1>3, NullAssumption DEF PlaceEffect, Consistent, NextBack, PrevBack, Gap
<1>5. PrevBack(u)
  BY <1>1, <1>2, <1>3, NullAssumption DEF PlaceEffect, Consistent, NextBack, PrevBack, Gap
<1>6. FirstBack(u)
  BY <1>1, <1>2, NullAssumption DEF PlaceEffect, Consistent, FirstBack, PrevBack, Gap
<1>7. LastBack(u)
  BY <1>1, <1>2, NullAssumption DEF PlaceEffect, Consistent, LastBack, NextBack, Gap
<1>8. Ends(u)
  BY <1>1, <1>2, NullAssumption DEF PlaceEffect, Consistent, NextBack, PrevBack, FirstBack, LastBack, Ends, Gap
<1>9. FirstLast(u)
  <2>1. ASSUME NEW x \in Node, u.first[x] = NULL PROVE u.last[x] = NULL
    BY <1>1, <1>2, <2>1, NullAssumption DEF PlaceEffect, Consistent, FirstLast, Gap
  <2>2. ASSUME NEW x \in Node, u.last[x] = NULL PROVE u.first[x] = NULL
    BY <1>1, <1>2, <2>2, NullAssumption DEF PlaceEffect, Consistent, FirstLast, Gap
  <2> QED
    BY <2>1, <2>2 DEF FirstLast
<1>10. RootsAlone(u)
  BY <1>1, <1>2, NullAssumption DEF PlaceEffect, Consistent, RootsAlone, Gap
<1> QED
  BY <1>4, <1>5, <1>6, <1>7, <1>8, <1>9, <1>10 DEF Consistent, u

(* The common part of the four insertions. *)
LEMMA InsertConsistent ==
  ASSUME NEW t \in Links, NEW n \in Node, NEW p \in Node,
         NEW b \in Ptr, NEW a \in Ptr,
         Consistent(t), Gap(Cut(t, n), p, b, a), n # b, n # a
  PROVE  Consistent(Place(Detach(t, n), n, p, b, a))
<1> DEFINE c == Cut(t, n)
<1>1. c \in Links /\ Consistent(c)
  BY CutType, CutConsistent
<1>2. c.parent[n] = NULL
  BY CutFields DEF CutEffect
<1>3. Place(Detach(t, n), n, p, b, a) = Place(c, n, p, b, a)
  BY PlaceAfterDetach
<1> HIDE DEF c
<1>4. Consistent(Place(c, n, p, b, a))
  BY <1>1, <1>2, PlaceConsistent DEF c
<1> QED
  BY <1>3, <1>4

(* What S_node_unlink and cmark_node_unlink leave alone, and what a node   *)
(* that was cut off is to the others.                                      *)
LEMMA CutOthers ==
  ASSUME NEW t \in Links, NEW n \in Node, NEW x \in Node, n # x, Consistent(t)
  PROVE  LET d == Detach(t, n)
             c == Cut(t, n)
         IN  /\ d.parent[x] = t.parent[x] /\ c.parent[x] = t.parent[x]
             /\ d.next[x] = c.next[x] /\ d.prev[x] = c.prev[x]
             /\ d.first = c.first /\ d.last = c.last
             /\ c.next[x] \in Ptr \ {n} /\ c.prev[x] \in Ptr \ {n}
             /\ c.first[x] \in Ptr \ {n} /\ c.last[x] \in Ptr \ {n}
<1> DEFINE c == Cut(t, n)
<1>1. c \in Links /\ Consistent(c) /\ Detach(t, n) \in Links
  BY CutType, DetachType, CutConsistent
<1>2. c.parent[x] = t.parent[x] /\ c.parent[n] = NULL
  BY CutFields DEF CutEffect
<1>3. c.next[n] = NULL /\ c.prev[n] = NULL
  BY <1>1, <1>2 DEF Consistent, RootsAlone
<1>4. /\ c.next[x] # n /\ c.prev[x] # n
  BY <1>1, <1>3, NullAssumption DEF Consistent, NextBack, PrevBack
<1>5. c.first[x] # n /\ c.last[x] # n
  BY <1>1, <1>2, NullAssumption DEF Consistent, FirstBack, LastBack
<1>6. /\ Detach(t, n).parent[x] = c.parent[x]
      /\ Detach(t, n).next[x] = c.next[x] /\ Detach(t, n).prev[x] = c.prev[x]
      /\ Detach(t, n).first = c.first /\ Detach(t, n).last = c.last
  BY <1>1 DEF Cut
<1> QED
  BY <1>1, <1>2, <1>4, <1>5, <1>6

(* cmark_node_insert_before, with two different nodes. *)
LEMMA PlaceBeforeConsistent ==
  ASSUME NEW t \in Links, NEW node \in Node, NEW sibling \in Node,
         Consistent(t), node # sibling, t.parent[node] # NULL
  PROVE  Consistent(PlaceBefore(t, node, sibling))
<1> DEFINE c == Cut(t, sibling)
           p == t.parent[node]
           b == c.prev[node]
<1>1. c \in Links /\ Consistent(c)
  BY CutType, CutConsistent
<1>2. p \in Node /\ b \in Ptr /\ b # sibling /\ c.parent[node] = p
  BY CutOthers
<1>3. PlaceBefore(t, node, sibling) = Place(Detach(t, sibling), sibling, p, b, node)
  BY CutOthers DEF PlaceBefore
<1> HIDE DEF c, p, b
<1>4. Gap(c, p, b, node)
  BY <1>1, <1>2, NullAssumption DEF Gap, Consistent, PrevBack, Ends, b
<1>5. node \in Ptr /\ node # sibling
  OBVIOUS
<1>6. Consistent(Place(Detach(t, sibling), sibling, p, b, node))
  BY <1>2, <1>4, <1>5, InsertConsistent DEF c
<1> QED
  BY <1>3, <1>6

(* cmark_node_insert_after, with two different nodes. *)
LEMMA PlaceAfterConsistent ==
  ASSUME NEW t \in Links, NEW node \in Node, NEW sibling \in Node,
         Consistent(t), node # sibling, t.parent[node] # NULL
  PROVE  Consistent(PlaceAfter(t, node, sibling))
<1> DEFINE c == Cut(t, sibling)
           p == t.parent[node]
           a == c.next[node]
<1>1. c \in Links /\ Consistent(c)
  BY CutType, CutConsistent
<1>2. p \in Node /\ a \in Ptr /\ a # sibling /\ c.parent[node] = p
  BY CutOthers
<1>3. PlaceAfter(t, node, sibling) = Place(Detach(t, sibling), sibling, p, node, a)
  BY CutOthers DEF PlaceAfter
<1> HIDE DEF c, p, a
<1>4. Gap(c, p, node, a)
  BY <1>1, <1>2, NullAssumption DEF Gap, Consistent, NextBack, Ends, a
<1>5. node \in Ptr /\ node # sibling
  OBVIOUS
<1>6. Consistent(Place(Detach(t, sibling), sibling, p, node, a))
  BY <1>2, <1>4, <1>5, InsertConsistent DEF c
<1> QED
  BY <1>3, <1>6

(* Before the first child, and after the last, there is a gap. *)
LEMMA EndGaps ==
  ASSUME NEW t \in Links, NEW p \in Node, Consistent(t)
  PROVE  /\ Gap(t, p, NULL, t.first[p])
         /\ Gap(t, p, t.last[p], NULL)
<1>1. Gap(t, p, NULL, t.first[p])
  <2>1. t.first[p] # NULL => t.parent[t.first[p]] = p /\ t.prev[t.first[p]] = NULL
    BY DEF Consistent, FirstBack
  <2>2. t.first[p] = NULL => t.last[p] = NULL
    BY DEF Consistent, FirstLast
  <2> QED
    BY <2>1, <2>2 DEF Gap
<1>2. Gap(t, p, t.last[p], NULL)
  <2>1. t.last[p] # NULL => t.parent[t.last[p]] = p /\ t.next[t.last[p]] = NULL
    BY DEF Consistent, LastBack
  <2>2. t.last[p] = NULL => t.first[p] = NULL
    BY DEF Consistent, FirstLast
  <2> QED
    BY <2>1, <2>2 DEF Gap
<1> QED
  BY <1>1, <1>2

(* cmark_node_prepend_child and cmark_node_append_child. *)
LEMMA PlaceEndsConsistent ==
  ASSUME NEW t \in Links, NEW node \in Node, NEW child \in Node,
         Consistent(t), node # child
  PROVE  /\ Consistent(PlaceFirst(t, node, child))
         /\ Consistent(PlaceLast(t, node, child))
<1> DEFINE c == Cut(t, child)
           a == c.first[node]
           b == c.last[node]
<1>1. c \in Links /\ Consistent(c)
  BY CutType, CutConsistent
<1>2. a \in Ptr /\ a # child /\ b \in Ptr /\ b # child
  BY CutOthers
<1>3. /\ PlaceFirst(t, node, child) = Place(Detach(t, child), child, node, NULL, a)
      /\ PlaceLast(t, node, child) = Place(Detach(t, child), child, node, b, NULL)
  BY CutOthers DEF PlaceFirst, PlaceLast
<1> HIDE DEF c, a, b
<1>4. Gap(c, node, NULL, a) /\ Gap(c, node, b, NULL)
  BY <1>1, EndGaps DEF a, b
<1>5. NULL \in Ptr /\ NULL # child
  BY NullAssumption
<1>6. Consistent(Place(Detach(t, child), child, node, NULL, a))
  BY <1>2, <1>4, <1>5, InsertConsistent DEF c
<1>7. Consistent(Place(Detach(t, child), child, node, b, NULL))
  BY <1>2, <1>4, <1>5, InsertConsistent DEF c
<1> QED
  BY <1>3, <1>6, <1>7

-----------------------------------------------------------------------------
(* Ancestors. *)

Anc(t, n) == {c \in Node : Reaches(t, n, c)}

(* The ancestors of n, n among them, are closed under the parent pointer,  *)
(* and in every closed set with n.                                         *)
LEMMA AncLeast ==
  ASSUME NEW t \in Links, NEW n \in Node
  PROVE  /\ n \in Anc(t, n)
         /\ UpClosed(t, Anc(t, n))
         /\ \A S \in SUBSET Node : n \in S /\ UpClosed(t, S) => Anc(t, n) \subseteq S
<1>1. n \in Anc(t, n)
  BY DEF Anc, Reaches
<1>2. ASSUME NEW x \in Anc(t, n), t.parent[x] # NULL
      PROVE  t.parent[x] \in Anc(t, n)
  <2>1. x \in Node /\ t.parent[x] \in Node
    BY <1>2 DEF Anc
  <2>2. ASSUME NEW S \in SUBSET Node, n \in S, UpClosed(t, S)
        PROVE  t.parent[x] \in S
    BY <1>2, <2>2 DEF Anc, Reaches, UpClosed
  <2> QED
    BY <2>1, <2>2 DEF Anc, Reaches
<1>3. ASSUME NEW S \in SUBSET Node, n \in S, UpClosed(t, S)
      PROVE  Anc(t, n) \subseteq S
  BY <1>3 DEF Anc, Reaches
<1> QED
  BY <1>1, <1>2, <1>3 DEF UpClosed

(* It is enough to find one closed set that keeps a node from its parent. *)
LEMMA NoCycleBySets ==
  ASSUME NEW t \in Links,
         \A m \in Node : t.parent[m] # NULL =>
           \E S \in SUBSET Node : t.parent[m] \in S /\ m \notin S /\ UpClosed(t, S)
  PROVE  NoCycle(t)
BY DEF NoCycle, Reaches

(* Removing parent pointers closes no cycle. *)
LEMMA FewerParents ==
  ASSUME NEW t \in Links, NEW u \in Links, NoCycle(t),
         \A x \in Node : u.parent[x] = NULL \/ u.parent[x] = t.parent[x]
  PROVE  NoCycle(u)
<1> SUFFICES ASSUME NEW m \in Node, u.parent[m] # NULL
             PROVE  \E S \in SUBSET Node :
                      u.parent[m] \in S /\ m \notin S /\ UpClosed(u, S)
  BY NoCycleBySets
<1> DEFINE p == t.parent[m]
<1>1. u.parent[m] = p /\ p \in Node
  OBVIOUS
<1>2. p \in Anc(t, p) /\ UpClosed(t, Anc(t, p)) /\ Anc(t, p) \in SUBSET Node
  BY <1>1, AncLeast DEF Anc
<1>3. m \notin Anc(t, p)
  BY <1>1 DEF NoCycle, Anc
<1>4. UpClosed(u, Anc(t, p))
  BY <1>2 DEF UpClosed
<1> QED
  BY <1>1, <1>2, <1>3, <1>4

(* A node put under p, which the test of S_can_contain found not to be     *)
(* below it, closes no cycle.                                              *)
LEMMA NewParent ==
  ASSUME NEW t \in Links, NEW u \in Links, NoCycle(t),
         NEW n \in Node, NEW p \in Node, ~Reaches(t, p, n),
         \A x \in Node : u.parent[x] = IF x = n THEN p ELSE t.parent[x]
  PROVE  NoCycle(u)
<1> SUFFICES ASSUME NEW m \in Node, u.parent[m] # NULL
             PROVE  \E S \in SUBSET Node :
                      u.parent[m] \in S /\ m \notin S /\ UpClosed(u, S)
  BY NoCycleBySets
<1> DEFINE A == Anc(t, p)
<1>1. p \in A /\ UpClosed(t, A) /\ A \in SUBSET Node /\ n \notin A
  BY AncLeast DEF Anc
<1>2. UpClosed(u, A)
  BY <1>1 DEF UpClosed
<1>3. CASE m = n
  BY <1>1, <1>2, <1>3
<1>4. CASE m # n
  <2> DEFINE q == t.parent[m]
             B == Anc(t, q)
  <2>1. u.parent[m] = q /\ q \in Node
    BY <1>4
  <2>2. q \in B /\ UpClosed(t, B) /\ B \in SUBSET Node /\ m \notin B
    BY <2>1, AncLeast DEF Anc, NoCycle
  <2>3. CASE n \notin B
    BY <2>1, <2>2, <2>3 DEF UpClosed
  <2>4. CASE n \in B
    <3>1. m \notin A
      <4> SUFFICES ASSUME m \in A PROVE FALSE
        OBVIOUS
      <4>1. q \in A
        BY <1>1, <2>1 DEF UpClosed
      <4>2. B \subseteq A
        BY <4>1, <1>1, <2>1, AncLeast
      <4> QED
        BY <4>2, <2>4, <1>1
    <3>2. UpClosed(u, A \cup B)
      BY <1>1, <1>2, <2>2 DEF UpClosed
    <3>3. A \cup B \in SUBSET Node
      BY <1>1, <2>2
    <3> WITNESS A \cup B \in SUBSET Node
    <3> QED
      BY <1>1, <2>1, <2>2, <3>1, <3>2
  <2> QED
    BY <2>3, <2>4
<1> QED
  BY <1>3, <1>4

(* The nodes below n: a node is among them exactly when its parent is, n   *)
(* itself apart.                                                           *)
LEMMA SubtreeClosed ==
  ASSUME NEW t \in Links, NEW n \in Node
  PROVE  /\ n \in Subtree(t, n)
         /\ \A x \in Node : t.parent[x] \in Subtree(t, n) => x \in Subtree(t, n)
         /\ \A x \in Subtree(t, n) : x # n => t.parent[x] \in Subtree(t, n)
<1>1. n \in Subtree(t, n)
  BY DEF Subtree, Reaches
<1>2. ASSUME NEW x \in Node, t.parent[x] \in Subtree(t, n)
      PROVE  x \in Subtree(t, n)
  BY <1>2, NullAssumption DEF Subtree, Reaches, UpClosed
<1>3. ASSUME NEW x \in Subtree(t, n), x # n
      PROVE  t.parent[x] \in Subtree(t, n)
  <2>1. x \in Node /\ Reaches(t, x, n)
    BY DEF Subtree
  <2>2. t.parent[x] # NULL
    <3> SUFFICES ASSUME t.parent[x] = NULL PROVE FALSE
      OBVIOUS
    <3>1. {x} \in SUBSET Node /\ x \in {x} /\ UpClosed(t, {x})
      BY <2>1 DEF UpClosed
    <3> QED
      BY <2>1, <3>1, <1>3 DEF Reaches
  <2>3. ASSUME NEW S \in SUBSET Node, t.parent[x] \in S, UpClosed(t, S)
        PROVE  n \in S
    <3> DEFINE T == S \cup {x}
    <3>1. T \in SUBSET Node /\ x \in T /\ UpClosed(t, T)
      BY <2>1, <2>3 DEF UpClosed
    <3>2. n \in T
      BY <2>1, <3>1 DEF Reaches
    <3> QED
      BY <3>2, <1>3
  <2>4. Reaches(t, t.parent[x], n)
    BY <2>3 DEF Reaches
  <2> QED
    BY <2>1, <2>2, <2>4 DEF Subtree
<1> QED
  BY <1>1, <1>2, <1>3

-----------------------------------------------------------------------------
(* Live and freed memory. *)

LEMMA CutConfined ==
  ASSUME NEW t \in Links, NEW n \in Node, NEW L \in SUBSET Node, Confined(t, L)
  PROVE  Confined(Cut(t, n), L)
<1> DEFINE u == Cut(t, n)
<1>1. CutEffect(t, u, n)
  BY CutFields
<1> HIDE DEF u
<1>2. ASSUME NEW x \in Node
      PROVE  {u.next[x], u.prev[x], u.parent[x], u.first[x], u.last[x]}
                \subseteq IF x \in L THEN L \cup {NULL} ELSE {NULL}
  BY <1>1, <1>2, NullAssumption DEF CutEffect, Confined
<1> QED
  BY <1>2 DEF Confined, u

LEMMA PlaceConfined ==
  ASSUME NEW t \in Links, NEW L \in SUBSET Node, Confined(t, L),
         NEW n \in L, NEW p \in L, NEW b \in L \cup {NULL}, NEW a \in L \cup {NULL}
  PROVE  Confined(Place(t, n, p, b, a), L)
<1> DEFINE u == Place(t, n, p, b, a)
<1>1. PlaceEffect(t, u, n, p, b, a)
  BY PlaceFields
<1> HIDE DEF u
<1>2. ASSUME NEW x \in Node
      PROVE  {u.next[x], u.prev[x], u.parent[x], u.first[x], u.last[x]}
                \subseteq IF x \in L THEN L \cup {NULL} ELSE {NULL}
  BY <1>1, <1>2, NullAssumption DEF PlaceEffect, Confined
<1> QED
  BY <1>2 DEF Confined, u

(* No pointer joins D to the rest: then D can be freed. *)
Apart(t, D) == \A x \in Node \ D :
  {t.next[x], t.prev[x], t.parent[x], t.first[x], t.last[x]} \cap D = {}

LEMMA ClearFields ==
  ASSUME NEW t \in Links, NEW D, NEW x \in Node
  PROVE  LET u == Clear(t, D) IN
    /\ u.next[x]   = IF x \in D THEN NULL ELSE t.next[x]
    /\ u.prev[x]   = IF x \in D THEN NULL ELSE t.prev[x]
    /\ u.parent[x] = IF x \in D THEN NULL ELSE t.parent[x]
    /\ u.first[x]  = IF x \in D THEN NULL ELSE t.first[x]
    /\ u.last[x]   = IF x \in D THEN NULL ELSE t.last[x]
BY DEF Clear

LEMMA ClearConsistent ==
  ASSUME NEW t \in Links, NEW D \in SUBSET Node, Consistent(t), Apart(t, D)
  PROVE  Consistent(Clear(t, D))
<1> DEFINE u == Clear(t, D)
<1>1. \A x \in Node : x \in D =>
        /\ u.next[x] = NULL /\ u.prev[x] = NULL /\ u.parent[x] = NULL
        /\ u.first[x] = NULL /\ u.last[x] = NULL
  BY ClearFields
<1>2. \A x \in Node : x \notin D =>
        /\ u.next[x] = t.next[x] /\ u.prev[x] = t.prev[x]
        /\ u.parent[x] = t.parent[x]
        /\ u.first[x] = t.first[x] /\ u.last[x] = t.last[x]
        /\ t.next[x] \in Ptr \ D /\ t.prev[x] \in Ptr \ D
        /\ t.parent[x] \in Ptr \ D
        /\ t.first[x] \in Ptr \ D /\ t.last[x] \in Ptr \ D
  BY ClearFields DEF Apart
<1> HIDE DEF u
<1>3. NextBack(u) /\ PrevBack(u)
  BY <1>1, <1>2 DEF Consistent, NextBack, PrevBack
<1>4. FirstBack(u) /\ LastBack(u)
  BY <1>1, <1>2 DEF Consistent, FirstBack, LastBack
<1>5. Ends(u)
  BY <1>1, <1>2 DEF Consistent, Ends
<1>6. FirstLast(u)
  BY <1>1, <1>2 DEF Consistent, FirstLast
<1>7. RootsAlone(u)
  BY <1>1, <1>2 DEF Consistent, RootsAlone
<1> QED
  BY <1>3, <1>4, <1>5, <1>6, <1>7 DEF Consistent, u

(* Once n is cut off, no pointer joins its subtree to the other nodes. *)
LEMMA CutApart ==
  ASSUME NEW t \in Links, NEW n \in Node, Consistent(t)
  PROVE  Apart(Cut(t, n), Subtree(t, n))
<1> DEFINE u == Cut(t, n)
           D == Subtree(t, n)
<1>1. u \in Links /\ Consistent(u)
  BY CutType, CutConsistent
<1>2. /\ n \in D /\ D \in SUBSET Node
      /\ \A x \in Node : t.parent[x] \in D => x \in D
      /\ \A x \in D : x # n => t.parent[x] \in D
  BY SubtreeClosed DEF Subtree
<1>3. /\ u.parent[n] = NULL
      /\ \A x \in Node : x # n => u.parent[x] = t.parent[x]
  BY CutFields DEF CutEffect
<1> HIDE DEF u, D
<1>4. u.next[n] = NULL /\ u.prev[n] = NULL
  BY <1>1, <1>3 DEF Consistent, RootsAlone
<1> SUFFICES ASSUME NEW x \in Node, x \notin D
             PROVE  /\ u.next[x] \notin D /\ u.prev[x] \notin D
                    /\ u.parent[x] \notin D
                    /\ u.first[x] \notin D /\ u.last[x] \notin D
  BY DEF Apart, u, D
<1>5. x # n /\ u.parent[x] \notin D
  BY <1>2, <1>3
<1>6. u.next[x] \notin D /\ u.prev[x] \notin D
  BY <1>1, <1>2, <1>3, <1>4, <1>5, NullAssumption DEF Consistent, NextBack, PrevBack
<1>7. u.first[x] \notin D /\ u.last[x] \notin D
  BY <1>1, <1>2, <1>3, <1>5, NullAssumption DEF Consistent, FirstBack, LastBack
<1> QED
  BY <1>5, <1>6, <1>7

-----------------------------------------------------------------------------
(* The inductive invariant, of any pointers t and types k. *)

LiveIn(k) == {n \in Node : k[n] # "free"}

Good(t, k) == /\ t \in Links
              /\ k \in [Node -> Kind \cup {"free"}]
              /\ Consistent(t)
              /\ NoCycle(t)
              /\ Confined(t, LiveIn(k))
              /\ WellTyped(t, k)

LEMMA CutGood ==
  ASSUME NEW t, NEW k, NEW n \in Node, Good(t, k)
  PROVE  Good(Cut(t, n), k)
<1> DEFINE u == Cut(t, n)
<1>1. t \in Links /\ u \in Links /\ Consistent(u)
  BY CutType, CutConsistent DEF Good
<1>2. \A x \in Node : u.parent[x] = NULL \/ u.parent[x] = t.parent[x]
  BY <1>1, CutFields DEF CutEffect
<1>3. NoCycle(u)
  BY <1>1, <1>2, FewerParents DEF Good
<1>4. Confined(u, LiveIn(k))
  BY <1>1, CutConfined DEF Good, LiveIn
<1>5. WellTyped(u, k)
  BY <1>2 DEF Good, WellTyped
<1> QED
  BY <1>1, <1>3, <1>4, <1>5 DEF Good

LEMMA FreeGood ==
  ASSUME NEW t, NEW k, NEW n \in Node, Good(t, k)
  PROVE  LET D == Subtree(t, n) IN
         Good(Clear(Cut(t, n), D),
              [m \in Node |-> IF m \in D THEN "free" ELSE k[m]])
<1> DEFINE D == Subtree(t, n)
           c == Cut(t, n)
           u == Clear(c, D)
           j == [m \in Node |-> IF m \in D THEN "free" ELSE k[m]]
<1>1. t \in Links /\ Consistent(t) /\ D \in SUBSET Node
  BY DEF Good, Subtree
<1>2. Good(c, k)
  BY CutGood
<1>3. c \in Links /\ Consistent(c) /\ Apart(c, D)
  BY <1>1, <1>2, CutApart DEF Good
<1>4. u \in Links /\ Consistent(u)
  BY <1>1, <1>3, ClearType, ClearConsistent
<1>5. \A x \in Node :
        /\ u.next[x]   = IF x \in D THEN NULL ELSE c.next[x]
        /\ u.prev[x]   = IF x \in D THEN NULL ELSE c.prev[x]
        /\ u.parent[x] = IF x \in D THEN NULL ELSE c.parent[x]
        /\ u.first[x]  = IF x \in D THEN NULL ELSE c.first[x]
        /\ u.last[x]   = IF x \in D THEN NULL ELSE c.last[x]
  BY <1>3, ClearFields
<1>6. j \in [Node -> Kind \cup {"free"}]
  BY <1>2 DEF Good
<1>7. LiveIn(j) = LiveIn(k) \ D
  BY <1>1 DEF LiveIn
<1> HIDE DEF u, c, D
<1>8. NoCycle(u)
  BY <1>2, <1>3, <1>4, <1>5, FewerParents DEF Good
<1>9. Confined(u, LiveIn(j))
  <2> SUFFICES ASSUME NEW x \in Node
               PROVE  {u.next[x], u.prev[x], u.parent[x], u.first[x], u.last[x]}
                        \subseteq IF x \in LiveIn(j) THEN LiveIn(j) \cup {NULL}
                                                     ELSE {NULL}
    BY DEF Confined
  <2>1. {c.next[x], c.prev[x], c.parent[x], c.first[x], c.last[x]}
           \subseteq IF x \in LiveIn(k) THEN LiveIn(k) \cup {NULL} ELSE {NULL}
    BY <1>2 DEF Good, Confined
  <2>2. x \notin D =>
          {c.next[x], c.prev[x], c.parent[x], c.first[x], c.last[x]} \cap D = {}
    BY <1>3 DEF Apart
  <2> HIDE DEF j
  <2> QED
    BY <1>5, <1>7, <2>1, <2>2
<1>10. WellTyped(u, j)
  <2> SUFFICES ASSUME NEW x \in Node, u.parent[x] # NULL
               PROVE  Holds(j[u.parent[x]], j[x])
    BY DEF WellTyped
  <2>1. x \notin D /\ u.parent[x] = c.parent[x] /\ c.parent[x] \in Node \ D
    BY <1>3, <1>5, NullAssumption DEF Apart
  <2>2. Holds(k[c.parent[x]], k[x])
    BY <1>2, <2>1, NullAssumption DEF Good, WellTyped
  <2> QED
    BY <2>1, <2>2
<1> QED
  BY <1>4, <1>6, <1>8, <1>9, <1>10 DEF Good, u, c, D

(* A consistent outcome with n under p, where the type rules and the       *)
(* ancestor test of S_can_contain allow it, is good.                       *)
LEMMA InsertGood ==
  ASSUME NEW t, NEW k, NEW u \in Links, Good(t, k),
         NEW n \in LiveIn(k), NEW p \in LiveIn(k),
         ~Reaches(t, p, n), Holds(k[p], k[n]),
         Consistent(u), Confined(u, LiveIn(k)),
         \A x \in Node : u.parent[x] = IF x = n THEN p ELSE t.parent[x]
  PROVE  Good(u, k)
<1>1. t \in Links /\ n \in Node /\ p \in Node /\ NoCycle(t) /\ WellTyped(t, k)
  BY DEF Good, LiveIn
<1>2. NoCycle(u)
  BY <1>1, NewParent
<1>3. WellTyped(u, k)
  BY <1>1 DEF WellTyped
<1> QED
  BY <1>2, <1>3 DEF Good

(* Where a placed node ends up, and what its pointers lead to. *)
LEMMA PlacedUnder ==
  ASSUME NEW t, NEW k, Good(t, k),
         NEW n \in LiveIn(k), NEW p \in LiveIn(k),
         NEW b \in LiveIn(k) \cup {NULL}, NEW a \in LiveIn(k) \cup {NULL},
         n # b, n # a
  PROVE  LET u == Place(Detach(t, n), n, p, b, a) IN
         /\ u \in Links
         /\ Confined(u, LiveIn(k))
         /\ \A x \in Node : u.parent[x] = IF x = n THEN p ELSE t.parent[x]
<1> DEFINE c == Cut(t, n)
           v == Place(c, n, p, b, a)
<1>1. /\ n \in Node /\ p \in Node /\ b \in Ptr /\ a \in Ptr
      /\ t \in Links /\ c \in Links /\ LiveIn(k) \in SUBSET Node
  BY CutType DEF LiveIn, Good
<1>2. Place(Detach(t, n), n, p, b, a) = v
  BY <1>1, PlaceAfterDetach
<1>3. v \in Links
  BY <1>1, PlaceType
<1>4. Confined(c, LiveIn(k))
  BY <1>1, CutConfined DEF Good
<1>5. Confined(v, LiveIn(k))
  BY <1>1, <1>4, PlaceConfined
<1>6. \A x \in Node : c.parent[x] = IF x = n THEN NULL ELSE t.parent[x]
  BY <1>1, CutFields DEF CutEffect
<1>7. \A x \in Node : v.parent[x] = IF x = n THEN p ELSE c.parent[x]
  <2>1. PlaceEffect(c, v, n, p, b, a)
    BY <1>1, PlaceFields
  <2> HIDE DEF v, c
  <2> QED
    BY <2>1 DEF PlaceEffect
<1> HIDE DEF v, c
<1> QED
  BY <1>2, <1>3, <1>5, <1>6, <1>7

(* The neighbours a detached node is placed between are live. *)
LEMMA NeighboursLive ==
  ASSUME NEW t, NEW k, Good(t, k), NEW n \in LiveIn(k), NEW x \in LiveIn(k), n # x
  PROVE  LET d == Detach(t, n)
             L == (LiveIn(k) \cup {NULL}) \ {n}
         IN  /\ d.next[x] \in L /\ d.prev[x] \in L
             /\ d.first[x] \in L /\ d.last[x] \in L
             /\ d.parent[x] = t.parent[x] /\ t.parent[x] \in LiveIn(k) \cup {NULL}
<1> DEFINE c == Cut(t, n)
<1>1. /\ n \in Node /\ x \in Node /\ t \in Links /\ Consistent(t)
      /\ LiveIn(k) \in SUBSET Node
  BY DEF LiveIn, Good
<1>2. Confined(c, LiveIn(k)) /\ Confined(t, LiveIn(k))
  BY <1>1, CutConfined DEF Good
<1>3. /\ Detach(t, n).parent[x] = t.parent[x]
      /\ Detach(t, n).next[x] = c.next[x] /\ Detach(t, n).prev[x] = c.prev[x]
      /\ Detach(t, n).first[x] = c.first[x] /\ Detach(t, n).last[x] = c.last[x]
      /\ c.next[x] # n /\ c.prev[x] # n /\ c.first[x] # n /\ c.last[x] # n
  BY <1>1, CutOthers
<1> HIDE DEF c
<1> QED
  BY <1>1, <1>2, <1>3 DEF Confined

LEMMA BeforeGood ==
  ASSUME NEW t, NEW k, Good(t, k),
         NEW node \in LiveIn(k), NEW sibling \in LiveIn(k), node # sibling,
         t.parent[node] # NULL, ~Reaches(t, t.parent[node], sibling),
         Holds(k[t.parent[node]], k[sibling])
  PROVE  Good(PlaceBefore(t, node, sibling), k)
<1> DEFINE p == t.parent[node]
           b == Detach(t, sibling).prev[node]
           u == Place(Detach(t, sibling), sibling, p, b, node)
<1>1. /\ p \in LiveIn(k) /\ b \in LiveIn(k) \cup {NULL} /\ b # sibling
      /\ node \in LiveIn(k) \cup {NULL} /\ sibling # node
  BY NeighboursLive
<1>2. PlaceBefore(t, node, sibling) = u
  BY NeighboursLive DEF PlaceBefore
<1>3. Consistent(u)
  BY <1>2, PlaceBeforeConsistent DEF Good, LiveIn
<1>4. /\ u \in Links /\ Confined(u, LiveIn(k))
      /\ \A x \in Node : u.parent[x] = IF x = sibling THEN p ELSE t.parent[x]
  <2> HIDE DEF p, b, Links
  <2> QED
    BY <1>1, PlacedUnder
<1> HIDE DEF u
<1> QED
  BY <1>1, <1>2, <1>3, <1>4, InsertGood

LEMMA AfterGood ==
  ASSUME NEW t, NEW k, Good(t, k),
         NEW node \in LiveIn(k), NEW sibling \in LiveIn(k), node # sibling,
         t.parent[node] # NULL, ~Reaches(t, t.parent[node], sibling),
         Holds(k[t.parent[node]], k[sibling])
  PROVE  Good(PlaceAfter(t, node, sibling), k)
<1> DEFINE p == t.parent[node]
           a == Detach(t, sibling).next[node]
           u == Place(Detach(t, sibling), sibling, p, node, a)
<1>1. /\ p \in LiveIn(k) /\ a \in LiveIn(k) \cup {NULL} /\ a # sibling
      /\ node \in LiveIn(k) \cup {NULL} /\ sibling # node
  BY NeighboursLive
<1>2. PlaceAfter(t, node, sibling) = u
  BY NeighboursLive DEF PlaceAfter
<1>3. Consistent(u)
  BY <1>2, PlaceAfterConsistent DEF Good, LiveIn
<1>4. /\ u \in Links /\ Confined(u, LiveIn(k))
      /\ \A x \in Node : u.parent[x] = IF x = sibling THEN p ELSE t.parent[x]
  <2> HIDE DEF p, a, Links
  <2> QED
    BY <1>1, PlacedUnder
<1> HIDE DEF u
<1> QED
  BY <1>1, <1>2, <1>3, <1>4, InsertGood

LEMMA FirstGood ==
  ASSUME NEW t, NEW k, Good(t, k),
         NEW node \in LiveIn(k), NEW child \in LiveIn(k),
         ~Reaches(t, node, child), Holds(k[node], k[child])
  PROVE  Good(PlaceFirst(t, node, child), k)
<1> DEFINE a == Detach(t, child).first[node]
           u == Place(Detach(t, child), child, node, NULL, a)
<1>1. node # child
  BY DEF Reaches
<1>2. /\ a \in LiveIn(k) \cup {NULL} /\ child # a
      /\ NULL \in LiveIn(k) \cup {NULL} /\ child # NULL
  BY <1>1, NeighboursLive, NullAssumption DEF LiveIn
<1>3. PlaceFirst(t, node, child) = u
  BY DEF PlaceFirst
<1>4. Consistent(u)
  BY <1>1, <1>3, PlaceEndsConsistent DEF Good, LiveIn
<1>5. /\ u \in Links /\ Confined(u, LiveIn(k))
      /\ \A x \in Node : u.parent[x] = IF x = child THEN node ELSE t.parent[x]
  <2> DEFINE nil == NULL
  <2>1. nil \in LiveIn(k) \cup {NULL} /\ child # nil
    BY <1>2
  <2> HIDE DEF a, nil, Links
  <2>2. LET w == Place(Detach(t, child), child, node, nil, a) IN
        /\ w \in Links
        /\ Confined(w, LiveIn(k))
        /\ \A x \in Node : w.parent[x] = IF x = child THEN node ELSE t.parent[x]
    BY <1>2, <2>1, PlacedUnder
  <2> QED
    BY <2>2 DEF nil
<1> HIDE DEF u
<1> QED
  BY <1>3, <1>4, <1>5, InsertGood

LEMMA LastGood ==
  ASSUME NEW t, NEW k, Good(t, k),
         NEW node \in LiveIn(k), NEW child \in LiveIn(k),
         ~Reaches(t, node, child), Holds(k[node], k[child])
  PROVE  Good(PlaceLast(t, node, child), k)
<1> DEFINE b == Detach(t, child).last[node]
           u == Place(Detach(t, child), child, node, b, NULL)
<1>1. node # child
  BY DEF Reaches
<1>2. /\ b \in LiveIn(k) \cup {NULL} /\ child # b
      /\ NULL \in LiveIn(k) \cup {NULL} /\ child # NULL
  BY <1>1, NeighboursLive, NullAssumption DEF LiveIn
<1>3. PlaceLast(t, node, child) = u
  BY DEF PlaceLast
<1>4. Consistent(u)
  BY <1>1, <1>3, PlaceEndsConsistent DEF Good, LiveIn
<1>5. /\ u \in Links /\ Confined(u, LiveIn(k))
      /\ \A x \in Node : u.parent[x] = IF x = child THEN node ELSE t.parent[x]
  <2> HIDE DEF b, Links
  <2> QED
    BY <1>2, PlacedUnder
<1> HIDE DEF u
<1> QED
  BY <1>3, <1>4, <1>5, InsertGood

-----------------------------------------------------------------------------
(* The invariant of the specification. *)

IInv == Good(links, kind)

LEMMA InitIInv == Init => IInv
<1> SUFFICES ASSUME Init PROVE IInv
  OBVIOUS
<1>1. links \in Links /\ kind \in [Node -> Kind \cup {"free"}]
  BY DEF Init
<1>2. \A n \in Node : /\ links.next[n] = NULL /\ links.prev[n] = NULL
                      /\ links.parent[n] = NULL
                      /\ links.first[n] = NULL /\ links.last[n] = NULL
  BY DEF Init
<1>3. Consistent(links)
  BY <1>2 DEF Consistent, NextBack, PrevBack, FirstBack, LastBack, Ends,
              FirstLast, RootsAlone
<1>4. NoCycle(links) /\ Confined(links, LiveIn(kind)) /\ WellTyped(links, kind)
  BY <1>2 DEF NoCycle, Confined, WellTyped
<1> QED
  BY <1>1, <1>3, <1>4 DEF IInv, Good

(* cmark_node_new: nothing pointed to the memory it takes. *)
LEMMA NewGood ==
  ASSUME NEW t, NEW k, Good(t, k), NEW n \in Node, k[n] = "free", NEW y \in Kind
  PROVE  /\ Good(t, [k EXCEPT ![n] = y])
         /\ LiveIn([k EXCEPT ![n] = y]) = LiveIn(k) \cup {n}
         /\ t.next[n] = NULL /\ t.prev[n] = NULL /\ t.parent[n] = NULL
         /\ t.first[n] = NULL /\ t.last[n] = NULL
<1> DEFINE j == [k EXCEPT ![n] = y]
<1>1. y # "free"
  BY KindAssumption DEF AllKind, BlockKind, InlineKind
<1>2. /\ k \in [Node -> Kind \cup {"free"}] /\ t \in Links
      /\ Confined(t, LiveIn(k))
  BY DEF Good
<1>3. /\ j \in [Node -> Kind \cup {"free"}]
      /\ \A x \in Node : j[x] = IF x = n THEN y ELSE k[x]
  BY <1>2
<1> HIDE DEF j
<1>4. LiveIn(j) = LiveIn(k) \cup {n}
  BY <1>1, <1>3 DEF LiveIn
<1>5. /\ t.next[n] = NULL /\ t.prev[n] = NULL /\ t.parent[n] = NULL
      /\ t.first[n] = NULL /\ t.last[n] = NULL
  BY <1>2 DEF Confined, LiveIn
<1>6. Confined(t, LiveIn(j))
  BY <1>2, <1>4, <1>5 DEF Confined
<1>7. WellTyped(t, j)
  <2> SUFFICES ASSUME NEW x \in Node, t.parent[x] # NULL
               PROVE  Holds(j[t.parent[x]], j[x])
    BY DEF WellTyped
  <2>1. x # n /\ x \in LiveIn(k)
    BY <1>2, <1>5 DEF Confined
  <2>2. t.parent[x] \in LiveIn(k)
    BY <1>2, <2>1 DEF Confined
  <2>3. t.parent[x] # n /\ t.parent[x] \in Node
    BY <2>2 DEF LiveIn
  <2>4. Holds(k[t.parent[x]], k[x])
    BY DEF Good, WellTyped
  <2> QED
    BY <1>3, <2>1, <2>3, <2>4
<1> QED
  BY <1>3, <1>4, <1>5, <1>6, <1>7 DEF Good, j

LEMMA NewIInv ==
  ASSUME IInv, NEW n \in Node, NEW k \in Kind, New(n, k)
  PROVE  IInv'
BY NewGood DEF New, IInv

LEMMA NextIInv == IInv /\ [Next]_vars => IInv'
<1> SUFFICES ASSUME IInv, [Next]_vars PROVE IInv'
  OBVIOUS
<1>1. CASE UNCHANGED vars
  BY <1>1 DEF IInv, vars
<1>2. ASSUME NEW n \in Node, NEW k \in Kind, New(n, k) PROVE IInv'
  BY <1>2, NewIInv
<1>3. ASSUME NEW n \in Live, Unlink(n) PROVE IInv'
  BY <1>3, CutGood DEF Unlink, IInv, Live
<1>4. ASSUME NEW n \in Live, Free(n) PROVE IInv'
  <2>1. /\ links' = Clear(Cut(links, n), Subtree(links, n))
        /\ kind' = [m \in Node |-> IF m \in Subtree(links, n) THEN "free" ELSE kind[m]]
    BY <1>4 DEF Free
  <2> QED
    BY <2>1, FreeGood DEF IInv, Live
<1>5. ASSUME NEW node \in Live, NEW other \in Live
      PROVE  /\ node # other /\ InsertBefore(node, other) => IInv'
             /\ node # other /\ InsertAfter(node, other) => IInv'
             /\ node # other /\ Replace(node, other) => IInv'
             /\ PrependChild(node, other) => IInv'
             /\ AppendChild(node, other) => IInv'
  <2>1. node \in LiveIn(kind) /\ other \in LiveIn(kind) /\ node \in Node
    BY DEF Live, LiveIn
  <2>2. ASSUME node # other, InsertBefore(node, other) PROVE IInv'
    BY <2>1, <2>2, BeforeGood DEF InsertBefore, CanContain, IInv
  <2>3. ASSUME node # other, InsertAfter(node, other) PROVE IInv'
    BY <2>1, <2>3, AfterGood DEF InsertAfter, CanContain, IInv
  <2>4. ASSUME node # other, Replace(node, other) PROVE IInv'
    <3>1. Good(PlaceBefore(links, node, other), kind)
      BY <2>1, <2>4, BeforeGood DEF Replace, CanContain, IInv
    <3> QED
      BY <2>1, <2>4, <3>1, CutGood DEF Replace, IInv
  <2>5. ASSUME PrependChild(node, other) PROVE IInv'
    BY <2>1, <2>5, FirstGood DEF PrependChild, CanContain, IInv
  <2>6. ASSUME AppendChild(node, other) PROVE IInv'
    BY <2>1, <2>6, LastGood DEF AppendChild, CanContain, IInv
  <2> QED
    BY <2>2, <2>3, <2>4, <2>5, <2>6
<1> QED
  BY <1>1, <1>2, <1>3, <1>4, <1>5 DEF Next

(* The inductive invariant holds in every reachable state. *)
THEOREM Invariance == Spec => []IInv
<1> QED
  BY InitIInv, NextIInv, PTL DEF Spec

(* Every pointer is null or a node, whatever is called. *)
THEOREM TypeCorrect == Spec => []TypeOK
<1>1. IInv => TypeOK
  BY DEF IInv, Good, TypeOK
<1> QED
  BY Invariance, <1>1, PTL

(* cmark_node_check finds no error, for any number of nodes and any        *)
(* sequence of calls with two different nodes.                             *)
THEOREM AlwaysLinked == Spec => []Linked
<1>1. IInv => Linked
  BY DEF IInv, Good, Linked
<1> QED
  BY Invariance, <1>1, PTL

(* No node becomes its own ancestor: the ancestor test of S_can_contain is *)
(* enough, also when a subtree moves into another one.                     *)
THEOREM AlwaysAcyclic == Spec => []Acyclic
<1>1. IInv => Acyclic
  BY DEF IInv, Good, Acyclic
<1> QED
  BY Invariance, <1>1, PTL

(* No live node ever points to freed memory. *)
THEOREM NeverDangling == Spec => []NoDangling
<1>1. IInv => NoDangling
  BY DEF IInv, Good, NoDangling, Live, LiveIn
<1> QED
  BY Invariance, <1>1, PTL

(* The nesting rules of S_can_contain hold in the whole forest. *)
THEOREM AlwaysGrammar == Spec => []Grammar
<1>1. IInv => Grammar
  BY DEF IInv, Good, Grammar
<1> QED
  BY Invariance, <1>1, PTL

-----------------------------------------------------------------------------
(* Sequences without repetition: one member is taken out or put in. *)

LEMMA Least ==
  ASSUME NEW T, T \subseteq Nat, T # {}
  PROVE  \E m \in T : \A k \in T : m <= k
<1> DEFINE I == {0 .. n : n \in T}
<1>1. IsWellFoundedOn(StrictSubsetOrdering(Nat), FiniteSubsetsOf(Nat))
  BY FS_StrictSubsetOrderingWellFounded
<1>2. ASSUME NEW n \in T
      PROVE  0 .. n \in FiniteSubsetsOf(Nat)
  BY FS_Interval, SMT DEF FiniteSubsetsOf
<1>3. I \subseteq FiniteSubsetsOf(Nat) /\ I # {}
  BY <1>2
<1>4. PICK x \in I : \A y \in I : <<y, x>> \notin StrictSubsetOrdering(Nat)
  BY <1>1, <1>3, WFMin
<1>5. PICK m \in T : x = 0 .. m
  OBVIOUS
<1>6. ASSUME NEW k \in T, ~(m <= k)
      PROVE  FALSE
  <2>1. k \in Nat /\ m \in Nat /\ k < m
    BY <1>6
  <2>2. 0 .. k \subseteq 0 .. m /\ 0 .. k # 0 .. m /\ 0 .. m \subseteq Nat
    <3>1. m \in 0 .. m /\ m \notin 0 .. k
      BY <2>1
    <3> QED BY <2>1, <3>1
  <2>3. <<0 .. k, 0 .. m>> \in StrictSubsetOrdering(Nat)
    BY <2>1, <2>2 DEF StrictSubsetOrdering
  <2> QED BY <1>4, <1>5, <2>3
<1> QED BY <1>5, <1>6

Distinct(s) == \A i, j \in 1 .. Len(s) : s[i] = s[j] => i = j

LEMMA PartIs ==
  ASSUME NEW S, NEW s \in Seq(S), NEW a \in 1 .. Len(s) + 1, NEW b \in 0 .. Len(s), a <= b + 1
  PROVE  /\ SubSeq(s, a, b) \in Seq(S) /\ Len(SubSeq(s, a, b)) = b - a + 1
         /\ \A i \in 1 .. b - a + 1 : SubSeq(s, a, b)[i] = s[a + i - 1]
<1>1. Len(s) \in Nat /\ a \in Int /\ b \in Int
  OBVIOUS
<1>2. \A i \in a .. b : s[i] \in S
  <2> TAKE i \in a .. b
  <2>1. i \in 1 .. Len(s)
    BY <1>1
  <2> QED BY <2>1, ElementOfSeq
<1>3. /\ SubSeq(s, a, b) \in Seq(S)
      /\ Len(SubSeq(s, a, b)) = IF a <= b THEN b - a + 1 ELSE 0
      /\ \A i \in 1 .. b - a + 1 : SubSeq(s, a, b)[i] = s[a + i - 1]
  BY <1>1, <1>2, SubSeqProperties
<1>4. (IF a <= b THEN b - a + 1 ELSE 0) = b - a + 1
  BY <1>1
<1> QED BY <1>3, <1>4

LEMMA TakenOut ==
  ASSUME NEW S, NEW s \in Seq(S), Distinct(s), NEW i \in 1 .. Len(s), NEW e, e = s[i]
  PROVE  /\ RemoveFirst(s, e) \in Seq(S) /\ Len(RemoveFirst(s, e)) = Len(s) - 1
         /\ \A j \in 1 .. Len(s) - 1 : RemoveFirst(s, e)[j] = IF j < i THEN s[j] ELSE s[j + 1]
<1>1. Len(s) \in Nat /\ i \in Nat
  OBVIOUS
<1>2. {j \in 1 .. Len(s) : s[j] = e} = {i}
  BY DEF Distinct
<1>3. Min({i}) = i
  BY <1>1 DEF Min
<1>4. RemoveFirst(s, e) = SubSeq(s, 1, i - 1) \o SubSeq(s, i + 1, Len(s))
  BY <1>2, <1>3 DEF RemoveFirst, RemoveAt, SelectInSeq
<1> DEFINE a == SubSeq(s, 1, i - 1)
           b == SubSeq(s, i + 1, Len(s))
<1>5. /\ a \in Seq(S) /\ Len(a) = i - 1
      /\ \A j \in 1 .. i - 1 : a[j] = s[j]
  <2>1. 1 \in 1 .. Len(s) + 1 /\ i - 1 \in 0 .. Len(s) /\ 1 <= i - 1 + 1 /\ i - 1 - 1 + 1 = i - 1
    BY <1>1
  <2>2. /\ a \in Seq(S) /\ Len(a) = i - 1 - 1 + 1
        /\ \A j \in 1 .. i - 1 - 1 + 1 : a[j] = s[1 + j - 1]
    BY <2>1, PartIs
  <2> HIDE DEF a
  <2>3. \A j \in 1 .. i - 1 : 1 + j - 1 = j
    BY <1>1
  <2> QED BY <2>1, <2>2, <2>3
<1>6. /\ b \in Seq(S) /\ Len(b) = Len(s) - i
      /\ \A j \in 1 .. Len(s) - i : b[j] = s[i + j]
  <2>1. i + 1 \in 1 .. Len(s) + 1 /\ Len(s) \in 0 .. Len(s) /\ i + 1 <= Len(s) + 1
        /\ Len(s) - (i + 1) + 1 = Len(s) - i
    BY <1>1
  <2>2. /\ b \in Seq(S) /\ Len(b) = Len(s) - (i + 1) + 1
        /\ \A j \in 1 .. Len(s) - (i + 1) + 1 : b[j] = s[i + 1 + j - 1]
    BY <2>1, PartIs
  <2> HIDE DEF b
  <2>3. \A j \in 1 .. Len(s) - i : i + 1 + j - 1 = i + j
    BY <1>1
  <2> QED BY <2>1, <2>2, <2>3
<1> HIDE DEF a, b
<1>7. /\ a \o b \in Seq(S) /\ Len(a \o b) = Len(a) + Len(b)
      /\ \A j \in 1 .. Len(a) + Len(b) : (a \o b)[j] = IF j <= Len(a) THEN a[j] ELSE b[j - Len(a)]
  BY <1>5, <1>6, ConcatProperties
<1> DEFINE r == a \o b
<1>8. RemoveFirst(s, e) = r
  BY <1>4 DEF a, b
<1>9. r \in Seq(S) /\ Len(r) = Len(s) - 1
      /\ \A j \in 1 .. Len(s) - 1 : r[j] = IF j <= i - 1 THEN a[j] ELSE b[j - (i - 1)]
  BY <1>1, <1>5, <1>6, <1>7
<1> HIDE DEF r
<1>10. ASSUME NEW j \in 1 .. Len(s) - 1
       PROVE  r[j] = IF j < i THEN s[j] ELSE s[j + 1]
  <2>1. CASE j < i
    <3>1. j <= i - 1 /\ j \in 1 .. i - 1
      BY <1>1, <2>1
    <3> QED BY <1>5, <1>9, <2>1, <3>1
  <2>2. CASE ~(j < i)
    <3>1. ~(j <= i - 1) /\ j - (i - 1) \in 1 .. Len(s) - i /\ i + (j - (i - 1)) = j + 1
      BY <1>1, <2>2
    <3>2. r[j] = b[j - (i - 1)]
      BY <1>9, <3>1
    <3> QED BY <1>6, <2>2, <3>1, <3>2
  <2> QED BY <2>1, <2>2
<1> QED BY <1>8, <1>9, <1>10

LEMMA NotTakenOut ==
  ASSUME NEW s, NEW e, \A j \in 1 .. Len(s) : s[j] # e
  PROVE  RemoveFirst(s, e) = s
BY DEF RemoveFirst

LEMMA PutIn ==
  ASSUME NEW S, NEW s \in Seq(S), NEW i \in 1 .. Len(s) + 1, NEW e \in S
  PROVE  /\ InsertAt(s, i, e) \in Seq(S) /\ Len(InsertAt(s, i, e)) = Len(s) + 1
         /\ \A j \in 1 .. Len(s) + 1 :
              InsertAt(s, i, e)[j] = IF j < i THEN s[j] ELSE IF j = i THEN e ELSE s[j - 1]
<1>1. Len(s) \in Nat /\ i \in Nat
  OBVIOUS
<1> DEFINE a == SubSeq(s, 1, i - 1)
           b == SubSeq(s, i, Len(s))
           m == <<e>>
<1>2. /\ a \in Seq(S) /\ Len(a) = i - 1
      /\ \A j \in 1 .. i - 1 : a[j] = s[j]
  <2>1. 1 \in 1 .. Len(s) + 1 /\ i - 1 \in 0 .. Len(s) /\ 1 <= i - 1 + 1 /\ i - 1 - 1 + 1 = i - 1
    BY <1>1
  <2>2. /\ a \in Seq(S) /\ Len(a) = i - 1 - 1 + 1
        /\ \A j \in 1 .. i - 1 - 1 + 1 : a[j] = s[1 + j - 1]
    BY <2>1, PartIs
  <2> HIDE DEF a
  <2>3. \A j \in 1 .. i - 1 : 1 + j - 1 = j
    BY <1>1
  <2> QED BY <2>1, <2>2, <2>3
<1>3. /\ b \in Seq(S) /\ Len(b) = Len(s) - i + 1
      /\ \A j \in 1 .. Len(s) - i + 1 : b[j] = s[i + j - 1]
  <2>1. i \in 1 .. Len(s) + 1 /\ Len(s) \in 0 .. Len(s) /\ i <= Len(s) + 1
    BY <1>1
  <2> QED BY <2>1, PartIs
<1>4. m \in Seq(S) /\ Len(m) = 1 /\ m[1] = e
  OBVIOUS
<1>5. InsertAt(s, i, e) = a \o m \o b
  BY DEF InsertAt
<1> HIDE DEF a, b, m
<1>6. /\ a \o m \in Seq(S) /\ Len(a \o m) = Len(a) + Len(m)
      /\ \A j \in 1 .. Len(a) + Len(m) : (a \o m)[j] = IF j <= Len(a) THEN a[j] ELSE m[j - Len(a)]
  BY <1>2, <1>4, ConcatProperties
<1> DEFINE c == a \o m
           r == c \o b
<1>7. /\ c \in Seq(S) /\ Len(c) = i
      /\ \A j \in 1 .. i : c[j] = IF j < i THEN s[j] ELSE e
  <2> HIDE DEF c
  <2>1. c \in Seq(S) /\ Len(c) = i
    BY <1>1, <1>2, <1>4, <1>6 DEF c
  <2>2. ASSUME NEW j \in 1 .. i
        PROVE  c[j] = IF j < i THEN s[j] ELSE e
    <3>1. j \in 1 .. Len(a) + Len(m)
      BY <1>1, <1>2, <1>4
    <3>2. c[j] = IF j <= i - 1 THEN a[j] ELSE m[j - (i - 1)]
      BY <1>2, <1>6, <3>1 DEF c
    <3>3. CASE j < i
      <4>1. j <= i - 1 /\ j \in 1 .. i - 1
        BY <1>1, <3>3
      <4> QED BY <1>2, <3>2, <3>3, <4>1
    <3>4. CASE ~(j < i)
      <4>1. ~(j <= i - 1) /\ j - (i - 1) = 1
        BY <1>1, <3>4
      <4> QED BY <1>4, <3>2, <3>4, <4>1
    <3> QED BY <3>3, <3>4
  <2> QED BY <2>1, <2>2
<1> HIDE DEF c
<1>8. /\ r \in Seq(S) /\ Len(r) = Len(c) + Len(b)
      /\ \A j \in 1 .. Len(c) + Len(b) : r[j] = IF j <= Len(c) THEN c[j] ELSE b[j - Len(c)]
  BY <1>3, <1>7, ConcatProperties
<1>9. InsertAt(s, i, e) = r
  BY <1>5 DEF c
<1> HIDE DEF r
<1>10. Len(r) = Len(s) + 1
  BY <1>1, <1>3, <1>7, <1>8
<1>11. ASSUME NEW j \in 1 .. Len(s) + 1
       PROVE  r[j] = IF j < i THEN s[j] ELSE IF j = i THEN e ELSE s[j - 1]
  <2>1. r[j] = IF j <= i THEN c[j] ELSE b[j - i]
    <3>1. j \in 1 .. Len(c) + Len(b)
      BY <1>1, <1>3, <1>7
    <3> QED BY <1>7, <1>8, <3>1
  <2>2. CASE j <= i
    <3>1. j \in 1 .. i
      BY <1>1, <2>2
    <3>2. ~(j < i) => j = i
      BY <1>1, <2>2
    <3> QED BY <1>7, <2>1, <2>2, <3>1, <3>2
  <2>3. CASE ~(j <= i)
    <3>1. j - i \in 1 .. Len(s) - i + 1 /\ i + (j - i) - 1 = j - 1 /\ ~(j < i) /\ j # i
      BY <1>1, <2>3
    <3> QED BY <1>3, <2>1, <2>3, <3>1
  <2> QED BY <2>2, <2>3
<1> QED BY <1>8, <1>9, <1>10, <1>11

-----------------------------------------------------------------------------
(* The children of each node in order: f is what the pointers t stand for. *)

Kin(t, p, s) ==
  /\ s \in Seq(Node)
  /\ Distinct(s)
  /\ \A x \in Node : t.parent[x] = p => \E i \in 1 .. Len(s) : s[i] = x
  /\ t.first[p] = IF Len(s) = 0 THEN NULL ELSE s[1]
  /\ t.last[p]  = IF Len(s) = 0 THEN NULL ELSE s[Len(s)]
  /\ \A i \in 1 .. Len(s) :
       /\ t.parent[s[i]] = p
       /\ t.prev[s[i]] = IF i = 1 THEN NULL ELSE s[i - 1]
       /\ t.next[s[i]] = IF i = Len(s) THEN NULL ELSE s[i + 1]
Kids(t, f) == f \in [Node -> Seq(Node)] /\ \A p \in Node : Kin(t, p, f[p])

LEMMA KinType ==
  ASSUME NEW t, NEW p, NEW s, Kin(t, p, s)
  PROVE  /\ s \in Seq(Node) /\ Len(s) \in Nat
         /\ \A i \in 1 .. Len(s) : s[i] \in Node
<1>1. s \in Seq(Node)
  BY DEF Kin
<1> QED BY <1>1, ElementOfSeq

\* A node that is cut off leaves its sequence and no other changes.
LEMMA CutKinOther ==
  ASSUME NEW t \in Links, NEW n \in Node, Consistent(t), NEW p \in Node, NEW s,
         Kin(t, p, s), t.parent[n] # p
  PROVE  Kin(Cut(t, n), p, s) /\ RemoveFirst(s, n) = s
<1> DEFINE u == Cut(t, n)
<1>1. CutEffect(t, u, n)
  BY CutFields
<1> HIDE DEF u
<1>2. s \in Seq(Node) /\ Len(s) \in Nat /\ \A i \in 1 .. Len(s) : s[i] \in Node
  BY KinType
<1>3. \A i \in 1 .. Len(s) : s[i] # n /\ t.parent[s[i]] = p
  BY DEF Kin
<1>4. \A i \in 1 .. Len(s) : s[i] # t.prev[n] /\ s[i] # t.next[n]
  <2> TAKE i \in 1 .. Len(s)
  <2>1. t.prev[n] # NULL => t.parent[t.prev[n]] = t.parent[n]
    BY DEF Consistent, PrevBack
  <2>2. t.next[n] # NULL => t.parent[t.next[n]] = t.parent[n]
    BY DEF Consistent, NextBack
  <2> QED BY <1>2, <1>3, <2>1, <2>2, NullAssumption
<1>5. u.first[p] = t.first[p] /\ u.last[p] = t.last[p]
  BY <1>1 DEF CutEffect
<1>6. \A x \in Node : u.parent[x] = p => t.parent[x] = p
  BY <1>1, NullAssumption DEF CutEffect
<1>7. \A i \in 1 .. Len(s) : /\ u.parent[s[i]] = t.parent[s[i]]
                             /\ u.prev[s[i]] = t.prev[s[i]]
                             /\ u.next[s[i]] = t.next[s[i]]
  BY <1>1, <1>2, <1>3, <1>4 DEF CutEffect
<1>8. Kin(u, p, s)
  BY <1>5, <1>6, <1>7 DEF Kin
<1>9. RemoveFirst(s, n) = s
  BY <1>3, NotTakenOut
<1> QED BY <1>8, <1>9 DEF u

LEMMA CutKinOwn ==
  ASSUME NEW t \in Links, NEW n \in Node, NEW p \in Node, NEW s,
         Kin(t, p, s), t.parent[n] = p
  PROVE  Kin(Cut(t, n), p, RemoveFirst(s, n))
<1> DEFINE u == Cut(t, n)
           r == RemoveFirst(s, n)
<1>1. CutEffect(t, u, n)
  BY CutFields
<1>2. s \in Seq(Node) /\ Len(s) \in Nat /\ (\A i \in 1 .. Len(s) : s[i] \in Node) /\ Distinct(s)
  BY KinType DEF Kin
<1>3. PICK k \in 1 .. Len(s) : s[k] = n
  BY DEF Kin
<1>4. /\ r \in Seq(Node) /\ Len(r) = Len(s) - 1
      /\ \A j \in 1 .. Len(s) - 1 : r[j] = IF j < k THEN s[j] ELSE s[j + 1]
  BY <1>2, <1>3, TakenOut
<1> HIDE DEF u, r
<1> DEFINE m == Len(s)
<1>5. m \in Nat /\ k \in 1 .. m /\ k \in Nat /\ m >= 1
  BY <1>2
<1>6. \A i \in 1 .. m : /\ t.parent[s[i]] = p
                        /\ t.prev[s[i]] = IF i = 1 THEN NULL ELSE s[i - 1]
                        /\ t.next[s[i]] = IF i = m THEN NULL ELSE s[i + 1]
  BY DEF Kin
<1>7. /\ t.first[p] = s[1] /\ t.last[p] = s[m]
  BY <1>5 DEF Kin
<1>8. Len(r) = m - 1
  BY <1>4
<1> HIDE DEF m
<1>9. /\ t.prev[n] = IF k = 1 THEN NULL ELSE s[k - 1]
      /\ t.next[n] = IF k = m THEN NULL ELSE s[k + 1]
  BY <1>3, <1>5, <1>6
<1>10. \A i, j \in 1 .. m : s[i] = s[j] => i = j
  BY <1>2 DEF Distinct, m
<1>11. \A i \in 1 .. m : s[i] \in Node
  BY <1>2 DEF m
<1>12. \A j \in 1 .. m - 1 : r[j] = IF j < k THEN s[j] ELSE s[j + 1]
  BY <1>4 DEF m
<1>13. Distinct(r)
  <2> SUFFICES ASSUME NEW i \in 1 .. m - 1, NEW j \in 1 .. m - 1, r[i] = r[j]
               PROVE  i = j
    BY <1>8 DEF Distinct
  <2>1. i \in 1 .. m /\ j \in 1 .. m /\ i + 1 \in 1 .. m /\ j + 1 \in 1 .. m
    BY <1>5
  <2>2. CASE i < k /\ j < k
    BY <1>10, <1>12, <2>1, <2>2
  <2>3. CASE i < k /\ ~(j < k)
    <3>1. s[i] = s[j + 1]
      BY <1>12, <2>3
    <3>2. i = j + 1
      BY <1>10, <2>1, <3>1
    <3> QED BY <1>5, <2>1, <2>3, <3>2
  <2>4. CASE ~(i < k) /\ j < k
    <3>1. s[i + 1] = s[j]
      BY <1>12, <2>4
    <3>2. i + 1 = j
      BY <1>10, <2>1, <3>1
    <3> QED BY <1>5, <2>1, <2>4, <3>2
  <2>5. CASE ~(i < k) /\ ~(j < k)
    <3>1. s[i + 1] = s[j + 1]
      BY <1>12, <2>5
    <3>2. i + 1 = j + 1
      BY <1>10, <2>1, <3>1
    <3> QED BY <3>2
  <2> QED BY <2>2, <2>3, <2>4, <2>5
<1>14. ASSUME NEW x \in Node, u.parent[x] = p
       PROVE  \E i \in 1 .. m - 1 : r[i] = x
  <2>1. x # n /\ t.parent[x] = p
    BY <1>1, <1>14, NullAssumption DEF CutEffect
  <2>2. PICK i \in 1 .. m : s[i] = x
    BY <2>1 DEF Kin, m
  <2>3. CASE i < k
    <3>1. i \in 1 .. m - 1
      BY <1>5, <2>3
    <3>2. r[i] = x
      BY <1>12, <2>2, <2>3, <3>1
    <3> QED BY <3>1, <3>2
  <2>4. CASE i > k
    <3>1. i - 1 \in 1 .. m - 1 /\ ~(i - 1 < k) /\ i - 1 + 1 = i
      BY <1>5, <2>4
    <3>2. r[i - 1] = x
      BY <1>12, <2>2, <3>1
    <3> QED BY <3>1, <3>2
  <2>5. i # k
    BY <1>3, <2>1, <2>2
  <2> QED BY <1>5, <2>3, <2>4, <2>5
<1>15. u.first[p] = IF m - 1 = 0 THEN NULL ELSE r[1]
  <2>1. u.first[p] = IF s[1] = n THEN t.next[n] ELSE s[1]
    BY <1>1, <1>7 DEF CutEffect
  <2>2. s[1] = n <=> k = 1
    BY <1>3, <1>5, <1>10
  <2>3. CASE k = 1
    <3>1. m - 1 = 0 => k = m
      BY <1>5, <2>3
    <3>2. m - 1 # 0 => r[1] = s[1 + 1] /\ k # m /\ k + 1 = 1 + 1
      BY <1>5, <1>12, <2>3
    <3> QED BY <1>9, <2>1, <2>2, <2>3, <3>1, <3>2
  <2>4. CASE k # 1
    <3>1. m - 1 # 0 /\ 1 < k /\ 1 \in 1 .. m - 1
      BY <1>5, <2>4
    <3> QED BY <1>12, <2>1, <2>2, <2>4, <3>1
  <2> QED BY <2>3, <2>4
<1>16. u.last[p] = IF m - 1 = 0 THEN NULL ELSE r[m - 1]
  <2>1. u.last[p] = IF s[m] = n THEN t.prev[n] ELSE s[m]
    BY <1>1, <1>7 DEF CutEffect
  <2>2. s[m] = n <=> k = m
    BY <1>3, <1>5, <1>10
  <2>3. CASE k = m
    <3>1. m - 1 = 0 => k = 1
      BY <1>5, <2>3
    <3>2. m - 1 # 0 => m - 1 \in 1 .. m - 1 /\ m - 1 < k /\ k # 1 /\ k - 1 = m - 1
      BY <1>5, <2>3
    <3>3. m - 1 # 0 => r[m - 1] = s[k - 1]
      BY <1>12, <3>2
    <3> QED BY <1>9, <2>1, <2>2, <2>3, <3>1, <3>2, <3>3
  <2>4. CASE k # m
    <3>1. m - 1 # 0 /\ ~(m - 1 < k) /\ m - 1 \in 1 .. m - 1 /\ m - 1 + 1 = m
      BY <1>5, <2>4
    <3> QED BY <1>12, <2>1, <2>2, <2>4, <3>1
  <2> QED BY <2>3, <2>4
<1>17. ASSUME NEW i \in 1 .. m - 1
       PROVE  /\ u.parent[r[i]] = p
              /\ u.prev[r[i]] = IF i = 1 THEN NULL ELSE r[i - 1]
              /\ u.next[r[i]] = IF i = m - 1 THEN NULL ELSE r[i + 1]
  <2> DEFINE h == IF i < k THEN i ELSE i + 1
  <2>1. h \in 1 .. m /\ h # k /\ r[i] = s[h]
    BY <1>5, <1>12
  <2>2. /\ u.parent[s[h]] = t.parent[s[h]]
        /\ u.next[s[h]] = IF s[h] = t.prev[n] THEN t.next[n] ELSE t.next[s[h]]
        /\ u.prev[s[h]] = IF s[h] = t.next[n] THEN t.prev[n] ELSE t.prev[s[h]]
    <3> HIDE DEF h
    <3>1. s[h] \in Node /\ s[h] # n
      <4>1. s[h] \in Node
        BY <1>11, <2>1
      <4>2. s[h] = s[k] => h = k
        BY <1>5, <1>10, <2>1
      <4> QED BY <1>3, <2>1, <4>1, <4>2
    <3> QED BY <1>1, <3>1 DEF CutEffect
  <2>3. s[h] = t.prev[n] <=> (k # 1 /\ h = k - 1)
    <3>1. k # 1 => k - 1 \in 1 .. m
      BY <1>5
    <3>2. s[h] # NULL
      BY <1>11, <2>1, NullAssumption
    <3> HIDE DEF h
    <3> QED BY <1>9, <1>10, <2>1, <3>1, <3>2
  <2>4. s[h] = t.next[n] <=> (k # m /\ h = k + 1)
    <3>1. k # m => k + 1 \in 1 .. m
      BY <1>5
    <3>2. s[h] # NULL
      BY <1>11, <2>1, NullAssumption
    <3> HIDE DEF h
    <3> QED BY <1>9, <1>10, <2>1, <3>1, <3>2
  <2>5. /\ t.prev[s[h]] = IF h = 1 THEN NULL ELSE s[h - 1]
        /\ t.next[s[h]] = IF h = m THEN NULL ELSE s[h + 1]
        /\ t.parent[s[h]] = p
    <3> HIDE DEF h
    <3> QED BY <1>6, <2>1
  <2>6. i # 1 => r[i - 1] = IF i - 1 < k THEN s[i - 1] ELSE s[i]
    <3>1. i # 1 => i - 1 \in 1 .. m - 1 /\ i - 1 + 1 = i
      BY <1>5
    <3> QED BY <1>12, <3>1
  <2>7. i # m - 1 => r[i + 1] = IF i + 1 < k THEN s[i + 1] ELSE s[i + 2]
    <3>1. i # m - 1 => i + 1 \in 1 .. m - 1 /\ i + 1 + 1 = i + 2
      BY <1>5
    <3> QED BY <1>12, <3>1
  <2>8. u.parent[r[i]] = p
    BY <2>1, <2>2, <2>5
  <2>9. u.prev[r[i]] = IF i = 1 THEN NULL ELSE r[i - 1]
    <3>1. CASE k # m /\ h = k + 1
      <4>1. i = k /\ ~(i < k)
        BY <1>5, <3>1
      <4>2. u.prev[r[i]] = IF k = 1 THEN NULL ELSE s[k - 1]
        BY <1>9, <2>1, <2>2, <2>4, <3>1
      <4>3. i # 1 => i - 1 < k
        BY <1>5, <4>1
      <4> QED BY <2>6, <4>1, <4>2, <4>3
    <3>2. CASE ~(k # m /\ h = k + 1)
      <4>1. u.prev[r[i]] = IF h = 1 THEN NULL ELSE s[h - 1]
        BY <2>1, <2>2, <2>4, <2>5, <3>2
      <4>2. CASE i < k
        <5>1. h = i /\ i - 1 < k
          BY <1>5, <4>2
        <5> QED BY <2>6, <4>1, <5>1
      <4>3. CASE ~(i < k)
        <5>1. h = i + 1 /\ h # 1 /\ i # 1 /\ ~(i - 1 < k) /\ h - 1 = i
          BY <1>5, <3>2, <4>3
        <5> QED BY <2>6, <4>1, <5>1
      <4> QED BY <4>2, <4>3
    <3> QED BY <3>1, <3>2
  <2>10. u.next[r[i]] = IF i = m - 1 THEN NULL ELSE r[i + 1]
    <3>1. CASE k # 1 /\ h = k - 1
      <4>1. i = k - 1 /\ i < k
        BY <1>5, <3>1
      <4>2. u.next[r[i]] = IF k = m THEN NULL ELSE s[k + 1]
        BY <1>9, <2>1, <2>2, <2>3, <3>1
      <4>3. (i = m - 1 <=> k = m) /\ ~(i + 1 < k) /\ i + 2 = k + 1
        BY <1>5, <4>1
      <4> QED BY <2>7, <4>2, <4>3
    <3>2. CASE ~(k # 1 /\ h = k - 1)
      <4>1. u.next[r[i]] = IF h = m THEN NULL ELSE s[h + 1]
        BY <2>1, <2>2, <2>3, <2>5, <3>2
      <4>2. CASE i < k
        <5>1. h = i /\ i + 1 < k /\ h # m /\ i # m - 1
          BY <1>5, <3>2, <4>2
        <5> QED BY <2>7, <4>1, <5>1
      <4>3. CASE ~(i < k)
        <5>1. h = i + 1 /\ ~(i + 1 < k) /\ (i = m - 1 <=> h = m) /\ h + 1 = i + 2
          BY <1>5, <4>3
        <5> QED BY <2>7, <4>1, <5>1
      <4> QED BY <4>2, <4>3
    <3> QED BY <3>1, <3>2
  <2> QED BY <2>8, <2>9, <2>10
<1>18. Kin(u, p, r)
  BY <1>4, <1>8, <1>13, <1>14, <1>15, <1>16, <1>17 DEF Kin
<1> QED BY <1>18 DEF u, r

Cutting(f, n) == [p \in Node |-> RemoveFirst(f[p], n)]

LEMMA CutKids ==
  ASSUME NEW t \in Links, NEW n \in Node, Consistent(t), NEW f, Kids(t, f)
  PROVE  Kids(Cut(t, n), Cutting(f, n))
<1>1. ASSUME NEW p \in Node
      PROVE  Kin(Cut(t, n), p, RemoveFirst(f[p], n))
  <2>1. Kin(t, p, f[p])
    BY DEF Kids
  <2>2. CASE t.parent[n] = p
    BY <2>1, <2>2, CutKinOwn
  <2>3. CASE t.parent[n] # p
    BY <2>1, <2>3, CutKinOther
  <2> QED BY <2>2, <2>3
<1>2. \A p \in Node : RemoveFirst(f[p], n) \in Seq(Node)
  BY <1>1 DEF Kin
<1> QED BY <1>1, <1>2 DEF Kids, Cutting

\* A node without a parent is placed between b and a, two neighbours under p.
LeftOf(s, i) == IF i = 1 THEN NULL ELSE s[i - 1]
RightOf(s, i) == IF i = Len(s) + 1 THEN NULL ELSE s[i]

LEMMA PlaceKinOwn ==
  ASSUME NEW t \in Links, NEW n \in Node, t.parent[n] = NULL, NEW p \in Node, NEW s,
         Kin(t, p, s), NEW i \in 1 .. Len(s) + 1
  PROVE  Kin(Place(t, n, p, LeftOf(s, i), RightOf(s, i)), p, InsertAt(s, i, n))
<1> DEFINE b == LeftOf(s, i)
           a == RightOf(s, i)
           u == Place(t, n, p, b, a)
           r == InsertAt(s, i, n)
           m == Len(s)
<1>1. s \in Seq(Node) /\ m \in Nat /\ (\A j \in 1 .. m : s[j] \in Node) /\ Distinct(s)
  BY KinType DEF Kin
<1>2. /\ b = IF i = 1 THEN NULL ELSE s[i - 1]
      /\ a = IF i = m + 1 THEN NULL ELSE s[i]
  BY DEF LeftOf, RightOf
<1>3. b \in Ptr /\ a \in Ptr
  <2>1. i # 1 => i - 1 \in 1 .. m
    BY <1>1
  <2>2. i # m + 1 => i \in 1 .. m
    BY <1>1
  <2> HIDE DEF a, b, m
  <2> QED BY <1>1, <1>2, <2>1, <2>2
<1>4. PlaceEffect(t, u, n, p, b, a)
  BY <1>3, PlaceFields
<1>5. /\ r \in Seq(Node) /\ Len(r) = m + 1
      /\ \A j \in 1 .. m + 1 : r[j] = IF j < i THEN s[j] ELSE IF j = i THEN n ELSE s[j - 1]
  <2> HIDE DEF u, a, b, r, m
  <2>1. n \in Node /\ i \in 1 .. Len(s) + 1 /\ s \in Seq(Node)
    BY <1>1
  <2>2. /\ InsertAt(s, i, n) \in Seq(Node) /\ Len(InsertAt(s, i, n)) = Len(s) + 1
        /\ \A j \in 1 .. Len(s) + 1 :
             InsertAt(s, i, n)[j] = IF j < i THEN s[j] ELSE IF j = i THEN n ELSE s[j - 1]
    BY <2>1, PutIn
  <2> QED BY <2>2 DEF r, m
<1> HIDE DEF u, r, a, b
<1>6. \A j \in 1 .. m : /\ t.parent[s[j]] = p
                        /\ t.prev[s[j]] = IF j = 1 THEN NULL ELSE s[j - 1]
                        /\ t.next[s[j]] = IF j = m THEN NULL ELSE s[j + 1]
  BY DEF Kin
<1>7. /\ t.first[p] = IF m = 0 THEN NULL ELSE s[1]
      /\ t.last[p]  = IF m = 0 THEN NULL ELSE s[m]
  BY DEF Kin
<1>8. \A j, k \in 1 .. m : s[j] = s[k] => j = k
  BY <1>1 DEF Distinct
<1>9. \A x \in Node : t.parent[x] = p => \E j \in 1 .. m : s[j] = x
  BY DEF Kin
<1>10. i \in 1 .. m + 1 /\ i \in Nat
  BY <1>1
<1> HIDE DEF m
<1>11. \A j \in 1 .. m : s[j] \in Node /\ s[j] # n /\ s[j] # NULL
  BY <1>1, <1>6, NullAssumption
<1>12. \A x \in Node :
         /\ u.next[x]   = IF x = b THEN n ELSE IF x = n THEN a ELSE t.next[x]
         /\ u.prev[x]   = IF x = a THEN n ELSE IF x = n THEN b ELSE t.prev[x]
         /\ u.parent[x] = IF x = n THEN p ELSE t.parent[x]
         /\ u.first[x]  = IF b = NULL /\ x = p THEN n ELSE t.first[x]
         /\ u.last[x]   = IF a = NULL /\ x = p THEN n ELSE t.last[x]
  BY <1>4 DEF PlaceEffect
<1>13. (b = NULL <=> i = 1) /\ (a = NULL <=> i = m + 1)
  <2>1. (i # 1 => i - 1 \in 1 .. m) /\ (i # m + 1 => i \in 1 .. m)
    BY <1>1, <1>10
  <2> QED BY <1>2, <1>11, <2>1
<1>14. Distinct(r)
  <2> SUFFICES ASSUME NEW j \in 1 .. m + 1, NEW k \in 1 .. m + 1, r[j] = r[k]
               PROVE  j = k
    BY <1>5 DEF Distinct
  <2> DEFINE g(l) == IF l < i THEN l ELSE l - 1
  <2>1. ASSUME NEW l \in 1 .. m + 1, l # i
        PROVE  g(l) \in 1 .. m /\ r[l] = s[g(l)] /\ r[l] # n
    <3>1. g(l) \in 1 .. m
      BY <1>1, <1>10, <2>1
    <3>2. r[l] = s[g(l)]
      BY <1>5, <1>10, <2>1
    <3> HIDE DEF g
    <3> QED BY <1>11, <3>1, <3>2
  <2>2. r[i] = n
    BY <1>5, <1>10
  <2>3. CASE j = i \/ k = i
    BY <2>1, <2>2, <2>3
  <2>4. CASE j # i /\ k # i
    <3>1. g(j) = g(k)
      <4> HIDE DEF g
      <4> QED BY <1>8, <2>1, <2>4
    <3> QED BY <1>1, <1>10, <2>4, <3>1
  <2> QED BY <2>3, <2>4
<1>15. ASSUME NEW x \in Node, u.parent[x] = p
       PROVE  \E j \in 1 .. m + 1 : r[j] = x
  <2>1. CASE x = n
    BY <1>5, <1>10, <2>1
  <2>2. CASE x # n
    <3>1. t.parent[x] = p
      BY <1>12, <1>15, <2>2
    <3>2. PICK j \in 1 .. m : s[j] = x
      BY <1>9, <3>1
    <3>3. CASE j < i
      <4>1. j \in 1 .. m + 1
        BY <1>1
      <4> QED BY <1>5, <3>2, <3>3, <4>1
    <3>4. CASE ~(j < i)
      <4>1. j + 1 \in 1 .. m + 1 /\ ~(j + 1 < i) /\ j + 1 # i /\ j + 1 - 1 = j
        BY <1>1, <1>10, <3>4
      <4>2. r[j + 1] = x
        BY <1>5, <3>2, <4>1
      <4> QED BY <4>1, <4>2
    <3> QED BY <3>3, <3>4
  <2> QED BY <2>1, <2>2
<1>16. u.first[p] = r[1]
  <2>1. CASE i = 1
    <3>1. r[1] = n
      BY <1>1, <1>5, <2>1
    <3> QED BY <1>12, <1>13, <2>1, <3>1
  <2>2. CASE i # 1
    <3>1. m # 0 /\ 1 < i /\ 1 \in 1 .. m + 1
      BY <1>1, <1>10, <2>2
    <3>2. r[1] = s[1]
      BY <1>5, <3>1
    <3> QED BY <1>7, <1>12, <1>13, <2>2, <3>1, <3>2
  <2> QED BY <2>1, <2>2
<1>17. u.last[p] = r[m + 1]
  <2>1. CASE i = m + 1
    <3>1. r[m + 1] = n
      BY <1>1, <1>5, <2>1
    <3> QED BY <1>12, <1>13, <2>1, <3>1
  <2>2. CASE i # m + 1
    <3>1. m # 0 /\ ~(m + 1 < i) /\ m + 1 # i /\ m + 1 \in 1 .. m + 1 /\ m + 1 - 1 = m
      BY <1>1, <1>10, <2>2
    <3>2. r[m + 1] = s[m]
      <4>1. \A j \in 1 .. m + 1 : ~(j < i) /\ j # i => r[j] = s[j - 1]
        BY <1>5
      <4> QED BY <1>1, <3>1, <4>1
    <3> QED BY <1>7, <1>12, <1>13, <2>2, <3>1, <3>2
  <2> QED BY <2>1, <2>2
<1>18. ASSUME NEW j \in 1 .. m + 1
       PROVE  /\ u.parent[r[j]] = p
              /\ u.prev[r[j]] = IF j = 1 THEN NULL ELSE r[j - 1]
              /\ u.next[r[j]] = IF j = m + 1 THEN NULL ELSE r[j + 1]
  <2>1. CASE j = i
    <3>1. r[j] = n
      BY <1>5, <2>1
    <3>2. u.parent[n] = p
      BY <1>12
    <3>3. a # n /\ b # n
      <4>1. (i # 1 => i - 1 \in 1 .. m) /\ (i # m + 1 => i \in 1 .. m)
        BY <1>1, <1>10
      <4> QED BY <1>2, <1>11, <4>1, NullAssumption
    <3>4. u.prev[n] = b /\ u.next[n] = a
      BY <1>12, <3>3
    <3>5. b = IF j = 1 THEN NULL ELSE r[j - 1]
      <4>1. j # 1 => j - 1 \in 1 .. m + 1 /\ j - 1 < i
        BY <1>1, <2>1
      <4>2. j # 1 => r[j - 1] = s[i - 1]
        BY <1>5, <2>1, <4>1
      <4> QED BY <1>2, <2>1, <4>2
    <3>6. a = IF j = m + 1 THEN NULL ELSE r[j + 1]
      <4>1. j # m + 1 => j + 1 \in 1 .. m + 1 /\ ~(j + 1 < i) /\ j + 1 # i /\ j + 1 - 1 = i
        BY <1>1, <2>1
      <4>2. j # m + 1 => r[j + 1] = s[i]
        BY <1>5, <4>1
      <4> QED BY <1>2, <2>1, <4>2
    <3> QED BY <3>1, <3>2, <3>4, <3>5, <3>6
  <2>2. CASE j # i
    <3>1. PICK h \in 1 .. m : /\ h = IF j < i THEN j ELSE j - 1
                              /\ r[j] = s[h]
      <4>1. j < i => j \in 1 .. m
        BY <1>1, <1>10
      <4>2. ~(j < i) => j - 1 \in 1 .. m
        BY <1>1, <1>10, <2>2
      <4> QED BY <1>5, <2>2, <4>1, <4>2
    <3>2. s[h] \in Node /\ s[h] # n /\ s[h] # NULL
      BY <1>11
    <3>3. s[h] = b <=> h = i - 1
      <4>1. i # 1 => i - 1 \in 1 .. m
        BY <1>1, <1>10
      <4>2. i = 1 => h # i - 1
        BY <1>1
      <4> QED BY <1>2, <1>8, <3>2, <4>1, <4>2
    <3>4. s[h] = a <=> h = i
      <4>1. i # m + 1 => i \in 1 .. m
        BY <1>1, <1>10
      <4>2. i = m + 1 => h # i
        BY <1>1
      <4> QED BY <1>2, <1>8, <3>2, <4>1, <4>2
    <3>5. /\ u.parent[r[j]] = p
          /\ u.next[r[j]] = IF h = i - 1 THEN n ELSE IF h = m THEN NULL ELSE s[h + 1]
          /\ u.prev[r[j]] = IF h = i THEN n ELSE IF h = 1 THEN NULL ELSE s[h - 1]
      BY <1>6, <1>12, <3>1, <3>2, <3>3, <3>4
    <3>6. (IF h = i THEN n ELSE IF h = 1 THEN NULL ELSE s[h - 1])
             = IF j = 1 THEN NULL ELSE r[j - 1]
      <4>1. j # 1 => j - 1 \in 1 .. m + 1
        BY <1>1
      <4>2. j # 1 => r[j - 1] = IF j - 1 < i THEN s[j - 1] ELSE IF j - 1 = i THEN n ELSE s[j - 2]
        <5>1. j - 1 - 1 = j - 2
          OBVIOUS
        <5> QED BY <1>5, <4>1, <5>1
      <4>3. CASE j < i
        <5>1. h = j /\ h # i /\ j - 1 < i
          BY <1>10, <3>1, <4>3
        <5> QED BY <4>2, <5>1
      <4>4. CASE ~(j < i)
        <5>1. h = j - 1 /\ j # 1 /\ ~(j - 1 < i) /\ (h = i <=> j - 1 = i) /\ (h # i => h # 1) /\ h - 1 = j - 2
          BY <1>10, <2>2, <3>1, <4>4
        <5> QED BY <4>2, <5>1
      <4> QED BY <4>3, <4>4
    <3>7. (IF h = i - 1 THEN n ELSE IF h = m THEN NULL ELSE s[h + 1])
             = IF j = m + 1 THEN NULL ELSE r[j + 1]
      <4>1. j # m + 1 => j + 1 \in 1 .. m + 1
        BY <1>1
      <4>2. j # m + 1 => r[j + 1] = IF j + 1 < i THEN s[j + 1] ELSE IF j + 1 = i THEN n ELSE s[j]
        <5>1. j + 1 - 1 = j
          OBVIOUS
        <5> QED BY <1>5, <4>1, <5>1
      <4>3. CASE j < i
        <5>1. h = j /\ j # m + 1 /\ (h = i - 1 <=> j + 1 = i) /\ (h # i - 1 => j + 1 < i /\ h # m)
          BY <1>1, <1>10, <3>1, <4>3
        <5> QED BY <4>2, <5>1
      <4>4. CASE ~(j < i)
        <5>1. h = j - 1 /\ h # i - 1 /\ ~(j + 1 < i) /\ j + 1 # i /\ (h = m <=> j = m + 1) /\ h + 1 = j
          BY <1>1, <1>10, <2>2, <3>1, <4>4
        <5> QED BY <4>2, <5>1
      <4> QED BY <4>3, <4>4
    <3> QED BY <3>5, <3>6, <3>7
  <2> QED BY <2>1, <2>2
<1>19. m + 1 # 0
  BY <1>1
<1>20. Kin(u, p, r)
  BY <1>5, <1>14, <1>15, <1>16, <1>17, <1>18, <1>19 DEF Kin
<1> QED BY <1>20 DEF u, r, a, b

LEMMA PlaceKids ==
  ASSUME NEW t \in Links, NEW n \in Node, t.parent[n] = NULL, NEW f, Kids(t, f),
         NEW p \in Node, NEW i \in 1 .. Len(f[p]) + 1
  PROVE  Kids(Place(t, n, p, LeftOf(f[p], i), RightOf(f[p], i)),
              [f EXCEPT ![p] = InsertAt(@, i, n)])
<1> DEFINE b == LeftOf(f[p], i)
           a == RightOf(f[p], i)
           u == Place(t, n, p, b, a)
           g == [f EXCEPT ![p] = InsertAt(@, i, n)]
<1>1. f \in [Node -> Seq(Node)] /\ Kin(t, p, f[p])
  BY DEF Kids
<1>2. Kin(u, p, InsertAt(f[p], i, n))
  BY <1>1, PlaceKinOwn
<1>3. /\ b # NULL => t.parent[b] = p
      /\ a # NULL => t.parent[a] = p
      /\ b \in Ptr /\ a \in Ptr
  <2>1. /\ Len(f[p]) \in Nat /\ \A j \in 1 .. Len(f[p]) : f[p][j] \in Node /\ t.parent[f[p][j]] = p
    BY <1>1, KinType DEF Kin
  <2>2. i # 1 => i - 1 \in 1 .. Len(f[p])
    BY <2>1
  <2>3. i # Len(f[p]) + 1 => i \in 1 .. Len(f[p])
    BY <2>1
  <2> QED BY <2>1, <2>2, <2>3 DEF LeftOf, RightOf
<1>4. PlaceEffect(t, u, n, p, b, a)
  BY <1>3, PlaceFields
<1> HIDE DEF u, a, b
<1>5. ASSUME NEW q \in Node, q # p
      PROVE  Kin(u, q, f[q])
  <2> DEFINE s == f[q]
  <2>1. Kin(t, q, s)
    BY DEF Kids
  <2> HIDE DEF s
  <2>2. \A j \in 1 .. Len(s) : s[j] \in Node /\ t.parent[s[j]] = q /\ s[j] # NULL
    BY <2>1, KinType, NullAssumption DEF Kin
  <2>3. \A j \in 1 .. Len(s) : s[j] # n /\ s[j] # a /\ s[j] # b
    BY <1>3, <1>5, <2>2, NullAssumption
  <2>4. \A j \in 1 .. Len(s) : /\ u.parent[s[j]] = t.parent[s[j]]
                               /\ u.prev[s[j]] = t.prev[s[j]]
                               /\ u.next[s[j]] = t.next[s[j]]
    BY <1>4, <2>2, <2>3 DEF PlaceEffect
  <2>5. u.first[q] = t.first[q] /\ u.last[q] = t.last[q]
    BY <1>4, <1>5 DEF PlaceEffect
  <2>6. \A x \in Node : u.parent[x] = q => t.parent[x] = q
    BY <1>4, <1>5 DEF PlaceEffect
  <2>7. Kin(u, q, s)
    BY <2>1, <2>4, <2>5, <2>6 DEF Kin
  <2> QED BY <2>7 DEF s
<1>6. g \in [Node -> Seq(Node)]
  <2>1. InsertAt(f[p], i, n) \in Seq(Node)
    BY <1>2 DEF Kin
  <2> QED BY <1>1, <2>1
<1>7. \A q \in Node : Kin(u, q, g[q])
  BY <1>1, <1>2, <1>5 DEF g
<1>8. Kids(u, g)
  BY <1>6, <1>7 DEF Kids
<1> QED BY <1>8 DEF u, a, b

\* The children that the pointers name are the chain that Chain reads.
Hopping(hop, t, p, N) ==
  \A i \in 1 .. N : hop[i] = IF i = 1 THEN t.first[p]
                             ELSE IF hop[i - 1] = NULL THEN NULL
                             ELSE t.next[hop[i - 1]]

LEMMA HopsAre ==
  ASSUME NEW t \in Links, NEW p \in Node, NEW s, Kin(t, p, s),
         NEW N \in Nat, Len(s) <= N,
         NEW hop, Hopping(hop, t, p, N)
  PROVE  \A i \in 1 .. N : hop[i] = IF i <= Len(s) THEN s[i] ELSE NULL
<1>1. /\ Len(s) \in Nat
      /\ \A i \in 1 .. Len(s) : s[i] \in Node /\ s[i] # NULL
  BY KinType, NullAssumption
<1>2. /\ t.first[p] = IF Len(s) = 0 THEN NULL ELSE s[1]
      /\ \A i \in 1 .. Len(s) : t.next[s[i]] = IF i = Len(s) THEN NULL ELSE s[i + 1]
  BY DEF Kin
<1> DEFINE m == Len(s)
           Bad == {i \in 1 .. N : hop[i] # IF i <= m THEN s[i] ELSE NULL}
<1> SUFFICES ASSUME Bad # {}
             PROVE  FALSE
  OBVIOUS
<1>3. \A i \in 1 .. N : hop[i] = IF i = 1 THEN t.first[p]
                                 ELSE IF hop[i - 1] = NULL THEN NULL
                                 ELSE t.next[hop[i - 1]]
  BY DEF Hopping
<1>4. PICK k \in Bad : \A j \in Bad : k <= j
  <2>1. Bad \subseteq Nat
    OBVIOUS
  <2> HIDE DEF Bad
  <2> QED BY <2>1, Least
<1>5. k \in Nat /\ k \in 1 .. N /\ hop[k] # IF k <= m THEN s[k] ELSE NULL
  OBVIOUS
<1> HIDE DEF m
<1>6. CASE k = 1
  <2>1. hop[k] = t.first[p]
    BY <1>3, <1>5, <1>6
  <2>2. m = 0 <=> ~(k <= m)
    BY <1>1, <1>6 DEF m
  <2> QED BY <1>2, <1>5, <1>6, <2>1, <2>2 DEF m
<1>7. CASE k # 1
  <2>1. k - 1 \in 1 .. N /\ ~(k <= k - 1)
    BY <1>5, <1>7
  <2>2. k - 1 \notin Bad
    <3> HIDE DEF Bad
    <3> QED BY <1>4, <2>1
  <2>3. hop[k - 1] = IF k - 1 <= m THEN s[k - 1] ELSE NULL
    BY <2>1, <2>2
  <2>4. hop[k] = IF hop[k - 1] = NULL THEN NULL ELSE t.next[hop[k - 1]]
    BY <1>3, <1>5, <1>7
  <2> HIDE DEF Bad
  <2>5. CASE k - 1 <= m
    <3>1. k - 1 \in 1 .. m /\ k - 1 + 1 = k /\ (k - 1 = m <=> ~(k <= m))
      BY <1>1, <1>5, <1>7, <2>5 DEF m
    <3>2. hop[k] = t.next[s[k - 1]]
      BY <1>1, <2>3, <2>4, <2>5, <3>1 DEF m
    <3> QED BY <1>2, <1>5, <3>1, <3>2 DEF m
  <2>6. CASE ~(k - 1 <= m)
    <3>1. ~(k <= m)
      BY <1>1, <1>5, <2>6 DEF m
    <3> QED BY <1>5, <2>3, <2>4, <2>6, <3>1
  <2> QED BY <2>5, <2>6
<1> QED BY <1>6, <1>7

LEMMA ChainIs ==
  ASSUME NEW t \in Links, NEW p \in Node, NEW s, Kin(t, p, s)
  PROVE  ChainOf(t, p) = s
<1> DEFINE N == Cardinality(Node)
           IsHop(f) == f = [i \in 1 .. N |-> IF i = 1 THEN t.first[p]
                                             ELSE IF f[i - 1] = NULL THEN NULL
                                             ELSE t.next[f[i - 1]]]
           hop == CHOOSE f : IsHop(f)
<1>1. s \in Seq(Node) /\ Len(s) \in Nat /\ (\A i \in 1 .. Len(s) : s[i] \in Node /\ s[i] # NULL)
  BY KinType, NullAssumption
<1>2. N \in Nat /\ Len(s) <= N
  <2>1. N \in Nat
    BY NodeAssumption, FS_CardinalityType
  <2>2. s \in Injection(1 .. Len(s), Node)
    <3>1. s \in [1 .. Len(s) -> Node]
      BY <1>1
    <3>2. \A i, j \in 1 .. Len(s) : s[i] = s[j] => i = j
      BY DEF Kin, Distinct
    <3> QED BY <3>1, <3>2 DEF Injection, IsInjective
  <2>3. Cardinality(1 .. Len(s)) <= N
    BY <2>2, NodeAssumption, FS_Injection
  <2>4. Cardinality(1 .. Len(s)) = IF 1 > Len(s) THEN 0 ELSE Len(s) - 1 + 1
    BY <1>1, FS_Interval
  <2> HIDE DEF N
  <2> QED BY <1>1, <2>1, <2>3, <2>4
<1>3. ChainOf(t, p) = SubSeq(hop, 1, Cardinality({i \in DOMAIN hop : hop[i] # NULL}))
  BY DEF ChainOf
<1> HIDE DEF N
<1>4. \E f : IsHop(f)
  <2> DEFINE g == [i \in 1 .. N |-> IF i <= Len(s) THEN s[i] ELSE NULL]
             h == [i \in 1 .. N |-> IF i = 1 THEN t.first[p]
                                    ELSE IF g[i - 1] = NULL THEN NULL ELSE t.next[g[i - 1]]]
  <2>1. ASSUME NEW i \in 1 .. N
        PROVE  (IF i = 1 THEN t.first[p]
                ELSE IF g[i - 1] = NULL THEN NULL ELSE t.next[g[i - 1]])
                 = IF i <= Len(s) THEN s[i] ELSE NULL
    <3>1. /\ t.first[p] = IF Len(s) = 0 THEN NULL ELSE s[1]
          /\ \A j \in 1 .. Len(s) : t.next[s[j]] = IF j = Len(s) THEN NULL ELSE s[j + 1]
      BY DEF Kin
    <3>2. i \in Nat
      BY <1>2
    <3>3. CASE i = 1
      <4>1. Len(s) = 0 <=> ~(i <= Len(s))
        BY <1>1, <3>3
      <4> QED BY <3>1, <3>3, <4>1
    <3>4. CASE i # 1
      <4>1. g[i - 1] = IF i - 1 <= Len(s) THEN s[i - 1] ELSE NULL
        <5>1. i - 1 \in 1 .. N
          BY <1>2, <3>4
        <5> QED BY <5>1
      <4> HIDE DEF g
      <4>2. CASE i - 1 <= Len(s)
        <5>1. i - 1 \in 1 .. Len(s) /\ i - 1 + 1 = i /\ (i - 1 = Len(s) <=> ~(i <= Len(s)))
          BY <1>1, <3>2, <3>4, <4>2
        <5> QED BY <1>1, <3>1, <3>4, <4>1, <4>2, <5>1
      <4>3. CASE ~(i - 1 <= Len(s))
        <5>1. ~(i <= Len(s))
          BY <1>1, <3>2, <4>3
        <5> QED BY <3>4, <4>1, <4>3, <5>1
      <4> QED BY <4>2, <4>3
    <3> QED BY <3>3, <3>4
  <2>2. g = h
    BY <2>1
  <2>3. IsHop(g)
    BY <2>2
  <2> QED BY <2>3
<1>5. IsHop(hop)
  BY <1>4
<1> HIDE DEF hop
<1>6. \A i \in 1 .. N : hop[i] = IF i <= Len(s) THEN s[i] ELSE NULL
  <2>1. \A i \in 1 .. N : hop[i] = IF i = 1 THEN t.first[p]
                                  ELSE IF hop[i - 1] = NULL THEN NULL
                                  ELSE t.next[hop[i - 1]]
    BY <1>5
  <2>2. Hopping(hop, t, p, N)
    BY <2>1 DEF Hopping
  <2> QED BY <1>2, <2>2, HopsAre
<1>7. DOMAIN hop = 1 .. N
  BY <1>5
<1>8. {i \in DOMAIN hop : hop[i] # NULL} = 1 .. Len(s)
  <2>1. \A i \in 1 .. N : hop[i] # NULL <=> i \in 1 .. Len(s)
    BY <1>1, <1>2, <1>6
  <2>2. 1 .. Len(s) \subseteq 1 .. N
    BY <1>1, <1>2
  <2> QED BY <1>7, <2>1, <2>2
<1>9. Cardinality({i \in DOMAIN hop : hop[i] # NULL}) = Len(s)
  <2>1. Cardinality(1 .. Len(s)) = IF 1 > Len(s) THEN 0 ELSE Len(s) - 1 + 1
    BY <1>1, FS_Interval
  <2>2. Cardinality(1 .. Len(s)) = Len(s)
    BY <1>1, <2>1
  <2> QED BY <1>8, <2>2
<1>10. SubSeq(hop, 1, Len(s)) = s
  <2>1. hop \in Seq(Node \cup {NULL}) /\ Len(hop) = N
    <3>1. \A i \in 1 .. N : hop[i] \in Node \cup {NULL}
      BY <1>1, <1>2, <1>6
    <3>2. hop \in [1 .. N -> Node \cup {NULL}]
      <4> DEFINE e(i) == IF i = 1 THEN t.first[p]
                         ELSE IF hop[i - 1] = NULL THEN NULL ELSE t.next[hop[i - 1]]
      <4>1. hop = [i \in 1 .. N |-> e(i)]
        BY <1>5
      <4>2. \A i \in 1 .. N : e(i) = hop[i]
        BY <4>1
      <4> HIDE DEF e
      <4> QED BY <3>1, <4>1, <4>2
    <3> QED BY <1>2, <3>2
  <2>2. 1 \in 1 .. Len(hop) + 1 /\ Len(s) \in 0 .. Len(hop) /\ 1 <= Len(s) + 1 /\ Len(s) - 1 + 1 = Len(s)
    BY <1>1, <1>2, <2>1
  <2> DEFINE r == SubSeq(hop, 1, Len(s))
  <2>3. /\ r \in Seq(Node \cup {NULL}) /\ Len(r) = Len(s)
        /\ \A i \in 1 .. Len(s) : r[i] = hop[1 + i - 1]
    BY <2>1, <2>2, PartIs
  <2> HIDE DEF r
  <2>4. \A i \in 1 .. Len(s) : r[i] = s[i]
    <3> TAKE i \in 1 .. Len(s)
    <3>1. 1 + i - 1 = i /\ i \in 1 .. N /\ i <= Len(s)
      BY <1>1, <1>2
    <3> QED BY <1>6, <2>3, <3>1
  <2>5. s \in Seq(Node \cup {NULL})
    BY <1>1
  <2>6. r = s
    BY <2>3, <2>4, <2>5, SeqEqual
  <2> QED BY <2>6 DEF r
<1> QED BY <1>3, <1>9, <1>10

-----------------------------------------------------------------------------
(* The insertions, on sequences. *)

Moving(f, n, p, i) == [Cutting(f, n) EXCEPT ![p] = InsertAt(@, i, n)]

LEMMA CutSame ==
  ASSUME NEW t \in Links, NEW n \in Node, Consistent(t), NEW f, Kids(t, f)
  PROVE  /\ Cut(t, n) \in Links /\ Consistent(Cut(t, n)) /\ Cut(t, n).parent[n] = NULL
         /\ Kids(Cut(t, n), Cutting(f, n)) /\ Cutting(f, n) \in [Node -> Seq(Node)]
<1>1. Kids(Cut(t, n), Cutting(f, n))
  BY CutKids
<1>2. Cut(t, n).parent[n] = NULL
  BY CutFields DEF CutEffect
<1> QED BY <1>1, <1>2, CutType, CutConsistent DEF Kids

LEMMA MoveKids ==
  ASSUME NEW t \in Links, NEW n \in Node, Consistent(t), NEW f, Kids(t, f),
         NEW p \in Node, NEW s, s = Cutting(f, n)[p], NEW i \in 1 .. Len(s) + 1,
         NEW b, b = LeftOf(s, i), NEW a, a = RightOf(s, i)
  PROVE  /\ Kids(Place(Detach(t, n), n, p, b, a), Moving(f, n, p, i))
         /\ b \in Ptr /\ a \in Ptr
<1> DEFINE c == Cut(t, n)
           k == Cutting(f, n)
<1>1. c \in Links /\ c.parent[n] = NULL /\ Kids(c, k)
  BY CutSame
<1>2. Kin(c, p, s)
  BY <1>1 DEF Kids
<1>3. b \in Ptr /\ a \in Ptr
  <2>1. Len(s) \in Nat /\ \A j \in 1 .. Len(s) : s[j] \in Node
    BY <1>2, KinType
  <2>2. i # 1 => i - 1 \in 1 .. Len(s)
    BY <2>1
  <2>3. i # Len(s) + 1 => i \in 1 .. Len(s)
    BY <2>1
  <2> QED BY <2>1, <2>2, <2>3 DEF LeftOf, RightOf
<1>4. Place(Detach(t, n), n, p, b, a) = Place(c, n, p, b, a)
  <2>1. \A x \in Ptr, y \in Ptr : Place(Detach(t, n), n, p, x, y) = Place(Cut(t, n), n, p, x, y)
    BY PlaceAfterDetach
  <2> HIDE DEF Ptr
  <2> QED BY <1>3, <2>1
<1> HIDE DEF c, k
<1>5. s = k[p]
  BY DEF k
<1>6. i \in 1 .. Len(k[p]) + 1 /\ b = LeftOf(k[p], i) /\ a = RightOf(k[p], i)
  BY <1>5
<1>7. Kids(Place(c, n, p, LeftOf(k[p], i), RightOf(k[p], i)), [k EXCEPT ![p] = InsertAt(@, i, n)])
  BY <1>1, <1>6, PlaceKids
<1> QED BY <1>3, <1>4, <1>6, <1>7 DEF Moving, k

\* Where node stands among its siblings once n is cut off.
LEMMA StandsAt ==
  ASSUME NEW t \in Links, NEW n \in Node, Consistent(t), NEW f, Kids(t, f),
         NEW node \in Node, node # n, t.parent[node] # NULL,
         NEW s, s = Cutting(f, n)[t.parent[node]]
  PROVE  /\ t.parent[node] \in Node /\ Len(s) \in Nat /\ s \in Seq(Node)
         /\ \A j \in 1 .. Len(s) : s[j] # n
         /\ \E i \in 1 .. Len(s) :
              /\ s[i] = node
              /\ Detach(t, n).parent[node] = t.parent[node]
              /\ Detach(t, n).prev[node] = LeftOf(s, i) /\ node = RightOf(s, i)
              /\ Detach(t, n).next[node] = RightOf(s, i + 1) /\ node = LeftOf(s, i + 1)
<1> DEFINE p == t.parent[node]
           c == Cut(t, n)
<1>1. c \in Links /\ c.parent[n] = NULL /\ Kids(c, Cutting(f, n))
  BY CutSame
<1>2. /\ p \in Node /\ c.parent[node] = p /\ Detach(t, n).parent[node] = p
      /\ Detach(t, n).prev[node] = c.prev[node] /\ Detach(t, n).next[node] = c.next[node]
  BY CutOthers
<1>3. Kin(c, p, s)
  BY <1>1, <1>2 DEF Kids
<1> HIDE DEF c
<1>4. Len(s) \in Nat /\ s \in Seq(Node) /\ \A j \in 1 .. Len(s) : s[j] # n
  <2>1. Len(s) \in Nat /\ s \in Seq(Node)
    BY <1>3, KinType
  <2>2. \A j \in 1 .. Len(s) : c.parent[s[j]] = p
    BY <1>3 DEF Kin
  <2> QED BY <1>1, <1>2, <2>1, <2>2, NullAssumption
<1>5. PICK i \in 1 .. Len(s) : s[i] = node
  BY <1>2, <1>3 DEF Kin
<1>6. /\ c.prev[node] = IF i = 1 THEN NULL ELSE s[i - 1]
      /\ c.next[node] = IF i = Len(s) THEN NULL ELSE s[i + 1]
  BY <1>3, <1>5 DEF Kin
<1>7. i # Len(s) + 1 /\ i + 1 # 1 /\ i + 1 - 1 = i /\ (i + 1 = Len(s) + 1 <=> i = Len(s))
  BY <1>4
<1>8. /\ LeftOf(s, i) = c.prev[node] /\ RightOf(s, i) = node
      /\ RightOf(s, i + 1) = c.next[node] /\ LeftOf(s, i + 1) = node
  BY <1>5, <1>6, <1>7 DEF LeftOf, RightOf
<1> QED BY <1>2, <1>4, <1>5, <1>8

LEMMA BeforeKids ==
  ASSUME NEW t \in Links, NEW sibling \in Node, Consistent(t), NEW f, Kids(t, f),
         NEW node \in Node, node # sibling, t.parent[node] # NULL,
         NEW s, s = Cutting(f, sibling)[t.parent[node]]
  PROVE  \E i \in 1 .. Len(s) : /\ s[i] = node
                                /\ Kids(PlaceBefore(t, node, sibling),
                                        Moving(f, sibling, t.parent[node], i))
<1> DEFINE p == t.parent[node]
<1>1. p \in Node /\ Len(s) \in Nat
  BY StandsAt
<1>2. PICK i \in 1 .. Len(s) :
              /\ s[i] = node
              /\ Detach(t, sibling).parent[node] = p
              /\ Detach(t, sibling).prev[node] = LeftOf(s, i) /\ node = RightOf(s, i)
              /\ Detach(t, sibling).next[node] = RightOf(s, i + 1) /\ node = LeftOf(s, i + 1)
  <2> HIDE DEF Links
  <2> QED BY StandsAt
<1> DEFINE b == LeftOf(s, i)
<1>3. PlaceBefore(t, node, sibling) = Place(Detach(t, sibling), sibling, p, b, node)
  BY <1>2 DEF PlaceBefore
<1>4. i \in 1 .. Len(s) + 1 /\ b = LeftOf(s, i) /\ node = RightOf(s, i) /\ s = Cutting(f, sibling)[p]
  BY <1>1, <1>2
<1> HIDE DEF b, p
<1>5. Kids(Place(Detach(t, sibling), sibling, p, b, node), Moving(f, sibling, p, i))
  BY <1>1, <1>4, MoveKids
<1> QED BY <1>2, <1>3, <1>5 DEF p

LEMMA AfterKids ==
  ASSUME NEW t \in Links, NEW sibling \in Node, Consistent(t), NEW f, Kids(t, f),
         NEW node \in Node, node # sibling, t.parent[node] # NULL
  PROVE  \E i \in 1 .. Len(Cutting(f, sibling)[t.parent[node]]) + 1 :
           Kids(PlaceAfter(t, node, sibling), Moving(f, sibling, t.parent[node], i))
<1> DEFINE p == t.parent[node]
           s == Cutting(f, sibling)[p]
<1>1. p \in Node /\ Len(s) \in Nat
  BY StandsAt
<1>2. PICK i \in 1 .. Len(s) :
              /\ s[i] = node
              /\ Detach(t, sibling).parent[node] = p
              /\ Detach(t, sibling).prev[node] = LeftOf(s, i) /\ node = RightOf(s, i)
              /\ Detach(t, sibling).next[node] = RightOf(s, i + 1) /\ node = LeftOf(s, i + 1)
  <2>1. s = Cutting(f, sibling)[t.parent[node]]
    OBVIOUS
  <2> HIDE DEF Links, s
  <2> QED BY <2>1, StandsAt
<1> DEFINE a == RightOf(s, i + 1)
           j == i + 1
<1>3. PlaceAfter(t, node, sibling) = Place(Detach(t, sibling), sibling, p, node, a)
  BY <1>2 DEF PlaceAfter
<1>4. j \in 1 .. Len(s) + 1 /\ node = LeftOf(s, j) /\ a = RightOf(s, j) /\ s = Cutting(f, sibling)[p]
  BY <1>1, <1>2
<1> HIDE DEF a, j, p, s
<1>5. Kids(Place(Detach(t, sibling), sibling, p, node, a), Moving(f, sibling, p, j))
  BY <1>1, <1>4, MoveKids
<1> QED BY <1>3, <1>4, <1>5 DEF p, s

LEMMA EndKids ==
  ASSUME NEW t \in Links, NEW child \in Node, Consistent(t), NEW f, Kids(t, f),
         NEW node \in Node, node # child, NEW s, s = Cutting(f, child)[node]
  PROVE  /\ Len(s) \in Nat
         /\ Kids(PlaceFirst(t, node, child), Moving(f, child, node, 1))
         /\ Kids(PlaceLast(t, node, child), Moving(f, child, node, Len(s) + 1))
<1> DEFINE c == Cut(t, child)
           a == c.first[node]
           b == c.last[node]
           m == Len(s) + 1
           nil == NULL
<1>1. Kids(c, Cutting(f, child))
  BY CutSame
<1>2. Detach(t, child).first = c.first /\ Detach(t, child).last = c.last
  BY CutOthers
<1>3. Kin(c, node, s)
  BY <1>1 DEF Kids
<1> HIDE DEF c
<1>4. Len(s) \in Nat
  BY <1>3, KinType
<1>5. /\ a = IF Len(s) = 0 THEN NULL ELSE s[1]
      /\ b = IF Len(s) = 0 THEN NULL ELSE s[Len(s)]
  BY <1>3 DEF Kin
<1>6. 1 \in 1 .. Len(s) + 1 /\ m \in 1 .. Len(s) + 1
  BY <1>4
<1>7. nil = LeftOf(s, 1) /\ a = RightOf(s, 1)
  <2>1. 1 = Len(s) + 1 <=> Len(s) = 0
    BY <1>4
  <2> QED BY <1>5, <2>1 DEF LeftOf, RightOf
<1>8. b = LeftOf(s, m) /\ nil = RightOf(s, m)
  <2>1. (m = 1 <=> Len(s) = 0) /\ m - 1 = Len(s)
    BY <1>4
  <2> QED BY <1>5, <2>1 DEF LeftOf, RightOf
<1>9. /\ PlaceFirst(t, node, child) = Place(Detach(t, child), child, node, nil, a)
      /\ PlaceLast(t, node, child) = Place(Detach(t, child), child, node, b, nil)
  BY <1>2 DEF PlaceFirst, PlaceLast
<1> HIDE DEF a, b, m, nil
<1>10. Kids(Place(Detach(t, child), child, node, nil, a), Moving(f, child, node, 1))
  BY <1>6, <1>7, MoveKids
<1>11. Kids(Place(Detach(t, child), child, node, b, nil), Moving(f, child, node, m))
  BY <1>6, <1>8, MoveKids
<1> QED BY <1>4, <1>9, <1>10, <1>11 DEF m

\* new placed before old, then old taken out: new stands where old stood.
LEMMA InPlace ==
  ASSUME NEW S, NEW s \in Seq(S), NEW i \in 1 .. Len(s), NEW new \in S, NEW old, s[i] = old,
         Distinct(InsertAt(s, i, new))
  PROVE  RemoveFirst(InsertAt(s, i, new), old) = ReplaceAll(s, old, new)
<1> DEFINE r == InsertAt(s, i, new)
           h == i + 1
           w == RemoveFirst(r, old)
           z == ReplaceAll(s, old, new)
           m == Len(s)
<1>1. m \in Nat /\ i \in Nat /\ i \in 1 .. Len(s) + 1 /\ \A j \in 1 .. m : s[j] \in S
  BY ElementOfSeq
<1>2. /\ r \in Seq(S) /\ Len(r) = m + 1
      /\ \A j \in 1 .. m + 1 : r[j] = IF j < i THEN s[j] ELSE IF j = i THEN new ELSE s[j - 1]
  BY <1>1, PutIn
<1>3. z \in Seq(S) /\ Len(z) = m /\ \A j \in 1 .. m : z[j] = IF s[j] = old THEN new ELSE s[j]
  BY <1>1 DEF ReplaceAll
<1> HIDE DEF r, z, m
<1>4. h \in 1 .. Len(r) /\ ~(h < i) /\ h # i /\ h - 1 = i
  BY <1>1, <1>2 DEF m
<1>5. old = r[h]
  BY <1>2, <1>4
<1> HIDE DEF h
<1>6. /\ w \in Seq(S) /\ Len(w) = Len(r) - 1
      /\ \A j \in 1 .. Len(r) - 1 : w[j] = IF j < h THEN r[j] ELSE r[j + 1]
  <2>1. Distinct(r)
    BY DEF r
  <2> HIDE DEF w
  <2>2. r \in Seq(S) /\ h \in 1 .. Len(r) /\ old = r[h]
    BY <1>2, <1>4, <1>5
  <2> QED BY <2>1, <2>2, TakenOut DEF w
<1> HIDE DEF w
<1>7. Len(r) - 1 = m
  BY <1>1, <1>2
<1>8. \A j, k \in 1 .. m + 1 : r[j] = r[k] => j = k
  BY <1>2 DEF Distinct, r
<1>9. ASSUME NEW j \in 1 .. m
      PROVE  w[j] = z[j]
  <2>0. j \in 1 .. m + 1 /\ j + 1 \in 1 .. m + 1 /\ j + 1 - 1 = j
    BY <1>1
  <2>1. CASE j < i
    <3>1. j < h /\ h \in 1 .. m + 1 /\ j # h
      BY <1>1, <1>4, <1>7, <2>1 DEF h
    <3>2. r[j] = s[j] /\ w[j] = r[j]
      BY <1>2, <1>6, <1>7, <2>0, <2>1, <3>1
    <3>3. s[j] # old
      BY <1>5, <1>8, <2>0, <3>1, <3>2
    <3> QED BY <1>3, <3>2, <3>3
  <2>2. CASE j = i
    <3>1. j < h
      BY <1>1, <2>2 DEF h
    <3>2. r[j] = new /\ w[j] = r[j]
      BY <1>1, <1>2, <1>6, <1>7, <2>0, <2>2, <3>1
    <3> QED BY <1>3, <2>2, <3>2
  <2>3. CASE j > i
    <3>1. ~(j < h) /\ ~(j + 1 < i) /\ j + 1 # i /\ j + 1 # h /\ h \in 1 .. m + 1
      BY <1>1, <1>4, <1>7, <2>3 DEF h
    <3>2. r[j + 1] = s[j] /\ w[j] = r[j + 1]
      BY <1>2, <1>6, <1>7, <2>0, <3>1
    <3>3. s[j] # old
      BY <1>5, <1>8, <2>0, <3>1, <3>2
    <3> QED BY <1>3, <3>2, <3>3
  <2> QED BY <1>1, <2>1, <2>2, <2>3
<1>10. w = z
  BY <1>3, <1>6, <1>7, <1>9, SeqEqual
<1> QED BY <1>10 DEF w, r, z

LEMMA ReplaceKids ==
  ASSUME NEW t \in Links, NEW new \in Node, Consistent(t), NEW f, Kids(t, f),
         NEW old \in Node, old # new, t.parent[old] # NULL,
         PlaceBefore(t, old, new) \in Links
  PROVE  Kids(Cut(PlaceBefore(t, old, new), old),
              [Cutting(f, new) EXCEPT ![t.parent[old]] = ReplaceAll(@, old, new)])
<1> DEFINE p == t.parent[old]
           k == Cutting(f, new)
           s == k[p]
           u == PlaceBefore(t, old, new)
<1>1. /\ p \in Node /\ Len(s) \in Nat /\ s \in Seq(Node)
  <2>1. s = Cutting(f, new)[t.parent[old]]
    OBVIOUS
  <2> HIDE DEF Links, s
  <2> QED BY <2>1, StandsAt
<1>2. PICK i \in 1 .. Len(s) : s[i] = old /\ Kids(u, Moving(f, new, p, i))
  <2>1. s = Cutting(f, new)[t.parent[old]]
    OBVIOUS
  <2> HIDE DEF Links, s
  <2> QED BY <2>1, BeforeKids
<1>3. k \in [Node -> Seq(Node)] /\ Kids(Cut(t, new), k)
  BY CutSame
<1>4. Cut(t, new).parent[old] = p
  <2>1. CutEffect(t, Cut(t, new), new)
    BY CutFields
  <2> HIDE DEF k, u
  <2> QED BY <2>1 DEF CutEffect
<1>5. Consistent(u)
  BY PlaceBeforeConsistent
<1> DEFINE g == Moving(f, new, p, i)
           h == [k EXCEPT ![p] = ReplaceAll(@, old, new)]
<1>6. g = [k EXCEPT ![p] = InsertAt(s, i, new)]
  BY <1>3 DEF Moving
<1> HIDE DEF k, u, p
<1>7. Kids(Cut(u, old), Cutting(g, old))
  <2> HIDE DEF g
  <2> QED BY <1>2, <1>5, CutKids DEF g, u
<1>8. RemoveFirst(InsertAt(s, i, new), old) = ReplaceAll(s, old, new)
  <2>1. Kin(u, p, g[p])
    BY <1>1, <1>2 DEF Kids
  <2>2. Distinct(g[p])
    BY <2>1 DEF Kin
  <2>3. Distinct(InsertAt(s, i, new))
    BY <1>1, <1>3, <1>6, <2>2
  <2> HIDE DEF s
  <2> QED BY <1>1, <1>2, <2>3, InPlace
<1>9. ASSUME NEW q \in Node, q # p
      PROVE  RemoveFirst(k[q], old) = k[q]
  <2> DEFINE r == k[q]
  <2>1. Kin(Cut(t, new), q, r)
    BY <1>3 DEF Kids
  <2> HIDE DEF r
  <2>2. \A j \in 1 .. Len(r) : r[j] # old
    BY <1>4, <1>9, <2>1 DEF Kin
  <2>3. RemoveFirst(r, old) = r
    BY <2>2, NotTakenOut
  <2> QED BY <2>3 DEF r
<1>10. ASSUME NEW q \in Node
       PROVE  RemoveFirst(g[q], old) = h[q]
  <2>1. CASE q = p
    BY <1>1, <1>3, <1>6, <1>8, <2>1
  <2>2. CASE q # p
    BY <1>3, <1>6, <1>9, <2>2
  <2> QED BY <2>1, <2>2
<1>11. DOMAIN h = Node /\ h = [q \in Node |-> h[q]]
  BY <1>3
<1> HIDE DEF g, h
<1>12. Cutting(g, old) = h
  BY <1>10, <1>11 DEF Cutting
<1> QED BY <1>7, <1>12 DEF h, k, u, p

-----------------------------------------------------------------------------
(* Freeing. *)

LEMMA FreeKids ==
  ASSUME NEW t \in Links, NEW n \in Node, Consistent(t), NEW f, Kids(t, f)
  PROVE  LET D == Subtree(t, n) IN
         Kids(Clear(Cut(t, n), D), [q \in Node |-> IF q \in D THEN <<>> ELSE RemoveFirst(f[q], n)])
<1> DEFINE D == Subtree(t, n)
           c == Cut(t, n)
           k == Cutting(f, n)
           u == Clear(c, D)
           g == [q \in Node |-> IF q \in D THEN <<>> ELSE RemoveFirst(f[q], n)]
<1>1. c \in Links /\ c.parent[n] = NULL /\ Kids(c, k) /\ k \in [Node -> Seq(Node)]
  BY CutSame
<1>2. Apart(c, D)
  BY CutApart
<1>3. \A x \in Node :
        /\ u.next[x]   = IF x \in D THEN NULL ELSE c.next[x]
        /\ u.prev[x]   = IF x \in D THEN NULL ELSE c.prev[x]
        /\ u.parent[x] = IF x \in D THEN NULL ELSE c.parent[x]
        /\ u.first[x]  = IF x \in D THEN NULL ELSE c.first[x]
        /\ u.last[x]   = IF x \in D THEN NULL ELSE c.last[x]
  <2> TAKE x \in Node
  <2> HIDE DEF D, c, Links
  <2> QED BY <1>1, ClearFields
<1>4. \A x \in D : x # n => c.parent[x] \in D
  BY SubtreeClosed, CutFields DEF CutEffect, Subtree
<1>5. \A q \in Node : k[q] = RemoveFirst(f[q], n)
  BY DEF Cutting
<1> HIDE DEF D, c, k, u
<1>11. \A x \in Node \ D : c.parent[x] \notin D
  BY <1>2 DEF Apart
<1>6. ASSUME NEW q \in Node, q \in D
      PROVE  Kin(u, q, <<>>)
  <2>1. ASSUME NEW x \in Node
        PROVE  u.parent[x] # q
    <3>1. u.parent[x] = IF x \in D THEN NULL ELSE c.parent[x]
      BY <1>3
    <3>2. x \in D => u.parent[x] \notin Node
      BY <3>1, NullAssumption
    <3>3. x \notin D => u.parent[x] \notin D
      BY <1>11, <3>1
    <3> QED BY <1>6, <3>2, <3>3
  <2>2. u.first[q] = NULL /\ u.last[q] = NULL
    BY <1>3, <1>6
  <2>3. <<>> \in Seq(Node) /\ Len(<<>>) = 0 /\ 1 .. 0 = {}
    OBVIOUS
  <2> QED BY <2>1, <2>2, <2>3 DEF Kin, Distinct
<1>7. ASSUME NEW q \in Node, q \notin D
      PROVE  Kin(u, q, k[q])
  <2> DEFINE s == k[q]
  <2>1. Kin(c, q, s)
    BY <1>1 DEF Kids
  <2> HIDE DEF s
  <2>2. \A i \in 1 .. Len(s) : s[i] \in Node /\ c.parent[s[i]] = q
    BY <2>1, KinType DEF Kin
  <2>3. \A i \in 1 .. Len(s) : s[i] \notin D
    BY <1>1, <1>4, <1>7, <2>2, NullAssumption
  <2>4. \A i \in 1 .. Len(s) : /\ u.parent[s[i]] = c.parent[s[i]]
                               /\ u.prev[s[i]] = c.prev[s[i]]
                               /\ u.next[s[i]] = c.next[s[i]]
    BY <1>3, <2>2, <2>3
  <2>5. u.first[q] = c.first[q] /\ u.last[q] = c.last[q]
    BY <1>3, <1>7
  <2>6. \A x \in Node : u.parent[x] = q => c.parent[x] = q
    BY <1>3, NullAssumption
  <2>7. Kin(u, q, s)
    BY <2>1, <2>4, <2>5, <2>6 DEF Kin
  <2> QED BY <2>7 DEF s
<1>8. g \in [Node -> Seq(Node)]
  BY <1>1, <1>5
<1>9. \A q \in Node : Kin(u, q, g[q])
  BY <1>5, <1>6, <1>7
<1>10. Kids(u, g)
  BY <1>8, <1>9 DEF Kids
<1> QED BY <1>10 DEF u, c, D

\* The subtree below n is the least set that holds n and the children of its
\* members.
Closed(D, f, n) == n \in D /\ \A m \in D : ToSet(f[m]) \subseteq D

LEMMA SubtreeLeast ==
  ASSUME NEW t \in Links, NEW n \in Node, NEW f, Kids(t, f)
  PROVE  /\ Closed(Subtree(t, n), f, n)
         /\ \A Y \in SUBSET Node : Closed(Y, f, n) => Subtree(t, n) \subseteq Y
<1> DEFINE D == Subtree(t, n)
<1>0. D \subseteq Node
  BY DEF Subtree
<1>1. \A m \in Node : /\ Kin(t, m, f[m]) /\ f[m] \in Seq(Node)
                      /\ \A x \in ToSet(f[m]) : x \in Node /\ t.parent[x] = m
                      /\ \A x \in Node : t.parent[x] = m => x \in ToSet(f[m])
  <2> TAKE m \in Node
  <2> DEFINE s == f[m]
  <2>1. Kin(t, m, s)
    BY DEF Kids
  <2> HIDE DEF s
  <2>2. s \in Seq(Node) /\ DOMAIN s = 1 .. Len(s) /\ \A i \in 1 .. Len(s) : s[i] \in Node
    BY <2>1, KinType
  <2>5. /\ \A i \in 1 .. Len(s) : t.parent[s[i]] = m
        /\ \A x \in Node : t.parent[x] = m => \E i \in 1 .. Len(s) : s[i] = x
    BY <2>1 DEF Kin
  <2>6. ToSet(s) = {s[i] : i \in 1 .. Len(s)}
    BY <2>2 DEF ToSet
  <2>3. ASSUME NEW x \in ToSet(s)
        PROVE  x \in Node /\ t.parent[x] = m
    <3>1. PICK i \in 1 .. Len(s) : s[i] = x
      BY <2>6
    <3> QED BY <2>2, <2>5, <3>1
  <2>4. \A x \in Node : t.parent[x] = m => x \in ToSet(s)
    BY <2>5, <2>6
  <2> QED BY <2>1, <2>2, <2>3, <2>4 DEF s
<1>2. Closed(D, f, n)
  <2>1. n \in D /\ \A x \in Node : t.parent[x] \in D => x \in D
    BY SubtreeClosed
  <2> HIDE DEF D
  <2> QED BY <1>0, <1>1, <2>1 DEF Closed
<1>3. ASSUME NEW Y \in SUBSET Node, Closed(Y, f, n), NEW x \in D, x \notin Y
      PROVE  FALSE
  <2> DEFINE S == Node \ Y
  <2>1. UpClosed(t, S)
    <3> SUFFICES ASSUME NEW z \in S, t.parent[z] # NULL
                 PROVE  t.parent[z] \notin Y /\ t.parent[z] \in Node
      BY DEF UpClosed
    <3>1. t.parent[z] \in Node
      OBVIOUS
    <3>2. z \in ToSet(f[t.parent[z]])
      BY <1>1, <3>1
    <3> QED BY <1>3, <3>1, <3>2 DEF Closed
  <2>2. x \in S /\ S \in SUBSET Node /\ n \notin S
    BY <1>0, <1>3 DEF Closed
  <2> QED BY <2>1, <2>2 DEF Subtree, Reaches
<1> QED BY <1>2, <1>3

-----------------------------------------------------------------------------
(* The pointer code implements the ordered forest. *)

Chains(t) == [p \in Node |-> ChainOf(t, p)]

LEMMA ChainsAre ==
  ASSUME NEW t \in Links, NEW f, Kids(t, f)
  PROVE  Chains(t) = f
<1>1. \A p \in Node : ChainOf(t, p) = f[p]
  BY ChainIs DEF Kids
<1> QED BY <1>1 DEF Chains, Kids

\* The invariant: some sequences of children fit the pointers.
Shape == IInv /\ \E f : Kids(links, f)

LEMMA ChainsNow ==
  ASSUME NEW f, IInv, Kids(links, f)
  PROVE  [p \in Node |-> Chain(p)] = f
BY ChainsAre DEF IInv, Good, Chain, Chains

LEMMA ChainsNext ==
  ASSUME NEW f, IInv', Kids(links', f)
  PROVE  [p \in Node |-> Chain(p)]' = f
<1>1. links' \in Links
  BY DEF IInv, Good
<1>2. Chains(links') = f
  BY <1>1, ChainsAre
<1> QED BY <1>2 DEF Chain, Chains


\* The abstract specification's own copies of the library's operators.
LEMMA SameOperators ==
  /\ \A s, e : Abstract!RemoveFirst(s, e) = RemoveFirst(s, e)
  /\ \A s, i, e : Abstract!InsertAt(s, i, e) = InsertAt(s, i, e)
  /\ \A s, old, new : Abstract!ReplaceAll(s, old, new) = ReplaceAll(s, old, new)
  /\ \A s : Abstract!ToSet(s) = ToSet(s)
<1>1. \A s, e : Abstract!RemoveFirst(s, e) = RemoveFirst(s, e)
  BY DEF Abstract!RemoveFirst, Abstract!RemoveAt, Abstract!SelectInSeq, Abstract!Min,
         RemoveFirst, RemoveAt, SelectInSeq, Min
<1>2. \A s, i, e : Abstract!InsertAt(s, i, e) = InsertAt(s, i, e)
  BY DEF Abstract!InsertAt, InsertAt
<1>3. \A s, old, new : Abstract!ReplaceAll(s, old, new) = ReplaceAll(s, old, new)
  BY DEF Abstract!ReplaceAll, ReplaceAll
<1>4. \A s : Abstract!ToSet(s) = ToSet(s)
  BY DEF Abstract!ToSet, ToSet
<1> QED BY <1>1, <1>2, <1>3, <1>4

LEMMA WithoutIs ==
  ASSUME NEW f \in [Node -> Seq(Node)], NEW n
  PROVE  Abstract!Without(f, n) = Cutting(f, n)
BY SameOperators DEF Abstract!Without, Cutting

LEMMA NoLonger ==
  ASSUME NEW t \in Links, NEW n \in Node, NEW f, Kids(t, f), NEW p \in Node
  PROVE  /\ Len(f[p]) \in Nat /\ Len(Cutting(f, n)[p]) \in Nat
         /\ Len(Cutting(f, n)[p]) <= Len(f[p])
<1> DEFINE s == f[p]
<1>1. s \in Seq(Node) /\ Len(s) \in Nat /\ Distinct(s)
  BY KinType DEF Kids, Kin
<1>2. Cutting(f, n)[p] = RemoveFirst(s, n)
  BY DEF Cutting
<1> HIDE DEF s
<1>3. Len(RemoveFirst(s, n)) \in Nat /\ Len(RemoveFirst(s, n)) <= Len(s)
  <2>1. CASE \E i \in 1 .. Len(s) : s[i] = n
    <3>1. PICK i \in 1 .. Len(s) : s[i] = n
      BY <2>1
    <3>2. Len(RemoveFirst(s, n)) = Len(s) - 1
      BY <1>1, <3>1, TakenOut
    <3> QED BY <1>1, <3>1, <3>2
  <2>2. CASE \A i \in 1 .. Len(s) : s[i] # n
    BY <1>1, <2>2, NotTakenOut
  <2> QED BY <2>1, <2>2
<1> QED BY <1>1, <1>2, <1>3 DEF s

\* An insertion of the code is a move of the forest.
LEMMA MoveStep ==
  ASSUME NEW f, NEW n \in Live, NEW p \in Live, n # p, NEW i \in 1 .. Len(Cutting(f, n)[p]) + 1,
         IInv, IInv', kind' = kind, Kids(links, f), Kids(links', Moving(f, n, p, i))
  PROVE  Abstract!Next
<1>1. [q \in Node |-> Chain(q)] = f
  BY ChainsNow
<1>2. [q \in Node |-> Chain(q)]' = Moving(f, n, p, i)
  BY ChainsNext
<1>3. Live' = Live
  BY DEF Live
<1>4. f \in [Node -> Seq(Node)] /\ links \in Links /\ n \in Node /\ p \in Node
  BY DEF Kids, IInv, Good, Live
<1> DEFINE K == [q \in Node |-> Chain(q)]
           k == Cutting(f, n)
<1>5. Abstract!Without(K, n) = k
  BY <1>1, <1>4, WithoutIs
<1>6. K' = [k EXCEPT ![p] = Abstract!InsertAt(@, i, n)]
  BY <1>2, SameOperators DEF Moving
<1>7. i \in 1 .. Len(k[p]) + 1
  OBVIOUS
<1>8. i \in 1 .. Len(K[p]) + 1
  <2>1. K[p] = f[p]
    BY <1>1
  <2> HIDE DEF K, k
  <2>2. Len(f[p]) \in Nat /\ Len(k[p]) \in Nat /\ Len(k[p]) <= Len(f[p])
    BY <1>4, NoLonger DEF k
  <2> QED BY <1>7, <2>1, <2>2
<1>9. Abstract!Move(n, p, i)
  <2> HIDE DEF k
  <2> QED BY <1>3, <1>5, <1>6, <1>7 DEF Abstract!Move
<1> QED BY <1>8, <1>9 DEF Abstract!Next

LEMMA CreateStep ==
  ASSUME NEW f, NEW n \in Node, NEW k \in Kind, New(n, k), IInv, IInv', Kids(links, f)
  PROVE  Abstract!Next /\ Kids(links', f)
<1>1. links' = links /\ kind[n] = "free" /\ kind' = [kind EXCEPT ![n] = k]
  BY DEF New
<1>2. Kids(links', f)
  BY <1>1
<1>3. [q \in Node |-> Chain(q)]' = [q \in Node |-> Chain(q)]
  BY <1>2, ChainsNow, ChainsNext
<1>4. k # "free" /\ kind \in [Node -> Kind \cup {"free"}]
  BY KindAssumption DEF AllKind, BlockKind, InlineKind, IInv, Good
<1>5. n \notin Live /\ Live' = Live \cup {n}
  BY <1>1, <1>4 DEF Live
<1>6. Abstract!Create(n)
  BY <1>3, <1>5 DEF Abstract!Create
<1> QED BY <1>2, <1>6 DEF Abstract!Next

LEMMA ReleaseStep ==
  ASSUME NEW f, NEW n \in Live, Unlink(n), IInv, IInv', Kids(links, f)
  PROVE  Abstract!Next /\ Kids(links', Cutting(f, n))
<1>1. links' = Cut(links, n) /\ kind' = kind
  BY DEF Unlink
<1>2. n \in Node /\ links \in Links /\ Consistent(links) /\ f \in [Node -> Seq(Node)]
  BY DEF Live, IInv, Good, Kids
<1>3. Kids(links', Cutting(f, n))
  BY <1>1, <1>2, CutKids
<1>4. [q \in Node |-> Chain(q)]' = Cutting(f, n)
  BY <1>3, ChainsNext
<1>5. [q \in Node |-> Chain(q)] = f
  BY ChainsNow
<1>6. Live' = Live
  BY <1>1 DEF Live
<1>7. Abstract!Release(n)
  BY <1>2, <1>4, <1>5, <1>6, WithoutIs DEF Abstract!Release
<1> QED BY <1>3, <1>7 DEF Abstract!Next

LEMMA DestroyStep ==
  ASSUME NEW f, NEW n \in Live, Free(n), IInv, IInv', Kids(links, f)
  PROVE  Abstract!Next /\ \E g : Kids(links', g)
<1> DEFINE D == Subtree(links, n)
           g == [q \in Node |-> IF q \in D THEN <<>> ELSE RemoveFirst(f[q], n)]
           K == [q \in Node |-> Chain(q)]
<1>1. /\ links' = Clear(Cut(links, n), D)
      /\ kind' = [m \in Node |-> IF m \in D THEN "free" ELSE kind[m]]
  BY DEF Free
<1>2. n \in Node /\ links \in Links /\ Consistent(links) /\ f \in [Node -> Seq(Node)]
      /\ Confined(links, Live) /\ kind \in [Node -> Kind \cup {"free"}]
  BY DEF Live, IInv, Good, Kids, LiveIn
<1>3. Kids(links', g)
  BY <1>1, <1>2, FreeKids
<1>4. K' = g
  <2> HIDE DEF g
  <2> QED BY <1>3, ChainsNext
<1>5. K = f
  BY ChainsNow
<1>6. D \subseteq Live
  <2> SUFFICES ASSUME NEW x \in D PROVE x \in Live
    OBVIOUS
  <2>1. x \in Node /\ (x # n => links.parent[x] \in D) /\ D \subseteq Node
    BY <1>2, SubtreeClosed DEF Subtree
  <2> HIDE DEF D
  <2>2. x # n => links.parent[x] # NULL
    BY <2>1, NullAssumption
  <2> QED BY <1>2, <2>1, <2>2 DEF Confined
<1>7. Live' = Live \ D
  <2>1. \A m \in Node : kind'[m] = IF m \in D THEN "free" ELSE kind[m]
    BY <1>1
  <2> HIDE DEF D
  <2> QED BY <2>1 DEF Live
<1>8. Closed(D, f, n) /\ \A Y \in SUBSET Node : Closed(Y, f, n) => D \subseteq Y
  BY <1>2, SubtreeLeast
<1>9. \A X : Abstract!Below(X, n) <=> n \in X /\ \A m \in X : ToSet(K[m]) \subseteq X
  BY SameOperators DEF Abstract!Below
<1>10. \A X : Abstract!Below(X, n) <=> Closed(X, f, n)
  BY <1>5, <1>9 DEF Closed
<1> DEFINE P(X) == Abstract!Below(X, n) /\ \A Y \in SUBSET X : Abstract!Below(Y, n) => Y = X
<1> HIDE DEF D, K
<1>11. Live \subseteq Node
  BY DEF Live
<1>12. D \in SUBSET Live /\ P(D)
  BY <1>6, <1>8, <1>10, <1>11
<1>13. \A X \in SUBSET Live : P(X) => X = D
  BY <1>8, <1>10, <1>11
<1> DEFINE E == CHOOSE X \in SUBSET Live : P(X)
<1>14. E = D
  <2> HIDE DEF P
  <2> QED BY <1>12, <1>13
<1>15. K' = [p \in DOMAIN K |-> IF p \in E THEN <<>> ELSE Abstract!RemoveFirst(K[p], n)]
  <2>1. DOMAIN K = Node
    BY <1>2, <1>5
  <2> HIDE DEF E
  <2> QED BY <1>4, <1>5, <1>14, <2>1, SameOperators
<1>16. Live' = Live \ E
  BY <1>7, <1>14
<1>17. Abstract!Destroy(n)
  BY <1>15, <1>16 DEF Abstract!Destroy, K
<1> HIDE DEF g
<1> QED BY <1>3, <1>17 DEF Abstract!Next

LEMMA SwapStep ==
  ASSUME NEW f, NEW old \in Live, NEW new \in Live, old # new, Replace(old, new),
         IInv, IInv', Kids(links, f)
  PROVE  Abstract!Next /\ \E g : Kids(links', g)
<1> DEFINE p == links.parent[old]
           k == Cutting(f, new)
           K == [q \in Node |-> Chain(q)]
           u == PlaceBefore(links, old, new)
           g == [k EXCEPT ![p] = ReplaceAll(@, old, new)]
<1>1. /\ p # NULL /\ CanContain(p, new)
      /\ links' = Cut(u, old) /\ kind' = kind
  BY DEF Replace
<1>2. old \in Node /\ new \in Node /\ links \in Links /\ Consistent(links) /\ p \in Node
      /\ f \in [Node -> Seq(Node)]
  BY <1>1 DEF Live, IInv, Good, Kids
<1>3. Good(u, kind)
  <2>1. old \in LiveIn(kind) /\ new \in LiveIn(kind)
    BY DEF Live, LiveIn
  <2> QED BY <1>1, <2>1, BeforeGood DEF CanContain, IInv
<1>4. u \in Links
  BY <1>3 DEF Good
<1>5. Kids(links', g)
  BY <1>1, <1>2, <1>4, ReplaceKids
<1>6. K = f
  BY ChainsNow
<1>7. K' = g
  <2> HIDE DEF g
  <2> QED BY <1>5, ChainsNext
<1>8. Live' = Live
  BY <1>1 DEF Live
<1>9. old \in ToSet(f[p])
  <2>1. \E i \in 1 .. Len(f[p]) : f[p][i] = old
    BY <1>2 DEF Kids, Kin
  <2>2. DOMAIN f[p] = 1 .. Len(f[p])
    BY <1>2
  <2> QED BY <2>1, <2>2 DEF ToSet
<1> HIDE DEF p, k, K, u
<1>10. p \in Abstract!Parents(K, old)
  BY <1>2, <1>6, <1>9, SameOperators DEF Abstract!Parents
<1>11. Abstract!Without(K, new) = k
  BY <1>2, <1>6, WithoutIs DEF k
<1>12. K' = [k EXCEPT ![p] = Abstract!ReplaceAll(@, old, new)]
  BY <1>7, SameOperators
<1>13. Abstract!Swap(old, new)
  BY <1>8, <1>10, <1>11, <1>12 DEF Abstract!Swap, K
<1> HIDE DEF g
<1> QED BY <1>5, <1>13 DEF Abstract!Next

LEMMA InsertStep ==
  ASSUME NEW f, NEW node \in Live, NEW other \in Live, IInv, IInv', Kids(links, f),
         \/ node # other /\ InsertBefore(node, other)
         \/ node # other /\ InsertAfter(node, other)
         \/ PrependChild(node, other)
         \/ AppendChild(node, other)
  PROVE  Abstract!Next /\ \E g : Kids(links', g)
<1>1. /\ node \in Node /\ other \in Node /\ links \in Links /\ Consistent(links)
      /\ Confined(links, Live)
  BY DEF Live, IInv, Good, LiveIn
<1>2. ASSUME NEW p \in Live, ~Reaches(links, p, other), kind' = kind,
             \E i \in 1 .. Len(Cutting(f, other)[p]) + 1 : Kids(links', Moving(f, other, p, i))
      PROVE  Abstract!Next /\ \E g : Kids(links', g)
  <2>1. other # p
    BY <1>2 DEF Reaches
  <2> QED BY <1>2, <2>1, MoveStep
<1>3. links.parent[node] # NULL => links.parent[node] \in Live
  BY <1>1 DEF Confined
<1>4. CASE node # other /\ InsertBefore(node, other)
  <2> DEFINE p == links.parent[node]
             s == Cutting(f, other)[p]
  <2>1. p \in Live /\ ~Reaches(links, p, other) /\ kind' = kind
    BY <1>3, <1>4 DEF InsertBefore, CanContain
  <2>2. links' = PlaceBefore(links, node, other) /\ links.parent[node] # NULL
    BY <1>4 DEF InsertBefore
  <2>3. s = Cutting(f, other)[links.parent[node]]
    OBVIOUS
  <2> HIDE DEF s
  <2>4. PICK i \in 1 .. Len(s) : Kids(links', Moving(f, other, p, i))
    BY <1>1, <1>4, <2>2, <2>3, BeforeKids
  <2>5. Len(s) \in Nat
    BY <1>1, <1>4, <2>2, <2>3, StandsAt
  <2>6. i \in 1 .. Len(s) + 1
    BY <2>5
  <2> QED BY <1>2, <2>1, <2>3, <2>4, <2>6
<1>5. CASE node # other /\ InsertAfter(node, other)
  <2> DEFINE p == links.parent[node]
  <2>1. p \in Live /\ ~Reaches(links, p, other) /\ kind' = kind
    BY <1>3, <1>5 DEF InsertAfter, CanContain
  <2>2. links' = PlaceAfter(links, node, other) /\ links.parent[node] # NULL
    BY <1>5 DEF InsertAfter
  <2>3. \E i \in 1 .. Len(Cutting(f, other)[p]) + 1 : Kids(links', Moving(f, other, p, i))
    BY <1>1, <1>5, <2>2, AfterKids
  <2> QED BY <1>2, <2>1, <2>3
<1>6. CASE PrependChild(node, other)
  <2> DEFINE s == Cutting(f, other)[node]
  <2>1. ~Reaches(links, node, other) /\ kind' = kind /\ links' = PlaceFirst(links, node, other)
    BY <1>6 DEF PrependChild, CanContain
  <2>2. node # other
    BY <2>1 DEF Reaches
  <2>3. s = Cutting(f, other)[node]
    OBVIOUS
  <2> HIDE DEF s
  <2>4. Len(s) \in Nat /\ Kids(links', Moving(f, other, node, 1))
    BY <1>1, <2>1, <2>2, <2>3, EndKids
  <2>5. 1 \in 1 .. Len(s) + 1
    BY <2>4
  <2> QED BY <1>2, <2>1, <2>3, <2>4, <2>5
<1>7. CASE AppendChild(node, other)
  <2> DEFINE s == Cutting(f, other)[node]
             m == Len(s) + 1
  <2>1. ~Reaches(links, node, other) /\ kind' = kind /\ links' = PlaceLast(links, node, other)
    BY <1>7 DEF AppendChild, CanContain
  <2>2. node # other
    BY <2>1 DEF Reaches
  <2>3. s = Cutting(f, other)[node]
    OBVIOUS
  <2> HIDE DEF s
  <2>4. Len(s) \in Nat /\ Kids(links', Moving(f, other, node, m))
    BY <1>1, <2>1, <2>2, <2>3, EndKids
  <2>5. m \in 1 .. Len(s) + 1
    BY <2>4
  <2> HIDE DEF m
  <2> QED BY <1>2, <2>1, <2>3, <2>4, <2>5
<1> QED BY <1>4, <1>5, <1>6, <1>7

LEMMA ShapeInit == Init => Shape /\ Abstract!Init
<1> SUFFICES ASSUME Init PROVE Shape /\ Abstract!Init
  OBVIOUS
<1> DEFINE f == [p \in Node |-> <<>>]
<1>1. IInv
  BY InitIInv
<1>2. \A n \in Node : /\ links.next[n] = NULL /\ links.prev[n] = NULL
                      /\ links.parent[n] = NULL
                      /\ links.first[n] = NULL /\ links.last[n] = NULL
  BY DEF Init
<1>3. ASSUME NEW p \in Node
      PROVE  Kin(links, p, <<>>)
  <2>1. <<>> \in Seq(Node) /\ Len(<<>>) = 0 /\ 1 .. 0 = {}
    OBVIOUS
  <2> QED BY <1>2, <2>1, NullAssumption DEF Kin, Distinct
<1>4. Kids(links, f)
  BY <1>3 DEF Kids
<1>5. [p \in Node |-> Chain(p)] = f
  <2> HIDE DEF f
  <2> QED BY <1>1, <1>4, ChainsNow
<1>6. Live = {}
  BY DEF Init, Live
<1> QED BY <1>1, <1>4, <1>5, <1>6 DEF Shape, Abstract!Init

LEMMA ShapeNext == Shape /\ [Next]_vars => Shape' /\ [Abstract!Next]_(Abstract!vars)
<1> SUFFICES ASSUME Shape, [Next]_vars PROVE Shape' /\ [Abstract!Next]_(Abstract!vars)
  OBVIOUS
<1>1. IInv /\ IInv'
  BY NextIInv DEF Shape
<1>2. PICK f : Kids(links, f)
  BY DEF Shape
<1>3. CASE UNCHANGED vars
  <2>1. links' = links /\ kind' = kind
    BY <1>3 DEF vars
  <2>2. Live' = Live
    BY <2>1 DEF Live
  <2>3. Kids(links', f)
    BY <1>2, <2>1
  <2>4. [p \in Node |-> Chain(p)]' = [p \in Node |-> Chain(p)]
    BY <1>1, <1>2, <2>3, ChainsNow, ChainsNext
  <2> QED BY <1>1, <2>2, <2>3, <2>4 DEF Shape, Abstract!vars
<1>4. ASSUME Abstract!Next, \E g : Kids(links', g)
      PROVE  Shape' /\ [Abstract!Next]_(Abstract!vars)
  BY <1>1, <1>4 DEF Shape
<1>5. ASSUME NEW n \in Node, NEW k \in Kind, New(n, k)
      PROVE  Abstract!Next /\ \E g : Kids(links', g)
  BY <1>1, <1>2, <1>5, CreateStep
<1>6. ASSUME NEW n \in Live, Unlink(n)
      PROVE  Abstract!Next /\ \E g : Kids(links', g)
  BY <1>1, <1>2, <1>6, ReleaseStep
<1>7. ASSUME NEW n \in Live, Free(n)
      PROVE  Abstract!Next /\ \E g : Kids(links', g)
  BY <1>1, <1>2, <1>7, DestroyStep
<1>8. ASSUME NEW node \in Live, NEW other \in Live, node # other, Replace(node, other)
      PROVE  Abstract!Next /\ \E g : Kids(links', g)
  BY <1>1, <1>2, <1>8, SwapStep
<1>9. ASSUME NEW node \in Live, NEW other \in Live,
             \/ node # other /\ InsertBefore(node, other)
             \/ node # other /\ InsertAfter(node, other)
             \/ PrependChild(node, other)
             \/ AppendChild(node, other)
      PROVE  Abstract!Next /\ \E g : Kids(links', g)
  BY <1>1, <1>2, <1>9, InsertStep
<1> QED BY <1>3, <1>4, <1>5, <1>6, <1>7, <1>8, <1>9 DEF Next

(* The pointers of node.c implement the ordered forest: whatever is        *)
(* called, the children of every node, read along next, change as the      *)
(* abstract operation says, and no other node moves.                       *)
THEOREM PointersImplementForest == Spec => ImplementsOrderedTree
<1> QED BY ShapeInit, ShapeNext, PTL DEF Spec, ImplementsOrderedTree, Abstract!Spec

-----------------------------------------------------------------------------
(* The list of S_free_nodes: q is what is left of it. *)

Holding(s, x) == \E i \in 1 .. Len(s) : s[i] = x

Listed(next, e, q) ==
  /\ e = IF Len(q) = 0 THEN NULL ELSE q[1]
  /\ \A j \in 1 .. Len(q) : next[q[j]] = IF j = Len(q) THEN NULL ELSE q[j + 1]

\* What is to come: the nodes not freed that are n or have a freed parent.
DueNow(n, freed, x) ==
  x \in Subtree(links, n) /\ ~Holding(freed, x) /\ (x = n \/ Holding(freed, links.parent[x]))

\* A node was freed after its parent and its left sibling.
InTurn(n, freed) == \A i \in 1 .. Len(freed) : freed[i] # n =>
  /\ \E h \in 1 .. i - 1 : freed[h] = links.parent[freed[i]]
  /\ links.prev[freed[i]] # NULL => \E h \in 1 .. i - 1 : freed[h] = links.prev[freed[i]]

Waiting(n, freed, q) == \A j \in 1 .. Len(q) : q[j] # n /\ links.prev[q[j]] # NULL =>
  \/ Holding(freed, links.prev[q[j]])
  \/ \E h \in 1 .. j - 1 : q[h] = links.prev[q[j]]

FreeInv(n, e, next, freed, q) ==
  /\ next \in [Node -> Ptr]
  /\ freed \in Seq(Node) /\ Distinct(freed) /\ \A i \in 1 .. Len(freed) : freed[i] \in Subtree(links, n)
  /\ q \in Seq(Node) /\ Distinct(q)
  /\ Listed(next, e, q)
  /\ \A x \in Node : Holding(q, x) <=> DueNow(n, freed, x)
  /\ \A x \in Subtree(links, n) : ~Holding(freed, x) /\ ~Holding(q, x) => next[x] = links.next[x]
  /\ InTurn(n, freed)
  /\ Waiting(n, freed, q)

LEMMA FreeTree ==
  ASSUME IInv, NEW n \in Node
  PROVE  /\ n \in Subtree(links, n) /\ Subtree(links, n) \subseteq Node
         /\ links.parent[n] \notin Subtree(links, n)
         /\ \A x \in Node : links.parent[x] \in Subtree(links, n) => x \in Subtree(links, n)
         /\ \A x \in Subtree(links, n) : x # n => links.parent[x] \in Subtree(links, n)
         /\ \A x \in Node : links.parent[x] # x
         /\ links \in Links /\ Consistent(links)
<1>1. links \in Links /\ Consistent(links) /\ NoCycle(links)
  BY DEF IInv, Good
<1>2. \A x \in Node : links.parent[x] \notin Subtree(links, x)
  BY <1>1, NullAssumption DEF NoCycle, Subtree
<1>3. \A x \in Node : x \in Subtree(links, x)
  BY <1>1, SubtreeClosed
<1>4. /\ \A x \in Node : links.parent[x] \in Subtree(links, n) => x \in Subtree(links, n)
      /\ \A x \in Subtree(links, n) : x # n => links.parent[x] \in Subtree(links, n)
  BY <1>1, SubtreeClosed
<1>5. Subtree(links, n) \subseteq Node
  BY DEF Subtree
<1>6. \A x \in Node : links.parent[x] # x
  BY <1>2, <1>3
<1> QED BY <1>1, <1>2, <1>3, <1>4, <1>5, <1>6

\* The list starts with n alone.
LEMMA FreeStart ==
  ASSUME IInv, NEW n \in Node
  PROVE  FreeInv(n, n, [Detach(links, n).next EXCEPT ![n] = NULL], <<>>, <<n>>)
<1> DEFINE D == Subtree(links, n)
           next == [Detach(links, n).next EXCEPT ![n] = NULL]
           q == <<n>>
           freed == <<>>
<1>1. /\ n \in D /\ D \subseteq Node /\ links.parent[n] \notin D
      /\ \A x \in D : x # n => links.parent[x] \in D
      /\ links \in Links /\ Consistent(links)
  BY FreeTree
<1>2. Detach(links, n).next = Put(links.next, links.prev[n], links.next[n])
  BY DEF Detach
<1>3. next \in [Node -> Ptr]
  BY <1>1, DetachType
<1>4. \A x \in D : x # n => x # links.prev[n]
  <2>1. links.prev[n] # NULL => links.parent[links.prev[n]] = links.parent[n]
    BY <1>1 DEF Consistent, PrevBack
  <2> QED BY <1>1, <2>1, NullAssumption
<1>5. \A x \in D : x # n => next[x] = links.next[x]
  <2> SUFFICES ASSUME NEW x \in D, x # n
               PROVE  next[x] = links.next[x]
    OBVIOUS
  <2>1. x \in Node /\ x # links.prev[n]
    BY <1>1, <1>4
  <2> HIDE DEF D
  <2>2. Put(links.next, links.prev[n], links.next[n])[x] = links.next[x]
    BY <1>1, <2>1 DEF Put
  <2>3. Put(links.next, links.prev[n], links.next[n]) \in [Node -> Ptr]
    BY <1>1 DEF Put
  <2> QED BY <1>2, <2>1, <2>2, <2>3
<1>6. next[n] = NULL
  BY <1>1, DetachType
<1>7. /\ q \in Seq(Node) /\ Len(q) = 1 /\ q[1] = n
      /\ freed \in Seq(Node) /\ Len(freed) = 0 /\ 1 .. 0 = {} /\ 1 .. 1 = {1}
  OBVIOUS
<1> HIDE DEF D, next, q, freed
<1>8. Listed(next, n, q)
  BY <1>6, <1>7 DEF Listed
<1>9. \A x : ~Holding(freed, x)
  BY <1>7 DEF Holding
<1>10. \A x : Holding(q, x) <=> x = n
  BY <1>7 DEF Holding
<1>11. \A x \in Node : Holding(q, x) <=> DueNow(n, freed, x)
  BY <1>1, <1>9, <1>10 DEF DueNow, D
<1>12. InTurn(n, freed) /\ Waiting(n, freed, q)
  BY <1>7 DEF InTurn, Waiting
<1>13. Distinct(freed) /\ Distinct(q) /\ \A i \in 1 .. Len(freed) : freed[i] \in D
  BY <1>7 DEF Distinct
<1>14. FreeInv(n, n, next, freed, q)
  BY <1>3, <1>5, <1>7, <1>8, <1>9, <1>10, <1>11, <1>12, <1>13 DEF FreeInv, D
<1> QED BY <1>14 DEF next, q, freed

LEMMA SplicedList ==
  ASSUME NEW c \in Seq(Node), NEW q \in Seq(Node), Len(q) > 0, Distinct(c), Distinct(q),
         \A x : ~(Holding(c, x) /\ Holding(q, x))
  PROVE  \E r : /\ r \in Seq(Node) /\ Distinct(r) /\ Len(r) = Len(c) + Len(q) - 1
                /\ \A j \in 1 .. Len(c) : r[j] = c[j]
                /\ \A j \in 2 .. Len(q) : r[Len(c) + j - 1] = q[j]
                /\ \A x : Holding(r, x) <=> Holding(c, x) \/ (Holding(q, x) /\ x # q[1])
<1> DEFINE w == Tail(q)
           r == c \o w
           m == Len(c)
           l == Len(q)
<1>1. m \in Nat /\ l \in Nat /\ l >= 1 /\ q # <<>>
  OBVIOUS
<1>2. w \in Seq(Node) /\ Len(w) = l - 1 /\ \A i \in 1 .. l - 1 : w[i] = q[i + 1]
  <2>1. w \in Seq(Node) /\ Len(w) = Len(q) - 1 /\ \A i \in 1 .. Len(w) : w[i] = q[i + 1]
    BY <1>1, HeadTailProperties
  <2> HIDE DEF w
  <2> QED BY <2>1
<1> HIDE DEF w
<1>3. /\ r \in Seq(Node) /\ Len(r) = m + (l - 1)
      /\ \A j \in 1 .. m + (l - 1) : r[j] = IF j <= m THEN c[j] ELSE w[j - m]
  <2>1. /\ c \o w \in Seq(Node) /\ Len(c \o w) = Len(c) + Len(w)
        /\ \A j \in 1 .. Len(c) + Len(w) : (c \o w)[j] = IF j <= Len(c) THEN c[j] ELSE w[j - Len(c)]
    BY <1>2, ConcatProperties
  <2> QED BY <1>2, <2>1
<1> HIDE DEF r
<1>4. \A j \in 1 .. m : r[j] = c[j]
  BY <1>1, <1>3
<1>5. ASSUME NEW j \in 2 .. l
      PROVE  m + j - 1 \in 1 .. m + (l - 1) /\ r[m + j - 1] = q[j]
  <2>1. m + j - 1 \in 1 .. m + (l - 1) /\ ~(m + j - 1 <= m) /\ m + j - 1 - m = j - 1
        /\ j - 1 \in 1 .. l - 1 /\ j - 1 + 1 = j
    BY <1>1
  <2>2. r[m + j - 1] = w[j - 1]
    BY <1>3, <2>1
  <2> QED BY <1>2, <2>1, <2>2
<1>6. ASSUME NEW i \in 1 .. m + (l - 1)
      PROVE  \/ i \in 1 .. m /\ r[i] = c[i]
             \/ i - m + 1 \in 2 .. l /\ r[i] = q[i - m + 1]
  <2>1. CASE i <= m
    BY <1>1, <1>4, <2>1
  <2>2. CASE ~(i <= m)
    <3>1. i - m + 1 \in 2 .. l /\ m + (i - m + 1) - 1 = i
      BY <1>1, <2>2
    <3>2. r[m + (i - m + 1) - 1] = q[i - m + 1]
      BY <1>5, <3>1
    <3> QED BY <3>1, <3>2
  <2> QED BY <2>1, <2>2
<1>7. /\ \A i \in 1 .. m : Holding(c, c[i])
      /\ \A i \in 1 .. l : Holding(q, q[i])
  BY DEF Holding
<1>8. /\ \A i, k \in 1 .. m : c[i] = c[k] => i = k
      /\ \A i, k \in 1 .. l : q[i] = q[k] => i = k
  BY DEF Distinct
<1>9. Len(r) = m + (l - 1)
  BY <1>3
<1> HIDE DEF m, l
<1>10. ASSUME NEW i \in 1 .. m + (l - 1), NEW k \in 1 .. m + (l - 1), r[i] = r[k]
       PROVE  i = k
  <2>0. i \in Nat /\ k \in Nat
    BY <1>1
  <2>1. CASE i \in 1 .. m /\ r[i] = c[i]
    <3>1. CASE k \in 1 .. m /\ r[k] = c[k]
      BY <1>8, <1>10, <2>1, <3>1
    <3>2. CASE k - m + 1 \in 2 .. l /\ r[k] = q[k - m + 1]
      <4>1. k - m + 1 \in 1 .. l
        BY <1>1, <3>2
      <4> QED BY <1>7, <1>10, <2>1, <3>2, <4>1
    <3> QED BY <1>6, <3>1, <3>2
  <2>2. CASE i - m + 1 \in 2 .. l /\ r[i] = q[i - m + 1]
    <3>0. i - m + 1 \in 1 .. l
      BY <1>1, <2>2
    <3>1. CASE k \in 1 .. m /\ r[k] = c[k]
      BY <1>7, <1>10, <2>2, <3>0, <3>1
    <3>2. CASE k - m + 1 \in 2 .. l /\ r[k] = q[k - m + 1]
      <4>1. k - m + 1 \in 1 .. l
        BY <1>1, <3>2
      <4>2. i - m + 1 = k - m + 1
        BY <1>8, <1>10, <2>2, <3>0, <3>2, <4>1
      <4> QED BY <1>1, <2>0, <4>2
    <3> QED BY <1>6, <3>1, <3>2
  <2> QED BY <1>6, <2>1, <2>2
<1>11. ASSUME NEW x, Holding(r, x)
       PROVE  Holding(c, x) \/ (Holding(q, x) /\ x # q[1])
  <2>1. PICK i \in 1 .. m + (l - 1) : r[i] = x
    BY <1>9, <1>11 DEF Holding
  <2>2. CASE i - m + 1 \in 2 .. l /\ r[i] = q[i - m + 1]
    <3>1. i - m + 1 \in 1 .. l /\ i - m + 1 # 1 /\ 1 \in 1 .. l
      BY <1>1, <2>2
    <3>2. q[i - m + 1] # q[1]
      BY <1>8, <3>1
    <3> QED BY <1>7, <2>1, <2>2, <3>1, <3>2
  <2> QED BY <1>6, <1>7, <2>1, <2>2
<1>12. ASSUME NEW x, Holding(c, x)
       PROVE  Holding(r, x)
  <2>1. PICK i \in 1 .. m : c[i] = x
    BY <1>12 DEF Holding, m
  <2>2. i \in 1 .. m + (l - 1)
    BY <1>1
  <2> QED BY <1>4, <1>9, <2>1, <2>2 DEF Holding
<1>13. ASSUME NEW x, Holding(q, x), x # q[1]
       PROVE  Holding(r, x)
  <2>1. PICK i \in 1 .. l : q[i] = x
    BY <1>13 DEF Holding, l
  <2>2. i \in 2 .. l
    BY <1>1, <1>13, <2>1
  <2> QED BY <1>5, <1>9, <2>1, <2>2 DEF Holding
<1>14. Distinct(r)
  BY <1>9, <1>10 DEF Distinct
<1>15. Len(r) = m + l - 1
  BY <1>1, <1>9
<1>16. \A j \in 2 .. l : r[m + j - 1] = q[j]
  BY <1>5
<1>17. \A x : Holding(r, x) <=> Holding(c, x) \/ (Holding(q, x) /\ x # q[1])
  BY <1>11, <1>12, <1>13
<1>18. r \in Seq(Node)
  BY <1>3
<1> QED BY <1>4, <1>14, <1>15, <1>16, <1>17, <1>18 DEF m, l

LEMMA FreedNext ==
  ASSUME NEW freed \in Seq(Node), NEW e \in Node, Distinct(freed), ~Holding(freed, e)
  PROVE  /\ Append(freed, e) \in Seq(Node) /\ Distinct(Append(freed, e))
         /\ Len(Append(freed, e)) = Len(freed) + 1 /\ Len(freed) \in Nat
         /\ \A i \in 1 .. Len(freed) : Append(freed, e)[i] = freed[i]
         /\ Append(freed, e)[Len(freed) + 1] = e
         /\ \A x : Holding(Append(freed, e), x) <=> Holding(freed, x) \/ x = e
<1> DEFINE g == Append(freed, e)
           m == Len(freed)
<1>1. /\ g \in Seq(Node) /\ Len(g) = m + 1 /\ m \in Nat
      /\ \A i \in 1 .. m : g[i] = freed[i]
      /\ g[m + 1] = e
  BY AppendProperties
<1> HIDE DEF g
<1>2. \A i \in 1 .. m + 1 : i \in 1 .. m \/ i = m + 1
  BY <1>1
<1>3. \A i \in 1 .. m : freed[i] # e
  BY DEF Holding
<1>4. \A i, j \in 1 .. m : freed[i] = freed[j] => i = j
  BY DEF Distinct
<1>5. Distinct(g)
  BY <1>1, <1>2, <1>3, <1>4 DEF Distinct
<1>6. ASSUME NEW x
      PROVE  Holding(g, x) <=> Holding(freed, x) \/ x = e
  <2>1. \A i \in 1 .. m : i \in 1 .. m + 1
    BY <1>1
  <2>2. m + 1 \in 1 .. m + 1
    BY <1>1
  <2>3. Holding(g, x) => Holding(freed, x) \/ x = e
    BY <1>1, <1>2 DEF Holding
  <2>4. Holding(freed, x) => Holding(g, x)
    BY <1>1, <2>1 DEF Holding
  <2>5. x = e => Holding(g, x)
    BY <1>1, <2>2 DEF Holding
  <2> QED BY <2>3, <2>4, <2>5
<1> QED BY <1>1, <1>5, <1>6 DEF g

LEMMA FreeStep ==
  ASSUME IInv, NEW n \in Node, NEW f, Kids(links, f),
         NEW e, e # NULL, NEW next, NEW freed, NEW q, FreeInv(n, e, next, freed, q)
  PROVE  /\ e \in Node /\ ~Holding(freed, e)
         /\ \E r : FreeInv(n, Spliced(next, e)[e], Spliced(next, e), Append(freed, e), r)
<1> DEFINE D == Subtree(links, n)
           c == f[e]
           m == Len(c)
           l == Len(q)
           new == Spliced(next, e)
           gone == Append(freed, e)
<1>1. /\ n \in D /\ D \subseteq Node /\ links.parent[n] \notin D
      /\ \A x \in Node : links.parent[x] \in D => x \in D
      /\ \A x \in Node : links.parent[x] # x
      /\ links \in Links
  BY FreeTree
<1>2. /\ next \in [Node -> Ptr]
      /\ freed \in Seq(Node) /\ Distinct(freed) /\ \A i \in 1 .. Len(freed) : freed[i] \in D
      /\ q \in Seq(Node) /\ Distinct(q)
      /\ e = IF l = 0 THEN NULL ELSE q[1]
      /\ \A j \in 1 .. l : next[q[j]] = IF j = l THEN NULL ELSE q[j + 1]
      /\ \A x \in Node : Holding(q, x) <=> DueNow(n, freed, x)
      /\ \A x \in D : ~Holding(freed, x) /\ ~Holding(q, x) => next[x] = links.next[x]
      /\ InTurn(n, freed)
      /\ Waiting(n, freed, q)
  BY DEF FreeInv, Listed
<1>3. l \in Nat /\ l >= 1 /\ e = q[1] /\ 1 \in 1 .. l /\ l > 0
  BY <1>2
<1>4. e \in Node /\ Holding(q, e)
  <2>1. q[1] \in Node
    BY <1>2, <1>3, ElementOfSeq
  <2> QED BY <1>3, <2>1 DEF Holding
<1>5. e \in D /\ ~Holding(freed, e) /\ (e = n \/ Holding(freed, links.parent[e]))
  BY <1>2, <1>4 DEF DueNow
<1>6. Kin(links, e, c)
  BY <1>4 DEF Kids
<1>7. c \in Seq(Node) /\ m \in Nat /\ Distinct(c) /\ \A j \in 1 .. m : c[j] \in Node
  BY <1>6, KinType DEF Kin
<1>8. /\ links.first[e] = IF m = 0 THEN NULL ELSE c[1]
      /\ links.last[e]  = IF m = 0 THEN NULL ELSE c[m]
      /\ \A j \in 1 .. m : /\ links.parent[c[j]] = e
                           /\ links.prev[c[j]] = IF j = 1 THEN NULL ELSE c[j - 1]
                           /\ links.next[c[j]] = IF j = m THEN NULL ELSE c[j + 1]
  BY <1>6 DEF Kin
<1>9. \A x \in Node : links.parent[x] = e => Holding(c, x)
  BY <1>6 DEF Kin, Holding
<1> HIDE DEF D, c, m, l
<1>10. ASSUME NEW x \in Node, links.parent[x] = e
       PROVE  x \in D /\ x # n /\ x # e /\ ~Holding(freed, x) /\ ~Holding(q, x)
  <2>1. x \in D /\ x # n /\ x # e
    BY <1>1, <1>5, <1>10
  <2>2. ~Holding(freed, x)
    <3> SUFFICES ASSUME NEW i \in 1 .. Len(freed), freed[i] = x
                 PROVE  FALSE
      BY DEF Holding
    <3>1. PICK h \in 1 .. i - 1 : freed[h] = e
      BY <1>2, <1>10, <2>1 DEF InTurn
    <3>2. h \in 1 .. Len(freed)
      BY <1>2
    <3> QED BY <1>5, <3>1, <3>2 DEF Holding
  <2>3. ~Holding(q, x)
    BY <1>2, <1>5, <1>10, <2>1 DEF DueNow
  <2> QED BY <2>1, <2>2, <2>3
<1>11. \A j \in 1 .. m : /\ c[j] \in Node /\ c[j] \in D /\ c[j] # e
                         /\ ~Holding(freed, c[j]) /\ ~Holding(q, c[j])
  BY <1>7, <1>8, <1>10
<1>12. \A x : Holding(c, x) => x \in Node /\ links.parent[x] = e
  BY <1>7, <1>8 DEF Holding, m
<1>13. \A x : ~(Holding(c, x) /\ Holding(q, x))
  BY <1>10, <1>12
<1>14. PICK r : /\ r \in Seq(Node) /\ Distinct(r) /\ Len(r) = m + l - 1
                /\ \A j \in 1 .. m : r[j] = c[j]
                /\ \A j \in 2 .. l : r[m + j - 1] = q[j]
                /\ \A x : Holding(r, x) <=> Holding(c, x) \/ (Holding(q, x) /\ x # e)
  <2>1. \E r : /\ r \in Seq(Node) /\ Distinct(r) /\ Len(r) = Len(c) + Len(q) - 1
               /\ \A j \in 1 .. Len(c) : r[j] = c[j]
               /\ \A j \in 2 .. Len(q) : r[Len(c) + j - 1] = q[j]
               /\ \A x : Holding(r, x) <=> Holding(c, x) \/ (Holding(q, x) /\ x # q[1])
    <3>1. Len(q) > 0
      BY <1>3 DEF l
    <3>2. c \in Seq(Node) /\ q \in Seq(Node) /\ Distinct(c) /\ Distinct(q)
      BY <1>2, <1>7
    <3> QED BY <1>13, <3>1, <3>2, SplicedList
  <2>2. m = Len(c) /\ l = Len(q) /\ e = q[1]
    BY <1>3 DEF m, l
  <2> QED BY <2>1, <2>2
<1>15. \A x \in Node : new[x] = IF m = 0 THEN next[x] ELSE IF x = e THEN c[1]
                                ELSE IF x = c[m] THEN next[e] ELSE next[x]
  <2>1. CASE m = 0
    BY <1>8, <2>1 DEF Spliced
  <2>2. CASE m # 0
    <3>1. m \in 1 .. m
      BY <1>7, <2>2
    <3>2. links.last[e] = c[m] /\ links.first[e] = c[1] /\ c[m] \in Node /\ c[m] # NULL /\ c[m] # e
      BY <1>8, <1>11, <2>2, <3>1, NullAssumption
    <3>3. new = [next EXCEPT ![c[m]] = next[e], ![e] = c[1]]
      BY <3>2 DEF Spliced
    <3> HIDE DEF new
    <3> QED BY <1>2, <1>4, <2>2, <3>2, <3>3
  <2> QED BY <2>1, <2>2
<1>16. new \in [Node -> Ptr]
  <2>1. links.first[e] \in Ptr
    BY <1>1, <1>4
  <2>2. next[e] \in Ptr
    BY <1>2, <1>4
  <2> QED BY <1>2, <2>1, <2>2 DEF Spliced
<1>17. next[e] = IF l = 1 THEN NULL ELSE q[2]
  BY <1>2, <1>3
<1>18. \A i, j \in 1 .. m : c[i] = c[j] => i = j
  BY <1>7 DEF Distinct, m
<1>19. \A i, j \in 1 .. l : q[i] = q[j] => i = j
  BY <1>2 DEF Distinct, l
<1>20. \A j \in 1 .. l : q[j] \in Node /\ Holding(q, q[j])
  BY <1>2, ElementOfSeq DEF Holding, l
<1>21. \A j \in 1 .. m + l - 1 : j \in 1 .. m \/ j - m + 1 \in 2 .. l
  BY <1>3, <1>7
<1>22. \A j \in 1 .. m + l - 1 : j - m + 1 \in 2 .. l => r[j] = q[j - m + 1]
  <2> SUFFICES ASSUME NEW j \in 1 .. m + l - 1, j - m + 1 \in 2 .. l
               PROVE  r[j] = q[j - m + 1]
    OBVIOUS
  <2>1. m + (j - m + 1) - 1 = j
    BY <1>7
  <2>2. r[m + (j - m + 1) - 1] = q[j - m + 1]
    BY <1>14
  <2> QED BY <2>1, <2>2
<1> HIDE DEF new, gone
<1>23. Listed(new, new[e], r)
  <2>1. new[e] = IF Len(r) = 0 THEN NULL ELSE r[1]
    <3>1. CASE m = 0
      <4>1. (Len(r) = 0 <=> l = 1) /\ (l # 1 => 2 \in 2 .. l /\ m + 2 - 1 = 1)
        BY <1>3, <1>14, <3>1
      <4>2. l # 1 => r[m + 2 - 1] = q[2]
        BY <1>14, <4>1
      <4>3. new[e] = next[e]
        BY <1>4, <1>15, <3>1
      <4> QED BY <1>17, <4>1, <4>2, <4>3
    <3>2. CASE m # 0
      <4>1. Len(r) # 0 /\ 1 \in 1 .. m
        BY <1>3, <1>7, <1>14, <3>2
      <4>2. r[1] = c[1]
        BY <1>14, <4>1
      <4> QED BY <1>4, <1>15, <3>2, <4>1, <4>2
    <3> QED BY <3>1, <3>2
  <2>2. ASSUME NEW j \in 1 .. m + l - 1
        PROVE  new[r[j]] = IF j = m + l - 1 THEN NULL ELSE r[j + 1]
    <3>1. CASE j \in 1 .. m /\ j # m
      <4>1. j + 1 \in 1 .. m /\ j # m + l - 1 /\ m \in 1 .. m /\ m # 0
        BY <1>3, <1>7, <3>1
      <4>2. r[j] = c[j] /\ r[j + 1] = c[j + 1] /\ c[j] \in Node /\ c[j] # e /\ c[j] # c[m]
        BY <1>11, <1>14, <1>18, <3>1, <4>1
      <4>3. new[c[j]] = next[c[j]]
        BY <1>15, <4>1, <4>2
      <4>4. next[c[j]] = links.next[c[j]]
        BY <1>2, <1>11, <3>1
      <4>5. links.next[c[j]] = c[j + 1]
        BY <1>8, <3>1
      <4> QED BY <4>1, <4>2, <4>3, <4>4, <4>5
    <3>2. CASE j = m
      <4>1. m # 0 /\ m \in 1 .. m /\ (m = m + l - 1 <=> l = 1) /\ (l # 1 => 2 \in 2 .. l /\ m + 2 - 1 = m + 1)
        BY <1>3, <1>7, <3>2
      <4>2. r[m] = c[m] /\ c[m] \in Node /\ c[m] # e
        BY <1>11, <1>14, <4>1
      <4>3. new[c[m]] = next[e]
        BY <1>15, <4>1, <4>2
      <4>4. l # 1 => r[m + 1] = q[2]
        BY <1>14, <4>1
      <4> QED BY <1>17, <3>2, <4>1, <4>2, <4>3, <4>4
    <3>3. CASE j - m + 1 \in 2 .. l
      <4> DEFINE h == j - m + 1
      <4>1. h \in 1 .. l /\ h # 1 /\ 1 \in 1 .. l /\ (j = m + l - 1 <=> h = l)
        BY <1>3, <1>7, <3>3
      <4>2. r[j] = q[h]
        BY <1>22, <3>3
      <4>3. h # l => r[j + 1] = q[h + 1]
        <5>1. h # l => j + 1 \in 1 .. m + l - 1 /\ j + 1 - m + 1 \in 2 .. l /\ j + 1 - m + 1 = h + 1
          BY <1>3, <1>7, <3>3
        <5> HIDE DEF h
        <5>4. PICK i : i = j + 1
          OBVIOUS
        <5>2. h # l => i \in 1 .. m + l - 1 /\ i - m + 1 \in 2 .. l /\ i - m + 1 = h + 1
          BY <1>3, <1>7, <5>1, <5>4
        <5>3. h # l => r[i] = q[h + 1]
          BY <1>22, <5>2
        <5> QED BY <5>3, <5>4
      <4> HIDE DEF h
      <4>4. q[h] \in Node /\ q[h] # e /\ (m # 0 => q[h] # c[m])
        <5>1. q[h] # q[1]
          BY <1>19, <4>1
        <5>2. m # 0 => m \in 1 .. m
          BY <1>7
        <5> QED BY <1>3, <1>11, <1>20, <4>1, <5>1, <5>2
      <4>5. new[q[h]] = next[q[h]]
        BY <1>15, <4>4
      <4> QED BY <1>2, <4>1, <4>2, <4>3, <4>5
    <3> QED BY <1>21, <3>1, <3>2, <3>3
  <2> QED BY <1>14, <2>1, <2>2 DEF Listed
<1>24. /\ gone \in Seq(Node) /\ Distinct(gone) /\ Len(gone) = Len(freed) + 1 /\ Len(freed) \in Nat
       /\ \A i \in 1 .. Len(freed) : gone[i] = freed[i]
       /\ gone[Len(freed) + 1] = e
       /\ \A x : Holding(gone, x) <=> Holding(freed, x) \/ x = e
  BY <1>2, <1>4, <1>5, FreedNext DEF gone
<1>25. \A i \in 1 .. Len(gone) : i \in 1 .. Len(freed) \/ i = Len(freed) + 1
  BY <1>24
<1>26. \A i \in 1 .. Len(gone) : gone[i] \in D
  BY <1>2, <1>5, <1>24, <1>25
<1>27. ASSUME NEW x \in Node
       PROVE  Holding(r, x) <=> DueNow(n, gone, x)
  <2>1. Holding(r, x) <=> links.parent[x] = e \/ (DueNow(n, freed, x) /\ x # e)
    BY <1>2, <1>9, <1>12, <1>14
  <2>2. links.parent[x] = e => DueNow(n, gone, x)
    BY <1>10, <1>24 DEF DueNow, D
  <2>3. DueNow(n, freed, x) /\ x # e => DueNow(n, gone, x)
    BY <1>24 DEF DueNow
  <2>4. DueNow(n, gone, x) => links.parent[x] = e \/ (DueNow(n, freed, x) /\ x # e)
    BY <1>24 DEF DueNow
  <2> QED BY <2>1, <2>2, <2>3, <2>4
<1>28. ASSUME NEW x \in D, ~Holding(gone, x), ~Holding(r, x)
       PROVE  new[x] = links.next[x]
  <2>1. x \in Node /\ x # e /\ ~Holding(freed, x) /\ ~Holding(c, x) /\ ~Holding(q, x)
    BY <1>1, <1>14, <1>24, <1>28
  <2>2. m # 0 => x # c[m]
    <3>1. m # 0 => m \in 1 .. m
      BY <1>7
    <3> QED BY <2>1, <3>1 DEF Holding, m
  <2> QED BY <1>2, <1>15, <2>1, <2>2
<1>29. InTurn(n, gone)
  <2> SUFFICES ASSUME NEW i \in 1 .. Len(gone), gone[i] # n
               PROVE  /\ \E h \in 1 .. i - 1 : gone[h] = links.parent[gone[i]]
                      /\ links.prev[gone[i]] # NULL =>
                           \E h \in 1 .. i - 1 : gone[h] = links.prev[gone[i]]
    BY DEF InTurn
  <2>1. CASE i \in 1 .. Len(freed)
    <3>1. gone[i] = freed[i] /\ \A h \in 1 .. i - 1 : gone[h] = freed[h]
      BY <1>24, <2>1
    <3> QED BY <1>2, <2>1, <3>1 DEF InTurn
  <2>2. CASE i = Len(freed) + 1
    <3>1. gone[i] = e /\ i - 1 = Len(freed) /\ \A h \in 1 .. Len(freed) : gone[h] = freed[h]
      BY <1>24, <2>2
    <3>2. Holding(freed, links.parent[e])
      BY <1>5, <3>1
    <3>3. links.prev[e] # NULL => Holding(freed, links.prev[e])
      <4>1. 1 .. 1 - 1 = {}
        OBVIOUS
      <4> QED BY <1>2, <1>3, <3>1, <4>1 DEF Waiting, l
    <3> QED BY <3>1, <3>2, <3>3 DEF Holding
  <2> QED BY <1>25, <2>1, <2>2
<1>30. Waiting(n, gone, r)
  <2> SUFFICES ASSUME NEW j \in 1 .. m + l - 1, r[j] # n, links.prev[r[j]] # NULL
               PROVE  \/ Holding(gone, links.prev[r[j]])
                      \/ \E h \in 1 .. j - 1 : r[h] = links.prev[r[j]]
    BY <1>14 DEF Waiting
  <2>1. CASE j \in 1 .. m
    <3>1. r[j] = c[j]
      BY <1>14, <2>1
    <3>2. j # 1 /\ links.prev[r[j]] = c[j - 1]
      BY <1>8, <2>1, <3>1
    <3>3. j - 1 \in 1 .. m /\ j - 1 \in 1 .. j - 1
      BY <1>7, <2>1, <3>2
    <3>4. r[j - 1] = c[j - 1]
      BY <1>14, <3>3
    <3> QED BY <3>2, <3>3, <3>4
  <2>2. CASE j - m + 1 \in 2 .. l
    <3> DEFINE h == j - m + 1
    <3>1. r[j] = q[h] /\ h \in 1 .. l
      BY <1>22, <2>2
    <3> HIDE DEF h
    <3>2. \/ Holding(freed, links.prev[q[h]])
          \/ \E g \in 1 .. h - 1 : q[g] = links.prev[q[h]]
      BY <1>2, <3>1 DEF Waiting, l
    <3>3. ASSUME NEW g \in 1 .. h - 1, q[g] = links.prev[q[h]]
          PROVE  \/ Holding(gone, links.prev[r[j]])
                 \/ \E k \in 1 .. j - 1 : r[k] = links.prev[r[j]]
      <4>1. CASE g = 1
        BY <1>3, <1>24, <3>1, <3>3, <4>1
      <4>2. CASE g # 1
        <5>1. g \in 2 .. l /\ m + g - 1 \in 1 .. j - 1
          BY <1>3, <1>7, <2>2, <4>2 DEF h
        <5>2. r[m + g - 1] = q[g]
          BY <1>14, <5>1
        <5> QED BY <3>1, <3>3, <5>1, <5>2
      <4> QED BY <4>1, <4>2
    <3> QED BY <1>24, <3>1, <3>2, <3>3
  <2> QED BY <1>21, <2>1, <2>2
<1>31. FreeInv(n, new[e], new, gone, r)
  BY <1>14, <1>16, <1>23, <1>24, <1>26, <1>27, <1>28, <1>29, <1>30 DEF FreeInv, D
<1> QED BY <1>4, <1>5, <1>31 DEF new, gone

Turning(u, n, k) == \A i \in 0 .. k :
  u[i] = IF i = 0 THEN FreeList(n)
         ELSE IF u[i - 1].e = NULL THEN u[i - 1] ELSE FreeTurn(u[i - 1])

LEMMA LoopIs ==
  ASSUME NEW n
  PROVE  \E u : Turning(u, n, Cardinality(Node)) /\ FreeLoop(n) = u[Cardinality(Node)]
<1> DEFINE N == Cardinality(Node)
           Turned(s) == IF s.e = NULL THEN s ELSE FreeTurn(s)
           First == FreeList(n)
           Ran(k, u) == u = [i \in 0 .. k |-> IF i = 0 THEN FreeList(n)
                                              ELSE IF u[i - 1].e = NULL THEN u[i - 1]
                                              ELSE FreeTurn(u[i - 1])]
           Fits(k, u) == u = [i \in 0 .. k |-> IF i = 0 THEN First ELSE Turned(u[i - 1])]
           Bad == {k \in Nat : ~ \E u : Fits(k, u)}
<1>1. N \in Nat
  BY NodeAssumption, FS_CardinalityType
<1>2. FreeLoop(n) = (CHOOSE u : Ran(N, u))[N]
  BY DEF FreeLoop
<1>3. \A k, u : Ran(k, u) <=> Fits(k, u)
  OBVIOUS
<1> HIDE DEF Turned, First, Ran
<1>4. ASSUME Bad # {}
      PROVE  FALSE
  <2>1. PICK k \in Bad : \A j \in Bad : k <= j
    <3>1. Bad \subseteq Nat
      OBVIOUS
    <3> HIDE DEF Bad
    <3> QED BY <1>4, <3>1, Least
  <2>2. k \in Nat
    OBVIOUS
  <2>3. CASE k = 0
    <3> DEFINE g == [i \in 0 .. 0 |-> First]
    <3>1. Fits(0, g)
      <4>1. \A i \in 0 .. 0 : i = 0
        OBVIOUS
      <4> QED BY <4>1
    <3> QED BY <2>1, <2>3, <3>1
  <2>4. CASE k # 0
    <3>1. k - 1 \in Nat /\ k - 1 \notin Bad
      <4>1. k - 1 \in Nat /\ ~(k <= k - 1)
        BY <2>2, <2>4
      <4> HIDE DEF Bad
      <4> QED BY <2>1, <4>1
    <3>2. PICK f : Fits(k - 1, f)
      BY <3>1
    <3> DEFINE g == [i \in 0 .. k |-> IF i = 0 THEN First ELSE Turned(f[i - 1])]
    <3>3. \A i \in 0 .. k - 1 : g[i] = f[i]
      BY <2>2, <3>1, <3>2
    <3>4. \A i \in 0 .. k : i # 0 => i - 1 \in 0 .. k - 1
      BY <2>2
    <3>5. Fits(k, g)
      <4> SUFFICES ASSUME NEW i \in 0 .. k
                   PROVE  (IF i = 0 THEN First ELSE Turned(f[i - 1]))
                            = (IF i = 0 THEN First ELSE Turned(g[i - 1]))
        OBVIOUS
      <4> QED BY <3>3, <3>4
    <3> QED BY <2>1, <3>5
  <2> QED BY <2>3, <2>4
<1>5. \E u : Fits(N, u)
  <2> HIDE DEF N, Fits
  <2> QED BY <1>1, <1>4
<1> HIDE DEF N, Fits
<1>6. PICK u : u = CHOOSE v : Ran(N, v)
  OBVIOUS
<1>7. Fits(N, u)
  BY <1>3, <1>5, <1>6
<1>8. Turning(u, n, N)
  BY <1>7 DEF Fits, Turned, First, Turning
<1> QED BY <1>2, <1>6, <1>8 DEF N

LEMMA LoopKeeps ==
  ASSUME IInv, NEW n \in Node, NEW f, Kids(links, f), NEW u, NEW N \in Nat, Turning(u, n, N)
  PROVE  \A i \in 0 .. N :
           /\ \E q : FreeInv(n, u[i].e, u[i].next, u[i].freed, q)
           /\ u[i].e # NULL => Len(u[i].freed) = i
<1> DEFINE Ok(i) == /\ \E q : FreeInv(n, u[i].e, u[i].next, u[i].freed, q)
                    /\ u[i].e # NULL => Len(u[i].freed) = i
           Bad == {i \in 0 .. N : ~Ok(i)}
<1> SUFFICES ASSUME Bad # {}
             PROVE  FALSE
  OBVIOUS
<1>1. PICK k \in Bad : \A j \in Bad : k <= j
  <2>1. Bad \subseteq Nat
    OBVIOUS
  <2> HIDE DEF Bad
  <2> QED BY <2>1, Least
<1>2. k \in Nat /\ k \in 0 .. N /\ ~Ok(k)
  OBVIOUS
<1>3. u[k] = IF k = 0 THEN FreeList(n)
             ELSE IF u[k - 1].e = NULL THEN u[k - 1] ELSE FreeTurn(u[k - 1])
  BY <1>2 DEF Turning
<1>4. CASE k = 0
  <2>1. u[k].e = n /\ u[k].freed = <<>>
        /\ u[k].next = [Detach(links, n).next EXCEPT ![n] = NULL]
    BY <1>3, <1>4 DEF FreeList
  <2>2. FreeInv(n, n, [Detach(links, n).next EXCEPT ![n] = NULL], <<>>, <<n>>)
    BY FreeStart
  <2>3. \E q : FreeInv(n, u[k].e, u[k].next, u[k].freed, q)
    BY <2>1, <2>2
  <2>4. Len(u[k].freed) = k
    BY <1>4, <2>1
  <2> QED BY <1>2, <2>3, <2>4
<1>5. CASE k # 0
  <2>1. k - 1 \in 0 .. N /\ ~(k <= k - 1) /\ k - 1 + 1 = k
    BY <1>2, <1>5
  <2>2. Ok(k - 1)
    <3>1. k - 1 \notin Bad
      <4> HIDE DEF Bad
      <4> QED BY <1>1, <2>1
    <3> QED BY <2>1, <3>1
  <2> DEFINE s == u[k - 1]
  <2>3. u[k] = IF s.e = NULL THEN s ELSE FreeTurn(s)
    BY <1>3, <1>5
  <2>4. /\ \E q : FreeInv(n, s.e, s.next, s.freed, q)
        /\ s.e # NULL => Len(s.freed) = k - 1
    BY <2>2
  <2> HIDE DEF Bad, s
  <2>5. CASE s.e = NULL
    <3>1. u[k] = s
      BY <2>3, <2>5
    <3> QED BY <1>2, <2>4, <2>5, <3>1
  <2>6. CASE s.e # NULL
    <3> DEFINE e == s.e
               next == s.next
               freed == s.freed
    <3>1. /\ u[k].e = Spliced(next, e)[e] /\ u[k].next = Spliced(next, e)
          /\ u[k].freed = Append(freed, e)
      BY <2>3, <2>6 DEF FreeTurn
    <3>2. PICK q : FreeInv(n, e, next, freed, q)
      BY <2>4
    <3> HIDE DEF e, next, freed
    <3>3. e # NULL
      BY <2>6 DEF e
    <3>4. /\ e \in Node
          /\ \E r : FreeInv(n, Spliced(next, e)[e], Spliced(next, e), Append(freed, e), r)
      BY <3>2, <3>3, FreeStep
    <3>5. \E r : FreeInv(n, u[k].e, u[k].next, u[k].freed, r)
      BY <3>1, <3>4
    <3>6. freed \in Seq(Node)
      BY <3>2 DEF FreeInv
    <3>7. Len(Append(freed, e)) = Len(freed) + 1
      BY <3>4, <3>6, AppendProperties
    <3>8. Len(freed) = k - 1
      BY <2>4, <2>6 DEF freed
    <3>9. Len(u[k].freed) = k
      BY <2>1, <3>1, <3>7, <3>8
    <3> QED BY <1>2, <3>5, <3>9
  <2> QED BY <2>5, <2>6
<1> QED BY <1>4, <1>5

\* The loop ends, since it would free more nodes than there are.
LEMMA FreesAll ==
  ASSUME IInv, NEW n \in Node, NEW f, Kids(links, f)
  PROVE  /\ FreeLoop(n).e = NULL
         /\ \E q : FreeInv(n, NULL, FreeLoop(n).next, FreeLoop(n).freed, q)
<1> DEFINE N == Cardinality(Node)
           s == FreeLoop(n)
<1>1. N \in Nat
  BY NodeAssumption, FS_CardinalityType
<1>2. PICK u : Turning(u, n, N) /\ s = u[N]
  BY LoopIs
<1>3. /\ \E q : FreeInv(n, s.e, s.next, s.freed, q)
      /\ s.e # NULL => Len(s.freed) = N
  <2>1. N \in 0 .. N
    BY <1>1
  <2> HIDE DEF N, s
  <2> QED BY <1>1, <1>2, <2>1, LoopKeeps
<1> HIDE DEF s
<1>4. PICK q : FreeInv(n, s.e, s.next, s.freed, q)
  BY <1>3
<1>5. ASSUME s.e # NULL
      PROVE  FALSE
  <2> DEFINE e == s.e
             next == s.next
             freed == s.freed
             g == Append(freed, e)
  <2>1. FreeInv(n, e, next, freed, q) /\ e # NULL
    BY <1>4, <1>5
  <2>2. Len(freed) = N
    BY <1>3, <1>5
  <2> HIDE DEF e, next, freed, N
  <2>3. e \in Node /\ ~Holding(freed, e)
    BY <2>1, FreeStep
  <2>4. freed \in Seq(Node) /\ Distinct(freed)
    BY <2>1 DEF FreeInv
  <2>5. g \in Seq(Node) /\ Distinct(g) /\ Len(g) = N + 1
    BY <2>2, <2>3, <2>4, FreedNext
  <2> HIDE DEF g
  <2>6. g \in Injection(1 .. N + 1, Node)
    <3>1. g \in [1 .. N + 1 -> Node]
      BY <2>5
    <3>2. \A i, j \in 1 .. N + 1 : g[i] = g[j] => i = j
      BY <2>5 DEF Distinct
    <3> QED BY <3>1, <3>2 DEF Injection, IsInjective
  <2>7. Cardinality(1 .. N + 1) <= N
    BY <2>6, NodeAssumption, FS_Injection DEF N
  <2>8. PICK M : M = N + 1
    OBVIOUS
  <2>9. M \in Int /\ 1 \in Int /\ M > N /\ ~(1 > M)
    BY <1>1, <2>8
  <2>10. Cardinality(1 .. M) = M - 1 + 1
    BY <2>9, FS_Interval
  <2> QED BY <1>1, <2>7, <2>8, <2>9, <2>10
<1> QED BY <1>4, <1>5 DEF s

LEMMA FreesOnce ==
  ASSUME IInv, NEW n \in Node, NEW f, Kids(links, f)
  PROVE  LET loop == FreeLoop(n)
             At(m) == CHOOSE i \in DOMAIN loop.freed : loop.freed[i] = m
         IN  /\ loop.e = NULL
             /\ ToSet(loop.freed) = Subtree(links, n)
             /\ Len(loop.freed) = Cardinality(Subtree(links, n))
             /\ \A m \in Subtree(links, n) \ {n} :
                  /\ At(links.parent[m]) < At(m)
                  /\ links.prev[m] # NULL => At(links.prev[m]) < At(m)
<1> DEFINE D == Subtree(links, n)
           freed == FreeLoop(n).freed
           l == Len(freed)
           At(m) == CHOOSE i \in DOMAIN freed : freed[i] = m
<1>1. PICK q : FreeInv(n, NULL, FreeLoop(n).next, freed, q)
  BY FreesAll
<1>2. FreeLoop(n).e = NULL
  BY FreesAll
<1> HIDE DEF freed
<1>3. /\ freed \in Seq(Node) /\ Distinct(freed) /\ (\A i \in 1 .. l : freed[i] \in D)
      /\ q \in Seq(Node)
      /\ NULL = IF Len(q) = 0 THEN NULL ELSE q[1]
      /\ \A x \in Node : Holding(q, x) <=> DueNow(n, freed, x)
      /\ InTurn(n, freed)
  BY <1>1 DEF FreeInv, Listed
<1>4. l \in Nat /\ DOMAIN freed = 1 .. l
  BY <1>3
<1>5. \A x \in Node : ~DueNow(n, freed, x)
  <2>1. Len(q) \in Nat
    BY <1>3
  <2>2. Len(q) # 0 => q[1] \in Node
    <3>1. Len(q) # 0 => 1 \in 1 .. Len(q)
      BY <2>1
    <3> QED BY <1>3, <3>1, ElementOfSeq
  <2>3. Len(q) = 0
    BY <1>3, <2>2, NullAssumption
  <2>4. 1 .. 0 = {}
    OBVIOUS
  <2> QED BY <1>3, <2>3, <2>4 DEF Holding
<1>6. /\ n \in D /\ D \subseteq Node /\ links.parent[n] \notin D
      /\ \A x \in Node : links.parent[x] \in D => x \in D
      /\ \A x \in D : x # n => links.parent[x] \in D
      /\ links \in Links
  BY FreeTree
<1>7. \A x \in D : Holding(freed, x)
  <2> DEFINE S == {x \in D : ~Holding(freed, x)}
  <2>1. UpClosed(links, S)
    <3> SUFFICES ASSUME NEW x \in S, links.parent[x] # NULL
                 PROVE  links.parent[x] \in S
      BY DEF UpClosed
    <3>1. x # n /\ ~Holding(freed, links.parent[x])
      BY <1>5, <1>6 DEF DueNow
    <3> QED BY <1>6, <3>1
  <2>2. n \notin S
    BY <1>5, <1>6 DEF DueNow
  <2>3. S \in SUBSET Node
    BY <1>6
  <2>4. S = {}
    BY <2>1, <2>2, <2>3 DEF Subtree, Reaches
  <2> QED BY <2>4
<1>8. ToSet(freed) = D
  <2>1. ToSet(freed) = {freed[i] : i \in 1 .. l}
    BY <1>4 DEF ToSet
  <2>2. \A x \in D : \E i \in 1 .. l : freed[i] = x
    BY <1>7 DEF Holding
  <2> QED BY <1>3, <2>1, <2>2
<1>9. l = Cardinality(D)
  <2>1. freed \in [1 .. l -> D]
    BY <1>3
  <2>2. \A i, j \in 1 .. l : freed[i] = freed[j] => i = j
    BY <1>3 DEF Distinct
  <2>3. \A x \in D : \E i \in 1 .. l : freed[i] = x
    BY <1>7 DEF Holding
  <2>4. freed \in Bijection(1 .. l, D)
    BY <2>1, <2>2, <2>3 DEF Bijection, Injection, IsInjective, Surjection
  <2>5. ExistsBijection(1 .. l, D)
    BY <2>4 DEF ExistsBijection
  <2> HIDE DEF l
  <2> QED BY <1>4, <2>5, FS_CountingElements
<1>10. ASSUME NEW i \in 1 .. l
       PROVE  At(freed[i]) = i
  <2>1. \A j \in 1 .. l : freed[j] = freed[i] => j = i
    BY <1>3 DEF Distinct
  <2> QED BY <1>4, <2>1
<1> HIDE DEF At, D, l
<1>11. ASSUME NEW m \in D, m # n
       PROVE  /\ At(links.parent[m]) < At(m)
              /\ links.prev[m] # NULL => At(links.prev[m]) < At(m)
  <2>1. PICK i \in 1 .. l : freed[i] = m
    BY <1>7 DEF Holding, l
  <2>2. /\ \E h \in 1 .. i - 1 : freed[h] = links.parent[m]
        /\ links.prev[m] # NULL => \E h \in 1 .. i - 1 : freed[h] = links.prev[m]
    BY <1>3, <1>11, <2>1 DEF InTurn, l
  <2>3. ASSUME NEW h \in 1 .. i - 1
        PROVE  At(freed[h]) < At(m)
    <3>1. h \in 1 .. l /\ h < i
      BY <1>4
    <3> QED BY <1>10, <2>1, <3>1
  <2> QED BY <2>2, <2>3
<1> QED BY <1>2, <1>8, <1>9, <1>11 DEF At, D, freed, l

(* The pointers always stand for sequences of children.                    *)
THEOREM ShapeHolds == Spec => []Shape
<1> QED BY ShapeInit, ShapeNext, PTL DEF Spec

(* Freeing a subtree ends and frees each of its nodes once, after its      *)
(* parent and its left sibling, although the list is threaded through the  *)
(* next pointers of the tree that is being walked.                         *)
THEOREM SubtreesFreedOnce == Spec => []FreesSubtreeOnce
<1>1. Shape => FreesSubtreeOnce
  <2> SUFFICES ASSUME Shape, NEW n \in Live
               PROVE  LET loop == FreeLoop(n)
                          At(m) == CHOOSE i \in DOMAIN loop.freed : loop.freed[i] = m
                      IN  /\ loop.e = NULL
                          /\ ToSet(loop.freed) = Subtree(links, n)
                          /\ Len(loop.freed) = Cardinality(Subtree(links, n))
                          /\ \A m \in Subtree(links, n) \ {n} :
                               /\ At(links.parent[m]) < At(m)
                               /\ links.prev[m] # NULL => At(links.prev[m]) < At(m)
    BY DEF FreesSubtreeOnce
  <2>1. n \in Node
    BY DEF Live
  <2>2. PICK f : Kids(links, f)
    BY DEF Shape
  <2>3. IInv
    BY DEF Shape
  <2> QED BY <2>1, <2>2, <2>3, FreesOnce
<1> QED BY ShapeHolds, <1>1, PTL
=============================================================================
