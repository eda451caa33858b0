----------------------------- MODULE OrderedTree -----------------------------
(***************************************************************************)
(* What the node API promises: a forest in which every node has an ordered *)
(* sequence of children, and operations that move one whole subtree to one *)
(* place, and disturb nothing else.                                        *)
(***************************************************************************)
EXTENDS Naturals, SequencesExt

CONSTANTS Node
VARIABLES live,  \* the nodes that exist
          kids   \* the children of each node, in order
vars == <<live, kids>>

Without(f, n) == [p \in DOMAIN f |-> RemoveFirst(f[p], n)]
Parents(f, n) == {p \in DOMAIN f : n \in ToSet(f[p])}

Init == live = {} /\ kids = [n \in Node |-> <<>>]

Create(n) == /\ n \notin live
             /\ live' = live \cup {n}
             /\ UNCHANGED kids

Release(n) == /\ kids' = Without(kids, n)
              /\ UNCHANGED live

\* n leaves its place and becomes the i-th child of p.
Move(n, p, i) == LET k == Without(kids, n) IN
  /\ i \in 1 .. Len(k[p]) + 1
  /\ kids' = [k EXCEPT ![p] = InsertAt(@, i, n)]
  /\ UNCHANGED live

\* new takes the place of old, which becomes a root.
Swap(old, new) == LET k == Without(kids, new) IN
  \E p \in Parents(kids, old) :
    /\ kids' = [k EXCEPT ![p] = ReplaceAll(@, old, new)]
    /\ UNCHANGED live

\* D: n and all its descendants, the least such set.
Below(D, n) == n \in D /\ \A m \in D : ToSet(kids[m]) \subseteq D
Destroy(n) ==
  LET D == CHOOSE X \in SUBSET live :
             Below(X, n) /\ \A Y \in SUBSET X : Below(Y, n) => Y = X
  IN  /\ live' = live \ D
      /\ kids' = [p \in DOMAIN kids |->
                    IF p \in D THEN <<>> ELSE RemoveFirst(kids[p], n)]

Next == \/ \E n \in Node : Create(n)
        \/ \E n \in live : Release(n) \/ Destroy(n)
        \/ \E n, p \in live : n # p /\ \E i \in 1 .. Len(kids[p]) + 1 : Move(n, p, i)
        \/ \E old, new \in live : Swap(old, new)
Spec == Init /\ [][Next]_vars
=============================================================================
