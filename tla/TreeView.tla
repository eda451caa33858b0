------------------------------ MODULE TreeView ------------------------------
(* The pointers of NodeTree read as sequences of children. *)
EXTENDS NodeTree, Naturals, SequencesExt, FiniteSets

\* The memory of a machine: every list of nodes ends.
ASSUME NodeAssumption == IsFiniteSet(Node)

\* The children of p in order: the chain from first_child along next.
ChainOf(t, p) ==
  LET hop[i \in 1 .. Cardinality(Node)] ==
        IF i = 1 THEN t.first[p]
        ELSE IF hop[i - 1] = NULL THEN NULL ELSE t.next[hop[i - 1]]
  IN  SubSeq(hop, 1, Cardinality({i \in DOMAIN hop : hop[i] # NULL}))
Chain(p) == ChainOf(links, p)

IsRoot(n) == n \in Live /\ links.parent[n] = NULL

-----------------------------------------------------------------------------
(* What the pointers stand for. *)
Abstract == INSTANCE OrderedTree WITH live <- Live, kids <- [p \in Node |-> Chain(p)]

(* Each call moves, removes, replaces or frees one subtree and keeps the   *)
(* order of all other nodes: the pointer code of node.c implements an      *)
(* ordered forest.                                                         *)
ImplementsOrderedTree == Abstract!Spec
=============================================================================
