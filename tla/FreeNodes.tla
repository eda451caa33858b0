----------------------------- MODULE FreeNodes ------------------------------
(***************************************************************************)
(* The loop of S_free_nodes (src/src/node.c), one turn at a time. Free of  *)
(* NodeTree says what cmark_node_free leaves behind. The code has neither  *)
(* recursion nor a stack: it works on one list of nodes, and puts the      *)
(* children of each node it frees in front of what is left of that list,   *)
(* by overwriting next pointers of a tree it is walking over.              *)
(***************************************************************************)
EXTENDS TreeView

\* The list begins with the node alone: its next is cleared, and only its.
FreeList(n) == [e     |-> n,
                next  |-> [Detach(links, n).next EXCEPT ![n] = NULL],
                freed |-> <<>>]

SplicedShort(next, e) ==
  IF links.last[e] = NULL THEN next ELSE [next EXCEPT ![e] = links.first[e]]
\* "Splice children into list"
Spliced(next, e) ==
  IF links.last[e] = NULL THEN next
  ELSE [next EXCEPT ![links.last[e]] = next[e], ![e] = links.first[e]]

FreeTurn(s) == LET next == Spliced(s.next, s.e)
               IN  [e |-> next[s.e], next |-> next, freed |-> Append(s.freed, s.e)]

\* The loop; more turns than there are nodes would free one twice.
FreeLoop(n) ==
  LET turns[i \in 0 .. Cardinality(Node)] ==
        IF i = 0 THEN FreeList(n)
        ELSE IF turns[i - 1].e = NULL THEN turns[i - 1] ELSE FreeTurn(turns[i - 1])
  IN  turns[Cardinality(Node)]

(* Whatever tree stands below a node, freeing it ends, frees the node and  *)
(* all below it once each and nothing else, and frees no node before its   *)
(* parent or its left sibling, which lead to it: no node is lost with the  *)
(* only pointer to it.                                                     *)
FreesSubtreeOnce ==
  \A n \in Live :
    LET loop == FreeLoop(n)
        At(m) == CHOOSE i \in DOMAIN loop.freed : loop.freed[i] = m
    IN  /\ loop.e = NULL
        /\ ToSet(loop.freed) = Subtree(links, n)
        /\ Len(loop.freed) = Cardinality(Subtree(links, n))
        /\ \A m \in Subtree(links, n) \ {n} :
             /\ At(links.parent[m]) < At(m)
             /\ links.prev[m] # NULL => At(links.prev[m]) < At(m)
=============================================================================
