------------------------------ MODULE NodeTree ------------------------------
(***************************************************************************)
(* The node tree of libcmark (src/src/node.c): nodes joined by five        *)
(* pointers each, and the operations of the public API that re-link them.  *)
(* The model works on the pointers, as the code does, so that a store left *)
(* out or made in the wrong order shows; module OrderedTree says what the  *)
(* pointers stand for.                                                     *)
(*                                                                         *)
(* A definition named like one after it with something added, such as      *)
(* FreeLinked, is not the code: it is a plausible mistake, and some        *)
(* property must fail when it takes the place of the code's definition.    *)
(***************************************************************************)
CONSTANTS Node,   \* the node structures an allocator can hand out
          NULL,   \* the null pointer
          Kind    \* the node types in use, a subset of AllKind

BlockKind  == {"document", "block_quote", "list", "item", "code_block",
               "html_block", "custom_block", "paragraph", "heading",
               "thematic_break"}
InlineKind == {"text", "softbreak", "linebreak", "code", "html_inline",
               "custom_inline", "emph", "strong", "link", "image"}
AllKind    == BlockKind \cup InlineKind

ASSUME NullAssumption == NULL \notin Node
ASSUME KindAssumption == Kind \subseteq AllKind

VARIABLES links,  \* the pointers: one function per field of cmark_node
          kind    \* the type of a live node, "free" for memory not in use
vars == <<links, kind>>

Ptr    == Node \cup {NULL}
Fields == [Node -> Ptr]
Links  == [next : Fields, prev : Fields, parent : Fields,
           first : Fields, last : Fields]
Live   == {n \in Node : kind[n] # "free"}

-----------------------------------------------------------------------------
(* Ancestors: the loop of S_can_contain, as the least set closed under the *)
(* parent pointer (no recursion, so that the proofs can use it).           *)

UpClosed(t, S)   == \A x \in S : t.parent[x] # NULL => t.parent[x] \in S
Reaches(t, n, c) == \A S \in SUBSET Node : n \in S /\ UpClosed(t, S) => c \in S
Subtree(t, n)    == {m \in Node : Reaches(t, m, n)}

(* Which node types may hold which: the switch of S_can_contain. *)
Holds(p, c) ==
  /\ c # "document"
  /\ \/ p \in {"document", "block_quote", "item"} /\ c \in BlockKind \ {"item"}
     \/ p = "list" /\ c = "item"
     \/ p = "custom_block"
     \/ /\ p \in {"paragraph", "heading", "emph", "strong", "link", "image",
                  "custom_inline"}
        /\ c \in InlineKind

CanContainShallow(node, child) == /\ node # child
                                  /\ Holds(kind[node], kind[child])
CanContain(node, child) == /\ ~Reaches(links, node, child)
                           /\ Holds(kind[node], kind[child])

-----------------------------------------------------------------------------
(* Pointer surgery. *)

\* "if (k) k->field = v"
Put(f, k, v) == IF k = NULL THEN f ELSE [f EXCEPT ![k] = v]

\* S_node_unlink: closes the gap, and leaves the node's own pointers stale.
Detach(t, n) ==
  LET p == t.parent[n] IN
  [t EXCEPT !.next  = Put(@, t.prev[n], t.next[n]),
            !.prev  = Put(@, t.next[n], t.prev[n]),
            !.first = IF p # NULL /\ @[p] = n THEN [@ EXCEPT ![p] = t.next[n]] ELSE @,
            !.last  = IF p # NULL /\ @[p] = n THEN [@ EXCEPT ![p] = t.prev[n]] ELSE @]

\* cmark_node_unlink: S_node_unlink, then clears the node's own pointers.
Cut(t, n) ==
  LET d == Detach(t, n) IN
  [d EXCEPT !.next[n] = NULL, !.prev[n] = NULL, !.parent[n] = NULL]

\* The stores shared by the four insertions: n goes under p, between b and a.
Place(t, n, p, b, a) ==
  [t EXCEPT !.next      = Put([@ EXCEPT ![n] = a], b, n),
            !.prev      = Put([@ EXCEPT ![n] = b], a, n),
            !.parent[n] = p,
            !.first     = IF b = NULL THEN [@ EXCEPT ![p] = n] ELSE @,
            !.last      = IF a = NULL THEN [@ EXCEPT ![p] = n] ELSE @]

\* The neighbour (prev or next) is read after the sibling was detached: the
\* sibling may be that neighbour.
PlaceBeforeStale(t, node, sibling) ==
  LET d == Detach(t, sibling)
  IN  Place(d, sibling, d.parent[node], t.prev[node], node)
PlaceBefore(t, node, sibling) ==
  LET d == Detach(t, sibling)
  IN  Place(d, sibling, d.parent[node], d.prev[node], node)

PlaceAfter(t, node, sibling) ==
  LET d == Detach(t, sibling)
  IN  Place(d, sibling, d.parent[node], node, d.next[node])

PlaceFirst(t, node, child) ==
  LET d == Detach(t, child) IN Place(d, child, node, NULL, d.first[node])

PlaceLast(t, node, child) ==
  LET d == Detach(t, child) IN Place(d, child, node, d.last[node], NULL)

\* Nodes that S_free_nodes returned to the allocator: nothing is read from them.
Clear(t, D) ==
  LET Wipe(f) == [n \in Node |-> IF n \in D THEN NULL ELSE f[n]]
  IN  [next |-> Wipe(t.next), prev |-> Wipe(t.prev), parent |-> Wipe(t.parent),
       first |-> Wipe(t.first), last |-> Wipe(t.last)]

-----------------------------------------------------------------------------
Init == /\ links = LET none == [n \in Node |-> NULL]
                   IN  [next |-> none, prev |-> none, parent |-> none,
                        first |-> none, last |-> none]
        /\ kind = [n \in Node |-> "free"]

\* cmark_node_new: memory comes zeroed.
New(n, k) == /\ kind[n] = "free"
             /\ kind' = [kind EXCEPT ![n] = k]
             /\ UNCHANGED links

Unlink(n) == /\ links' = Cut(links, n)
             /\ UNCHANGED kind

\* An operation whose test fails returns 0 and changes nothing: it has no step.
InsertBeforeUnasked(node, sibling) ==
  /\ links.parent[node] # NULL
  /\ ~Reaches(links, links.parent[node], sibling)
  /\ links' = PlaceBefore(links, node, sibling)
  /\ UNCHANGED kind
InsertBefore(node, sibling) ==
  /\ links.parent[node] # NULL
  /\ CanContain(links.parent[node], sibling)
  /\ links' = PlaceBefore(links, node, sibling)
  /\ UNCHANGED kind

InsertAfter(node, sibling) ==
  /\ links.parent[node] # NULL
  /\ CanContain(links.parent[node], sibling)
  /\ links' = PlaceAfter(links, node, sibling)
  /\ UNCHANGED kind

ReplaceAtEnd(oldnode, newnode) ==
  /\ links.parent[oldnode] # NULL
  /\ CanContain(links.parent[oldnode], newnode)
  /\ links' = Cut(PlaceLast(links, links.parent[oldnode], newnode), oldnode)
  /\ UNCHANGED kind
Replace(oldnode, newnode) ==
  /\ links.parent[oldnode] # NULL
  /\ CanContain(links.parent[oldnode], newnode)
  /\ links' = Cut(PlaceBefore(links, oldnode, newnode), oldnode)
  /\ UNCHANGED kind

PrependChild(node, child) ==
  /\ CanContain(node, child)
  /\ links' = PlaceFirst(links, node, child)
  /\ UNCHANGED kind

AppendChild(node, child) ==
  /\ CanContain(node, child)
  /\ links' = PlaceLast(links, node, child)
  /\ UNCHANGED kind

FreeLinked(n) ==
  LET D == Subtree(links, n) IN
  /\ links' = Clear(links, D)
  /\ kind'  = [m \in Node |-> IF m \in D THEN "free" ELSE kind[m]]
\* cmark_node_free: unlinks the node, then frees it and all below it.
Free(n) ==
  LET D == Subtree(links, n) IN
  /\ links' = Clear(Cut(links, n), D)
  /\ kind'  = [m \in Node |-> IF m \in D THEN "free" ELSE kind[m]]

\* The callers of the sibling operations pass two different nodes.
Next == \/ \E n \in Node, k \in Kind : New(n, k)
        \/ \E n \in Live : Unlink(n) \/ Free(n)
        \/ \E node, other \in Live :
             \/ node # other /\ InsertBefore(node, other)
             \/ node # other /\ InsertAfter(node, other)
             \/ node # other /\ Replace(node, other)
             \/ PrependChild(node, other)
             \/ AppendChild(node, other)
Spec == Init /\ [][Next]_vars

\* What the library accepts: nothing stops a caller from passing a node twice.
AnyNext == Next \/ \E n \in Live : \/ InsertBefore(n, n)
                                   \/ InsertAfter(n, n)
                                   \/ Replace(n, n)
AnySpec == Init /\ [][AnyNext]_vars

-----------------------------------------------------------------------------
(* Every pointer is null or the address of a node. *)
TypeOK == /\ links \in Links
          /\ kind \in [Node -> Kind \cup {"free"}]

(* The named parts of a consistent tree: what cmark_node_check looks for,  *)
(* stated for the whole forest and not for one root.                       *)
NextBack(t)  == \A n \in Node : t.next[n] # NULL =>
                  /\ t.prev[t.next[n]] = n
                  /\ t.parent[t.next[n]] = t.parent[n]
PrevBack(t)  == \A n \in Node : t.prev[n] # NULL =>
                  /\ t.next[t.prev[n]] = n
                  /\ t.parent[t.prev[n]] = t.parent[n]
FirstBack(t) == \A p \in Node : t.first[p] # NULL =>
                  t.parent[t.first[p]] = p /\ t.prev[t.first[p]] = NULL
LastBack(t)  == \A p \in Node : t.last[p] # NULL =>
                  t.parent[t.last[p]] = p /\ t.next[t.last[p]] = NULL
Ends(t)      == \A n \in Node : t.parent[n] # NULL =>
                  /\ t.prev[n] = NULL => t.first[t.parent[n]] = n
                  /\ t.next[n] = NULL => t.last[t.parent[n]] = n
FirstLast(t) == \A p \in Node : (t.first[p] = NULL) <=> (t.last[p] = NULL)
RootsAlone(t) == \A n \in Node : t.parent[n] = NULL =>
                   t.next[n] = NULL /\ t.prev[n] = NULL
Consistent(t) == /\ NextBack(t) /\ PrevBack(t) /\ FirstBack(t) /\ LastBack(t)
                 /\ Ends(t) /\ FirstLast(t) /\ RootsAlone(t)

(* After any sequence of API calls every link agrees with its reverse      *)
(* link: cmark_node_check finds no error anywhere in the forest.           *)
Linked == Consistent(links)

(* No node is its own ancestor, however nodes were moved between trees:    *)
(* the walks up the parent pointers and down the tree end.                 *)
NoCycle(t) == \A n \in Node : t.parent[n] # NULL => ~Reaches(t, t.parent[n], n)
Acyclic == NoCycle(links)

(* No pointer of a live node leads to freed memory, and freed memory holds *)
(* no pointer: freeing a subtree leaves nothing dangling.                  *)
Confined(t, L) == \A n \in Node :
  {t.next[n], t.prev[n], t.parent[n], t.first[n], t.last[n]}
     \subseteq IF n \in L THEN L \cup {NULL} ELSE {NULL}
NoDangling == Confined(links, Live)

(* A node is only ever under a parent whose type may hold its type,        *)
(* whichever of the five insertions put it there.                          *)
WellTyped(t, k) == \A n \in Node : t.parent[n] # NULL =>
                     Holds(k[t.parent[n]], k[n])
Grammar == WellTyped(links, kind)

(* What "returns 1 on success" should mean for insertions: the tests'      *)
(* "ins before1 consistent" (src/api_test/main.c) for every accepted call. *)
AcceptedCallKeepsTree == Consistent(links)
=============================================================================
