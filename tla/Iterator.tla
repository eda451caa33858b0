------------------------------ MODULE Iterator ------------------------------
(***************************************************************************)
(* Walking over a tree while it changes: the iterator of                   *)
(* src/src/iterator.c and two of its users. One is any program that keeps  *)
(* to the rule of cmark.h, "Nodes must only be modified after an EXIT      *)
(* event, or an ENTER event for leaf nodes", or that skips the contents of *)
(* a node as render.c does. The other is cmark_consolidate_text_nodes,     *)
(* which frees nodes the iterator has just reached.                        *)
(*                                                                         *)
(* A definition named like one after it with something added, such as      *)
(* MergeStays, is not the code: it is a plausible mistake, and some        *)
(* property must fail when it takes the place of the code's definition.    *)
(***************************************************************************)
EXTENDS TreeView

VARIABLES
  iter,  \* the iterator: its root and the events cur and next
  user,  \* who iterates: nobody yet, a program, or the loops of consolidate
  held,  \* whether the program has not freed the current node
  lit,   \* the literal of a text node; <<n>> is what n was made with
  into,  \* cur of cmark_consolidate_text_nodes,
  tmp,   \* tmp,
  buf,   \* and buf
  plan,  \* history: the events that should come
  wish   \* history: for each node the children it should end up with
treeVars == <<links, kind>>
textVars == <<lit, into, tmp, buf, wish>>
allVars  == <<links, kind, iter, user, held, textVars, plan>>

-----------------------------------------------------------------------------
(* The functions of iterator.c, on an iterator i. *)

LeafKind == {"html_block", "thematic_break", "code_block", "text", "softbreak",
             "linebreak", "code", "html_inline"}
Leaf(n) == kind[n] \in LeafKind

Event(e, n) == [ev |-> e, node |-> n]
Nothing == Event("none", NULL)
End     == Event("done", NULL)
IterNew(r) == [root |-> r, cur |-> Nothing, next |-> Event("enter", r)]

FollowingPastRoot(i, e, n) ==
  CASE e = "enter" /\ ~Leaf(n) -> IF links.first[n] = NULL THEN Event("exit", n)
                                  ELSE Event("enter", links.first[n])
    [] links.next[n] # NULL    -> Event("enter", links.next[n])
    [] links.parent[n] # NULL  -> Event("exit", links.parent[n])
    [] OTHER -> End
FollowingStuck(i, e, n) ==
  IF e = "enter" /\ ~Leaf(n)
  THEN Event("enter", IF links.first[n] = NULL THEN n ELSE links.first[n])
  ELSE IF n = i.root THEN End
  ELSE IF links.next[n] # NULL THEN Event("enter", links.next[n])
  ELSE Event("exit", links.parent[n])
\* "roll forward to next item": the last case is the assert(false)
Following(i, e, n) ==
  IF e = "enter" /\ ~Leaf(n)
  THEN IF links.first[n] = NULL THEN Event("exit", n) ELSE Event("enter", links.first[n])
  ELSE IF n = i.root THEN End
  ELSE IF links.next[n] # NULL THEN Event("enter", links.next[n])
  ELSE IF links.parent[n] # NULL THEN Event("exit", links.parent[n])
  ELSE End

\* cmark_iter_next, and cmark_iter_reset, which calls it
IterNext(i) == [i EXCEPT !.cur = i.next,
                         !.next = IF i.next.ev = "done" THEN i.next
                                  ELSE Following(i, i.next.ev, i.next.node)]
IterReset(i, n, e) == IterNext([i EXCEPT !.next = Event(e, n)])

-----------------------------------------------------------------------------
(* What should happen, from the tree alone. *)

\* The events of a walk over the tree below n, by recursion on the tree.
Walk(n) ==
  LET walk[d \in 0 .. Cardinality(Node)] == [m \in Node |->
        IF d = 0 THEN <<>>
        ELSE IF Leaf(m) THEN <<Event("enter", m)>>
        ELSE <<Event("enter", m)>>
               \o FlattenSeq([i \in DOMAIN Chain(m) |-> walk[d - 1][Chain(m)[i]]])
               \o <<Event("exit", m)>>]
  IN  walk[Cardinality(Node)][n]

IsText(n)  == n # NULL /\ kind[n] = "text"
Shown(n)   == IF IsText(n) THEN [node |-> NULL, text |-> lit[n]]
              ELSE [node |-> n, text |-> <<>>]
Content(p) == [i \in DOMAIN Chain(p) |-> Shown(Chain(p)[i])]
\* The children of p with text nodes joined to the text before them, where
\* that is one of those at the places of At.
Merged(p, At) ==
  FoldLeft(LAMBDA done, c :
             IF c.node = NULL /\ done # <<>> /\ Last(done).node = NULL /\ Len(done) \in At
             THEN Front(done) \o <<[c EXCEPT !.text = Last(done).text \o @]>>
             ELSE Append(done, c),
           <<>>, Content(p))
\* Where a walk below r joins texts: wherever they meet below r, and elsewhere
\* only behind r itself, as a root that is a text takes the text behind it.
Joinable(r, p) == IF p \in Subtree(links, r) THEN Nat
                  ELSE {i \in DOMAIN Chain(p) : Chain(p)[i] = r}

-----------------------------------------------------------------------------
IterInit == /\ Init
            /\ iter = [root |-> NULL, cur |-> Nothing, next |-> Nothing]
            /\ user = "nobody"
            /\ held = FALSE
            /\ lit = [n \in Node |-> <<n>>]
            /\ into = NULL /\ tmp = NULL /\ buf = <<>>
            /\ plan = <<>> /\ wish = [n \in Node |-> <<>>]

\* A tree is made node by node; which free memory is used does not matter.
Grow(k, p) ==
  LET n == CHOOSE m \in Node : kind[m] = "free" IN
  /\ user \in {"nobody", "program"}
  /\ Live # Node
  /\ p # NULL => user = "nobody" /\ Holds(kind[p], k)
  /\ kind' = [kind EXCEPT ![n] = k]
  /\ links' = IF p = NULL THEN links ELSE PlaceLast(links, p, n)
  /\ UNCHANGED <<iter, user, held, plan, textVars>>

Advance == /\ iter' = IterNext(iter)
           /\ plan' = IF plan = <<>> THEN <<>> ELSE Tail(plan)

Begin(r) == /\ user = "nobody"
            /\ iter' = IterNew(r)
            /\ plan' = Walk(r)

(* A program. *)
Start(r) == /\ Begin(r)
            /\ user' = "program"
            /\ UNCHANGED <<held, treeVars, textVars>>

Step == /\ user = "program"
        /\ iter.cur.ev # "done"
        /\ Advance
        /\ held' = (iter'.cur.ev # "done")
        /\ UNCHANGED <<user, treeVars, textVars>>

\* The contents of the node just entered are skipped (render.c, autolinks).
Skip == /\ user = "program" /\ held
        /\ iter.cur.ev = "enter" /\ ~Leaf(iter.cur.node)
        /\ iter' = IterReset(iter, iter.cur.node, "exit")
        /\ plan' = LET out == SelectInSeq(plan, LAMBDA e : e = iter'.cur)
                   IN  SubSeq(plan, out + 1, Len(plan))
        /\ UNCHANGED <<user, held, treeVars, textVars>>

MayModify == /\ user = "program" /\ held
             /\ (iter.cur.ev = "exit" \/ Leaf(iter.cur.node))
\* What is inserted is new, or a part that was unlinked, and never the tree
\* that the iterator still has to walk.
Modify ==
  LET c == iter.cur.node IN
  /\ MayModify
  /\ \/ Unlink(c) /\ UNCHANGED held
     \/ Free(c) /\ held' = FALSE
     \/ \E n \in Node : /\ IsRoot(n) /\ n # c /\ iter.root \notin Subtree(links, n)
                        /\ \/ InsertBefore(c, n) \/ InsertAfter(c, n)
                           \/ Replace(c, n)
                           \/ PrependChild(c, n) \/ AppendChild(c, n)
                        /\ UNCHANGED held
  /\ UNCHANGED <<iter, user, plan, textVars>>

(* cmark_consolidate_text_nodes *)
Consolidate(r) == /\ Begin(r)
                  /\ user' = "visit"
                  /\ wish' = [p \in Node |-> Merged(p, Joinable(r, p))]
                  /\ UNCHANGED <<held, treeVars, lit, into, tmp, buf>>

StartsRun(e) == e.ev = "enter" /\ IsText(e.node) /\ IsText(links.next[e.node])
Visit == /\ user = "visit"
         /\ Advance
         /\ LET e == iter'.cur IN
            IF StartsRun(e)
            THEN /\ user' = "merge"
                 /\ into' = e.node
                 /\ tmp' = links.next[e.node]
                 /\ buf' = lit[e.node]
            ELSE /\ user' = IF e.ev = "done" THEN "over" ELSE "visit"
                 /\ UNCHANGED <<into, tmp, buf>>
         /\ UNCHANGED <<held, treeVars, lit, wish>>

MergeStays == /\ user = "merge" /\ IsText(tmp)
              /\ buf' = buf \o lit[tmp]
              /\ tmp' = links.next[tmp]
              /\ Free(tmp)
              /\ UNCHANGED <<iter, plan, user, held, lit, into, wish>>
Merge == /\ user = "merge" /\ IsText(tmp)
         /\ Advance
         /\ buf' = buf \o lit[tmp]
         /\ tmp' = links.next[tmp]
         /\ Free(tmp)
         /\ UNCHANGED <<user, held, lit, into, wish>>

EndMergeAppending == /\ user = "merge" /\ ~IsText(tmp)
                     /\ lit' = [lit EXCEPT ![into] = @ \o buf]
                     /\ user' = "visit"
                     /\ UNCHANGED <<iter, plan, held, treeVars, into, tmp, buf, wish>>
EndMerge == /\ user = "merge" /\ ~IsText(tmp)
            /\ lit' = [lit EXCEPT ![into] = buf]
            /\ user' = "visit"
            /\ UNCHANGED <<iter, plan, held, treeVars, into, tmp, buf, wish>>

Over == /\ user = "over" \/ (user = "program" /\ iter.cur.ev = "done")
        /\ UNCHANGED allVars

Loops == Step \/ Visit \/ Merge \/ EndMerge
IterActs == \/ \E k \in Kind, p \in Live \cup {NULL} : Grow(k, p)
            \/ \E r \in Live : Start(r) \/ Consolidate(r)
            \/ Skip \/ Modify \/ Loops \/ Over
IterSpec == IterInit /\ [][IterActs]_allVars
\* The loop that calls cmark_iter_next goes on until CMARK_EVENT_DONE.
FairIterSpec == IterSpec /\ WF_allVars(Loops)

-----------------------------------------------------------------------------
(* The events are those of a walk over the tree as it was at the start,    *)
(* less what was skipped: however the program modifies nodes when it may,  *)
(* no node is entered twice or left out, every EXIT matches the innermost  *)
(* ENTER, leaves have none, and the walk ends at the root it began at, not *)
(* in the assert(false) of cmark_iter_next.                                *)
FollowsPlan ==
  user # "nobody" => iter.next = IF plan = <<>> THEN End ELSE plan[1]

(* The node that the iterator will give next is never one that was freed,  *)
(* by the program or by cmark_consolidate_text_nodes.                      *)
NextIsLive == iter.next.node # NULL => iter.next.node \in Live

(* A walk is the one of the tree it began on, and stays on nodes that are  *)
(* there, whatever is done to the tree behind it.                          *)
WalkSound == FollowsPlan /\ NextIsLive

(* cmark_consolidate_text_nodes makes one node of each run of text nodes   *)
(* below the root and keeps all text in its order. All other nodes of the  *)
(* memory, inside the tree and outside, keep the children they had; but a  *)
(* root that is a text itself, and has text siblings behind it, takes      *)
(* their text, and they are freed, although they are not below the root.   *)
Consolidated ==
  user = "over" => \A p \in Node : Content(p) = wish[p]

(* Every walk comes to its end.                                            *)
WalkEnds == user # "nobody" ~> iter.cur.ev = "done"
=============================================================================
