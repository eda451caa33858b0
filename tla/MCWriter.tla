----------------------------- MODULE MCWriter -------------------------------
(***************************************************************************)
(* Writer for TLC: Renderer on every paragraph of a few characters and on  *)
(* pairs of blocks, Markup on every small tree with nodes of all types.    *)
(***************************************************************************)
EXTENDS Writer

\* A fragment is a sequence of nodes in which 0 is the parent to be.
Node(k) == [kind |-> k, up |-> 0, lit |-> <<>>, tight |-> FALSE, ordered |-> FALSE]
In(n, f) == <<n>> \o [i \in DOMAIN f |-> [f[i] EXCEPT !.up = @ + 1]]
Then(a, b) == a \o [i \in DOMAIN b |-> [b[i] EXCEPT !.up = IF @ = 0 THEN 0 ELSE @ + Len(a)]]
All(fs) == FoldLeft(Then, <<>>, fs)

Text(s) == <<[Node("text") EXCEPT !.lit = s]>>
Code(s) == <<[Node("code") EXCEPT !.lit = s]>>
Soft == <<Node("softbreak")>>
Hard == <<Node("linebreak")>>
Html(s) == <<[Node("html") EXCEPT !.lit = s]>>
Emph(f) == In(Node("emph"), f)
Strong(f) == In(Node("strong"), f)
P(f) == In(Node("paragraph"), f)
H(f) == In(Node("heading"), f)
Q(f) == In(Node("quote"), f)
I(f) == In(Node("item"), f)
L(tight, ordered, f) == In([Node("list") EXCEPT !.tight = tight, !.ordered = ordered], f)
Doc(f) == In(Node("document"), f)

UpTo(S, n) == UNION {[1 .. k -> S] : k \in 0 .. n}
Solid == {"a", "1", ".", "-"}
\* A paragraph that begins with a space comes from an entity only.
Lits(n) == {s \in UpTo(Solid \cup {"sp"}, n) : s # <<>> /\ s[1] # "sp"}

Paragraphs ==
  {P(Text(s)) : s \in Lits(4)}
    \cup {P(All(<<Text(s), b, Text(t)>>)) : s, t \in Lits(2), b \in {Soft, Hard}}
    \cup {P(All(<<Text(<<"a">>), Hard, Text(<<"sp">> \o t)>>)) : t \in Lits(2)}
AB == P(Text(<<"a", "a", "sp", "a", "sp", "a">>))
Inner ==
  {AB, P(All(<<Text(<<"a", "a">>), Soft, Emph(Emph(Text(<<"a", "sp", "1">>)))>>)),
   P(All(<<Text(<<"a">>), Hard, Strong(Text(<<"sp", "sp", "*", "a">>))>>)),
   H(Text(<<"a", "sp", "a", "sp", "a">>)), <<Node("hr")>>,
   Code(<<"a", "sp", "a", "nl", "nl", "a", "nl">>), Code(<<"nl", "a", "nl">>),
   Html(<<"<", ">", "nl", "a", "nl">>)}
Containers(f) ==
  {Q(f), L(TRUE, FALSE, Then(I(f), I(AB))), L(FALSE, FALSE, Then(I(AB), I(f))),
   L(TRUE, TRUE, Then(I(f), I(AB))), Q(Then(f, AB)), L(TRUE, FALSE, I(Then(AB, Q(f))))}
Shells == {<<Node("quote")>>, L(TRUE, FALSE, I(<<>>)), L(FALSE, TRUE, I(Q(AB))),
           L(TRUE, FALSE, Then(I(Then(AB, L(TRUE, TRUE, I(AB)))), I(AB))),
           L(TRUE, FALSE, Then(I(Then(AB, L(FALSE, FALSE, Then(I(AB), I(AB))))), I(AB)))}
Pieces == Inner \cup UNION {Containers(f) : f \in Inner} \cup Shells

MCDocs == {Doc(<<>>)} \cup {Doc(f) : f \in Paragraphs} \cup {Doc(Q(f)) : f \in Paragraphs}
            \cup {Doc(Then(f, g)) : f \in Pieces, g \in Inner \cup Shells}
MCWidths == {0, 5, 8}
MCOptions == {"none", "nobreaks", "hardbreaks"}
=============================================================================
