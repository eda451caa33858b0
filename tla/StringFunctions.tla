-------------------------- MODULE StringFunctions --------------------------
(***************************************************************************)
(* What the functions that rewrite a string make of it, and the classes of *)
(* bytes they look at (src/src/cmark_ctype.c). A byte that is none of the  *)
(* constants is of no class.                                               *)
(***************************************************************************)
EXTENDS Integers, SequencesExt, FiniteSetsExt

CONSTANTS Space, Newline, Backslash, Mark  \* white space, "\", other punctuation

IsSpace(x) == x \in {Space, Newline}
IsPunct(x) == x \in {Backslash, Mark}

\* The bytes of s at the places in K
Only(s, K) == LET ks == SelectSeq([j \in DOMAIN s |-> j], LAMBDA j : j \in K)
              IN  [j \in DOMAIN ks |-> s[ks[j]]]

Trimmed(s) ==
  LET K == {k \in DOMAIN s : ~IsSpace(s[k])} IN
  IF K = {} THEN <<>> ELSE SubSeq(s, Min(K), Max(K))
\* Each run of white space becomes one blank.
Normalized(s) ==
  LET K == {k \in DOMAIN s : ~(k > 1 /\ IsSpace(s[k]) /\ IsSpace(s[k - 1]))}
  IN  Only([k \in DOMAIN s |-> IF IsSpace(s[k]) THEN Space ELSE s[k]], K)
\* A backslash escapes if it is before punctuation and not escaped itself, that is with an
\* even number of backslashes right before it.
Escapes(s) ==
  LET before(k) == {j \in 1 .. k - 1 : \A i \in j .. k - 1 : s[i] = Backslash}
  IN  {k \in 1 .. Len(s) - 1 : /\ s[k] = Backslash /\ IsPunct(s[k + 1])
                               /\ Cardinality(before(k)) % 2 = 0}
Unescaped(s) == Only(s, DOMAIN s \ Escapes(s))
=============================================================================
