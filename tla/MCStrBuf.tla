------------------------------ MODULE MCStrBuf ------------------------------
(***************************************************************************)
(* StrBuf for TLC, in three programs: one that makes a buffer as long as   *)
(* it can, one that hands blocks to and fro, and one that rewrites texts   *)
(* of all kinds of bytes.                                                  *)
(***************************************************************************)
EXTENDS StrBuf, TLC

UpTo(A, n) == UNION {[1 .. m -> A] : m \in 0 .. n}
Letters(lengths) == {[k \in 1 .. n |-> 97] : n \in lengths}
Anyone == Permutations(Blocks)

Programs ==
  [sizes  |-> [bufs |-> {"b"}, chunks |-> {}, texts |-> Letters({0, 1, 7, 8}), longest |-> 31],
   owners |-> [bufs |-> Bufs, chunks |-> Chunks, texts |-> Letters({0, 1}), longest |-> 2],
   text   |-> [bufs |-> {"b"}, chunks |-> {}, longest |-> 4,
               texts |-> UpTo({Space, Newline, Backslash, Mark, 97}, 2)]]
MCTexts == UNION {Programs[p].texts : p \in DOMAIN Programs}

VARIABLE program
MCInit == Init /\ program \in DOMAIN Programs
MCNext == /\ LET p == Programs[program] IN Calls(p.bufs, p.chunks, p.texts, p.longest)
          /\ UNCHANGED program
MCSpec == MCInit /\ [][MCNext]_<<vars, program>>
=============================================================================
