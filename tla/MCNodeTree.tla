----------------------------- MODULE MCNodeTree -----------------------------
(* Small instances of NodeTree. *)
EXTENDS FreeNodes, TLC

Symmetry == Permutations(Node)
=============================================================================
