\* Four nodes: a node with two siblings under a parent, in every order and
\* every move between two trees. Five types that tell the rules of
\* S_can_contain apart.
SPECIFICATION Spec
CONSTANTS
  Node = {n1, n2, n3, n4}
  NULL = NULL
  Kind = {"document", "list", "item", "paragraph", "custom_block"}
SYMMETRY Symmetry
INVARIANTS Linked Acyclic NoDangling Grammar FreesSubtreeOnce
PROPERTY ImplementsOrderedTree
