\* The library accepts a node as its own new sibling: two nodes are enough.
SPECIFICATION AnySpec
CONSTANTS
  Node = {n1, n2}
  NULL = NULL
  Kind = {"custom_block"}
INVARIANT AcceptedCallKeepsTree
