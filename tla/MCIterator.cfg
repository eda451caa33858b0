\* Four nodes: a tree of up to four, or a smaller one and what is put into it.
\* A container, and the two kinds of leaf that consolidation tells apart.
SPECIFICATION FairIterSpec
CONSTANTS
  Node = {n1, n2, n3, n4}
  NULL = NULL
  Kind = {"emph", "text", "code"}
INVARIANTS WalkSound Consolidated
PROPERTY WalkEnds
