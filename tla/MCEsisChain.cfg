\* Elements of both programs in each other, three deep, with data in two places.
SPECIFICATION Spec
CONSTANTS
  Tags <- MCTags
  Texts <- MCTexts
  Marked <- MCMarked
  MaxEvents = 8
  MaxDepth = 3
  MaxData = 2
INVARIANTS
  StackSound
  ReadersSound
  FilterKeeps
