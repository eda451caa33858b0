\* Quotes, lists and paragraphs; every leaf block and every way it ends;
\* definitions, which leave no block. A line opens at most four blocks (two lists
\* and two items) besides its paragraph.
SPECIFICATION FairSpec
CONSTANTS
  Corpora <- Documents
  MaxBlocks = 16
INVARIANTS TreeSound AssertionsHold PositionsRight ListsAsSpecified TextKept
PROPERTIES ClosedBlocksStay LineEnds
