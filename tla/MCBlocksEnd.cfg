\* A setext heading is closed by the line after its underline.
SPECIFICATION Spec
CONSTANTS
  Corpora <- Headings
  MaxBlocks = 4
INVARIANT SetextEndsOnUnderline
