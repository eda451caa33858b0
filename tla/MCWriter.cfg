\* No wrapping, and two widths that the texts reach after one or two words;
\* all trees of four nodes.
SPECIFICATION PrintSpec
CONSTANTS
  Docs <- MCDocs
  Widths <- MCWidths
  Options <- MCOptions
  MaxNodes = 4
INVARIANTS
  BreakIsSpace
  ColumnCounts
  LinesReadBack
  ElementsNest
  TextsOut
