\* A line of characters, then one that gets shorter by two
SPECIFICATION LineSpec
CONSTANTS
  Texts = {}
  Table <- MCTable
  MaxLength = 5
  Documents <- Shortened
  Validates = {TRUE}
INVARIANT
  LineEndsWithNewline
