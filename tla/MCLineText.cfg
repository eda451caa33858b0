\* The texts with references are what becomes of the lines, and no others.
SPECIFICATION FairLineSpec
CONSTANTS
  Texts = {}
  Table <- MCTable
  MaxLength = 5
  Documents <- MCDocuments
  Validates = {TRUE, FALSE}
INVARIANTS
  TextIsUtf8
  SaysTheSame
  SearchSound
PROPERTY
  LinesProcessed
