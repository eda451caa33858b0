\* Texts of every special character, with up to three definitions before them.
SPECIFICATION FairSpec
CONSTANTS
  MaxBackticks = 3
  MaxLabel = 3
  Width <- MCWidth
  Fold <- MCFold
  HashOf <- MCHash
  Corpora <- MCCorpora
  MaxEmph = 7
  MaxMixed = 5
  MaxRuns = 6
  MaxLinks = 6
  MaxDefs = 3
INVARIANTS
  SourceKept StacksMatchTree ShortcutsSound FirstDefinitionWins
  NestedAsSpecified
PROPERTY ParseEnds
