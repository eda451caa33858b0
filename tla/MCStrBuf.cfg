SPECIFICATION MCSpec
CONSTANTS
  Bufs = {"b", "b2"}
  Chunks = {"c", "c2"}
  Blocks = {a1, a2, a3, a4, a5}
  Texts <- MCTexts
  Space = 32
  Newline = 10
  Backslash = 92
  Mark = 46
  MaxInt = 31
SYMMETRY Anyone
INVARIANTS
  OneOwner
  BlocksSound
PROPERTY
  IsStrings
