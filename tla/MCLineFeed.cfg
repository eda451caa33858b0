\* Six characters in buffers of up to three: every line end, and every NUL,
\* before, at and after the end of a buffer. And documents with tabs.
SPECIFICATION ColumnsSpec
CONSTANTS
  Callers <- MCCallers
  ColumnOf <- MCColumnOf
INVARIANTS LinesAsFed CursorSound TabsAsSpaces
