SPECIFICATION Spec
CONSTANTS
  Base = 8
  Whitespace <- MCWhitespace
  BufferSize = 2
  Garbage <- MCGarbage
  Fields <- MCNumbers
  MaxFields = 3
INVARIANTS
  VarUintRead
