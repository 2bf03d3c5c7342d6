SPECIFICATION Spec
CONSTANTS
  Base = 8
  Whitespace <- MCWhitespace
  BufferSize = 2
  Garbage <- MCGarbage
  Fields <- MCFields
  MaxFields = 3
INVARIANTS
  TypeOK
  FieldsAligned
  ReadAsAppended
PROPERTIES
  FailureIsFinal
