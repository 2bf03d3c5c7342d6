SPECIFICATION Spec
CONSTANTS
  Scripts <- MCScripts
  Outputs <- MCOutputs
  Signed <- MCSigned
  Shown <- MCShown
  MaxStack = 2
INVARIANTS
  TypeOK
  BytesKept
  OnlyEmptyDecided
CHECK_DEADLOCK FALSE
