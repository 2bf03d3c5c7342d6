SPECIFICATION InventorySpec
CONSTANTS
  Base = 8
  Whitespace <- MCWhitespace
  BufferSize = 4
  Garbage <- MCGarbage
  HashLength = 2
  IPLength = 2
  NameLength = 4
  Residues <- MCResidues
  Names <- MCNames
  Traffic <- MCShortTraffic
  KnownTx <- MCKnownTx
  KnownBlocks <- MCKnownBlocks
  MaxSent = 1
INVARIANTS
  AsksOnlyUnknown
CHECK_DEADLOCK FALSE
