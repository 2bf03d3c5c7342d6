SPECIFICATION InventorySpec
CONSTANTS
  Base = 8
  Whitespace <- MCWhitespace
  BufferSize = 4
  Garbage <- MCGarbage
  HashLength = 2
  IPLength = 2
  NameLength = 4
  Residues <- MCResidues
  Names <- MCNames
  Traffic <- MCTraffic
  KnownTx <- MCKnownTx
  KnownBlocks <- MCKnownBlocks
  MaxSent = 2
INVARIANTS
  AskedAsAnnounced
  AnsweredInTurn
  
CHECK_DEADLOCK FALSE
