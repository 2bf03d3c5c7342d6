SPECIFICATION LedgerSpec
CONSTANTS
  Base = 8
  Whitespace <- MCWhitespace
  BufferSize = 4
  Garbage <- MCGarbage
  HashLength = 2
  Residues <- MCResidues
  UTXOs <- MCUTXOs
  Transactions <- MCTransactions
  Databases <- MCDatabases
  Heights <- MCHeights
  Stray <- MCStray
  Spends <- MCSpends
  Storable <- MCStorable
  Data <- MCData
INVARIANTS
  TypeOK
  WaitingNamed
  OrphansLack
  StoredAsAdded
PROPERTIES
  ImplementsPool
  ImplementsMempool
