CONSTANTS
  Conns = {"bound", "accepted"}
  Outbound = {"bound"}
  Remotes <- MCRemotes
  Hashes = {"known", "new"}
  Versions <- MCVersions
  KnownTx = {"known"}
  KnownBlocks = {}
  Invs <- MCInvs
  MaxInvs <- MCMaxInvs
SPECIFICATION Spec
INVARIANTS
  TypeOK
  HandshakeFirst
  RegistryShape
  ReadsGrow
  RepliesKept
PROPERTIES
  AckIsFinal
  ResetStopsNode
CHECK_DEADLOCK FALSE
