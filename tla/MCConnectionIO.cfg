CONSTANTS
  Hashes = {"new"}
  Conns = {"accepted"}
  Outbound = {}
  Versions <- MCVersions
  Invs <- MCInvs
  KnownTx = {}
  KnownBlocks = {}
  MaxInvs <- MCMaxInvs
  Remotes <- MCRemotes
  Traffic <- MCTraffic
  MaxSent = 3
SPECIFICATION Spec
INVARIANT
  HandshakeIntact
PROPERTY
  ImplementsConnection
CHECK_DEADLOCK FALSE
