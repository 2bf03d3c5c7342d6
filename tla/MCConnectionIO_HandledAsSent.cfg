CONSTANTS
  Hashes = {"new"}
  Conns = {"accepted"}
  Outbound = {}
  Versions <- MCVersions
  Invs <- MCInvs
  KnownTx = {}
  KnownBlocks = {}
  MaxInvs <- MCMaxInvs
  Remotes <- MCRemotes
  Traffic <- MCTraffic
  MaxSent = 3
SPECIFICATION Spec
INVARIANT
  HandledAsSent
CHECK_DEADLOCK FALSE
