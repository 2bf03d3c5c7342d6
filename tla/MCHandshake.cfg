CONSTANTS
  Hashes = {}
  Conns = {"bound", "accepted"}
  Outbound = {"bound"}
  Bound = "bound"
  Accepted = "accepted"
  Versions <- MCVersions
  Invs <- MCInvs
  KnownTx = {}
  KnownBlocks = {}
  MaxInvs <- MCMaxInvs
  Remotes <- MCRemotes
  Traffic <- MCTraffic
  MaxSent = 2
  Seen = {"whoamiack"}
SPECIFICATION HSpec
PROPERTIES ImplementsGreeting RegisterEachOther
CHECK_DEADLOCK FALSE
