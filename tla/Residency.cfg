SPECIFICATION Spec
CONSTANTS
  RsZones = {h, w}
  RsHome = h
  RsNone = none
  RsMaxStreams = 2
  RsMaxMoves = 2
  InPlayers = {p, q}
  InShared = {p, q}
  InSerials = 1
  InPerShard = 2
  InPerAccount = 1
  InBurst = 1
  InQueue = 1
  InWorkers = 2
  InIdleTicks = 1
  InMaxAsked = 2
  SpShards = {a, b}
  SpNobody = none
  SpConns = 3
  SpQueue = 2
INVARIANT ResidencySafe
PROPERTIES MarkResolves PendingClears SlotReturned OneSessionListed
CHECK_DEADLOCK FALSE
