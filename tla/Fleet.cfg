SPECIFICATION Spec
CONSTANTS
  DrDirs = {d1, d2}
  DrNone = none
  DrSignals = 2
  DrMaxDeliver = 2
  DrMaxVer = 2
  DrMaxInbox = 1
  DrFaults = 2
  PnShards = 3
  PnZones = 3
  PnMaxWeight = 3
  PnRegions = {1}
  DtDrainers = {d, e}
  DtTargets = {t, u}
  DtNone = none
  DtIncoming = 2
  DtCeiling = 3
  DpPlayers = {p, q}
  DpMaxMoves = 1
  InPlayers = {p, q}
  InShared = {p, q}
  InSerials = 2
  InPerShard = 2
  InPerAccount = 1
  InBurst = 1
  InQueue = 1
  InWorkers = 2
  InIdleTicks = 1
  InMaxAsked = 2
SYMMETRY Symmetry
INVARIANTS   DrainSafe InstancesSafe
PROPERTY PlanConverges
CHECK_DEADLOCK FALSE
