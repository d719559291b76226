SPECIFICATION Spec
CONSTANTS
  CrRooms = {r}
  CrMaxVer = 2
  CrFaults = 1
  CsPacks = {1, 2}
  CsShared = r
  CsNone = none
  CsMaxVer = 2
  CsFaults = 1
  ScMaxVer = 2
  ScMaxInbox = 3
  ScLives = 2
INVARIANTS ReloadSafe StoreSafe ReplicaSafe
CHECK_DEADLOCK FALSE
