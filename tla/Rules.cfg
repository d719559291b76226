SPECIFICATION Spec
CONSTANTS
  CmPlayers = {p}
  CmMobs = {m, n}
  CmAggressive = {n}
  CmRooms = {r, s}
  CmStart = s
  CmNone = none
  CmPool = 1
  CmHeld = {p}
  CmHandlers = 2
  CmOps = 1
  CmDeaths = 1
  AtZones = {y, z}
  AtGone = gone
  AtTimed = {f, g}
  AtBound = {g}
  AtField = mist
  AtNone = none
  AtDur = 2
  AtSteps = 3
  ItPlayers = {i, j}
  ItRoom = room
  ItNone = none
  ItIds = 3
  ItSlots = 1
  ItStack = 2
  ItCapacity = 1
  ItCeiling = 1
  ItInputs <- ItRecipe
  ItMade = 4
INVARIANTS CombatSafe AffectsSafe 
CHECK_DEADLOCK FALSE
