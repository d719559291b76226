SPECIFICATION Spec
CONSTANTS
  PlShards = {a, b}
  PlZones = {x, y}
  PlNowhere = none
  PlMaxEpoch = 2
  PlMaxSessions = 2
  SvShards = {a, b}
  SvMaxEpoch = 2
  SvMaxAct = 1
  SvMaxVer = 1
  SvDepth = 2
  AcConns = {c1, c2}
  AcAccounts = {u, v}
  AcNames = {n, m}
  AcNone = none
  AcCap = 1
  AcLogins = 2
  AcFaults = 1
  TtAccounts = {u, v}
  TtNone = none
  TtWrites = 2
  LuNone = none
  LuBare = bare
  LuDead = dead
  LuHooks = {"onDamageTaken", "register"}
  LuBudget = 1
  LuLogs = 1
  LuSpawns = 1
  LuTimers = 1
  LuTimerCap = 1
  LuDepth = 2
  LuTrip = 10
  LuCalls = 2
  LuEdits = 1
  LuFaults = 1
SYMMETRY Symmetry
INVARIANTS   AccountsSafe LuaSafe
PROPERTIES OwnerContentStands CeilingsBind
CHECK_DEADLOCK FALSE
