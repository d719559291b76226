SPECIFICATION IrSpec
CONSTANTS
  IrShards = {a, b}
  IrNone = none
  IrSessions = 2
  IrLines = 1
  IrStreams = 4
  IrRefusals = 0
  IrMoves = 2
INVARIANT RunsOnce
CHECK_DEADLOCK FALSE
