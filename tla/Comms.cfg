SPECIFICATION Spec
CONSTANTS
  IrShards = {a, b}
  IrNone = none
  IrSessions = 2
  IrLines = 2
  IrStreams = 3
  IrRefusals = 1
  IrMoves = 2
  TlShards = {a, b}
  TlSent = 3
  TlQueue = 1
  TlMaxDeliver = 2
  TlFaults = 2
  MbSenders = {v, w}
  MbCap = 2
  MbMails = 4
  ChRefs = {c}
  ChZones = {y, z}
  ChNone = none
  ChEdits = 2
  ChActs = 2
  ChFaults = 1
  ChHistory = 1
SYMMETRY Symmetry
INVARIANTS   ChannelsSafe
PROPERTY MailKept
CHECK_DEADLOCK FALSE
