SPECIFICATION FairSpec
CONSTANTS
  XID = 3
  BufferSlots = 2
  MAX_HANDLED_FLOWS = 1
  MAX_STATS_REPLY = 2
  MAX_ACTIONS = 4
  ActionsPerFlow = 2
  InitBuffered = {0}
  OutCap = 9
  MaxAsync = 0
  MaxParts = 1
  MaxFlows = 1
  MaxMods = 1
  MaxPieces = 1
  Arrivals = {"full"}
  MayClose = TRUE
PROPERTY InterruptClosesConnection
CHECK_DEADLOCK FALSE
