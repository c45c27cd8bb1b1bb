SPECIFICATION Spec
CONSTANTS
  XID = 2
  BufferSlots = 1
  MAX_HANDLED_FLOWS = 1
  MAX_STATS_REPLY = 2
  MAX_ACTIONS = 2
  ActionsPerFlow = 1
  InitBuffered = {0, 1}
  OutCap = 1
  MaxAsync = 1
  MaxParts = 2
  MaxFlows = 2
  MaxMods = 0
  MaxPieces = 2
  Arrivals = {"part", "header", "full"}
  MayClose = TRUE
INVARIANT TypeOK
INVARIANT NoReplyLeftOver
CHECK_DEADLOCK FALSE
