SPECIFICATION FairSpec
CONSTANTS
  XID = 3
  BufferSlots = 2
  MAX_HANDLED_FLOWS = 2
  MAX_STATS_REPLY = 2
  MAX_ACTIONS = 4
  ActionsPerFlow = 2
  InitBuffered = {0}
  OutCap = 2
  MaxAsync = 2
  MaxParts = 2
  MaxFlows = 2
  MaxMods = 1
  MaxPieces = 1
  Arrivals = {"header", "full"}
  MayClose = FALSE
INVARIANT ReplyIsOwn
INVARIANT NoReplyLeftOver
INVARIANT ActionsFit
 
PROPERTY EchoAnswered
PROPERTY InterruptEnds
CHECK_DEADLOCK FALSE
