SPECIFICATION Spec
CONSTANTS
  tcp = tcp
  Flow = {tcp}
  HostFlow = {}
  Icmp = {}
  Unsupported = {}
  Core = {0, 1}
  NONE = NONE
  Generated <- MCTcp
  MaxPacketIns = 2
  MaxCommands = 2
  MaxConnections = 1
  OutCap = 4
  MaxMoves = 1
  MaxRestarts = 0
INVARIANT FlowToCoreAffinity
CHECK_DEADLOCK FALSE
