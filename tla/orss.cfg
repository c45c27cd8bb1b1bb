SPECIFICATION FairSpec
CONSTANTS
  tcp = tcp
  Flow = {tcp}
  HostFlow = {}
  Icmp = {}
  Unsupported = {}
  Core = {0, 1}
  NONE = NONE
  Generated <- MCNoFlow
  MaxPacketIns = 2
  MaxCommands = 1
  MaxConnections = 2
  OutCap = 2
  MaxMoves = 2
  MaxRestarts = 1
INVARIANT TypeOK
INVARIANT AgreementUnlessDisturbed
INVARIANT BalancerSeesSwitch
PROPERTY EgressStays
PROPERTY FlowsAreTracked
