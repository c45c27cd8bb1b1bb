SPECIFICATION MainSpec
CONSTANTS
  k1 = k1
  k2 = k2
  k3 = k3
  b1 = b1
  b2 = b2
  b3 = b3
  Key = {k1, k2, k3}
  ZeroKey = k1
  Buffer = {b1, b2, b3}
  NULL = NULL
  HASHMAP_SIZE = 2
  RunOffEnd = {FALSE}
INVARIANT MainTypeOK
INVARIANT NoHoles
INVARIANT RepliedFlowsFilled
INVARIANT NoLeak
PROPERTY RecordKept
CHECK_DEADLOCK FALSE
