SPECIFICATION FairSpec
CONSTANTS
  k1 = k1
  k2 = k2
  k3 = k3
  b1 = b1
  b2 = b2
  b3 = b3
  Key = {k1, k2, k3}
  ZeroKey = k1
  Buffer = {b1, b2, b3}
  NULL = NULL
  HASHMAP_SIZE = 2
  RunOffEnd = {FALSE, TRUE}
INVARIANT TypeOK
INVARIANT SizeCountsValid
INVARIANT UniqueKeys
INVARIANT BuffersOwned
PROPERTY ImplementsFlowMap
PROPERTY LoopVisitsAllKeys
PROPERTY LoopProgresses
CHECK_DEADLOCK FALSE
