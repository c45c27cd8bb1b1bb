SPECIFICATION MainSpec
CONSTANTS
  k1 = k1
  k2 = k2
  b1 = b1
  b2 = b2
  Key = {k1, k2}
  ZeroKey = k1
  Buffer = {b1, b2}
  NULL = NULL
  HASHMAP_SIZE = 2
  RunOffEnd = {FALSE}
INVARIANT CleanupDropsUnfilled
CHECK_DEADLOCK FALSE
