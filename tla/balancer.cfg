SPECIFICATION FairSpec
CONSTANTS
  nbCores = 3
  HASHMAP_SIZE = 3
  MAX_REBALANCE_ITERATIONS = 3
  IMBALANCE_TENTHS = 1
  WORD = 32
  Loads <- MCLoads
  StartAt <- MCStartAt
  RunOffEnd = {FALSE, TRUE}
INVARIANT TypeOK
INVARIANT ListsMatchAssignment
INVARIANT RoundBalances
INVARIANT CoreInfoFresh
INVARIANT MigrationsReplay
PROPERTY ImplementsRebalance
PROPERTY RoundEnds
CHECK_DEADLOCK FALSE
