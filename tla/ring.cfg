SPECIFICATION Spec
CONSTANTS
  RING_SIZE = 3
  WORD = 64
  Steps <- MCSteps
  MaxPolls = 5
INVARIANTS TypeOK LoadWithinCount AverageOfLastSamples RingHoldsRecentHistory PredictionIsAverage
CHECK_DEADLOCK FALSE
