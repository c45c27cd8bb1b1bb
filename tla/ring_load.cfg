SPECIFICATION Spec
CONSTANTS
  RING_SIZE = 3
  WORD = 32
  Steps <- MCSteps
  MaxPolls = 4
INVARIANT LoadIsPacketsSincePoll
CHECK_DEADLOCK FALSE
