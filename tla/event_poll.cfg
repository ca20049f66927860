SPECIFICATION PollerFairSpec
CONSTANTS
  Batch = 2
  MaxWork = 4
INVARIANTS NoLostWakeup
PROPERTIES ServedThenEnded
CHECK_DEADLOCK FALSE
