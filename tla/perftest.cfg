SPECIFICATION FairSpec
CONSTANTS
  Iters = 5
  Bytes = 4
  Tests <- AllTests
INVARIANTS MeasuredHappened WindowKept
PROPERTIES RunsEnd
CHECK_DEADLOCK FALSE
