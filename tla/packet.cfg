SPECIFICATION FairSpec
CONSTANTS
  Depth = 2
  MaxIn = 3
  MaxOut = 2
  MaxReads = 3
  MaxBatch = 2
  Modes = {"busy", "event"}
  Uses = {"concurrent", "paced"}
INVARIANTS BuffersOwned InOrder
PROPERTIES CallsEndOnClose PacedUseLosesNothing
CHECK_DEADLOCK FALSE
